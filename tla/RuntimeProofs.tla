----------------------------- MODULE RuntimeProofs -----------------------------
(***************************************************************************)
(* What holds of the runtime for any program, any number of cores and       *)
(* queues of any size: the queues keep to their room, a core that was       *)
(* stopped fires nothing, and codelets run in the order of the graph.       *)
(***************************************************************************)
EXTENDS Runtime, FiniteSetTheorems, TLAPS

\* What each core needs to make its next step: a codelet that is being pushed is
\* one of the program's, and it came from the call that is still to be finished.
TypeInv == /\ TypeOK
           /\ queue \in [Cores -> Seq(Codelets)]
           /\ todo \in [Cores -> Seq(CallSet)]
           /\ DOMAIN pushing = Cores
           /\ \A c \in Cores : pc[c] = "push" => pushing[c] \in Codelets \X Int
           /\ \A c \in Cores : pc[c] = "read" => Calling(c, "decDep")
           /\ \A c \in Cores : pc[c] = "push" => todo[c] # <<>>

LEMMA DecDepOperand ==
    ASSUME TypeInv, NEW c \in Cores, Calling(c, "decDep")
    PROVE  Operand(c) \in Slots
<1>1. Head(todo[c]) \in CallSet
  BY DEF TypeInv, Calling
<1> QED
  BY <1>1 DEF CallSet, Calling, Operand

LEMMA AddCodeletOperand ==
    ASSUME TypeInv, NEW c \in Cores, Calling(c, "addCodelet")
    PROVE  Operand(c) \in Codelets
<1>1. Head(todo[c]) \in CallSet
  BY DEF TypeInv, Calling
<1> QED
  BY <1>1 DEF CallSet, Calling, Operand

LEMMA TypeInvInit == Init => TypeInv
BY ProgramAssumption, RoomAssumption
   DEF Init, TypeInv, TypeOK, Locations

LEMMA TypeInvNext == TypeInv /\ [Next]_vars => TypeInv'
<1> SUFFICES ASSUME TypeInv, [Next]_vars
             PROVE  TypeInv'
  OBVIOUS
<1> USE DEF TypeInv, TypeOK, Locations, Goto, tpQueue, slots
<1>1. ASSUME NEW c \in Cores, Reset(c)
      PROVE  TypeInv'
  BY <1>1 DEF Reset, Calling
<1>2. ASSUME NEW c \in Cores, Run(c)
      PROVE  TypeInv'
  BY <1>2 DEF Run, Calling
<1>3. ASSUME NEW c \in Cores, Test(c)
      PROVE  TypeInv'
  BY <1>3 DEF Test, Calling
<1>4. ASSUME NEW c \in Cores, PopEmpty(c)
      PROVE  TypeInv'
  BY <1>4 DEF PopEmpty, Calling
<1>5. ASSUME NEW c \in Cores, Fire(c)
      PROVE  TypeInv'
  <2>1. Head(queue[c]) \in Codelets /\ Tail(queue[c]) \in Seq(Codelets) /\ Len(Tail(queue[c])) <= Room
    BY <1>5, RoomAssumption DEF Fire
  <2>2. Calls[Head(queue[c])] \in Seq(CallSet)
    BY <2>1, ProgramAssumption
  <2>3. /\ queue' \in [Cores -> Seq(Codelets)]
        /\ \A d \in Cores : Len(queue'[d]) <= Room
        /\ todo' \in [Cores -> Seq(CallSet)]
    BY <1>5, <2>1, <2>2 DEF Fire
  <2>4. \A d \in Cores : pc'[d] \in {"push", "read"} =>
           pc[d] = pc'[d] /\ todo'[d] = todo[d]
    BY <1>5 DEF Fire
  <2>5. /\ pc' \in [Cores -> Locations]
        /\ fired' \in [Codelets -> Nat]
    BY <1>5, <2>1 DEF Fire
  <2>6. UNCHANGED <<alive, closures, owner, currentDep, pushing>>
    BY <1>5 DEF Fire
  <2>7. TypeOK'
    BY <2>3, <2>5, <2>6
  <2>8. \A d \in Cores : pc'[d] = "push" => pushing'[d] \in Codelets \X Int /\ todo'[d] # <<>>
    BY <2>4, <2>6
  <2>9. \A d \in Cores : pc'[d] = "read" => todo'[d] # <<>> /\ Head(todo'[d])[1] = "decDep"
    BY <2>4 DEF Calling
  <2>10. DOMAIN pushing' = Cores
    BY <2>6
  <2> QED
    BY <2>3, <2>7, <2>8, <2>9, <2>10 DEF Calling
<1>6. ASSUME NEW c \in Cores, EndOfCodelet(c)
      PROVE  TypeInv'
  BY <1>6 DEF EndOfCodelet, Calling
<1>7. ASSUME NEW c \in Cores, Terminate(c)
      PROVE  TypeInv'
  <2>1. Tail(todo[c]) \in Seq(CallSet)
    BY <1>7 DEF Terminate, Calling
  <2> QED
    BY <1>7, <2>1 DEF Terminate, Called, Calling
<1>8. ASSUME NEW c \in Cores, DecDep(c)
      PROVE  TypeInv'
  <2>1. Operand(c) \in Slots
    BY <1>8, DecDepOperand DEF DecDep
  <2>2. currentDep' \in [Slots -> 0..MaxWord]
    BY <1>8, <2>1, RoomAssumption DEF DecDep
  <2> QED
    BY <1>8, <2>2 DEF DecDep, Calling
<1>9. ASSUME NEW c \in Cores, ReadReady(c)
      PROVE  TypeInv'
  <2>1. Operand(c) \in Slots
    BY <1>9, DecDepOperand DEF ReadReady
  <2>2. <<Template[Operand(c)], NumCodelets[Operand(c)]>> \in Codelets \X Int
    BY <2>1, ProgramAssumption
  <2> QED
    BY <1>9, <2>2 DEF ReadReady, Calling
<1>10. ASSUME NEW c \in Cores, ReadNotReady(c)
       PROVE  TypeInv'
  <2>1. Tail(todo[c]) \in Seq(CallSet)
    BY <1>10 DEF ReadNotReady, Calling
  <2> QED
    BY <1>10, <2>1 DEF ReadNotReady, Called, Calling
<1>11. ASSUME NEW c \in Cores, AddCodelet(c)
       PROVE  TypeInv'
  <2>1. Operand(c) \in Codelets
    BY <1>11, AddCodeletOperand DEF AddCodelet
  <2>2. <<Operand(c), 1>> \in Codelets \X Int
    BY <2>1
  <2> QED
    BY <1>11, <2>2 DEF AddCodelet, Calling
<1>12. ASSUME NEW c \in Cores, Push(c)
       PROVE  TypeInv'
  <2>1. pushing[c] \in Codelets \X Int
    BY <1>12 DEF Push
  <2>2. Append(queue[c], pushing[c][1]) \in Seq(Codelets)
    BY <2>1
  <2>3. Len(Append(queue[c], pushing[c][1])) <= Room
    BY <1>12, RoomAssumption DEF Push, HasRoom
  <2>4. pushing'[c] \in Codelets \X Int
    BY <1>12, <2>1 DEF Push
  <2> QED
    BY <1>12, <2>2, <2>3, <2>4 DEF Push, Calling
<1>13. ASSUME NEW c \in Cores, EndOfPushes(c)
       PROVE  TypeInv'
  <2>1. Tail(todo[c]) \in Seq(CallSet)
    BY <1>13 DEF EndOfPushes
  <2> QED
    BY <1>13, <2>1 DEF EndOfPushes, Called, Calling
<1>14. ASSUME NEW c \in Cores, InvokeTP(c)
       PROVE  TypeInv'
  <2>1. Tail(todo[c]) \in Seq(CallSet)
    BY <1>14 DEF InvokeTP, Calling
  <2>2. closures' \in 0..ClosureRoom
    BY <1>14, RoomAssumption DEF InvokeTP
  <2> QED
    BY <1>14, <2>1, <2>2 DEF InvokeTP, Called, Calling
<1>15. CASE SUStep
  BY <1>15 DEF SUStep, Own, Peak, Disown, Calling, Cores
<1>16. CASE UNCHANGED vars
  BY <1>16 DEF vars, Calling
<1> QED
  BY <1>1, <1>2, <1>3, <1>4, <1>5, <1>6, <1>7, <1>8, <1>9, <1>10, <1>11, <1>12,
     <1>13, <1>14, <1>15, <1>16 DEF Next, Step

\* No queue ever holds more than it has room for, whatever the program does.
THEOREM TypeCorrect == Spec => []TypeOK
<1>1. TypeInv => TypeOK
  BY DEF TypeInv
<1> QED
  BY <1>1, TypeInvInit, TypeInvNext, PTL DEF Spec

-----------------------------------------------------------------------------

\* A core that has passed the test of its loop is alive: only its own codelets
\* could clear its flag, and it has not fired one since.
TestedInv == \A c \in Cores : pc[c] \in {"own", "peak", "disown", "pop"} => alive[c] = 1

LEMMA TestedInvNext == TypeInv /\ TestedInv /\ [Next]_vars => TestedInv'
<1> SUFFICES ASSUME TypeInv, TestedInv, [Next]_vars
             PROVE  TestedInv'
  OBVIOUS
<1> USE DEF TypeInv, TypeOK, TestedInv, Goto, tpQueue, slots
<1>1. ASSUME NEW c \in Cores,
             Reset(c) \/ Run(c) \/ Test(c) \/ PopEmpty(c) \/ Fire(c) \/ EndOfCodelet(c)
      PROVE  TestedInv'
  BY <1>1 DEF Reset, Run, Test, PopEmpty, Fire, EndOfCodelet
<1>2. ASSUME NEW c \in Cores, Terminate(c) \/ DecDep(c) \/ ReadReady(c) \/ ReadNotReady(c)
      PROVE  TestedInv'
  BY <1>2 DEF Terminate, DecDep, ReadReady, ReadNotReady
<1>3. ASSUME NEW c \in Cores, AddCodelet(c) \/ Push(c) \/ EndOfPushes(c) \/ InvokeTP(c)
      PROVE  TestedInv'
  BY <1>3 DEF AddCodelet, Push, EndOfPushes, InvokeTP
<1>4. CASE SUStep
  BY <1>4 DEF SUStep, Own, Peak, Disown, Cores
<1>5. CASE UNCHANGED vars
  BY <1>5 DEF vars
<1> QED
  BY <1>1, <1>2, <1>3, <1>4, <1>5 DEF Next, Step

\* A core that has fired the final codelet fires nothing more until it is reset.
THEOREM NothingAfterTheFinalCodelet == Spec => NoneFiredAfterTheEnd
<1>1. Init => TestedInv
  BY DEF Init, TestedInv
<1>2. TestedInv => \A c \in Cores : alive[c] = 0 => ~Fire(c)
  BY DEF TestedInv, Fire, Goto
<1> QED
  BY <1>1, <1>2, TypeInvInit, TypeInvNext, TestedInvNext, PTL DEF Spec, NoneFiredAfterTheEnd
-----------------------------------------------------------------------------
\* The decrements of a slot that the fired codelets have still to make, each by
\* its core and its place from the end of the core's calls.  The call at the head
\* is made when the core is past it.

Pending(c, m, s) == /\ m \in 1..Len(todo[c])
                    /\ todo[c][Len(todo[c]) + 1 - m] = <<"decDep", s>>
                    /\ ~(pc[c] \in {"read", "push"} /\ m = Len(todo[c]))
Outstanding(s) == {x \in Cores \X Nat : Pending(x[1], x[2], s)}

\* A core that is in no codelet has no calls to make; and a slot's count, which may
\* have gone below 0, is not less than what is left of its dependencies.
IdleInv == \A c \in Cores : pc[c] \notin {"call", "read", "push"} => todo[c] = <<>>
CountOf(s) ==
    /\ IsFiniteSet(Satisfying(s)) /\ IsFiniteSet(Outstanding(s))
    /\ currentDep[s] + Cardinality(Satisfying(s)) >= InitDep[s] + Cardinality(Outstanding(s))
CountInv == IdleInv /\ \A s \in Slots : CountOf(s)

\* With what slot s is satisfied when the codelets were fired as often as f says.
SatisfiedBy(f, s) ==
    UNION {{k} \X (1..f[k]) \X {i \in DOMAIN Calls[k] : Calls[k][i] = <<"decDep", s>>} :
             k \in Codelets}

IsDecDep(f, s, x) ==
    \E k \in Codelets : \E n \in 1..f[k], i \in DOMAIN Calls[k] :
      Calls[k][i] = <<"decDep", s>> /\ x = <<k, n, i>>

LEMMA SatisfyingAre ==
  ASSUME NEW f, NEW s, NEW x
  PROVE  x \in SatisfiedBy(f, s) <=> IsDecDep(f, s, x)
<1> DEFINE I(k) == {i \in DOMAIN Calls[k] : Calls[k][i] = <<"decDep", s>>}
<1>1. SatisfiedBy(f, s) = UNION {{k} \X (1..f[k]) \X I(k) : k \in Codelets}
  BY DEF SatisfiedBy
<1>2. ASSUME x \in SatisfiedBy(f, s)
      PROVE  \E k \in Codelets : \E n \in 1..f[k], i \in I(k) : x = <<k, n, i>>
  <2>1. PICK k \in Codelets : x \in {k} \X (1..f[k]) \X I(k)
    BY <1>1, <1>2
  <2> HIDE DEF I
  <2>2. PICK a \in {k}, n \in 1..f[k], i \in I(k) : x = <<a, n, i>>
    BY <2>1
  <2> QED
    BY <2>2
<1>3. ASSUME NEW k \in Codelets, NEW n \in 1..f[k], NEW i \in I(k), x = <<k, n, i>>
      PROVE  x \in SatisfiedBy(f, s)
  <2> HIDE DEF I
  <2>1. x \in {k} \X (1..f[k]) \X I(k)
    BY <1>3
  <2> QED
    BY <1>1, <2>1
<1> QED
  BY <1>2, <1>3 DEF IsDecDep

\* Sets of the same size, by numbering both with the elements of a finite set.
LEMMA Numbered ==
  ASSUME NEW N, IsFiniteSet(N), NEW f, DOMAIN f = N,
         \A i, j \in N : f[i] = f[j] => i = j
  PROVE  /\ IsFiniteSet({f[i] : i \in N})
         /\ Cardinality({f[i] : i \in N}) = Cardinality(N)
<1> DEFINE T == {f[i] : i \in N}
           g == [i \in N |-> f[i]]
<1>1. g \in [N -> T]
  OBVIOUS
<1>2. g \in Bijection(N, T)
  <2>1. \A y \in T : \E i \in N : g[i] = y
    OBVIOUS
  <2>2. \A i, j \in N : g[i] = g[j] => i = j
    OBVIOUS
  <2> HIDE DEF g, T
  <2> QED
    BY <1>1, <2>1, <2>2 DEF Bijection, Injection, Surjection, IsInjective
<1>3. ExistsBijection(N, T)
  BY <1>2 DEF ExistsBijection
<1> HIDE DEF g, T
<1>4. IsFiniteSet(T) /\ Cardinality(T) = Cardinality(N)
  BY <1>3, FS_Bijection
<1> QED
  BY <1>4 DEF T

LEMMA JoinedCount ==
  ASSUME NEW A, NEW B, IsFiniteSet(A), IsFiniteSet(B), A \cap B = {}
  PROVE  /\ IsFiniteSet(A \cup B)
         /\ Cardinality(A \cup B) = Cardinality(A) + Cardinality(B)
         /\ Cardinality(A) \in Nat /\ Cardinality(B) \in Nat
<1>1. Cardinality(A \cap B) = 0
  BY FS_EmptySet
<1>2. /\ IsFiniteSet(A \cup B)
      /\ Cardinality(A \cup B) = Cardinality(A) + Cardinality(B) - Cardinality(A \cap B)
  BY FS_Union
<1>3. Cardinality(A) \in Nat /\ Cardinality(B) \in Nat
  BY FS_CardinalityType
<1> QED
  BY <1>1, <1>2, <1>3

\* Firing a codelet adds its decrements on both sides.
LEMMA FireCount ==
  ASSUME TypeInv, IdleInv, NEW c \in Cores, Fire(c), NEW s \in Slots, CountOf(s)
  PROVE  /\ CountOf(s)'
         /\ Satisfying(s) \subseteq Satisfying(s)'
<1>a. Satisfying(s) = SatisfiedBy(fired, s) /\ Satisfying(s)' = SatisfiedBy(fired', s)
  BY DEF Satisfying, SatisfiedBy
<1>b. \A f, x : x \in SatisfiedBy(f, s) <=> IsDecDep(f, s, x)
  BY SatisfyingAre
<1> DEFINE k == Head(queue[c])
           n == fired[k] + 1
           N == {i \in DOMAIN Calls[k] : Calls[k][i] = <<"decDep", s>>}
           new == [i \in N |-> <<k, n, i>>]
           out == [i \in N |-> <<c, Len(Calls[k]) + 1 - i>>]
           New == {new[i] : i \in N}
           Out == {out[i] : i \in N}
<1>1. /\ k \in Codelets /\ fired \in [Codelets -> Nat]
      /\ fired' = [fired EXCEPT ![k] = @ + 1]
      /\ todo' = [todo EXCEPT ![c] = Calls[k]]
      /\ pc[c] = "pop" /\ pc' = [pc EXCEPT ![c] = "call"]
      /\ pc \in [Cores -> Locations] /\ todo \in [Cores -> Seq(CallSet)]
      /\ currentDep' = currentDep
  BY DEF Fire, Goto, TypeInv, TypeOK, slots
<1>3. todo[c] = <<>>
  BY <1>1 DEF IdleInv
<1> HIDE DEF k
<1>2. /\ Calls[k] \in Seq(CallSet)
      /\ DOMAIN Calls[k] = 1..Len(Calls[k])
      /\ Len(Calls[k]) \in Nat
  <2>1. Calls[k] \in Seq(CallSet)
    BY <1>1, ProgramAssumption
  <2> QED
    BY <2>1
<1>4. /\ fired[k] \in Nat /\ fired'[k] = n
      /\ \A q \in Codelets : fired[q] \in Nat
      /\ \A q \in Codelets : fired'[q] = IF q = k THEN n ELSE fired[q]
  BY <1>1
<1>5. IsFiniteSet(N)
  <2>1. IsFiniteSet(1..Len(Calls[k]))
    BY <1>2, FS_Interval
  <2>2. N \in SUBSET (1..Len(Calls[k]))
    BY <1>2
  <2> HIDE DEF N
  <2> QED
    BY <2>1, <2>2, FS_Subset
<1>6. IsFiniteSet(New) /\ Cardinality(New) = Cardinality(N)
  <2>1. DOMAIN new = N /\ \A i, j \in N : new[i] = new[j] => i = j
    OBVIOUS
  <2> HIDE DEF N, new
  <2> QED
    BY <1>5, <2>1, Numbered
<1>7. IsFiniteSet(Out) /\ Cardinality(Out) = Cardinality(N)
  <2>1. \A i \in N : i \in 1..Len(Calls[k])
    BY <1>2
  <2> HIDE DEF N
  <2>2. DOMAIN out = N
    OBVIOUS
  <2>3. ASSUME NEW i \in N, NEW j \in N, out[i] = out[j] PROVE i = j
    <3>1. Len(Calls[k]) + 1 - i = Len(Calls[k]) + 1 - j
      BY <2>3
    <3> QED
      BY <1>2, <2>1, <3>1
  <2> HIDE DEF out
  <2> QED
    BY <1>5, <2>2, <2>3, Numbered
<1>8. Satisfying(s)' = Satisfying(s) \cup New
  <2> SUFFICES ASSUME NEW x PROVE x \in Satisfying(s)' <=> x \in Satisfying(s) \/ x \in New
    OBVIOUS
  <2>1. /\ x \in Satisfying(s)' <=> IsDecDep(fired', s, x)
        /\ x \in Satisfying(s) <=> IsDecDep(fired, s, x)
    BY <1>a, <1>b
  <2>2. x \in New <=> \E i \in DOMAIN Calls[k] :
                        Calls[k][i] = <<"decDep", s>> /\ x = <<k, n, i>>
    OBVIOUS
  <2>3. \A q \in Codelets : \A m : m \in 1..fired'[q] <=> m \in 1..fired[q] \/ (q = k /\ m = n)
    BY <1>4
  <2> HIDE DEF New, N, n
  <2>5. ASSUME x \in Satisfying(s)' PROVE x \in Satisfying(s) \/ x \in New
    <3>1. PICK q \in Codelets : \E m \in 1..fired'[q], i \in DOMAIN Calls[q] :
            Calls[q][i] = <<"decDep", s>> /\ x = <<q, m, i>>
      BY <2>1, <2>5 DEF IsDecDep
    <3>2. PICK m \in 1..fired'[q], i \in DOMAIN Calls[q] :
            Calls[q][i] = <<"decDep", s>> /\ x = <<q, m, i>>
      BY <3>1
    <3>3. CASE m \in 1..fired[q]
      BY <2>1, <3>2, <3>3 DEF IsDecDep
    <3>4. CASE q = k /\ m = n
      BY <2>2, <3>2, <3>4
    <3> QED
      BY <2>3, <3>3, <3>4
  <2>6. ASSUME x \in Satisfying(s) PROVE x \in Satisfying(s)'
    BY <2>1, <2>3, <2>6 DEF IsDecDep
  <2>7. ASSUME x \in New PROVE x \in Satisfying(s)'
    <3>1. n \in 1..fired'[k]
      <4>1. n \in Nat \ {0}
        BY <1>4 DEF n
      <4> QED
        BY <1>4, <4>1
    <3> QED
      BY <1>1, <2>1, <2>2, <2>7, <3>1 DEF IsDecDep
  <2> QED
    BY <2>5, <2>6, <2>7
<1>9. Satisfying(s) \cap New = {}
  <2> SUFFICES ASSUME NEW i \in N, <<k, n, i>> \in Satisfying(s) PROVE FALSE
    OBVIOUS
  <2>1. PICK q \in Codelets : \E m \in 1..fired[q], j \in DOMAIN Calls[q] :
          Calls[q][j] = <<"decDep", s>> /\ <<k, n, i>> = <<q, m, j>>
    BY <1>a, <1>b DEF IsDecDep
  <2>2. q = k /\ n \in 1..fired[k]
    BY <2>1
  <2> QED
    BY <1>4, <2>2
<1>10. Outstanding(s)' = Outstanding(s) \cup Out
  <2>1. \A d \in Cores : /\ todo'[d] = IF d = c THEN Calls[k] ELSE todo[d]
                         /\ pc'[d] = IF d = c THEN "call" ELSE pc[d]
    BY <1>1
  <2>2. \A m : ~Pending(c, m, s)
    BY <1>3 DEF Pending
  <2>3. \A d \in Cores : d # c => \A m : Pending(d, m, s)' <=> Pending(d, m, s)
    BY <2>1 DEF Pending
  <2>4. \A m \in Nat : Pending(c, m, s)' <=> <<c, m>> \in Out
    <3>1. \A m \in Nat : Pending(c, m, s)' <=>
             m \in 1..Len(Calls[k]) /\ Calls[k][Len(Calls[k]) + 1 - m] = <<"decDep", s>>
      BY <2>1 DEF Pending
    <3>2. \A m \in Nat : <<c, m>> \in Out <=> \E i \in N : m = Len(Calls[k]) + 1 - i
      OBVIOUS
    <3>3. \A i : i \in N <=> i \in 1..Len(Calls[k]) /\ Calls[k][i] = <<"decDep", s>>
      BY <1>2
    <3> HIDE DEF N, Out
    <3>4. ASSUME NEW m \in Nat, Pending(c, m, s)' PROVE <<c, m>> \in Out
      <4>1. Len(Calls[k]) + 1 - m \in N
        <5>1. m \in 1..Len(Calls[k]) /\ Calls[k][Len(Calls[k]) + 1 - m] = <<"decDep", s>>
          BY <3>1, <3>4
        <5>2. Len(Calls[k]) + 1 - m \in 1..Len(Calls[k])
          BY <1>2, <5>1
        <5> QED
          BY <3>3, <5>1, <5>2
      <4>2. m = Len(Calls[k]) + 1 - (Len(Calls[k]) + 1 - m)
        BY <1>2
      <4> QED
        BY <3>2, <4>1, <4>2
    <3>5. ASSUME NEW m \in Nat, <<c, m>> \in Out PROVE Pending(c, m, s)'
      <4>1. PICK i \in N : m = Len(Calls[k]) + 1 - i
        BY <3>2, <3>5
      <4>2. i \in 1..Len(Calls[k]) /\ Calls[k][i] = <<"decDep", s>>
        BY <3>3
      <4>3. m \in 1..Len(Calls[k]) /\ Len(Calls[k]) + 1 - m = i
        BY <1>2, <4>1, <4>2
      <4> QED
        BY <3>1, <4>2, <4>3
    <3> QED
      BY <3>4, <3>5
  <2>5. Out \subseteq {c} \X Nat
    <3>1. \A i \in N : i \in 1..Len(Calls[k])
      BY <1>2
    <3>2. \A i \in N : out[i] = <<c, Len(Calls[k]) + 1 - i>>
      OBVIOUS
    <3> SUFFICES ASSUME NEW i \in N PROVE out[i] \in {c} \X Nat
      OBVIOUS
    <3> HIDE DEF N, out
    <3>3. Len(Calls[k]) + 1 - i \in Nat
      BY <1>2, <3>1
    <3>4. out[i] = <<c, Len(Calls[k]) + 1 - i>>
      BY <3>2
    <3> QED
      BY <3>3, <3>4
  <2>6. Outstanding(s)' = {x \in Cores \X Nat : Pending(x[1], x[2], s)'}
    BY DEF Outstanding
  <2> HIDE DEF Out
  <2>7. ASSUME NEW d \in Cores, NEW m \in Nat
        PROVE  <<d, m>> \in Outstanding(s)' <=> <<d, m>> \in Outstanding(s) \/ <<d, m>> \in Out
    <3>1. /\ <<d, m>> \in Outstanding(s)' <=> Pending(d, m, s)'
          /\ <<d, m>> \in Outstanding(s) <=> Pending(d, m, s)
      BY <2>6 DEF Outstanding
    <3>2. CASE d = c
      BY <2>2, <2>4, <3>1, <3>2
    <3>3. CASE d # c
      BY <2>3, <2>5, <3>1, <3>3
    <3> QED
      BY <3>2, <3>3
  <2>8. /\ Outstanding(s)' \subseteq Cores \X Nat
        /\ Outstanding(s) \subseteq Cores \X Nat
        /\ Out \subseteq Cores \X Nat
    BY <2>5, <2>6 DEF Outstanding
  <2>9. \A x \in Cores \X Nat : x \in Outstanding(s)' <=> x \in Outstanding(s) \cup Out
    BY <2>7
  <2> QED
    BY <2>8, <2>9
<1>11. Outstanding(s) \cap Out = {}
  <2>1. \A m : ~Pending(c, m, s)
    BY <1>3 DEF Pending
  <2>2. \A i \in N : out[i] = <<c, Len(Calls[k]) + 1 - i>>
    OBVIOUS
  <2> HIDE DEF N, out
  <2>3. \A i \in N : out[i] \notin Outstanding(s)
    BY <2>1, <2>2 DEF Outstanding
  <2> QED
    BY <2>3
<1> HIDE DEF N, New, Out, n
<1>12. IsFiniteSet(Satisfying(s)) /\ IsFiniteSet(Outstanding(s))
  BY DEF CountOf
<1> HIDE DEF new, out
<1>13. /\ IsFiniteSet(Satisfying(s) \cup New)
       /\ Cardinality(Satisfying(s) \cup New) = Cardinality(Satisfying(s)) + Cardinality(New)
       /\ Cardinality(Satisfying(s)) \in Nat /\ Cardinality(New) \in Nat
  BY <1>6, <1>9, <1>12, JoinedCount
<1>15. /\ IsFiniteSet(Outstanding(s) \cup Out)
       /\ Cardinality(Outstanding(s) \cup Out) = Cardinality(Outstanding(s)) + Cardinality(Out)
       /\ Cardinality(Outstanding(s)) \in Nat
  BY <1>7, <1>11, <1>12, JoinedCount
<1>16. /\ IsFiniteSet(Satisfying(s)') /\ IsFiniteSet(Outstanding(s)')
       /\ Cardinality(Satisfying(s)') = Cardinality(Satisfying(s)) + Cardinality(N)
       /\ Cardinality(Outstanding(s)') = Cardinality(Outstanding(s)) + Cardinality(N)
       /\ Cardinality(N) \in Nat
  BY <1>6, <1>7, <1>8, <1>10, <1>13, <1>15
<1>14. currentDep[s] \in Nat /\ InitDep[s] \in Nat
  BY ProgramAssumption, RoomAssumption DEF TypeInv, TypeOK
<1>17. currentDep[s] + Cardinality(Satisfying(s)) >= InitDep[s] + Cardinality(Outstanding(s))
  BY DEF CountOf
<1>18. currentDep'[s] = currentDep[s]
  BY <1>1
<1>19. currentDep'[s] + Cardinality(Satisfying(s)') >= InitDep[s] + Cardinality(Outstanding(s)')
  BY <1>13, <1>14, <1>15, <1>16, <1>17, <1>18
<1>20. CountOf(s)'
  BY <1>16, <1>19 DEF CountOf
<1> QED
  BY <1>8, <1>20

\* A step that fires nothing and decrements nothing, and makes no decrement that
\* was to be made forgotten, changes nothing of a slot's count.
LEMMA OtherCount ==
  ASSUME NEW s \in Slots, CountOf(s), fired' = fired, currentDep'[s] = currentDep[s],
         \A c \in Cores : \A m \in Nat : Pending(c, m, s)' <=> Pending(c, m, s)
  PROVE  CountOf(s)'
<1>1. Satisfying(s)' = Satisfying(s)
  BY DEF Satisfying
<1>2. Outstanding(s)' = Outstanding(s)
  <2> DEFINE Before == Outstanding(s)
             After == Outstanding(s)'
  <2>1. /\ \A x : x \in Before <=> x \in Cores \X Nat /\ Pending(x[1], x[2], s)
        /\ \A x : x \in After <=> x \in Cores \X Nat /\ Pending(x[1], x[2], s)'
    BY DEF Outstanding
  <2>2. \A x \in Cores \X Nat : x[1] \in Cores /\ x[2] \in Nat
    OBVIOUS
  <2> HIDE DEF Before, After
  <2>3. \A x : x \in Before <=> x \in After
    BY <2>1, <2>2
  <2>4. Before = After
    BY <2>3
  <2> QED
    BY <2>4 DEF Before, After
<1> QED
  BY <1>1, <1>2 DEF CountOf

LEMMA DecDepHead ==
  ASSUME TypeInv, NEW c \in Cores, Calling(c, "decDep")
  PROVE  Head(todo[c]) = <<"decDep", Operand(c)>>
<1>1. Head(todo[c]) \in CallSet
  BY DEF TypeInv, Calling
<1> DEFINE h == Head(todo[c])
<1>2. h[1] = "decDep"
  BY DEF Calling
<1>3. h \in {"decDep"} \X Slots
  <2> HIDE DEF h
  <2>1. h \in CallSet
    BY <1>1 DEF h
  <2> QED
    BY <1>2, <2>1 DEF CallSet
<1>4. h = <<h[1], h[2]>>
  <2> HIDE DEF h
  <2> QED
    BY <1>3
<1> QED
  BY <1>2, <1>4 DEF Operand

\* Calls that are made one after the other keep their place from the end.
LEMMA TailPending ==
  ASSUME TypeInv, NEW c \in Cores, todo[c] # <<>>, NEW s,
         pc' = [pc EXCEPT ![c] = "call"], Called(c),
         pc[c] \in {"read", "push"} \/ (pc[c] = "call" /\ ~Calling(c, "decDep"))
  PROVE  \A d \in Cores : \A m \in Nat : Pending(d, m, s)' <=> Pending(d, m, s)
<1> DEFINE q == todo[c]
           r == Tail(todo[c])
<1>1. /\ q \in Seq(CallSet) /\ Len(q) \in Nat \ {0}
      /\ todo \in [Cores -> Seq(CallSet)] /\ pc \in [Cores -> Locations]
      /\ Len(r) = Len(q) - 1
      /\ \A i \in 1..Len(r) : r[i] = q[i + 1]
  BY DEF TypeInv, TypeOK
<1>2. \A d \in Cores : /\ todo'[d] = IF d = c THEN r ELSE todo[d]
                       /\ pc'[d] = IF d = c THEN "call" ELSE pc[d]
  BY <1>1 DEF Called
<1>3. pc[c] = "call" => q[1] # <<"decDep", s>>
  BY <1>1 DEF Calling
<1> SUFFICES ASSUME NEW d \in Cores, NEW m \in Nat
             PROVE  Pending(d, m, s)' <=> Pending(d, m, s)
  OBVIOUS
<1>4. CASE d # c
  BY <1>2, <1>4 DEF Pending
<1>5. CASE d = c
  <2>1. /\ Pending(c, m, s)' <=> m \in 1..Len(r) /\ r[Len(r) + 1 - m] = <<"decDep", s>>
        /\ Pending(c, m, s) <=> /\ m \in 1..Len(q)
                                /\ q[Len(q) + 1 - m] = <<"decDep", s>>
                                /\ ~(pc[c] \in {"read", "push"} /\ m = Len(q))
    <3>1. todo[c] = q /\ todo'[c] = r /\ pc'[c] = "call"
      BY <1>2
    <3> HIDE DEF q, r
    <3>2. Pending(c, m, s)' <=> m \in 1..Len(r) /\ r[Len(r) + 1 - m] = <<"decDep", s>>
      BY <3>1 DEF Pending
    <3>3. Pending(c, m, s) <=> /\ m \in 1..Len(q)
                               /\ q[Len(q) + 1 - m] = <<"decDep", s>>
                               /\ ~(pc[c] \in {"read", "push"} /\ m = Len(q))
      BY <3>1 DEF Pending
    <3> QED
      BY <3>2, <3>3
  <2> HIDE DEF q, r
  <2>2. CASE m \in 1..Len(r)
    <3>1. Len(r) + 1 - m \in 1..Len(r) /\ (Len(r) + 1 - m) + 1 = Len(q) + 1 - m
      BY <1>1, <2>2
    <3>2. r[Len(r) + 1 - m] = q[Len(q) + 1 - m]
      BY <1>1, <3>1
    <3>3. m \in 1..Len(q) /\ m # Len(q)
      BY <1>1, <2>2
    <3> QED
      BY <1>5, <2>1, <2>2, <3>2, <3>3
  <2>3. CASE m = Len(q)
    <3>1. m \notin 1..Len(r) /\ Len(q) + 1 - m = 1
      BY <1>1, <2>3
    <3> QED
      BY <1>3, <1>5, <2>1, <2>3, <3>1 DEF q
  <2>4. CASE m \notin 1..Len(q)
    <3>1. m \notin 1..Len(r)
      BY <1>1, <2>4
    <3> QED
      BY <1>5, <2>1, <2>4, <3>1
  <2>5. m \in 1..Len(q) => m \in 1..Len(r) \/ m = Len(q)
    BY <1>1
  <2> QED
    BY <2>2, <2>3, <2>4, <2>5
<1> QED
  BY <1>4, <1>5

\* A decrement is made: one less is left to make, and the count is one less, or
\* from 0 the largest.
LEMMA DecDepCount ==
  ASSUME TypeInv, NEW c \in Cores, DecDep(c), NEW s \in Slots, CountOf(s)
  PROVE  CountOf(s)'
<1> DEFINE t == Operand(c)
           last == Len(todo[c])
<1>1. /\ t \in Slots
      /\ Head(todo[c]) = <<"decDep", t>>
  BY DecDepOperand, DecDepHead DEF DecDep
<1>2. /\ todo' = todo /\ fired' = fired /\ pc[c] = "call" /\ pc' = [pc EXCEPT ![c] = "read"]
      /\ currentDep' = [currentDep EXCEPT ![t] = IF @ = 0 THEN MaxWord ELSE @ - 1]
      /\ pc \in [Cores -> Locations] /\ todo[c] \in Seq(CallSet) /\ todo[c] # <<>>
      /\ currentDep \in [Slots -> 0..MaxWord]
  BY DEF DecDep, Goto, TypeInv, TypeOK, Called, Calling
<1>3. last \in Nat \ {0} /\ todo[c][1] = <<"decDep", t>>
  BY <1>1, <1>2
<1>4. \A d \in Cores : pc'[d] = IF d = c THEN "read" ELSE pc[d]
  BY <1>2
<1> HIDE DEF t
<1>5. ASSUME NEW d \in Cores, NEW m \in Nat
      PROVE  Pending(d, m, s)' <=> Pending(d, m, s) /\ ~(d = c /\ m = last)
  BY <1>2, <1>4 DEF Pending
<1>6. Pending(c, last, s) <=> s = t
  <2>1. last \in 1..last /\ last + 1 - last = 1
    BY <1>3
  <2>2. Pending(c, last, s) <=> todo[c][1] = <<"decDep", s>>
    BY <1>2, <2>1 DEF Pending
  <2> QED
    BY <1>3, <2>2
<1>7. CASE s # t
  <2>1. currentDep'[s] = currentDep[s]
    BY <1>2, <1>7
  <2>2. \A d \in Cores : \A m \in Nat : Pending(d, m, s)' <=> Pending(d, m, s)
    BY <1>5, <1>6, <1>7
  <2> QED
    BY <1>2, <2>1, <2>2, OtherCount
<1>8. CASE s = t
  <2> DEFINE Before == Outstanding(s)
             After == Outstanding(s)'
  <2>1. /\ \A x : x \in Before <=> x \in Cores \X Nat /\ Pending(x[1], x[2], s)
        /\ \A x : x \in After <=> x \in Cores \X Nat /\ Pending(x[1], x[2], s)'
    BY DEF Outstanding
  <2>2. \A x \in Cores \X Nat : /\ x[1] \in Cores /\ x[2] \in Nat
                                /\ (x[1] = c /\ x[2] = last) <=> x = <<c, last>>
    OBVIOUS
  <2>3. IsFiniteSet(Before)
    BY DEF CountOf
  <2> HIDE DEF Before, After, last
  <2>4. <<c, last>> \in Before
    <3>1. <<c, last>> \in Cores \X Nat
      BY <1>3
    <3> QED
      BY <1>6, <1>8, <2>1, <3>1
  <2>5. \A x : x \in After <=> x \in Before \ {<<c, last>>}
    BY <1>5, <2>1, <2>2
  <2>6. After = Before \ {<<c, last>>}
    BY <2>5
  <2>7. IsFiniteSet(After) /\ Cardinality(After) = Cardinality(Before) - 1
    BY <2>3, <2>4, <2>6, FS_RemoveElement
  <2>8. Cardinality(Before) \in Nat
    BY <2>3, FS_CardinalityType
  <2>9. /\ IsFiniteSet(Satisfying(s)) /\ Cardinality(Satisfying(s)) \in Nat
        /\ Satisfying(s)' = Satisfying(s)
    BY <1>2, FS_CardinalityType DEF CountOf, Satisfying
  <2>10. /\ currentDep[s] \in Nat /\ MaxWord \in Nat /\ InitDep[s] \in Nat
         /\ currentDep'[s] = IF currentDep[s] = 0 THEN MaxWord ELSE currentDep[s] - 1
    <3>1. MaxWord \in Nat /\ InitDep[s] \in Nat
      BY ProgramAssumption, RoomAssumption
    <3>2. currentDep[s] \in 0..MaxWord
      BY <1>2
    <3>3. currentDep'[t] = IF currentDep[t] = 0 THEN MaxWord ELSE currentDep[t] - 1
      BY <1>1, <1>2
    <3> QED
      BY <1>8, <3>1, <3>2, <3>3
  <2>11. currentDep[s] + Cardinality(Satisfying(s)) >= InitDep[s] + Cardinality(Before)
    BY DEF CountOf, Before
  <2>12. currentDep'[s] + Cardinality(Satisfying(s)) >= InitDep[s] + Cardinality(After)
    BY <2>7, <2>8, <2>9, <2>10, <2>11
  <2> QED
    BY <2>7, <2>9, <2>12 DEF CountOf, After
<1> QED
  BY <1>7, <1>8

LEMMA IdleNext == TypeInv /\ IdleInv /\ [Next]_vars => IdleInv'
<1> SUFFICES ASSUME TypeInv, IdleInv, [Next]_vars
             PROVE  IdleInv'
  OBVIOUS
<1> USE DEF TypeInv, TypeOK, IdleInv, Goto, tpQueue, slots
<1>1. ASSUME NEW c \in Cores,
             Reset(c) \/ Run(c) \/ Test(c) \/ PopEmpty(c) \/ Fire(c) \/ EndOfCodelet(c)
      PROVE  IdleInv'
  BY <1>1 DEF Reset, Run, Test, PopEmpty, Fire, EndOfCodelet
<1>2. ASSUME NEW c \in Cores, Terminate(c) \/ DecDep(c) \/ ReadReady(c) \/ ReadNotReady(c)
      PROVE  IdleInv'
  BY <1>2 DEF Terminate, DecDep, ReadReady, ReadNotReady, Called
<1>3. ASSUME NEW c \in Cores, AddCodelet(c) \/ Push(c) \/ EndOfPushes(c) \/ InvokeTP(c)
      PROVE  IdleInv'
  BY <1>3 DEF AddCodelet, Push, EndOfPushes, InvokeTP, Called
<1>4. CASE SUStep
  BY <1>4 DEF SUStep, Own, Peak, Disown, Cores
<1>5. CASE UNCHANGED vars
  BY <1>5 DEF vars
<1> QED
  BY <1>1, <1>2, <1>3, <1>4, <1>5 DEF Next, Step

\* Also: what satisfied a slot once has satisfied it for good.
LEMMA CountNext ==
  ASSUME TypeInv, IdleInv, [Next]_vars, NEW s \in Slots, CountOf(s)
  PROVE  /\ CountOf(s)'
         /\ Satisfying(s) \subseteq Satisfying(s)'
<1> USE DEF Goto, tpQueue, slots
<1>0. fired' = fired => Satisfying(s)' = Satisfying(s)
  BY DEF Satisfying
<1>1. ASSUME /\ todo' = todo /\ fired' = fired /\ currentDep' = currentDep
             /\ \A c \in Cores : pc'[c] \in {"read", "push"} <=> pc[c] \in {"read", "push"}
      PROVE  CountOf(s)'
  <2>1. \A c \in Cores : \A m \in Nat : Pending(c, m, s)' <=> Pending(c, m, s)
    BY <1>1 DEF Pending
  <2> QED
    BY <1>1, <2>1, OtherCount
<1>2. ASSUME NEW c \in Cores, todo[c] # <<>>, pc' = [pc EXCEPT ![c] = "call"], Called(c),
             pc[c] \in {"read", "push"} \/ (pc[c] = "call" /\ ~Calling(c, "decDep")),
             fired' = fired, currentDep' = currentDep
      PROVE  CountOf(s)'
  BY <1>2, TailPending, OtherCount
<1>3. pc \in [Cores -> Locations]
  BY DEF TypeInv, TypeOK
<1>4. ASSUME NEW c \in Cores,
             \/ Reset(c) \/ Run(c) \/ Test(c) \/ PopEmpty(c) \/ EndOfCodelet(c)
             \/ ReadReady(c) \/ Push(c)
      PROVE  CountOf(s)' /\ fired' = fired
  <2>1. todo' = todo /\ fired' = fired /\ currentDep' = currentDep
    BY <1>4 DEF Reset, Run, Test, PopEmpty, EndOfCodelet, ReadReady, Push
  <2>2. \A d \in Cores : pc'[d] \in {"read", "push"} <=> pc[d] \in {"read", "push"}
    BY <1>3, <1>4 DEF Reset, Run, Test, PopEmpty, EndOfCodelet, ReadReady, Push
  <2> QED
    BY <1>1, <2>1, <2>2
<1>5. ASSUME NEW c \in Cores, Fire(c)
      PROVE  CountOf(s)' /\ Satisfying(s) \subseteq Satisfying(s)'
  BY <1>5, FireCount
<1>6. ASSUME NEW c \in Cores, DecDep(c)
      PROVE  CountOf(s)' /\ fired' = fired
  BY <1>6, DecDepCount DEF DecDep
<1>7. ASSUME NEW c \in Cores, Terminate(c) \/ InvokeTP(c)
      PROVE  CountOf(s)' /\ fired' = fired
  <2>1. todo[c] # <<>> /\ ~Calling(c, "decDep") /\ pc[c] = "call"
    BY <1>7 DEF Terminate, InvokeTP, Calling
  <2>2. /\ pc' = [pc EXCEPT ![c] = "call"] /\ Called(c)
        /\ fired' = fired /\ currentDep' = currentDep
    BY <1>3, <1>7, <2>1 DEF Terminate, InvokeTP
  <2> QED
    BY <1>2, <2>1, <2>2
<1>8. ASSUME NEW c \in Cores, ReadNotReady(c) \/ EndOfPushes(c)
      PROVE  CountOf(s)' /\ fired' = fired
  <2>1. todo[c] # <<>> /\ pc[c] \in {"read", "push"}
    BY <1>8 DEF ReadNotReady, EndOfPushes, TypeInv, Calling
  <2>2. /\ pc' = [pc EXCEPT ![c] = "call"] /\ Called(c)
        /\ fired' = fired /\ currentDep' = currentDep
    BY <1>8 DEF ReadNotReady, EndOfPushes
  <2> QED
    BY <1>2, <2>1, <2>2
<1>9. ASSUME NEW c \in Cores, AddCodelet(c)
      PROVE  CountOf(s)' /\ fired' = fired
  <2>1. /\ todo' = todo /\ fired' = fired /\ currentDep' = currentDep
        /\ \A d \in Cores : pc'[d] = IF d = c THEN "push" ELSE pc[d]
        /\ pc[c] = "call"
    BY <1>3, <1>9 DEF AddCodelet
  <2>2. /\ todo[c] \in Seq(CallSet) /\ todo[c] # <<>>
        /\ todo[c][1] # <<"decDep", s>>
    BY <1>9 DEF AddCodelet, Calling, TypeInv
  <2>3. todo[c][Len(todo[c]) + 1 - Len(todo[c])] = todo[c][1]
    BY <2>2
  <2>4. ASSUME NEW d \in Cores, NEW m \in Nat
        PROVE  Pending(d, m, s)' <=> Pending(d, m, s)
    <3>1. CASE d # c
      BY <2>1, <3>1 DEF Pending
    <3>2. CASE d = c
      BY <2>1, <2>2, <2>3, <3>2 DEF Pending
    <3> QED
      BY <3>1, <3>2
  <2> QED
    BY <2>1, <2>4, OtherCount
<1>10. ASSUME SUStep \/ UNCHANGED vars
       PROVE  CountOf(s)' /\ fired' = fired
  <2>1. todo' = todo /\ fired' = fired /\ currentDep' = currentDep
    BY <1>10 DEF SUStep, Own, Peak, Disown, vars
  <2>2. \A d \in Cores : pc'[d] \in {"read", "push"} <=> pc[d] \in {"read", "push"}
    BY <1>3, <1>10 DEF SUStep, Own, Peak, Disown, vars, Cores
  <2> QED
    BY <1>1, <2>1, <2>2
<1> QED
  BY <1>0, <1>4, <1>5, <1>6, <1>7, <1>8, <1>9, <1>10 DEF Next, Step

-----------------------------------------------------------------------------
\* The codelets of slots: wherever one is queued, was fired, or is about to be
\* pushed, its slot was satisfied as often as it has dependencies; and no codelet
\* in the middle of its calls is to add one by itself.

Satisfied(s) == Cardinality(Satisfying(s)) >= InitDep[s]
Pushing(k) == \E c \in Cores : pc[c] = "push" /\ pushing[c][1] = k
Told(s) == \/ Waiting(Template[s]) \/ fired[Template[s]] > 0
           \/ Pushing(Template[s])
NeverAdded == \A c \in Cores : \A i \in 1..Len(todo[c]) : \A s \in Slots :
                todo[c][i] # <<"addCodelet", Template[s]>>
OrderInv == NeverAdded /\ \A s \in Slots : Told(s) => Satisfied(s)

LEMMA NeverAddedNext ==
  ASSUME TemplatesOfSlots, TypeInv, NeverAdded, [Next]_vars
  PROVE  NeverAdded'
<1>1. todo \in [Cores -> Seq(CallSet)] /\ queue \in [Cores -> Seq(Codelets)]
  BY DEF TypeInv
<1>2. ASSUME NEW c \in Cores, Called(c), todo[c] # <<>>
      PROVE  NeverAdded'
  <2>1. \A d \in Cores : todo'[d] = IF d = c THEN Tail(todo[c]) ELSE todo[d]
    BY <1>1, <1>2 DEF Called
  <2>2. \A i \in 1..Len(Tail(todo[c])) : i + 1 \in 1..Len(todo[c])
                                         /\ Tail(todo[c])[i] = todo[c][i + 1]
    BY <1>1, <1>2
  <2> SUFFICES ASSUME NEW d \in Cores, NEW i \in 1..Len(todo'[d]), NEW s \in Slots
               PROVE  todo'[d][i] # <<"addCodelet", Template[s]>>
    BY DEF NeverAdded
  <2>3. CASE d = c
    <3>1. i \in 1..Len(Tail(todo[c])) /\ todo'[d] = Tail(todo[c])
      BY <2>1, <2>3
    <3> QED
      BY <2>2, <3>1 DEF NeverAdded
  <2>4. CASE d # c
    BY <2>1, <2>4 DEF NeverAdded
  <2> QED
    BY <2>3, <2>4
<1>3. ASSUME NEW c \in Cores, Fire(c)
      PROVE  NeverAdded'
  <2> DEFINE k == Head(queue[c])
  <2>1. k \in Codelets
    BY <1>1, <1>3 DEF Fire
  <2>2. \A d \in Cores : todo'[d] = IF d = c THEN Calls[k] ELSE todo[d]
    BY <1>1, <1>3 DEF Fire
  <2>3. DOMAIN Calls[k] = 1..Len(Calls[k])
    BY <2>1, ProgramAssumption
  <2>4. \A s \in Slots : \A i \in 1..Len(Calls[k]) :
          Calls[k][i] # <<"addCodelet", Template[s]>>
    BY <2>1, <2>3 DEF TemplatesOfSlots
  <2> HIDE DEF k
  <2> SUFFICES ASSUME NEW d \in Cores, NEW i \in 1..Len(todo'[d]), NEW s \in Slots
               PROVE  todo'[d][i] # <<"addCodelet", Template[s]>>
    BY DEF NeverAdded
  <2>5. CASE d = c
    BY <2>2, <2>4, <2>5
  <2>6. CASE d # c
    BY <2>2, <2>6 DEF NeverAdded
  <2> QED
    BY <2>5, <2>6
<1>4. ASSUME todo' = todo
      PROVE  NeverAdded'
  BY <1>4 DEF NeverAdded
<1>5. ASSUME NEW c \in Cores,
             \/ Reset(c) \/ Run(c) \/ Test(c) \/ PopEmpty(c) \/ EndOfCodelet(c)
             \/ DecDep(c) \/ ReadReady(c) \/ AddCodelet(c) \/ Push(c)
      PROVE  todo' = todo
  BY <1>5 DEF Reset, Run, Test, PopEmpty, EndOfCodelet, DecDep, ReadReady, AddCodelet, Push
<1>6. ASSUME NEW c \in Cores,
             Terminate(c) \/ InvokeTP(c) \/ ReadNotReady(c) \/ EndOfPushes(c)
      PROVE  Called(c) /\ todo[c] # <<>>
  BY <1>6 DEF Terminate, InvokeTP, ReadNotReady, EndOfPushes, TypeInv, Calling, Goto
<1>7. SUStep \/ UNCHANGED vars => todo' = todo
  BY DEF SUStep, Own, Peak, Disown, vars
<1> QED
  BY <1>2, <1>3, <1>4, <1>5, <1>6, <1>7 DEF Next, Step

\* Where a codelet that is queued, was fired or is being pushed comes from.
LEMMA ToldBefore ==
  ASSUME TypeInv, [Next]_vars, NEW s \in Slots, Told(s)'
  PROVE  \/ Told(s)
         \/ \E c \in Cores : /\ ReadReady(c) \/ AddCodelet(c)
                             /\ pushing'[c][1] = Template[s]
<1> DEFINE k == Template[s]
<1>1. /\ k \in Codelets
      /\ queue \in [Cores -> Seq(Codelets)] /\ fired \in [Codelets -> Nat]
      /\ pc \in [Cores -> Locations] /\ DOMAIN pushing = Cores
  BY ProgramAssumption DEF TypeInv, TypeOK
<1>2. \A c \in Cores : DOMAIN queue[c] = 1..Len(queue[c])
  BY <1>1
<1> HIDE DEF k
<1>3. Told(s) <=> Waiting(k) \/ fired[k] > 0 \/ Pushing(k)
  BY DEF Told, k
<1>4. Waiting(k)' \/ fired'[k] > 0 \/ Pushing(k)'
  BY DEF Told, k
<1>5. ASSUME queue' = queue, fired' = fired,
             \A c \in Cores : pc'[c] = "push" => pc[c] = "push" /\ pushing'[c] = pushing[c]
      PROVE  Told(s)
  BY <1>3, <1>4, <1>5 DEF Waiting, WaitsAt, Pushing
<1>6. ASSUME NEW c \in Cores,
             \/ Reset(c) \/ Run(c) \/ Test(c) \/ PopEmpty(c) \/ EndOfCodelet(c)
             \/ Terminate(c) \/ DecDep(c)
      PROVE  Told(s)
  <2>1. queue' = queue /\ fired' = fired /\ pushing' = pushing
    BY <1>6 DEF Reset, Run, Test, PopEmpty, EndOfCodelet, Terminate, DecDep
  <2>2. \A d \in Cores : pc'[d] = "push" => pc[d] = "push"
    BY <1>1, <1>6 DEF Reset, Run, Test, PopEmpty, EndOfCodelet, Terminate, DecDep, Goto
  <2> QED
    BY <1>5, <2>1, <2>2
<1>7. ASSUME NEW c \in Cores, ReadNotReady(c) \/ InvokeTP(c) \/ EndOfPushes(c)
      PROVE  Told(s)
  <2>1. queue' = queue /\ fired' = fired
    BY <1>7 DEF ReadNotReady, InvokeTP, EndOfPushes
  <2>2. \A d \in Cores : pc'[d] = "push" => pc[d] = "push" /\ pushing'[d] = pushing[d]
    BY <1>1, <1>7 DEF ReadNotReady, InvokeTP, EndOfPushes, Goto
  <2> QED
    BY <1>5, <2>1, <2>2
<1>8. ASSUME SUStep \/ UNCHANGED vars
      PROVE  Told(s)
  <2>1. queue' = queue /\ fired' = fired /\ pushing' = pushing
    BY <1>8 DEF SUStep, Own, Peak, Disown, vars
  <2>2. \A d \in Cores : pc'[d] = "push" => pc[d] = "push"
    BY <1>1, <1>8 DEF SUStep, Own, Peak, Disown, vars, Goto, Cores
  <2> QED
    BY <1>5, <2>1, <2>2
<1>9. ASSUME NEW c \in Cores, ReadReady(c) \/ AddCodelet(c)
      PROVE  Told(s) \/ pushing'[c][1] = k
  <2>1. queue' = queue /\ fired' = fired
    BY <1>9 DEF ReadReady, AddCodelet
  <2>2. \A d \in Cores : d # c => pc'[d] = pc[d] /\ pushing'[d] = pushing[d]
    BY <1>1, <1>9 DEF ReadReady, AddCodelet, Goto
  <2>3. CASE Pushing(k)'
    BY <1>3, <2>2, <2>3 DEF Pushing
  <2>4. CASE Waiting(k)' \/ fired'[k] > 0
    BY <1>3, <2>1, <2>4 DEF Waiting, WaitsAt
  <2> QED
    BY <1>4, <2>3, <2>4
<1>10. ASSUME NEW c \in Cores, Fire(c)
       PROVE  Told(s)
  <2>1. /\ pushing' = pushing
        /\ \A d \in Cores : pc'[d] = "push" => pc[d] = "push"
        /\ \A d \in Cores : queue'[d] = IF d = c THEN Tail(queue[c]) ELSE queue[d]
        /\ fired' = [fired EXCEPT ![Head(queue[c])] = @ + 1]
        /\ queue[c] # <<>> /\ queue[c] \in Seq(Codelets)
    BY <1>1, <1>10 DEF Fire, Goto
  <2>2. CASE Pushing(k)'
    BY <1>3, <2>1, <2>2 DEF Pushing
  <2>3. CASE Waiting(k)'
    <3>1. PICK d \in Cores : k \in {queue'[d][i] : i \in DOMAIN queue'[d]}
      BY <2>3 DEF Waiting, WaitsAt
    <3>2. PICK i \in DOMAIN queue'[d] : queue'[d][i] = k
      BY <3>1
    <3>3. CASE d # c
      BY <1>3, <2>1, <3>2, <3>3 DEF Waiting, WaitsAt
    <3>4. CASE d = c
      <4>1. i \in 1..Len(Tail(queue[c])) /\ Tail(queue[c])[i] = k
        <5>1. queue'[d] = Tail(queue[c])
          BY <2>1, <3>4
        <5>2. DOMAIN Tail(queue[c]) = 1..Len(Tail(queue[c]))
          BY <2>1
        <5> QED
          BY <3>2, <5>1, <5>2
      <4>2. i + 1 \in DOMAIN queue[c] /\ queue[c][i + 1] = k
        BY <2>1, <4>1
      <4> QED
        BY <1>3, <4>2 DEF Waiting, WaitsAt
    <3> QED
      BY <3>3, <3>4
  <2>4. CASE fired'[k] > 0 /\ ~(fired[k] > 0)
    <3>1. k = Head(queue[c])
      BY <1>1, <2>1, <2>4
    <3>2. 1 \in DOMAIN queue[c] /\ queue[c][1] = k
      BY <2>1, <3>1
    <3> QED
      BY <1>3, <3>2 DEF Waiting, WaitsAt
  <2> QED
    BY <1>3, <1>4, <2>2, <2>3, <2>4
<1>11. ASSUME NEW c \in Cores, Push(c)
       PROVE  Told(s)
  <2>1. /\ pc[c] = "push" /\ pc' = pc /\ fired' = fired
        /\ \A d \in Cores : queue'[d] = IF d = c THEN Append(queue[c], pushing[c][1]) ELSE queue[d]
        /\ \A d \in Cores : pushing'[d][1] = pushing[d][1]
        /\ queue[c] \in Seq(Codelets) /\ pushing[c] \in Codelets \X Int
    BY <1>1, <1>11 DEF Push, TypeInv
  <2>2. CASE Pushing(k)'
    BY <1>3, <2>1, <2>2 DEF Pushing
  <2>3. CASE Waiting(k)'
    <3>1. PICK d \in Cores : k \in {queue'[d][i] : i \in DOMAIN queue'[d]}
      BY <2>3 DEF Waiting, WaitsAt
    <3>2. PICK i \in DOMAIN queue'[d] : queue'[d][i] = k
      BY <3>1
    <3>3. CASE d # c
      BY <1>3, <2>1, <3>2, <3>3 DEF Waiting, WaitsAt
    <3>4. CASE d = c
      <4>1. i \in 1..(Len(queue[c]) + 1) /\ Append(queue[c], pushing[c][1])[i] = k
        <5>1. queue'[d] = Append(queue[c], pushing[c][1])
          BY <2>1, <3>4
        <5>2. DOMAIN Append(queue[c], pushing[c][1]) = 1..(Len(queue[c]) + 1)
          BY <2>1
        <5> QED
          BY <3>2, <5>1, <5>2
      <4>2. CASE i \in 1..Len(queue[c])
        <5>1. i \in DOMAIN queue[c] /\ queue[c][i] = k
          BY <2>1, <4>1, <4>2
        <5> QED
          BY <1>3, <5>1 DEF Waiting, WaitsAt
      <4>3. CASE i = Len(queue[c]) + 1
        <5>1. pushing[c][1] = k
          BY <2>1, <4>1, <4>3
        <5> QED
          BY <1>3, <2>1, <5>1 DEF Pushing
      <4> QED
        BY <2>1, <4>1, <4>2, <4>3
    <3> QED
      BY <3>3, <3>4
  <2> QED
    BY <1>3, <1>4, <2>1, <2>2, <2>3
<1>12. \/ \E c \in Cores : Reset(c) \/ Run(c) \/ Step(c)
       \/ SUStep \/ UNCHANGED vars
  BY DEF Next
<1>13. CASE \E c \in Cores : Reset(c) \/ Run(c) \/ Step(c)
  <2>1. PICK c \in Cores : Reset(c) \/ Run(c) \/ Step(c)
    BY <1>13
  <2>2. CASE ReadReady(c) \/ AddCodelet(c)
    BY <1>9, <2>2 DEF k
  <2>3. CASE ~(ReadReady(c) \/ AddCodelet(c))
    BY <1>6, <1>7, <1>10, <1>11, <2>1, <2>3 DEF Step
  <2> QED
    BY <2>2, <2>3
<1> QED
  BY <1>8, <1>12, <1>13

LEMMA OrderNext ==
  ASSUME TemplatesOfSlots, TypeInv, CountInv, OrderInv, [Next]_vars
  PROVE  OrderInv'
<1>1. NeverAdded'
  BY NeverAddedNext DEF OrderInv
<1>2. ASSUME NEW s \in Slots, Satisfied(s)
      PROVE  Satisfied(s)'
  <2>1. CountOf(s)' /\ Satisfying(s) \subseteq Satisfying(s)'
    BY CountNext DEF CountInv
  <2> DEFINE Before == Satisfying(s)
             After == Satisfying(s)'
  <2>2. Before \subseteq After /\ IsFiniteSet(After)
    BY <2>1 DEF CountOf
  <2>3. Cardinality(Before) >= InitDep[s]
    BY <1>2 DEF Satisfied
  <2> HIDE DEF Before, After
  <2>4. /\ Cardinality(Before) <= Cardinality(After) /\ IsFiniteSet(Before)
    BY <2>2, FS_Subset
  <2>5. Cardinality(Before) \in Nat /\ Cardinality(After) \in Nat
    BY <2>2, <2>4, FS_CardinalityType
  <2>6. InitDep[s] \in Nat
    BY ProgramAssumption, RoomAssumption
  <2>7. Cardinality(After) >= InitDep[s]
    BY <2>3, <2>4, <2>5, <2>6
  <2> QED
    BY <2>7 DEF After, Satisfied
<1>3. ASSUME NEW s \in Slots, Told(s)'
      PROVE  Satisfied(s)
  <2>1. CASE Told(s)
    BY <2>1 DEF OrderInv
  <2>2. ASSUME NEW c \in Cores, ReadReady(c), pushing'[c][1] = Template[s]
        PROVE  Satisfied(s)
    <3>1. Operand(c) \in Slots
      BY <2>2, DecDepOperand DEF ReadReady, Goto, TypeInv
    <3>2. pushing'[c] = <<Template[Operand(c)], NumCodelets[Operand(c)]>>
      BY <2>2 DEF ReadReady, TypeInv
    <3>3. Operand(c) = s
      BY <2>2, <3>1, <3>2 DEF TemplatesOfSlots
    <3>4. currentDep[s] = 0
      BY <2>2, <3>3 DEF ReadReady
    <3>5. CountOf(s)
      BY DEF CountInv
    <3>6. Cardinality(Satisfying(s)) \in Nat /\ Cardinality(Outstanding(s)) \in Nat
      BY <3>5, FS_CardinalityType DEF CountOf
    <3>7. InitDep[s] \in Nat
      BY ProgramAssumption, RoomAssumption
    <3> QED
      BY <3>4, <3>5, <3>6, <3>7 DEF CountOf, Satisfied
  <2>3. ASSUME NEW c \in Cores, AddCodelet(c), pushing'[c][1] = Template[s]
        PROVE  FALSE
    <3>1. /\ todo[c] \in Seq(CallSet) /\ todo[c] # <<>>
          /\ todo[c][1] = Head(todo[c])
      BY <2>3 DEF AddCodelet, Calling, TypeInv
    <3>2. pushing'[c] = <<Operand(c), 1>>
      BY <2>3 DEF AddCodelet, TypeInv
    <3>3. Head(todo[c])[1] = "addCodelet" /\ Head(todo[c])[2] = Template[s]
      BY <2>3, <3>2 DEF AddCodelet, Calling, Operand
    <3>4. 1 \in 1..Len(todo[c]) /\ todo[c][1] \in CallSet
      BY <3>1
    <3>5. todo[c][1] = <<"addCodelet", Template[s]>>
      <4> DEFINE h == todo[c][1]
      <4>1. h \in CallSet /\ h[1] = "addCodelet" /\ h[2] = Template[s]
        BY <3>1, <3>3, <3>4
      <4> HIDE DEF h
      <4>2. h \in {"addCodelet"} \X Codelets
        BY <4>1 DEF CallSet
      <4>3. h = <<h[1], h[2]>>
        BY <4>2
      <4>4. h = <<"addCodelet", Template[s]>>
        BY <4>1, <4>3
      <4> QED
        BY <4>4 DEF h
    <3> QED
      BY <3>4, <3>5 DEF OrderInv, NeverAdded
  <2> QED
    BY <1>3, <2>1, <2>2, <2>3, ToldBefore
<1>4. \A s \in Slots : Told(s)' => Satisfied(s)'
  BY <1>2, <1>3
<1> QED
  BY <1>1, <1>4 DEF OrderInv

\* At the start nothing was fired, nothing is to be made, and no codelet of a slot
\* is queued.
LEMMA OrderInit == TemplatesOfSlots /\ Init => CountInv /\ OrderInv
<1> SUFFICES ASSUME TemplatesOfSlots, Init
             PROVE  CountInv /\ OrderInv
  OBVIOUS
<1>1. /\ \A c \in Cores : todo[c] = <<>> /\ pc[c] = "outside"
      /\ \A k \in Codelets : fired[k] = 0
      /\ currentDep = InitDep /\ queue = Queued
  BY DEF Init
<1>2. IdleInv /\ NeverAdded
  BY <1>1 DEF IdleInv, NeverAdded
<1>3. ASSUME NEW s \in Slots
      PROVE  CountOf(s)
  <2>1. Satisfying(s) = {}
    <3> DEFINE I(k) == {i \in DOMAIN Calls[k] : Calls[k][i] = <<"decDep", s>>}
    <3>1. Satisfying(s) = UNION {{k} \X (1..fired[k]) \X I(k) : k \in Codelets}
      BY DEF Satisfying
    <3> HIDE DEF I
    <3>2. \A k \in Codelets : 1..fired[k] = {}
      BY <1>1
    <3>3. \A k \in Codelets : {k} \X (1..fired[k]) \X I(k) = {}
      BY <3>2
    <3> QED
      BY <3>1, <3>3
  <2>2. Outstanding(s) = {}
    BY <1>1 DEF Outstanding, Pending
  <2>3. InitDep[s] \in Nat
    BY ProgramAssumption, RoomAssumption
  <2> QED
    BY <1>1, <2>1, <2>2, <2>3, FS_EmptySet DEF CountOf
<1>4. ASSUME NEW s \in Slots
      PROVE  ~Told(s)
  <2>1. ~Waiting(Template[s])
    BY <1>1 DEF TemplatesOfSlots, Waiting, WaitsAt
  <2>2. ~(fired[Template[s]] > 0)
    BY <1>1, ProgramAssumption
  <2>3. ~Pushing(Template[s])
    BY <1>1 DEF Pushing
  <2> QED
    BY <2>1, <2>2, <2>3 DEF Told
<1> QED
  BY <1>2, <1>3, <1>4 DEF CountInv, OrderInv

\* The order of the program's graph holds whatever the program, on any number of
\* cores, also when counts go below 0: wherever a codelet of a slot is queued, or
\* was fired, the codelets it depends on have been fired - given that a slot's
\* codelet is that slot's only and nothing else queues it.
THEOREM GraphOrder == TemplatesOfSlots => (Spec => []DependencyOrder)
<1> SUFFICES ASSUME TemplatesOfSlots
             PROVE  Spec => []DependencyOrder
  OBVIOUS
<1>1. Init => CountInv /\ OrderInv
  BY OrderInit
<1>2. TypeInv /\ CountInv /\ OrderInv /\ [Next]_vars => CountInv' /\ OrderInv'
  <2> SUFFICES ASSUME TypeInv, CountInv, OrderInv, [Next]_vars
               PROVE  CountInv' /\ OrderInv'
    OBVIOUS
  <2>1. IdleInv'
    BY IdleNext DEF CountInv
  <2>2. \A s \in Slots : CountOf(s)'
    BY CountNext DEF CountInv
  <2>3. OrderInv'
    BY OrderNext
  <2> QED
    BY <2>1, <2>2, <2>3 DEF CountInv
<1>3. OrderInv => DependencyOrder
  BY DEF OrderInv, DependencyOrder, Told, Satisfied
<1> QED
  BY <1>1, <1>2, <1>3, TypeInvInit, TypeInvNext, PTL DEF Spec
=============================================================================
