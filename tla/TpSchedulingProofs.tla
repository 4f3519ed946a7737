-------------------------- MODULE TpSchedulingProofs --------------------------
(***************************************************************************)
(* Theorems about TpScheduling: whatever the program, the experiments, the  *)
(* cores and the size of the queue, a closure that was accepted is built    *)
(* once, with the arguments it was given (but for those of twenty) and the  *)
(* slots of its definition; the slots are fired once each, in their order;  *)
(* and a consumer that leaves has fired all it has built.                   *)
(***************************************************************************)
EXTENDS TpScheduling, FiniteSetTheorems, TLAPS

-----------------------------------------------------------------------------
\* The phases of main: an experiment runs between an even number of barriers and
\* the next one, and a core that does not wait has seen everybody come.

Running == Locations \ {"waiting", "reset", "end"}

PhaseInv ==
    /\ barriers \in [Cores -> Nat]
    /\ pc \in [Cores -> Locations]
    /\ \A c \in Cores :
         /\ pc[c] \in Running => barriers[c] % 2 = 0 /\ barriers[c] < 2 * Len(Experiments)
         /\ pc[c] = "reset" => barriers[c] % 2 = 1 /\ barriers[c] < 2 * Len(Experiments)
         /\ pc[c] = "waiting" => barriers[c] \in 1..(2 * Len(Experiments))
    /\ \A c, d \in Cores :
         /\ barriers[c] <= barriers[d] + 1
         /\ pc[c] # "waiting" => barriers[c] <= barriers[d]

LEMMA LenExperiments == Len(Experiments) \in Nat \ {0}
BY ExperimentAssumption

LEMMA PhaseInit == Init => PhaseInv
BY LenExperiments DEF Init, PhaseInv, Running, Locations

\* A step inside an experiment.
LEMMA PhaseMove ==
  ASSUME PhaseInv, NEW c \in Cores, NEW to \in Running, pc[c] \in Running,
         pc' = [pc EXCEPT ![c] = to], barriers' = barriers
  PROVE  PhaseInv'
BY LenExperiments DEF PhaseInv, Running, Locations

LEMMA PhaseSame == PhaseInv /\ UNCHANGED <<pc, barriers>> => PhaseInv'
BY DEF PhaseInv

LEMMA PhaseArrive ==
  ASSUME PhaseInv, NEW c \in Cores, NEW from \in {"push", "leave", "reset"}, Arrive(c, from)
  PROVE  PhaseInv'
<1>1. /\ barriers[c] \in Nat
      /\ barriers[c] + 1 \in 1..(2 * Len(Experiments))
  BY LenExperiments DEF PhaseInv, Arrive, Goto, Running, Locations
<1>2. /\ barriers' \in [Cores -> Nat]
      /\ pc' \in [Cores -> Locations]
  BY <1>1 DEF PhaseInv, Arrive, Goto, Locations
<1>3. \A d \in Cores : barriers[c] <= barriers[d] /\ barriers[d] \in Nat
  BY DEF PhaseInv, Arrive, Goto
<1>4. \A d \in Cores : barriers'[d] = IF d = c THEN barriers[c] + 1 ELSE barriers[d]
  BY DEF PhaseInv, Arrive
<1>5. \A d \in Cores : pc'[d] = IF d = c THEN "waiting" ELSE pc[d]
  BY DEF PhaseInv, Arrive, Goto
<1>6. \A d \in Cores :
         /\ pc'[d] \in Running => barriers'[d] % 2 = 0 /\ barriers'[d] < 2 * Len(Experiments)
         /\ pc'[d] = "reset" => barriers'[d] % 2 = 1 /\ barriers'[d] < 2 * Len(Experiments)
         /\ pc'[d] = "waiting" => barriers'[d] \in 1..(2 * Len(Experiments))
  BY <1>1, <1>4, <1>5 DEF PhaseInv, Running
<1>7. \A d, e \in Cores :
         /\ barriers'[d] <= barriers'[e] + 1
         /\ pc'[d] # "waiting" => barriers'[d] <= barriers'[e]
  BY <1>1, <1>3, <1>4, <1>5 DEF PhaseInv
<1> QED
  BY <1>2, <1>6, <1>7 DEF PhaseInv

LEMMA PhasePass ==
  ASSUME PhaseInv, NEW c \in Cores, Pass(c)
  PROVE  PhaseInv'
<1>1. /\ barriers[c] \in 1..(2 * Len(Experiments))
      /\ barriers' = barriers
      /\ \A d \in Cores : barriers[c] <= barriers[d]
  BY DEF PhaseInv, Pass, Goto
<1>2. \A d \in Cores :
         pc'[d] = IF d # c THEN pc[d] ELSE
                    IF barriers[c] = 2 * Len(Experiments) THEN "end"
                    ELSE IF barriers[c] % 2 = 1 THEN "reset" ELSE "begin"
  BY DEF PhaseInv, Pass, Goto, Ended
<1>3. pc' \in [Cores -> Locations]
  BY DEF PhaseInv, Pass, Goto, Ended, Locations
<1>4. \A d \in Cores :
         /\ pc'[d] \in Running => barriers[d] % 2 = 0 /\ barriers[d] < 2 * Len(Experiments)
         /\ pc'[d] = "reset" => barriers[d] % 2 = 1 /\ barriers[d] < 2 * Len(Experiments)
         /\ pc'[d] = "waiting" => barriers[d] \in 1..(2 * Len(Experiments))
  BY <1>1, <1>2, LenExperiments DEF PhaseInv, Running
<1>5. \A d, e \in Cores :
         /\ barriers[d] <= barriers[e] + 1
         /\ pc'[d] # "waiting" => barriers[d] <= barriers[e]
  BY <1>1, <1>2 DEF PhaseInv
<1> QED
  BY <1>1, <1>3, <1>4, <1>5 DEF PhaseInv

LEMMA PhaseNext == PhaseInv /\ [Next]_vars => PhaseInv'
<1>1. ASSUME PhaseInv, NEW c \in Cores,
             \/ Begin(c) \/ Test(c) \/ Own(c) \/ Look(c) \/ Build(c) \/ Pop(c) \/ Disown(c)
             \/ ScanEnd(c) \/ Ready(c) \/ Fire(c) \/ InvokeRefused(c) \/ FinishExecution(c)
             \/ EndOfCodelet(c) \/ EndOfSlot(c)
      PROVE  PhaseInv'
  <2>1. PICK from \in Running, to \in Running : Goto(c, from, to) /\ barriers' = barriers
    BY <1>1 DEF Begin, Test, Own, Look, Build, Pop, Disown, ScanEnd, Ready, Fire, InvokeRefused,
         FinishExecution, EndOfCodelet, EndOfSlot, AfterQueue, Running, Locations
  <2> QED
    BY <1>1, <2>1, PhaseMove DEF Goto
<1>2. ASSUME PhaseInv, NEW c \in Cores, PushNext(c) \/ InvokeNext(c)
      PROVE  PhaseInv'
  BY <1>2, PhaseSame DEF PushNext, InvokeNext
<1>3. ASSUME PhaseInv, NEW c \in Cores, PushedAll(c) \/ Leave(c) \/ Reset(c) \/ LastBarrier(c)
      PROVE  PhaseInv'
  BY <1>3, PhaseArrive DEF PushedAll, Leave, Reset, LastBarrier
<1>4. ASSUME PhaseInv, UNCHANGED vars PROVE PhaseInv'
  BY <1>4, PhaseSame DEF vars
<1> QED
  BY <1>1, <1>2, <1>3, <1>4, PhasePass DEF Next, Step

-----------------------------------------------------------------------------
\* What the queue and the heaps hold: closures as _invoke makes them, and what
\* is built from them.

Closures == {NewClosure(t) : t \in TPnames}
Entries == [closure : Closures, address : Int]
SlotStates == [currentDep : 0..MaxWord, template : SlotType]

\* The slots of a procedure are those of its definition, but for their counts.
AsDefined(p) == /\ DOMAIN p.slots = DOMAIN Program[p.tp].slots
                /\ DOMAIN p.fired = DOMAIN Program[p.tp].slots
                /\ \A s \in DOMAIN p.slots : p.slots[s].template = Program[p.tp].slots[s]

Procedures == {p \in [id : Nat, tp : TPnames, args : {closure.args : closure \in Closures},
                      slots : Seq(SlotStates), fired : Seq(Nat)] :
                  p.args = NewClosure(p.tp).args /\ AsDefined(p)}

TypeInv ==
    /\ PhaseInv
    /\ queue \in Seq(Entries)
    /\ queueOwner \in Cores \cup {0}
    /\ unbuilt \in [TPnames -> Int]
    /\ heap \in [Cores -> Seq(Procedures)]
    /\ DOMAIN at = Cores
    /\ invoking \in [Cores -> SUBSET TPnames]
    /\ work \in [Cores -> Seq(TPnames)]
    /\ \A c \in Cores : pc[c] \in {"fire", "invoke", "finish"} =>
         /\ at[c][1] \in DOMAIN heap[c]
         /\ at[c][2] \in DOMAIN heap[c][at[c][1]].slots

LEMMA ClosureTyped ==
  ASSUME NEW t \in TPnames
  PROVE  /\ NewClosure(t) \in Closures
         /\ NewClosure(t).tp = t
         /\ NewClosure(t).args \in Seq(Nat \cup {Unset})
         /\ Words(NewClosure(t)) \in Nat
<1>1. NewClosure(t) = [tp |-> t, args |-> [i \in DOMAIN Program[t].args |->
         IF i \in Forgotten(Len(Program[t].args)) THEN Unset ELSE Program[t].args[i]]]
  BY DEF NewClosure, Invoke
<1>2. Program[t].args \in Seq(Nat)
  BY DefinitionAssumption
<1>3. NewClosure(t).args \in Seq(Nat \cup {Unset})
  <2> DEFINE args == Program[t].args
             word(i) == IF i \in Forgotten(Len(args)) THEN Unset ELSE args[i]
  <2>1. \A i \in 1..Len(args) : word(i) \in Nat \cup {Unset}
    BY <1>2
  <2>2. NewClosure(t).args = [i \in 1..Len(args) |-> word(i)]
    BY <1>1, <1>2
  <2>3. Len(args) \in Nat
    BY <1>2
  <2> HIDE DEF word
  <2>4. [i \in 1..Len(args) |-> word(i)] \in Seq(Nat \cup {Unset})
    BY <2>1, <2>3
  <2> QED
    BY <2>2, <2>4
<1> QED
  BY <1>1, <1>3 DEF Closures, Words, ClosureWords, genericTpClosure

LEMMA TailTyped == queue \in Seq(Entries) => TailAddress \in Int
<1> SUFFICES ASSUME queue \in Seq(Entries), queue # <<>> PROVE TailAddress \in Int
  BY DEF TailAddress
<1>1. queue[Len(queue)] \in Entries
  OBVIOUS
<1>2. Words(queue[Len(queue)].closure) \in Nat
  BY <1>1, ClosureTyped DEF Entries, Closures
<1> QED
  BY <1>1, <1>2 DEF TailAddress, Entries

LEMMA PushTyped ==
  ASSUME TypeInv, NEW t \in TPnames, Push(NewClosure(t))
  PROVE  /\ queue' \in Seq(Entries)
         /\ unbuilt' \in [TPnames -> Int]
         /\ queueOwner' = queueOwner
<1>1. Position(NewClosure(t)) \in Int
  BY TailTyped DEF Position, TypeInv
<1>2. [closure |-> NewClosure(t), address |-> Position(NewClosure(t))] \in Entries
  BY <1>1, ClosureTyped DEF Entries
<1> QED
  BY <1>2, ClosureTyped DEF Push, TypeInv

LEMMA DecDepTyped ==
  ASSUME NEW slot \in SlotStates
  PROVE  DecDep(slot) \in SlotStates
BY WordAssumption DEF DecDep, SlotStates

LEMMA SignalledTyped ==
  ASSUME NEW slots \in Seq(SlotStates), NEW which
  PROVE  /\ Signalled(slots, which) \in Seq(SlotStates)
         /\ DOMAIN Signalled(slots, which) = DOMAIN slots
         /\ \A i \in DOMAIN slots : Signalled(slots, which)[i].template = slots[i].template
<1>1. \A i \in DOMAIN slots : IF i \in which THEN DecDep(slots[i]) \in SlotStates
                                            ELSE slots[i] \in SlotStates
  BY DecDepTyped
<1>2. \A slot \in SlotStates : DecDep(slot).template = slot.template
  BY DEF DecDep, SlotStates
<1> QED
  BY <1>1, <1>2 DEF Signalled

LEMMA ResetDepTyped ==
  ASSUME NEW slot \in SlotStates
  PROVE  /\ ResetDep(slot) \in SlotStates
         /\ ResetDep(slot).template = slot.template
BY DEF ResetDep, SlotStates, SlotType

LEMMA BuiltTyped ==
  ASSUME NEW id \in Nat, NEW t \in TPnames
  PROVE  Built(id, NewClosure(t)) \in Procedures
<1>1. NewClosure(t) \in Closures /\ NewClosure(t).tp = t
  BY ClosureTyped
<1>2. Program[t].slots \in Seq(SlotType)
  BY DefinitionAssumption
<1>3. [i \in DOMAIN Program[t].slots |-> InitSyncSlot(Program[t].slots[i])] \in Seq(SlotStates)
  <2>1. \A slot \in SlotType : InitSyncSlot(slot) \in SlotStates
    BY DEF InitSyncSlot, SlotStates, SlotType
  <2> QED
    BY <1>2, <2>1
<1>4. /\ UserInitCtor(t) \in Seq(SlotStates)
      /\ DOMAIN UserInitCtor(t) = DOMAIN Program[t].slots
      /\ \A s \in DOMAIN Program[t].slots : UserInitCtor(t)[s].template = Program[t].slots[s]
  <2> DEFINE assigned == [i \in DOMAIN Program[t].slots |-> InitSyncSlot(Program[t].slots[i])]
  <2>1. /\ DOMAIN assigned = DOMAIN Program[t].slots
        /\ \A s \in DOMAIN assigned : assigned[s].template = Program[t].slots[s]
    BY DEF InitSyncSlot
  <2>2. UserInitCtor(t) = Signalled(assigned, Program[t].signalled) /\ assigned \in Seq(SlotStates)
    BY <1>3 DEF UserInitCtor
  <2> HIDE DEF assigned
  <2> QED
    BY <2>1, <2>2, SignalledTyped
<1>5. [i \in DOMAIN Program[t].slots |-> 0] \in Seq(Nat)
  BY <1>2
<1>6. Built(id, NewClosure(t)) =
        [id |-> id, tp |-> t, args |-> NewClosure(t).args, slots |-> UserInitCtor(t),
         fired |-> [i \in DOMAIN Program[t].slots |-> 0]]
  BY <1>1 DEF Built, ClosureExec
<1>7. AsDefined(Built(id, NewClosure(t)))
  BY <1>4, <1>6 DEF AsDefined
<1> QED
  BY <1>1, <1>4, <1>5, <1>6, <1>7 DEF Procedures

LEMMA SeqExcept ==
  ASSUME NEW S, NEW s \in Seq(S), NEW i \in DOMAIN s, NEW v \in S
  PROVE  /\ [s EXCEPT ![i] = v] \in Seq(S)
         /\ DOMAIN [s EXCEPT ![i] = v] = DOMAIN s
OBVIOUS

LEMMA TypeInit == Init => TypeInv
BY PhaseInit DEF Init, TypeInv

LEMMA CountTyped ==
  ASSUME NEW counts \in Seq(Nat), NEW j
  PROVE  /\ [counts EXCEPT ![j] = @ + 1] \in Seq(Nat)
         /\ DOMAIN [counts EXCEPT ![j] = @ + 1] = DOMAIN counts
<1>1. \A k \in DOMAIN counts : [counts EXCEPT ![j] = @ + 1][k] \in Nat
  OBVIOUS
<1>2. DOMAIN [counts EXCEPT ![j] = @ + 1] = 1..Len(counts) /\ Len(counts) \in Nat
  OBVIOUS
<1>3. [counts EXCEPT ![j] = @ + 1] = [k \in 1..Len(counts) |-> [counts EXCEPT ![j] = @ + 1][k]]
  BY <1>2
<1> DEFINE new(k) == [counts EXCEPT ![j] = @ + 1][k]
<1>4. \A k \in 1..Len(counts) : new(k) \in Nat
  BY <1>1
<1>5. [counts EXCEPT ![j] = @ + 1] = [k \in 1..Len(counts) |-> new(k)]
  BY <1>3
<1> HIDE DEF new
<1>6. [k \in 1..Len(counts) |-> new(k)] \in Seq(Nat)
  BY <1>2, <1>4
<1> QED
  BY <1>5, <1>6

LEMMA ReadyInside ==
  ASSUME TypeInv, NEW c \in Cores, NEW p \in ReadyAhead(c)
  PROVE  p[1] \in DOMAIN heap[c] /\ p[2] \in DOMAIN heap[c][p[1]].slots
BY DEF ReadyAhead

LEMMA FireTyped ==
  ASSUME TypeInv, NEW c \in Cores, Fire(c)
  PROVE  /\ heap' \in [Cores -> Seq(Procedures)]
         /\ \A d \in Cores : /\ DOMAIN heap'[d] = DOMAIN heap[d]
                             /\ \A i \in DOMAIN heap[d] :
                                  DOMAIN heap'[d][i].slots = DOMAIN heap[d][i].slots
         /\ invoking' \in [Cores -> SUBSET TPnames]
<1> DEFINE i == at[c][1]
           j == at[c][2]
           p == heap[c][i]
           codelet == p.slots[j].template.fire
           slots == Signalled(p.slots, codelet.signals)
           fired == [p.fired EXCEPT ![j] = @ + 1]
           q == AfterFiring(p, j)
<1>1. i \in DOMAIN heap[c] /\ j \in DOMAIN p.slots /\ heap[c] \in Seq(Procedures)
  BY DEF TypeInv, Fire, Goto
<1>2. p \in Procedures
  BY <1>1
<1>3. p.slots \in Seq(SlotStates) /\ p.fired \in Seq(Nat)
  BY <1>2 DEF Procedures
<1>4. /\ slots \in Seq(SlotStates) /\ DOMAIN slots = DOMAIN p.slots
      /\ \A s \in DOMAIN p.slots : slots[s].template = p.slots[s].template
  BY <1>3, SignalledTyped
<1>5. fired \in Seq(Nat) /\ DOMAIN fired = DOMAIN p.fired
  BY <1>3, CountTyped
<1>6. q \in Procedures /\ q.slots = slots
  <2>1. q = [[p EXCEPT !.slots = slots] EXCEPT !.fired = fired]
    BY <1>2 DEF AfterFiring, Procedures
  <2>2. /\ q \in [id : Nat, tp : TPnames, args : {closure.args : closure \in Closures},
                  slots : Seq(SlotStates), fired : Seq(Nat)]
        /\ q.slots = slots /\ q.fired = fired /\ q.tp = p.tp /\ q.args = p.args
    BY <1>2, <1>4, <1>5, <2>1 DEF Procedures
  <2>3. AsDefined(p) /\ p.args = NewClosure(p.tp).args
    BY <1>2 DEF Procedures
  <2> HIDE DEF q, slots, fired
  <2>4. AsDefined(q)
    BY <1>4, <1>5, <2>2, <2>3 DEF AsDefined
  <2> QED
    BY <2>2, <2>3, <2>4 DEF Procedures
<1>7. heap' = [heap EXCEPT ![c] = [heap[c] EXCEPT ![i] = q]]
  BY <1>1 DEF Fire, Slot
<1>8. p.slots[j] \in SlotStates
  BY <1>1, <1>3
<1>9. codelet.invokes \in SUBSET TPnames
  BY <1>8 DEF SlotStates, SlotType, CodeletType
<1>10. invoking' = [invoking EXCEPT ![c] = codelet.invokes]
  BY DEF Fire, Slot
<1> HIDE DEF i, j, p, codelet, slots, fired, q
<1>11. /\ [heap[c] EXCEPT ![i] = q] \in Seq(Procedures)
       /\ DOMAIN [heap[c] EXCEPT ![i] = q] = DOMAIN heap[c]
  BY <1>1, <1>6, SeqExcept
<1>12. heap' \in [Cores -> Seq(Procedures)]
  BY <1>7, <1>11 DEF TypeInv
<1>13. \A d \in Cores : heap'[d] = IF d = c THEN [heap[c] EXCEPT ![i] = q] ELSE heap[d]
  BY <1>7 DEF TypeInv
<1>14. \A k \in DOMAIN heap[c] : [heap[c] EXCEPT ![i] = q][k] = IF k = i THEN q ELSE heap[c][k]
  BY <1>1
<1>15. p = heap[c][i]
  BY DEF p
<1>16. \A d \in Cores : /\ DOMAIN heap'[d] = DOMAIN heap[d]
                        /\ \A k \in DOMAIN heap[d] :
                             DOMAIN heap'[d][k].slots = DOMAIN heap[d][k].slots
  BY <1>4, <1>6, <1>11, <1>13, <1>14, <1>15
<1> QED
  BY <1>9, <1>10, <1>12, <1>16 DEF TypeInv

LEMMA EndOfSlotTyped ==
  ASSUME TypeInv, NEW c \in Cores, EndOfSlot(c)
  PROVE  /\ heap' \in [Cores -> Seq(Procedures)]
         /\ \A d \in Cores : /\ DOMAIN heap'[d] = DOMAIN heap[d]
                             /\ \A i \in DOMAIN heap[d] :
                                  DOMAIN heap'[d][i].slots = DOMAIN heap[d][i].slots
<1> DEFINE i == at[c][1]
           j == at[c][2]
           p == heap[c][i]
           slots == [p.slots EXCEPT ![j] = ResetDep(@)]
           q == [p EXCEPT !.slots = slots]
<1>1. i \in DOMAIN heap[c] /\ j \in DOMAIN p.slots /\ heap[c] \in Seq(Procedures)
  BY DEF TypeInv, EndOfSlot, Goto
<1>2. p \in Procedures
  BY <1>1
<1>3. p.slots \in Seq(SlotStates)
  BY <1>2 DEF Procedures
<1>13. p.slots[j] \in SlotStates
  BY <1>1, <1>3
<1>4. /\ slots \in Seq(SlotStates) /\ DOMAIN slots = DOMAIN p.slots
      /\ \A s \in DOMAIN p.slots : slots[s].template = p.slots[s].template
  BY <1>1, <1>3, <1>13, ResetDepTyped, SeqExcept
<1>5. q \in Procedures /\ q.slots = slots
  <2>1. /\ q \in [id : Nat, tp : TPnames, args : {closure.args : closure \in Closures},
                  slots : Seq(SlotStates), fired : Seq(Nat)]
        /\ q.slots = slots /\ q.fired = p.fired /\ q.tp = p.tp /\ q.args = p.args
    BY <1>2, <1>4 DEF Procedures
  <2>2. AsDefined(p) /\ p.args = NewClosure(p.tp).args
    BY <1>2 DEF Procedures
  <2> HIDE DEF q, slots
  <2>3. AsDefined(q)
    BY <1>4, <2>1, <2>2 DEF AsDefined
  <2> QED
    BY <2>1, <2>2, <2>3 DEF Procedures
<1>6. heap' = [heap EXCEPT ![c] = [heap[c] EXCEPT ![i] = q]]
  BY <1>1 DEF EndOfSlot
<1> HIDE DEF i, j, p, slots, q
<1>7. /\ [heap[c] EXCEPT ![i] = q] \in Seq(Procedures)
      /\ DOMAIN [heap[c] EXCEPT ![i] = q] = DOMAIN heap[c]
  BY <1>1, <1>5, SeqExcept
<1>8. heap' \in [Cores -> Seq(Procedures)]
  BY <1>6, <1>7 DEF TypeInv
<1>9. \A d \in Cores : heap'[d] = IF d = c THEN [heap[c] EXCEPT ![i] = q] ELSE heap[d]
  BY <1>6 DEF TypeInv
<1>10. \A k \in DOMAIN heap[c] : [heap[c] EXCEPT ![i] = q][k] = IF k = i THEN q ELSE heap[c][k]
  BY <1>1
<1>11. p = heap[c][i]
  BY DEF p
<1>12. \A d \in Cores : /\ DOMAIN heap'[d] = DOMAIN heap[d]
                        /\ \A k \in DOMAIN heap[d] :
                             DOMAIN heap'[d][k].slots = DOMAIN heap[d][k].slots
  BY <1>4, <1>5, <1>7, <1>9, <1>10, <1>11
<1> QED
  BY <1>8, <1>12
LEMMA PhasePC == PhaseInv => pc \in [Cores -> Locations] /\ barriers \in [Cores -> Nat]
BY DEF PhaseInv

\* The steps that neither build nor execute.
LEMMA QuietTyped ==
  ASSUME TypeInv, PhaseInv', NEW c \in Cores,
         \/ Test(c) \/ Own(c) \/ Look(c) \/ Disown(c) \/ ScanEnd(c) \/ FinishExecution(c)
         \/ EndOfCodelet(c) \/ PushedAll(c) \/ Leave(c) \/ Pass(c) \/ LastBarrier(c)
  PROVE  TypeInv'
<1>1. /\ UNCHANGED <<queue, unbuilt, heap, invoking, work>>
      /\ queueOwner' \in Cores \cup {0}
      /\ DOMAIN at' = Cores
  BY DEF TypeInv, Test, Own, Look, Disown, ScanEnd, FinishExecution, EndOfCodelet, PushedAll,
       Leave, Pass, LastBarrier, queueVars, scanVars
<1>2. pc' \in [Cores -> Locations]
  BY PhasePC DEF PhaseInv
<1>3. ASSUME NEW d \in Cores, pc'[d] \in {"fire", "invoke", "finish"}
      PROVE  at'[d] = at[d] /\ pc[d] \in {"fire", "invoke", "finish"}
  <2>1. CASE ScanEnd(c)
    BY <1>3, <2>1, PhasePC DEF ScanEnd, Goto, TypeInv
  <2>2. CASE \/ Test(c) \/ Own(c) \/ Look(c) \/ Disown(c) \/ FinishExecution(c)
             \/ EndOfCodelet(c) \/ PushedAll(c) \/ Leave(c) \/ Pass(c) \/ LastBarrier(c)
    BY <1>3, <2>2, PhasePC DEF Test, Own, Look, Disown, FinishExecution, EndOfCodelet, PushedAll,
         Leave, Pass, LastBarrier, Arrive, AfterQueue, Goto, TypeInv, scanVars
  <2> QED
    BY <2>1, <2>2
<1> QED
  BY <1>1, <1>3 DEF TypeInv

LEMMA TypeNext == TypeInv /\ [Next]_vars => TypeInv'
<1> SUFFICES ASSUME TypeInv, [Next]_vars PROVE TypeInv'
  OBVIOUS
<1>a. PhaseInv'
  BY PhaseNext DEF TypeInv
<1>b. pc \in [Cores -> Locations] /\ barriers \in [Cores -> Nat]
  BY PhasePC DEF TypeInv
<1>1. ASSUME NEW c \in Cores, Begin(c) PROVE TypeInv'
  <2>1. /\ barriers[c] \in Nat
        /\ barriers[c] % 2 = 0
        /\ barriers[c] < 2 * Len(Experiments)
    BY <1>1 DEF Begin, Goto, TypeInv, PhaseInv, Running, Locations
  <2>2. (barriers[c] \div 2) + 1 \in 1..Len(Experiments)
    BY <2>1, LenExperiments
  <2>3. Experiment(c) \in ExperimentType
    BY <2>2, ExperimentAssumption DEF Experiment
  <2>4. work' \in [Cores -> Seq(TPnames)]
    BY <1>1, <2>3 DEF Begin, ExperimentType, TypeInv
  <2> QED
    BY <1>1, <1>a, <1>b, <2>4 DEF Begin, Goto, TypeInv, scanVars
<1>2. ASSUME NEW c \in Cores, PushNext(c) PROVE TypeInv'
  <2>1. Head(work[c]) \in TPnames /\ Tail(work[c]) \in Seq(TPnames)
    BY <1>2 DEF PushNext, TypeInv
  <2>2. /\ queue' \in Seq(Entries)
        /\ unbuilt' \in [TPnames -> Int]
        /\ queueOwner' = queueOwner
    BY <1>2, <2>1, PushTyped DEF PushNext, TypeInv, queueVars
  <2> QED
    BY <1>2, <1>a, <2>1, <2>2 DEF PushNext, TypeInv, scanVars
<1>3. ASSUME NEW c \in Cores, Build(c) PROVE TypeInv'
  <2>1. Head(queue) \in Entries
    BY <1>3 DEF Build, TypeInv
  <2>2. PICK t \in TPnames : Head(queue).closure = NewClosure(t)
    BY <2>1 DEF Entries, Closures
  <2>3. Len(heap[c]) \in Nat
    BY DEF TypeInv
  <2>4. heap' \in [Cores -> Seq(Procedures)]
    BY <1>3, <2>2, <2>3, BuiltTyped DEF Build, TypeInv
  <2>5. unbuilt' \in [TPnames -> Int]
    BY <1>3, <2>2, ClosureTyped DEF Build, TypeInv
  <2>6. \A d \in Cores : pc'[d] \in {"fire", "invoke", "finish"} =>
            pc[d] \in {"fire", "invoke", "finish"} /\ heap'[d] = heap[d]
    BY <1>3, <1>b DEF Build, Goto, TypeInv
  <2> QED
    BY <1>3, <1>a, <2>4, <2>5, <2>6 DEF Build, TypeInv, scanVars
<1>4. ASSUME NEW c \in Cores, Pop(c) PROVE TypeInv'
  <2>1. Tail(queue) \in Seq(Entries)
    BY <1>4 DEF Pop, TypeInv
  <2>2. \A d \in Cores : pc'[d] \in {"fire", "invoke", "finish"} =>
            pc[d] \in {"fire", "invoke", "finish"}
    BY <1>4, <1>b DEF Pop, Goto, AfterQueue
  <2> QED
    BY <1>4, <1>a, <2>1, <2>2 DEF Pop, TypeInv, scanVars
<1>5. ASSUME NEW c \in Cores, Ready(c) PROVE TypeInv'
  <2>1. PICK p \in ReadyAhead(c) : at' = [at EXCEPT ![c] = p]
    BY <1>5 DEF Ready
  <2>2. p[1] \in DOMAIN heap[c] /\ p[2] \in DOMAIN heap[c][p[1]].slots
    BY ReadyInside
  <2>3. \A d \in Cores : at'[d] = IF d = c THEN p ELSE at[d]
    BY <2>1 DEF TypeInv
  <2>4. \A d \in Cores : pc'[d] = IF d = c THEN "fire" ELSE pc[d]
    BY <1>5, <1>b DEF Ready, Goto
  <2> QED
    BY <1>5, <1>a, <2>1, <2>2, <2>3, <2>4 DEF Ready, TypeInv, queueVars
<1>6. ASSUME NEW c \in Cores, Fire(c) PROVE TypeInv'
  <2>1. \A d \in Cores : pc'[d] \in {"fire", "invoke", "finish"} =>
            pc[d] \in {"fire", "invoke", "finish"}
    BY <1>6, <1>b DEF Fire, Goto
  <2> QED
    BY <1>6, <1>a, <2>1, FireTyped DEF Fire, TypeInv, queueVars
<1>7. ASSUME NEW c \in Cores, InvokeNext(c) \/ InvokeRefused(c) PROVE TypeInv'
  <2>1. /\ queue' \in Seq(Entries)
        /\ unbuilt' \in [TPnames -> Int]
        /\ queueOwner' = queueOwner
    <3>1. CASE InvokeNext(c)
      BY <3>1, PushTyped DEF InvokeNext, TypeInv
    <3>2. CASE InvokeRefused(c)
      BY <3>2 DEF InvokeRefused, TypeInv, queueVars
    <3> QED
      BY <1>7, <3>1, <3>2
  <2>2. invoking' \in [Cores -> SUBSET TPnames]
    BY <1>7 DEF InvokeNext, InvokeRefused, TypeInv
  <2>3. \A d \in Cores : pc'[d] \in {"fire", "invoke", "finish"} =>
            pc[d] \in {"fire", "invoke", "finish"}
    BY <1>7, <1>b DEF InvokeNext, InvokeRefused, Goto
  <2> QED
    BY <1>7, <1>a, <2>1, <2>2, <2>3 DEF InvokeNext, InvokeRefused, TypeInv
<1>8. ASSUME NEW c \in Cores, EndOfSlot(c) PROVE TypeInv'
  <2>1. \A d \in Cores : pc'[d] \in {"fire", "invoke", "finish"} =>
            pc[d] \in {"fire", "invoke", "finish"} /\ at'[d] = at[d]
    BY <1>8, <1>b DEF EndOfSlot, Goto, TypeInv
  <2>2. /\ heap' \in [Cores -> Seq(Procedures)]
        /\ \A d \in Cores : /\ DOMAIN heap'[d] = DOMAIN heap[d]
                            /\ \A i \in DOMAIN heap[d] :
                                 DOMAIN heap'[d][i].slots = DOMAIN heap[d][i].slots
    BY <1>8, EndOfSlotTyped
  <2>3. /\ queue' = queue /\ queueOwner' = queueOwner /\ unbuilt' = unbuilt
        /\ DOMAIN at' = Cores /\ invoking' = invoking /\ work' = work
    BY <1>8 DEF EndOfSlot, TypeInv, queueVars
  <2>4. ASSUME NEW d \in Cores, pc'[d] \in {"fire", "invoke", "finish"}
        PROVE  /\ at'[d][1] \in DOMAIN heap'[d]
               /\ at'[d][2] \in DOMAIN heap'[d][at'[d][1]].slots
    <3>1. at'[d] = at[d] /\ pc[d] \in {"fire", "invoke", "finish"}
      BY <2>1, <2>4
    <3>2. at[d][1] \in DOMAIN heap[d] /\ at[d][2] \in DOMAIN heap[d][at[d][1]].slots
      BY <3>1 DEF TypeInv
    <3>3. DOMAIN heap'[d][at[d][1]].slots = DOMAIN heap[d][at[d][1]].slots
      BY <2>2, <3>2
    <3> QED
      BY <2>2, <3>1, <3>2, <3>3
  <2> QED
    BY <1>a, <2>2, <2>3, <2>4 DEF TypeInv
<1>9. ASSUME NEW c \in Cores, Reset(c) PROVE TypeInv'
  <2>1. pc' = [pc EXCEPT ![c] = "waiting"] /\ heap' = [heap EXCEPT ![c] = <<>>]
    BY <1>9 DEF Reset, Arrive, Goto
  <2>2. \A d \in Cores : pc'[d] \in {"fire", "invoke", "finish"} =>
            pc[d] \in {"fire", "invoke", "finish"} /\ heap'[d] = heap[d]
    BY <2>1, <1>b DEF TypeInv
  <2>3. <<>> \in Seq(Procedures) /\ <<>> \in Seq(Entries)
    OBVIOUS
  <2>4. heap' \in [Cores -> Seq(Procedures)]
    BY <2>1, <2>3 DEF TypeInv
  <2>5. queue' \in Seq(Entries) /\ unbuilt' \in [TPnames -> Int]
    <3>1. CASE c = Leader
      BY <1>9, <2>3, <3>1 DEF Reset
    <3>2. CASE c # Leader
      BY <1>9, <3>2 DEF Reset, TypeInv
    <3> QED
      BY <3>1, <3>2
  <2>6. queueOwner' = queueOwner /\ at' = at /\ invoking' = invoking /\ work' = work
    BY <1>9 DEF Reset, scanVars
  <2>7. queueOwner' \in Cores \cup {0} /\ DOMAIN at' = Cores
        /\ invoking' \in [Cores -> SUBSET TPnames] /\ work' \in [Cores -> Seq(TPnames)]
    BY <2>6 DEF TypeInv
  <2>8. ASSUME NEW d \in Cores, pc'[d] \in {"fire", "invoke", "finish"}
        PROVE  /\ at'[d][1] \in DOMAIN heap'[d]
               /\ at'[d][2] \in DOMAIN heap'[d][at'[d][1]].slots
    BY <2>2, <2>6, <2>8 DEF TypeInv
  <2> QED
    BY <1>a, <2>4, <2>5, <2>7, <2>8 DEF TypeInv
<1>10. CASE UNCHANGED vars
  BY <1>10, <1>a DEF TypeInv, vars, queueVars, scanVars
<1> QED
  BY <1>a, <1>1, <1>2, <1>3, <1>4, <1>5, <1>6, <1>7, <1>8, <1>9, <1>10, QuietTyped DEF Next, Step

LEMMA TypeInvariant == Spec => []TypeInv
<1>1. Init => TypeInv
  BY TypeInit
<1>2. TypeInv /\ [Next]_vars => TypeInv'
  BY TypeNext
<1> QED
  BY <1>1, <1>2, PTL DEF Spec

-----------------------------------------------------------------------------
\* Where the closures lie.  The queue goes round at most once between its head
\* and its tail.

End(e) == e.address + Words(e.closure)

\* The first k closures lie one behind the other, and so do the others, which
\* have gone to the beginning and stay before the first.
Rows(q, k) ==
    \A i, j \in DOMAIN q : i < j =>
        IF i <= k /\ k < j THEN End(q[j]) < q[i].address ELSE End(q[i]) <= q[j].address

LayInv(q) ==
    /\ \A i \in DOMAIN q : q[i].address \in Nat /\ End(q[i]) <= QueueWords
    /\ \E k \in 0..Len(q) : Rows(q, k)

LEMMA EntryEnds ==
  ASSUME NEW e \in Entries
  PROVE  e.address \in Int /\ Words(e.closure) \in Nat /\ End(e) \in Int /\ e.address < End(e)
<1>1. PICK t \in TPnames : e.closure = NewClosure(t)
  BY DEF Entries, Closures
<1>2. NewClosure(t).args \in Seq(Nat \cup {Unset})
  BY ClosureTyped
<1>3. Len(NewClosure(t).args) \in Nat
  BY <1>2
<1>4. Words(e.closure) = 3 + Len(NewClosure(t).args)
  BY <1>1 DEF Words, ClosureWords, genericTpClosure
<1>5. e.address \in Int
  BY DEF Entries
<1> QED
  BY <1>3, <1>4, <1>5 DEF End

\* One more closure, behind the others.
LEMMA AppendRows ==
  ASSUME NEW q \in Seq(Entries), NEW e, NEW m \in Nat,
         Rows(q, m),
         \A i \in DOMAIN q : IF i <= m THEN End(e) < q[i].address ELSE End(q[i]) <= e.address,
         m <= Len(q)
  PROVE  Rows(Append(q, e), m)
<1>1. /\ DOMAIN Append(q, e) = 1..(Len(q) + 1)
      /\ DOMAIN q = 1..Len(q) /\ Len(q) \in Nat
      /\ \A i \in 1..Len(q) : Append(q, e)[i] = q[i]
      /\ Append(q, e)[Len(q) + 1] = e
  OBVIOUS
<1> SUFFICES ASSUME NEW i \in 1..(Len(q) + 1), NEW j \in 1..(Len(q) + 1), i < j
             PROVE  IF i <= m /\ m < j THEN End(Append(q, e)[j]) < Append(q, e)[i].address
                    ELSE End(Append(q, e)[i]) <= Append(q, e)[j].address
  BY <1>1 DEF Rows
<1>2. i \in DOMAIN q /\ Append(q, e)[i] = q[i]
  BY <1>1
<1>3. CASE j = Len(q) + 1
  BY <1>1, <1>2, <1>3
<1>4. CASE j # Len(q) + 1
  <2>1. j \in DOMAIN q /\ Append(q, e)[j] = q[j]
    BY <1>1, <1>4
  <2> QED
    BY <1>2, <2>1 DEF Rows
<1> QED
  BY <1>3, <1>4

LEMMA PushLays ==
  ASSUME queue \in Seq(Entries), LayInv(queue), NEW t \in TPnames, Push(NewClosure(t))
  PROVE  LayInv(queue')
<1> DEFINE W == Words(NewClosure(t))
           p == Position(NewClosure(t))
           e == [closure |-> NewClosure(t), address |-> p]
           n == Len(queue)
<1>0. /\ W \in Nat /\ QueueWords \in Nat \ {0} /\ n \in Nat
      /\ DOMAIN queue = 1..n
  BY ClosureTyped, ExperimentAssumption
<1>1. /\ queue' = Append(queue, e)
      /\ W < MaxFreeSpace
  BY DEF Push, Fits
<1>2. End(e) = p + W
  BY DEF End
<1>3. \A i \in 1..n : /\ queue[i].address \in Nat /\ End(queue[i]) \in Nat
                      /\ End(queue[i]) <= QueueWords
                      /\ queue[i].address < End(queue[i])
  <2>1. \A i \in 1..n : queue[i] \in Entries
    OBVIOUS
  <2>2. \A i \in 1..n : queue[i].address \in Nat /\ End(queue[i]) <= QueueWords
    BY <1>0 DEF LayInv
  <2>3. \A i \in 1..n : End(queue[i]) \in Int /\ queue[i].address < End(queue[i])
    <3> HIDE DEF n
    <3> QED
      BY <2>1, EntryEnds
  <2> HIDE DEF n
  <2> QED
    BY <2>2, <2>3
\* What is left to show, once p and the place of e in the rows are known.
<1>4. ASSUME p \in Nat, p + W <= QueueWords, NEW m \in 0..n, Rows(queue, m),
             \A i \in 1..n : IF i <= m THEN p + W < queue[i].address ELSE End(queue[i]) <= p
      PROVE  LayInv(queue')
  <2>1. End(e) <= QueueWords /\ e.address \in Nat
    BY <1>2, <1>4
  <2>2. Rows(Append(queue, e), m)
    <3>1. \A i \in DOMAIN queue : IF i <= m THEN End(e) < queue[i].address
                                   ELSE End(queue[i]) <= e.address
      BY <1>0, <1>2, <1>4
    <3>2. m \in Nat /\ m <= Len(queue)
      BY <1>0, <1>4
    <3> HIDE DEF e
    <3> QED
      BY <1>4, <3>1, <3>2, AppendRows
  <2>3. /\ DOMAIN Append(queue, e) = 1..(n + 1)
        /\ Len(Append(queue, e)) = n + 1
        /\ \A i \in 1..n : Append(queue, e)[i] = queue[i]
        /\ Append(queue, e)[n + 1] = e
    OBVIOUS
  <2> HIDE DEF e, n, p, W
  <2>4. \A i \in 1..(n + 1) : /\ Append(queue, e)[i].address \in Nat
                              /\ End(Append(queue, e)[i]) <= QueueWords
    <3> SUFFICES ASSUME NEW i \in 1..(n + 1)
                 PROVE  /\ Append(queue, e)[i].address \in Nat
                        /\ End(Append(queue, e)[i]) <= QueueWords
      OBVIOUS
    <3>1. CASE i = n + 1
      BY <2>1, <2>3, <3>1
    <3>2. CASE i # n + 1
      BY <1>0, <1>3, <2>3, <3>2
    <3> QED
      BY <3>1, <3>2
  <2>5. m \in 0..(n + 1)
    BY <1>0, <1>4
  <2> QED
    BY <1>1, <2>2, <2>3, <2>4, <2>5 DEF LayInv
<1>5. CASE queue = <<>>
  <2>1. n = 0 /\ HeadAddress = 0 /\ TailAddress = 0
    BY <1>5 DEF HeadAddress, TailAddress
  <2>2. p = 0 /\ W <= QueueWords
    BY <1>0, <1>1, <2>1 DEF Position, MaxFreeSpace
  <2>3. Rows(queue, 0)
    BY <1>0, <2>1 DEF Rows
  <2> HIDE DEF p, W, n
  <2> QED
    BY <1>0, <1>4, <2>1, <2>2, <2>3
<1>6. CASE queue # <<>>
  <2> DEFINE h == queue[1].address
             u == End(queue[n])
  <2>1. n \in Nat \ {0} /\ 1 \in 1..n /\ n \in 1..n
    BY <1>0, <1>6
  <2>2. HeadAddress = h /\ TailAddress = u
    BY <1>6 DEF HeadAddress, TailAddress, End
  <2>3. h \in Nat /\ u \in Nat /\ h <= QueueWords /\ u <= QueueWords
    BY <1>0, <1>3, <2>1
  <2>4. PICK k \in 0..n : Rows(queue, k)
    BY DEF LayInv
  <2>5. \A i, j \in 1..n : i < j =>
          IF i <= k /\ k < j THEN End(queue[j]) < queue[i].address
                             ELSE End(queue[i]) <= queue[j].address
    BY <1>0, <2>4 DEF Rows
  <2>6. MaxFreeSpace = IF u < h THEN h - u
                       ELSE IF QueueWords - u >= h THEN QueueWords - u ELSE h
    BY <2>2 DEF MaxFreeSpace
  <2>7. p = IF u <= h \/ QueueWords - u >= W THEN u ELSE 0
    BY <2>2 DEF Position
  <2>8. \A i \in 1..n : queue[i].address \in Nat /\ End(queue[i]) \in Nat
    BY <1>0, <1>3
  <2> HIDE DEF p, W, n, h, u
  <2>9. CASE u < h
    <3>1. p = u /\ p + W < h /\ p + W <= QueueWords
      BY <1>0, <1>1, <2>3, <2>6, <2>7, <2>9
    <3>2. 1 <= k /\ k < n
      <4>1. n # 1
        BY <1>3, <2>1, <2>8, <2>9 DEF h, u
      <4>2. 1 < n
        BY <2>1, <4>1
      <4>3. IF 1 <= k /\ k < n THEN TRUE ELSE End(queue[1]) <= queue[n].address
        BY <2>1, <2>5, <4>2
      <4>4. End(queue[1]) <= queue[n].address => h < u
        <5>1. h < End(queue[1]) /\ queue[n].address < u
          BY <1>3, <2>1 DEF h, u
        <5>2. /\ h \in Nat /\ u \in Nat
              /\ End(queue[1]) \in Nat /\ queue[n].address \in Nat
          BY <2>1, <2>3, <2>8
        <5> QED
          BY <5>1, <5>2
      <4> QED
        BY <2>3, <2>9, <4>3, <4>4
    <3>3. ASSUME NEW i \in 1..n
          PROVE  IF i <= k THEN p + W < queue[i].address ELSE End(queue[i]) <= p
      <4>1. CASE i <= k
        <5>1. h <= queue[i].address
          BY <1>3, <2>1, <2>5, <2>8, <4>1 DEF h
        <5> QED
          BY <1>0, <2>3, <2>8, <3>1, <4>1, <5>1
      <4>2. CASE ~(i <= k)
        <5>1. End(queue[i]) <= u
          BY <1>3, <2>1, <2>5, <2>8, <4>2 DEF u
        <5> QED
          BY <3>1, <4>2, <5>1
      <4> QED
        BY <4>1, <4>2
    <3> QED
      BY <1>4, <2>3, <2>4, <3>1, <3>3
  <2>10. CASE h <= u
    <3>1. h < u
      <4>1. CASE n = 1
        BY <1>3, <2>1, <2>8, <4>1 DEF h, u
      <4>2. CASE n # 1
        BY <1>3, <2>1, <2>3, <2>5, <2>8, <2>10, <4>2 DEF h, u
      <4> QED
        BY <4>1, <4>2
    <3>2. \A i, j \in 1..n : i < j => End(queue[i]) <= queue[j].address
      <4>1. ~(1 <= k /\ k < n)
        BY <2>1, <2>3, <2>5, <3>1 DEF h, u
      <4> QED
        BY <2>1, <2>4, <2>5, <4>1
    <3>3. \A m \in {0, n} : Rows(queue, m)
      BY <1>0, <2>1, <3>2 DEF Rows
    <3>4. CASE QueueWords - u >= W
      <4>1. p = u
        BY <2>7, <3>4
      <4>2. p + W <= QueueWords
        BY <1>0, <2>3, <3>4, <4>1
      <4>3. \A i \in 1..n : End(queue[i]) <= p
        BY <1>3, <2>1, <2>8, <3>2, <4>1 DEF u
      <4> QED
        BY <1>4, <2>1, <2>3, <3>3, <4>1, <4>2, <4>3
    <3>5. CASE ~(QueueWords - u >= W)
      <4>1. p = 0 /\ W < h
        BY <1>0, <1>1, <2>3, <2>6, <2>7, <3>1, <3>5
      <4>2. p + W <= QueueWords
        BY <1>0, <2>3, <3>1, <4>1
      <4>3. \A i \in 1..n : p + W < queue[i].address
        <5>1. ASSUME NEW i \in 1..n PROVE h <= queue[i].address
          <6>1. CASE i = 1
            BY <2>3, <6>1 DEF h
          <6>2. CASE i # 1
            <7>1. End(queue[1]) <= queue[i].address
              BY <2>1, <3>2, <6>2
            <7>2. h < End(queue[1]) /\ End(queue[1]) \in Nat /\ queue[i].address \in Nat
              BY <1>3, <2>1 DEF h
            <7> QED
              BY <2>3, <7>1, <7>2
          <6> QED
            BY <6>1, <6>2
        <5> QED
          BY <1>0, <2>3, <2>8, <4>1, <5>1
      <4> QED
        BY <1>4, <2>1, <3>3, <4>1, <4>2, <4>3
    <3> QED
      BY <3>4, <3>5
  <2> QED
    BY <2>3, <2>9, <2>10
<1> QED
  BY <1>5, <1>6

LEMMA PopLays ==
  ASSUME NEW q \in Seq(Entries), q # <<>>, LayInv(q)
  PROVE  LayInv(Tail(q))
<1>1. /\ Len(q) \in Nat \ {0}
      /\ DOMAIN q = 1..Len(q)
      /\ DOMAIN Tail(q) = 1..(Len(q) - 1) /\ Len(Tail(q)) = Len(q) - 1
      /\ \A i \in 1..(Len(q) - 1) : Tail(q)[i] = q[i + 1]
  OBVIOUS
<1>2. PICK k \in 0..Len(q) : Rows(q, k)
  BY DEF LayInv
<1> DEFINE m == IF k = 0 THEN 0 ELSE k - 1
<1>3. ASSUME NEW i \in 1..(Len(q) - 1), NEW j \in 1..(Len(q) - 1), i < j
      PROVE  IF i <= m /\ m < j THEN End(Tail(q)[j]) < Tail(q)[i].address
             ELSE End(Tail(q)[i]) <= Tail(q)[j].address
  <2>1. /\ i + 1 \in DOMAIN q /\ j + 1 \in DOMAIN q /\ i + 1 < j + 1
        /\ i <= m /\ m < j <=> i + 1 <= k /\ k < j + 1
    BY <1>1, <1>3
  <2>2. IF i + 1 <= k /\ k < j + 1 THEN End(q[j + 1]) < q[i + 1].address
                                   ELSE End(q[i + 1]) <= q[j + 1].address
    BY <1>2, <2>1 DEF Rows
  <2> QED
    BY <1>1, <2>1, <2>2
<1>4. m \in 0..Len(Tail(q))
  BY <1>1
<1>5. Rows(Tail(q), m)
  BY <1>1, <1>3 DEF Rows
<1>6. \A i \in DOMAIN Tail(q) : /\ Tail(q)[i].address \in Nat
                               /\ End(Tail(q)[i]) <= QueueWords
  BY <1>1 DEF LayInv
<1> QED
  BY <1>4, <1>5, <1>6 DEF LayInv

LEMMA LayNext ==
  ASSUME TypeInv, LayInv(queue), [Next]_vars
  PROVE  LayInv(queue')
<1>0. queue \in Seq(Entries)
  BY DEF TypeInv
<1>1. ASSUME NEW t \in TPnames, Push(NewClosure(t)) PROVE LayInv(queue')
  BY <1>0, <1>1, PushLays
<1>2. ASSUME NEW c \in Cores, PushNext(c) PROVE LayInv(queue')
  <2>1. Head(work[c]) \in TPnames
    BY <1>2 DEF PushNext, TypeInv
  <2>2. Push(NewClosure(Head(work[c]))) \/ queue' = queue
    BY <1>2 DEF PushNext, queueVars
  <2> QED
    BY <1>1, <2>1, <2>2
<1>3. ASSUME NEW c \in Cores, InvokeNext(c) PROVE LayInv(queue')
  <2>1. PICK t \in invoking[c] : Push(NewClosure(t))
    BY <1>3 DEF InvokeNext
  <2>2. t \in TPnames
    BY DEF TypeInv
  <2> QED
    BY <1>1, <2>1, <2>2
<1>4. ASSUME NEW c \in Cores, Pop(c) PROVE LayInv(queue')
  BY <1>0, <1>4, PopLays DEF Pop
<1>5. ASSUME NEW c \in Cores, Reset(c) PROVE LayInv(queue')
  <2>1. queue' = <<>> \/ queue' = queue
    BY <1>5 DEF Reset
  <2>2. LayInv(<<>>)
    BY DEF LayInv, Rows
  <2> QED
    BY <2>1, <2>2
<1>6. ASSUME NEW c \in Cores,
             \/ Begin(c) \/ PushedAll(c) \/ Test(c) \/ Own(c) \/ Look(c) \/ Build(c) \/ Disown(c)
             \/ ScanEnd(c) \/ Ready(c) \/ Fire(c) \/ InvokeRefused(c) \/ FinishExecution(c)
             \/ EndOfCodelet(c) \/ EndOfSlot(c) \/ Leave(c) \/ Pass(c) \/ LastBarrier(c)
      PROVE  LayInv(queue')
  <2>1. queue' = queue
    BY <1>6 DEF Begin, PushedAll, Test, Own, Look, Build, Disown, ScanEnd, Ready, Fire,
         InvokeRefused, FinishExecution, EndOfCodelet, EndOfSlot, Leave, Pass, LastBarrier,
         queueVars
  <2> QED
    BY <2>1
<1>7. CASE UNCHANGED vars
  BY <1>7 DEF vars, queueVars
<1> QED
  BY <1>2, <1>3, <1>4, <1>5, <1>6, <1>7 DEF Next, Step

\* What TypeInv leaves out.
RestInv ==
    /\ finalSignal \in 0..2
    /\ left \in [Cores -> Nat]
    /\ stillExecuting \in [Cores -> BOOLEAN]
    /\ \A c \in Cores : barriers[c] <= 2 * Len(Experiments)

LEMMA ArriveRest ==
  ASSUME TypeInv, NEW c \in Cores, NEW from \in {"push", "leave", "reset"}, Arrive(c, from),
         \A d \in Cores : barriers[d] <= 2 * Len(Experiments)
  PROVE  \A d \in Cores : barriers'[d] <= 2 * Len(Experiments)
<1>1. barriers[c] \in Nat /\ barriers[c] < 2 * Len(Experiments)
  BY DEF Arrive, Goto, TypeInv, PhaseInv, Running, Locations
<1>2. \A d \in Cores : barriers'[d] = IF d = c THEN barriers[c] + 1 ELSE barriers[d]
  BY DEF Arrive, TypeInv, PhaseInv
<1> QED
  BY <1>1, <1>2, LenExperiments

LEMMA RestNext == TypeInv /\ RestInv /\ [Next]_vars => RestInv'
<1> SUFFICES ASSUME TypeInv, RestInv, [Next]_vars PROVE RestInv'
  OBVIOUS
<1>1. ASSUME NEW c \in Cores, Ready(c) PROVE RestInv'
  <2>1. PICK p \in ReadyAhead(c) :
          left' = [left EXCEPT ![c] = heap[c][p[1]].slots[p[2]].template.numExec]
    BY <1>1 DEF Ready
  <2>2. p[1] \in DOMAIN heap[c] /\ p[2] \in DOMAIN heap[c][p[1]].slots
    BY ReadyInside
  <2>3. heap[c][p[1]] \in Procedures
    BY <2>2 DEF TypeInv
  <2>4. heap[c][p[1]].slots[p[2]] \in SlotStates
    BY <2>2, <2>3 DEF Procedures
  <2>5. heap[c][p[1]].slots[p[2]].template.numExec \in Nat
    BY <2>4 DEF SlotStates, SlotType
  <2> QED
    BY <1>1, <2>1, <2>5 DEF Ready, RestInv
<1>2. ASSUME NEW c \in Cores, Fire(c) PROVE RestInv'
  <2>1. left' \in [Cores -> Nat]
    BY <1>2 DEF Fire, RestInv
  <2>2. finalSignal' \in 0..2
    BY <1>2 DEF Fire, RestInv
  <2> QED
    BY <1>2, <2>1, <2>2 DEF Fire, RestInv
<1>3. ASSUME NEW c \in Cores, PushedAll(c) \/ Leave(c) \/ Reset(c) \/ LastBarrier(c)
      PROVE  RestInv'
  <2>1. \A d \in Cores : barriers'[d] <= 2 * Len(Experiments)
    BY <1>3, ArriveRest DEF PushedAll, Leave, Reset, LastBarrier, RestInv
  <2>2. finalSignal' \in 0..2 /\ left' = left /\ stillExecuting' = stillExecuting
    BY <1>3 DEF PushedAll, Leave, Reset, LastBarrier, scanVars, RestInv
  <2> QED
    BY <2>1, <2>2 DEF RestInv
<1>4. ASSUME NEW c \in Cores,
             \/ Begin(c) \/ PushNext(c) \/ Own(c) \/ Look(c) \/ Build(c) \/ Pop(c) \/ Disown(c)
             \/ ScanEnd(c) \/ InvokeNext(c) \/ InvokeRefused(c) \/ EndOfCodelet(c)
      PROVE  RestInv'
  <2>1. UNCHANGED <<finalSignal, left, stillExecuting, barriers>>
    BY <1>4 DEF Begin, PushNext, Own, Look, Build, Pop, Disown, ScanEnd, InvokeNext,
         InvokeRefused, EndOfCodelet, scanVars
  <2> QED
    BY <2>1 DEF RestInv
<1>5. ASSUME NEW c \in Cores, Test(c) \/ EndOfSlot(c) PROVE RestInv'
  <2>1. UNCHANGED <<finalSignal, left, barriers>>
    BY <1>5 DEF Test, EndOfSlot
  <2>2. stillExecuting' \in [Cores -> BOOLEAN]
    BY <1>5 DEF Test, EndOfSlot, RestInv
  <2> QED
    BY <2>1, <2>2 DEF RestInv
<1>7. ASSUME NEW c \in Cores, FinishExecution(c) \/ Pass(c) PROVE RestInv'
  <2>1. UNCHANGED <<left, stillExecuting, barriers>>
    BY <1>7 DEF FinishExecution, Pass, scanVars
  <2>2. finalSignal' \in 0..2
    BY <1>7 DEF FinishExecution, Pass, RestInv
  <2> QED
    BY <2>1, <2>2 DEF RestInv
<1>6. CASE UNCHANGED vars
  BY <1>6 DEF vars, scanVars, RestInv
<1> QED
  BY <1>1, <1>2, <1>3, <1>4, <1>5, <1>6, <1>7 DEF Next, Step

LEMMA TypeFollows ==
  ASSUME TypeInv, RestInv, LayInv(queue)
  PROVE  TypeOK
<1>1. TailAddress <= QueueWords
  <2>1. CASE queue = <<>>
    BY <2>1, ExperimentAssumption DEF TailAddress
  <2>2. CASE queue # <<>>
    <3>1. Len(queue) \in DOMAIN queue
      BY <2>2 DEF TypeInv
    <3> QED
      BY <2>2, <3>1 DEF TailAddress, LayInv, End
  <2> QED
    BY <2>1, <2>2
<1>2. ASSUME NEW c \in Cores, NEW i \in DOMAIN heap[c]
      PROVE  /\ heap[c][i].tp \in TPnames
             /\ DOMAIN heap[c][i].slots = DOMAIN Program[heap[c][i].tp].slots
             /\ \A s \in DOMAIN heap[c][i].slots :
                  heap[c][i].slots[s].currentDep \in 0..MaxWord
  <2>1. heap[c][i] \in Procedures
    BY <1>2 DEF TypeInv
  <2>2. heap[c][i].slots \in Seq(SlotStates)
    BY <2>1 DEF Procedures
  <2>3. \A s \in DOMAIN heap[c][i].slots : heap[c][i].slots[s] \in SlotStates
    BY <2>2
  <2> QED
    BY <2>1, <2>3 DEF Procedures, AsDefined, SlotStates
<1>3. \A c \in Cores : left[c] \in Nat /\ invoking[c] \subseteq TPnames
  BY DEF TypeInv, RestInv
<1>4. \A c \in Cores : barriers[c] \in 0..(2 * Len(Experiments))
  BY LenExperiments DEF TypeInv, PhaseInv, RestInv
<1>5. /\ finalSignal \in 0..2 /\ queueOwner \in Cores \cup {0} /\ unbuilt \in [TPnames -> Int]
      /\ stillExecuting \in [Cores -> BOOLEAN] /\ pc \in [Cores -> Locations]
  BY PhasePC DEF TypeInv, RestInv
<1> QED
  BY <1>1, <1>2, <1>3, <1>4, <1>5 DEF TypeOK

\* Whatever the procedures, the experiments, the cores and the queue, the slots of
\* each procedure built are the ones its definition asks for, with counts that
\* fit a word, and no closure runs over the end of the queue's memory.
THEOREM TypeCorrect == Spec => []TypeOK
<1> DEFINE Inv == TypeInv /\ RestInv /\ LayInv(queue)
<1>2. Init => Inv
  <2> SUFFICES ASSUME Init PROVE Inv
    OBVIOUS
  <2>1. LayInv(queue)
    BY DEF Init, LayInv, Rows
  <2>2. RestInv
    BY LenExperiments DEF Init, RestInv
  <2> QED
    BY <2>1, <2>2, TypeInit
<1>3. Inv /\ [Next]_vars => Inv'
  BY TypeNext, RestNext, LayNext
<1>4. Inv => TypeOK
  BY TypeFollows
<1> HIDE DEF Inv
<1> QED
  BY <1>2, <1>3, <1>4, PTL DEF Spec

----------------------------------------------------------------------------
\* The arguments.

LEMMA ArgumentsOfClosure ==
  ASSUME NEW t \in TPnames, Len(Program[t].args) # 20
  PROVE  NewClosure(t).args = Program[t].args
<1>1. Program[t].args \in Seq(Nat)
  BY DefinitionAssumption
<1>2. Forgotten(Len(Program[t].args)) = {}
  BY DEF Forgotten
<1> QED
  BY <1>1, <1>2 DEF NewClosure, Invoke

\* Whatever the procedures, the experiments and the queue, the constructor of a
\* threaded procedure is called with the arguments given to its _invoke, as long
\* as none has twenty of them: the macro for that number loses the last.
THEOREM ArgumentsForAllButTwenty ==
  (\A t \in TPnames : Len(Program[t].args) # 20) => (Spec => []ArgumentsArrive)
<1> SUFFICES ASSUME \A t \in TPnames : Len(Program[t].args) # 20
             PROVE  Spec => []ArgumentsArrive
  OBVIOUS
<1>1. ASSUME TypeInv PROVE ArgumentsArrive
  <2> SUFFICES ASSUME NEW c \in Cores, NEW i \in DOMAIN heap[c]
               PROVE  heap[c][i].args = Program[heap[c][i].tp].args
    BY DEF ArgumentsArrive
  <2>1. heap[c][i] \in Procedures
    BY <1>1 DEF TypeInv
  <2>2. heap[c][i].tp \in TPnames /\ heap[c][i].args = NewClosure(heap[c][i].tp).args
    BY <2>1 DEF Procedures
  <2> QED
    BY <2>2, ArgumentsOfClosure
<1> QED
  BY <1>1, TypeInvariant, PTL

-----------------------------------------------------------------------------
\* Who builds: only the core that owns the queue looks at its head and removes it.

OwnerInv ==
    \A c \in Cores : pc[c] \in {"build", "pop"} => queueOwner = c /\ queue # <<>>

IInv == TypeInv /\ OwnerInv

\* A reset finds no core between the experiments' barriers.
LEMMA NobodyInside ==
  ASSUME PhaseInv, NEW c \in Cores, pc[c] = "reset"
  PROVE  \A d \in Cores : pc[d] \notin Running
<1> SUFFICES ASSUME NEW d \in Cores, pc[d] \in Running PROVE FALSE
  OBVIOUS
<1>1. barriers[c] \in Nat /\ barriers[d] \in Nat
  BY DEF PhaseInv
<1>2. barriers[c] % 2 = 1 /\ barriers[d] % 2 = 0
  BY DEF PhaseInv
<1>3. barriers[c] <= barriers[d] /\ barriers[d] <= barriers[c]
  BY DEF PhaseInv, Running
<1> QED
  BY <1>1, <1>2, <1>3
LEMMA OwnerNext == IInv /\ [Next]_vars => OwnerInv'
<1> SUFFICES ASSUME IInv, [Next]_vars PROVE OwnerInv'
  OBVIOUS
<1>a. pc \in [Cores -> Locations]
  BY PhasePC DEF IInv, TypeInv
\* A step that leaves the queue, its owner, and who is about to build or to pop.
<1>b. ASSUME \A d \in Cores : pc'[d] \in {"build", "pop"} => pc[d] \in {"build", "pop"},
             queue' = queue, queueOwner' = queueOwner
      PROVE  OwnerInv'
  BY <1>b DEF IInv, OwnerInv
<1>1. ASSUME NEW c \in Cores, Begin(c) PROVE OwnerInv'
  BY <1>1, <1>a, ExperimentAssumption DEF Begin, Goto, IInv, OwnerInv
<1>2. ASSUME NEW c \in Cores, PushNext(c) \/ InvokeNext(c) PROVE OwnerInv'
  <2>1. pc' = pc /\ queueOwner' = queueOwner
    BY <1>2 DEF PushNext, InvokeNext, Push, queueVars
  <2>2. queue # <<>> => queue' # <<>>
    <3>1. queue' = queue \/ \E e : queue' = Append(queue, e)
      BY <1>2 DEF PushNext, InvokeNext, Push, queueVars
    <3>2. \A e : Len(Append(queue, e)) = Len(queue) + 1 /\ Len(queue) \in Nat
      BY DEF IInv, TypeInv
    <3>3. \A e : Append(queue, e) # <<>>
      BY <3>2
    <3> QED
      BY <3>1, <3>3
  <2> QED
    BY <2>1, <2>2 DEF IInv, OwnerInv
<1>3. ASSUME NEW c \in Cores, Own(c) PROVE OwnerInv'
  BY <1>3, <1>a, ExperimentAssumption DEF Own, Goto, IInv, OwnerInv
<1>4. ASSUME NEW c \in Cores, Look(c) PROVE OwnerInv'
  BY <1>4, <1>a DEF Look, AfterQueue, Goto, queueVars, IInv, OwnerInv
<1>5. ASSUME NEW c \in Cores, Build(c) PROVE OwnerInv'
  <2>1. queue' = queue /\ queueOwner' = queueOwner
    BY <1>5 DEF Build
  <2>2. \A d \in Cores : pc'[d] \in {"build", "pop"} => pc[d] \in {"build", "pop"}
    BY <1>5, <1>a DEF Build, Goto
  <2> QED
    BY <1>b, <2>1, <2>2
<1>6. ASSUME NEW c \in Cores, Pop(c) PROVE OwnerInv'
  <2>1. queueOwner = c /\ queueOwner' = c
    BY <1>6 DEF Pop, Goto, IInv, OwnerInv
  <2>2. pc' = [pc EXCEPT ![c] = AfterQueue(c)] /\ AfterQueue(c) \notin {"build", "pop"}
    BY <1>6 DEF Pop, Goto, AfterQueue
  <2>3. \A d \in Cores : pc'[d] \notin {"build", "pop"}
    BY <1>a, <2>1, <2>2 DEF IInv, OwnerInv
  <2> QED
    BY <2>3 DEF OwnerInv
<1>7. ASSUME NEW c \in Cores, Disown(c) PROVE OwnerInv'
  BY <1>7, <1>a DEF Disown, Goto, IInv, OwnerInv
<1>8. ASSUME NEW c \in Cores, Leave(c) PROVE OwnerInv'
  BY <1>8, <1>a DEF Leave, Arrive, Goto, IInv, OwnerInv
<1>9. ASSUME NEW c \in Cores, Reset(c) PROVE OwnerInv'
  <2>1. \A d \in Cores : pc[d] \notin {"build", "pop"}
    BY <1>9, NobodyInside DEF Reset, Arrive, Goto, IInv, TypeInv, Running, Locations
  <2>2. \A d \in Cores : pc'[d] \notin {"build", "pop"}
    BY <1>9, <1>a, <2>1 DEF Reset, Arrive, Goto
  <2> QED
    BY <2>2 DEF OwnerInv
<1>10. ASSUME NEW c \in Cores,
              \/ PushedAll(c) \/ Test(c) \/ ScanEnd(c) \/ Ready(c) \/ Fire(c) \/ InvokeRefused(c)
              \/ FinishExecution(c) \/ EndOfCodelet(c) \/ EndOfSlot(c) \/ Pass(c) \/ LastBarrier(c)
       PROVE  OwnerInv'
  <2>1. queue' = queue /\ queueOwner' = queueOwner
    BY <1>10 DEF PushedAll, Test, ScanEnd, Ready, Fire, InvokeRefused, FinishExecution,
         EndOfCodelet, EndOfSlot, Pass, LastBarrier, queueVars
  <2>2. PICK to \in Locations \ {"build", "pop"} : pc' = [pc EXCEPT ![c] = to]
    BY <1>10 DEF PushedAll, Test, ScanEnd, Ready, Fire, InvokeRefused, FinishExecution,
         EndOfCodelet, EndOfSlot, Pass, LastBarrier, Arrive, Goto, Locations
  <2>3. \A d \in Cores : pc'[d] \in {"build", "pop"} => pc[d] \in {"build", "pop"}
    BY <1>a, <2>2
  <2> QED
    BY <1>b, <2>1, <2>3
<1>11. CASE UNCHANGED vars
  BY <1>11, <1>b DEF vars, queueVars
<1> QED
  BY <1>1, <1>2, <1>3, <1>4, <1>5, <1>6, <1>7, <1>8, <1>9, <1>10, <1>11 DEF Next, Step
-----------------------------------------------------------------------------
\* How many closures of a procedure there are in the queue, and how that changes.

Of(q, t) == {i \in DOMAIN q : q[i].closure.tp = t}

LEMMA OfFinite ==
  ASSUME NEW q \in Seq(Entries), NEW t
  PROVE  IsFiniteSet(Of(q, t)) /\ Cardinality(Of(q, t)) \in Nat
<1>1. DOMAIN q = 1..Len(q) /\ Len(q) \in Nat
  OBVIOUS
<1>2. IsFiniteSet(DOMAIN q)
  BY <1>1, FS_Interval
<1>3. Of(q, t) \in SUBSET DOMAIN q
  BY DEF Of
<1> QED
  BY <1>2, <1>3, FS_Subset, FS_CardinalityType

LEMMA OfAppend ==
  ASSUME NEW q \in Seq(Entries), NEW e \in Entries, NEW t
  PROVE  Cardinality(Of(Append(q, e), t)) =
           Cardinality(Of(q, t)) + (IF e.closure.tp = t THEN 1 ELSE 0)
<1>1. /\ DOMAIN Append(q, e) = 1..(Len(q) + 1)
      /\ DOMAIN q = 1..Len(q)
      /\ Len(q) \in Nat
      /\ \A i \in 1..Len(q) : Append(q, e)[i] = q[i]
      /\ Append(q, e)[Len(q) + 1] = e
  OBVIOUS
<1>2. Len(q) + 1 \notin Of(q, t)
  BY <1>1 DEF Of
<1>3. CASE e.closure.tp = t
  <2>1. Of(Append(q, e), t) = Of(q, t) \cup {Len(q) + 1}
    BY <1>1, <1>3 DEF Of
  <2> QED
    BY <1>2, <1>3, <2>1, OfFinite, FS_AddElement
<1>4. CASE e.closure.tp # t
  <2>1. Of(Append(q, e), t) = Of(q, t)
    BY <1>1, <1>4 DEF Of
  <2> QED
    BY <1>4, <2>1, OfFinite
<1> QED
  BY <1>3, <1>4

LEMMA OfTail ==
  ASSUME NEW q \in Seq(Entries), q # <<>>, NEW t
  PROVE  Cardinality(Of(Tail(q), t)) =
           Cardinality(Of(q, t)) - (IF Head(q).closure.tp = t THEN 1 ELSE 0)
<1> DEFINE A == Of(Tail(q), t)
           B == Of(q, t) \ {1}
           next == [i \in A |-> i + 1]
<1>1. /\ DOMAIN q = 1..Len(q)
      /\ Len(q) \in Nat \ {0}
      /\ Head(q) = q[1]
      /\ DOMAIN Tail(q) = 1..(Len(q) - 1)
      /\ \A i \in 1..(Len(q) - 1) : Tail(q)[i] = q[i + 1]
  OBVIOUS
<1>2. Tail(q) \in Seq(Entries)
  OBVIOUS
<1>3. A \subseteq Nat /\ \A i \in A : i + 1 \in B
  BY <1>1 DEF Of
<1>4. \A j \in B : j - 1 \in A /\ (j - 1) + 1 = j
  BY <1>1 DEF Of
<1>5. next \in Bijection(A, B)
  <2> HIDE DEF A, B
  <2>1. next \in [A -> B]
    BY <1>3
  <2>2. \A i, j \in A : next[i] = next[j] => i = j
    BY <1>3
  <2>3. \A j \in B : \E i \in A : next[i] = j
    BY <1>4
  <2> QED
    BY <2>1, <2>2, <2>3 DEF Bijection, Injection, Surjection, IsInjective
<1>6. Cardinality(A) = Cardinality(B)
  <2>1. IsFiniteSet(A)
    BY <1>2, OfFinite
  <2>2. ExistsBijection(A, B)
    BY <1>5 DEF ExistsBijection
  <2> QED
    BY <2>1, <2>2, FS_Bijection
<1>7. 1 \in Of(q, t) <=> Head(q).closure.tp = t
  BY <1>1 DEF Of
<1>8. Cardinality(B) = Cardinality(Of(q, t)) - (IF Head(q).closure.tp = t THEN 1 ELSE 0)
  <2>1. IsFiniteSet(Of(q, t)) /\ Cardinality(Of(q, t)) \in Nat
    BY OfFinite
  <2>2. Cardinality(B) = IF 1 \in Of(q, t) THEN Cardinality(Of(q, t)) - 1
                                            ELSE Cardinality(Of(q, t))
    BY <2>1, FS_RemoveElement
  <2> HIDE DEF B
  <2> QED
    BY <1>7, <2>1, <2>2
<1> QED
  BY <1>6, <1>8
-----------------------------------------------------------------------------
\* A closure is built once.

AtPop(t) == {c \in Cores : pc[c] = "pop" /\ queue # <<>> /\ Head(queue).closure.tp = t}

LEMMA BuiltOnceAsCounts ==
  BuiltOnce <=> \A t \in TPnames : unbuilt[t] = Cardinality(Of(queue, t)) - Cardinality(AtPop(t))
BY DEF BuiltOnce, InQueue, BeingRemoved, Of, AtPop

LEMMA NobodyPops ==
  ASSUME \A c \in Cores : pc[c] # "pop", NEW t
  PROVE  Cardinality(AtPop(t)) = 0
<1>1. AtPop(t) = {}
  BY DEF AtPop
<1> QED
  BY <1>1, FS_EmptySet

LEMMA OnePops ==
  ASSUME NEW c \in Cores, queue # <<>>, NEW t,
         \A d \in Cores : pc[d] = "pop" <=> d = c
  PROVE  Cardinality(AtPop(t)) = IF Head(queue).closure.tp = t THEN 1 ELSE 0
<1>1. CASE Head(queue).closure.tp = t
  <2>1. AtPop(t) = {c}
    BY <1>1 DEF AtPop
  <2> QED
    BY <1>1, <2>1, FS_Singleton
<1>2. CASE Head(queue).closure.tp # t
  <2>1. AtPop(t) = {}
    BY <1>2 DEF AtPop
  <2> QED
    BY <1>2, <2>1, FS_EmptySet
<1> QED
  BY <1>1, <1>2

LEMMA AtPopNat ==
  ASSUME OwnerInv, NEW t
  PROVE  Cardinality(AtPop(t)) \in Nat
<1>1. CASE \A c \in Cores : pc[c] # "pop"
  BY <1>1, NobodyPops
<1>2. ASSUME NEW c \in Cores, pc[c] = "pop" PROVE Cardinality(AtPop(t)) \in Nat
  <2>1. queue # <<>> /\ \A d \in Cores : pc[d] = "pop" <=> d = c
    BY <1>2 DEF OwnerInv
  <2> QED
    BY <2>1, OnePops
<1> QED
  BY <1>1, <1>2

\* A push leaves the head, where there is one, and nobody pops where there is none.
LEMMA PushCounted ==
  ASSUME IInv, BuiltOnce, NEW s \in TPnames, Push(NewClosure(s)), pc' = pc
  PROVE  BuiltOnce'
<1> DEFINE e == [closure |-> NewClosure(s), address |-> Position(NewClosure(s))]
<1>1. e \in Entries /\ e.closure.tp = s
  BY TailTyped, ClosureTyped DEF Entries, Position, IInv, TypeInv
<1>2. queue' = Append(queue, e) /\ queue \in Seq(Entries)
  BY DEF Push, IInv, TypeInv
<1> HIDE DEF e
<1> SUFFICES ASSUME NEW t \in TPnames
             PROVE  unbuilt'[t] = Cardinality(Of(queue', t)) - Cardinality(AtPop(t)')
  BY DEF BuiltOnce, InQueue, BeingRemoved, Of, AtPop
<1>3. unbuilt'[t] = unbuilt[t] + (IF s = t THEN 1 ELSE 0)
  BY ClosureTyped DEF Push, IInv, TypeInv
<1>4. Cardinality(Of(queue', t)) = Cardinality(Of(queue, t)) + (IF s = t THEN 1 ELSE 0)
  BY <1>1, <1>2, OfAppend
<1>5. AtPop(t)' = AtPop(t)
  <2>1. queue # <<>> => queue' # <<>> /\ Head(queue') = Head(queue)
    BY <1>2
  <2>2. queue = <<>> => \A c \in Cores : pc[c] # "pop"
    BY DEF IInv, OwnerInv
  <2> QED
    BY <2>1, <2>2 DEF AtPop
<1>6. /\ unbuilt[t] = Cardinality(Of(queue, t)) - Cardinality(AtPop(t))
      /\ unbuilt[t] \in Int
  BY BuiltOnceAsCounts DEF IInv, TypeInv
<1>7. Cardinality(Of(queue, t)) \in Nat /\ Cardinality(AtPop(t)) \in Nat
  BY <1>2, OfFinite, AtPopNat DEF IInv
<1> QED
  BY <1>3, <1>4, <1>5, <1>6, <1>7

LEMMA BuildCounted ==
  ASSUME IInv, BuiltOnce, NEW c \in Cores, Build(c)
  PROVE  BuiltOnce'
<1> SUFFICES ASSUME NEW t \in TPnames
             PROVE  unbuilt'[t] = Cardinality(Of(queue, t)) - Cardinality(AtPop(t)')
  BY DEF Build, BuiltOnce, InQueue, BeingRemoved, Of, AtPop
<1>1. queue # <<>> /\ queue' = queue /\ \A d \in Cores : pc[d] # "pop"
  BY DEF Build, Goto, IInv, OwnerInv
<1>2. \A d \in Cores : pc'[d] = "pop" <=> d = c
  BY <1>1 DEF Build, Goto, IInv, TypeInv, PhaseInv
<1>3. Cardinality(AtPop(t)) = 0
  BY <1>1, NobodyPops
<1>4. Cardinality(AtPop(t)') = IF Head(queue).closure.tp = t THEN 1 ELSE 0
  <2>1. CASE Head(queue).closure.tp = t
    <3>1. AtPop(t)' = {c}
      BY <1>1, <1>2, <2>1 DEF AtPop
    <3> QED
      BY <2>1, <3>1, FS_Singleton
  <2>2. CASE Head(queue).closure.tp # t
    <3>1. AtPop(t)' = {}
      BY <1>1, <1>2, <2>2 DEF AtPop
    <3> QED
      BY <2>2, <3>1, FS_EmptySet
  <2> QED
    BY <2>1, <2>2
<1>5. unbuilt'[t] = unbuilt[t] - (IF Head(queue).closure.tp = t THEN 1 ELSE 0)
  BY DEF Build, IInv, TypeInv
<1>6. unbuilt[t] = Cardinality(Of(queue, t)) - Cardinality(AtPop(t))
  BY BuiltOnceAsCounts
<1>7. Cardinality(Of(queue, t)) \in Nat
  BY OfFinite DEF IInv, TypeInv
<1> QED
  BY <1>3, <1>4, <1>5, <1>6, <1>7

LEMMA PopCounted ==
  ASSUME IInv, BuiltOnce, NEW c \in Cores, Pop(c)
  PROVE  BuiltOnce'
<1> SUFFICES ASSUME NEW t \in TPnames
             PROVE  unbuilt[t] = Cardinality(Of(Tail(queue), t)) - Cardinality(AtPop(t)')
  BY DEF Pop, BuiltOnce, InQueue, BeingRemoved, Of, AtPop
<1>1. queue # <<>> /\ pc[c] = "pop" /\ \A d \in Cores : pc[d] = "pop" <=> d = c
  BY DEF Pop, Goto, IInv, OwnerInv
<1>2. \A d \in Cores : pc'[d] # "pop"
  BY <1>1 DEF Pop, AfterQueue, Goto, IInv, TypeInv, PhaseInv
<1>3. Cardinality(AtPop(t)) = IF Head(queue).closure.tp = t THEN 1 ELSE 0
  BY <1>1, OnePops
<1>4. Cardinality(AtPop(t)') = 0
  <2>1. AtPop(t)' = {}
    BY <1>2 DEF AtPop
  <2> QED
    BY <2>1, FS_EmptySet
<1>5. Cardinality(Of(Tail(queue), t)) =
        Cardinality(Of(queue, t)) - (IF Head(queue).closure.tp = t THEN 1 ELSE 0)
  BY <1>1, OfTail DEF IInv, TypeInv
<1>6. unbuilt[t] = Cardinality(Of(queue, t)) - Cardinality(AtPop(t))
  BY BuiltOnceAsCounts
<1>7. Cardinality(Of(queue, t)) \in Nat
  BY OfFinite DEF IInv, TypeInv
<1> QED
  BY <1>3, <1>4, <1>5, <1>6, <1>7

LEMMA ResetCounted ==
  ASSUME IInv, BuiltOnce, NEW c \in Cores, Reset(c)
  PROVE  BuiltOnce'
<1>1. \A d \in Cores : pc[d] # "pop"
  BY NobodyInside DEF Reset, Arrive, Goto, IInv, TypeInv, Running, Locations
<1>2. \A d \in Cores : pc'[d] # "pop"
  BY <1>1 DEF Reset, Arrive, Goto, IInv, TypeInv, PhaseInv
<1> SUFFICES ASSUME NEW t \in TPnames
             PROVE  unbuilt'[t] = Cardinality(Of(queue', t)) - Cardinality(AtPop(t)')
  BY DEF BuiltOnce, InQueue, BeingRemoved, Of, AtPop
<1>3. Cardinality(AtPop(t)) = 0
  BY <1>1, NobodyPops
<1>4. Cardinality(AtPop(t)') = 0
  <2>1. AtPop(t)' = {}
    BY <1>2 DEF AtPop
  <2> QED
    BY <2>1, FS_EmptySet
<1>5. CASE c = Leader
  <2>1. queue' = <<>> /\ unbuilt'[t] = 0
    BY <1>5 DEF Reset
  <2>2. Of(<<>>, t) = {}
    BY DEF Of
  <2> QED
    BY <1>4, <2>1, <2>2, FS_EmptySet
<1>6. CASE c # Leader
  <2>1. queue' = queue /\ unbuilt' = unbuilt
    BY <1>6 DEF Reset
  <2> QED
    BY <1>3, <1>4, <2>1, BuiltOnceAsCounts
<1> QED
  BY <1>5, <1>6

LEMMA BuiltOnceNext == IInv /\ BuiltOnce /\ [Next]_vars => BuiltOnce'
<1> SUFFICES ASSUME IInv, BuiltOnce, [Next]_vars PROVE BuiltOnce'
  OBVIOUS
<1>a. pc \in [Cores -> Locations]
  BY PhasePC DEF IInv, TypeInv
\* A step that leaves the queue, the count of it and who is about to pop.
<1>b. ASSUME queue' = queue, unbuilt' = unbuilt, \A d \in Cores : pc'[d] = "pop" <=> pc[d] = "pop"
      PROVE  BuiltOnce'
  <2>1. \A t : AtPop(t)' = AtPop(t)
    BY <1>b DEF AtPop
  <2>2. \A t \in TPnames : unbuilt'[t] = Cardinality(Of(queue', t)) - Cardinality(AtPop(t)')
    BY <1>b, <2>1, BuiltOnceAsCounts
  <2> QED
    BY <2>2 DEF BuiltOnce, InQueue, BeingRemoved, Of, AtPop
<1>1. ASSUME NEW c \in Cores, PushNext(c) PROVE BuiltOnce'
  <2>1. Head(work[c]) \in TPnames
    BY <1>1 DEF PushNext, IInv, TypeInv
  <2>2. CASE Push(NewClosure(Head(work[c])))
    BY <1>1, <2>1, <2>2, PushCounted DEF PushNext
  <2>3. CASE UNCHANGED queueVars
    BY <1>1, <1>b, <2>3 DEF PushNext, queueVars
  <2> QED
    BY <1>1, <2>2, <2>3 DEF PushNext
<1>2. ASSUME NEW c \in Cores, InvokeNext(c) PROVE BuiltOnce'
  <2>1. PICK t \in invoking[c] : Push(NewClosure(t))
    BY <1>2 DEF InvokeNext
  <2>2. t \in TPnames
    BY DEF IInv, TypeInv
  <2> QED
    BY <1>2, <2>1, <2>2, PushCounted DEF InvokeNext
<1>3. ASSUME NEW c \in Cores,
             \/ Begin(c) \/ PushedAll(c) \/ Test(c) \/ Own(c) \/ Look(c) \/ Disown(c) \/ ScanEnd(c)
             \/ Ready(c) \/ Fire(c) \/ InvokeRefused(c) \/ FinishExecution(c) \/ EndOfCodelet(c)
             \/ EndOfSlot(c) \/ Leave(c) \/ Pass(c) \/ LastBarrier(c)
      PROVE  BuiltOnce'
  <2>1. queue' = queue /\ unbuilt' = unbuilt
    BY <1>3 DEF Begin, PushedAll, Test, Own, Look, Disown, ScanEnd, Ready, Fire, InvokeRefused,
         FinishExecution, EndOfCodelet, EndOfSlot, Leave, Pass, LastBarrier, queueVars
  <2>2. PICK to \in Locations \ {"pop"} : pc[c] # "pop" /\ pc' = [pc EXCEPT ![c] = to]
    BY <1>3 DEF Begin, PushedAll, Test, Own, Look, Disown, ScanEnd, Ready, Fire, InvokeRefused,
         FinishExecution, EndOfCodelet, EndOfSlot, Leave, Pass, LastBarrier, Arrive, Goto,
         AfterQueue, Locations
  <2>3. \A d \in Cores : pc'[d] = "pop" <=> pc[d] = "pop"
    BY <1>a, <2>2
  <2> QED
    BY <1>b, <2>1, <2>3
<1>4. CASE UNCHANGED vars
  BY <1>4, <1>b DEF vars, queueVars
<1> QED
  BY <1>1, <1>2, <1>3, <1>4, BuildCounted, PopCounted, ResetCounted DEF Next, Step

LEMMA BuiltOnceInit == Init => IInv /\ BuiltOnce
<1> SUFFICES ASSUME Init PROVE IInv /\ BuiltOnce
  OBVIOUS
<1>1. \A c \in Cores : pc[c] \notin {"build", "pop"}
  BY DEF Init
<1>2. OwnerInv
  BY <1>1 DEF OwnerInv
<1>3. \A t : Of(queue, t) = {}
  BY DEF Init, Of
<1>4. \A t : Cardinality(AtPop(t)) = 0
  BY <1>1, NobodyPops
<1>5. \A t \in TPnames : unbuilt[t] = 0
  BY DEF Init
<1> QED
  BY <1>2, <1>3, <1>4, <1>5, TypeInit, BuiltOnceAsCounts, FS_EmptySet DEF IInv

\* Whatever the procedures, the experiments, the cores and the queue, a closure
\* that the queue has accepted stays in it until it is built, and is built once:
\* between a consumer's look at the head and its removal nobody else does either.
THEOREM EveryClosureIsBuiltOnce == Spec => []BuiltOnce
<1>1. Init => IInv /\ BuiltOnce
  BY BuiltOnceInit
<1>2. IInv /\ BuiltOnce /\ [Next]_vars => (IInv /\ BuiltOnce)'
  BY TypeNext, OwnerNext, BuiltOnceNext DEF IInv
<1> QED
  BY <1>1, <1>2, PTL DEF Spec
-----------------------------------------------------------------------------
\* What the count of a slot stands for: the codelets that have still to signal it.

Remaining(p, s) == {x \in Signals(p.tp, s) : x[2] > p.fired[x[1]]}

\* A slot has fired nothing yet, is firing and has n codelets left, or has fired all.
Fresh(p, s) == p.fired[s] = 0 /\ p.slots[s].currentDep = Cardinality(Remaining(p, s))
Amid(p, s, n) == /\ p.fired[s] + n = p.slots[s].template.numExec
                 /\ Remaining(p, s) = {}
                 /\ p.slots[s].currentDep = 0
Over(p, s) == Done(p, s) /\ Remaining(p, s) = {} /\ p.slots[s].currentDep > 0

\* Slot j of procedure p is firing, none where j is 0.
CountInv(p, j, n) ==
    \A s \in DOMAIN p.slots : IF s = j THEN Amid(p, s, n) ELSE Fresh(p, s) \/ Over(p, s)

Executing(c) == pc[c] \in {"fire", "invoke", "finish"}
Active(c, i) == IF Executing(c) /\ at[c][1] = i THEN at[c][2] ELSE 0

SlotInv ==
    \A c \in Cores : \A i \in DOMAIN heap[c] : CountInv(heap[c][i], Active(c, i), left[c])

LEMMA SignalsAre ==
  ASSUME NEW t \in TPnames, NEW s, NEW x
  PROVE  x \in Signals(t, s) <=>
           \E r \in Signallers(t, s) : \E n \in 1..Program[t].slots[r].numExec : x = <<r, n>>
<1>1. ASSUME x \in Signals(t, s)
      PROVE  \E r \in Signallers(t, s) : \E n \in 1..Program[t].slots[r].numExec : x = <<r, n>>
  <2>1. PICK r \in Signallers(t, s) : x \in {r} \X (1..Program[t].slots[r].numExec)
    BY <1>1 DEF Signals
  <2>2. PICK a \in {r}, n \in 1..Program[t].slots[r].numExec : x = <<a, n>>
    BY <2>1
  <2> QED
    BY <2>2
<1>2. ASSUME NEW r \in Signallers(t, s), NEW n \in 1..Program[t].slots[r].numExec, x = <<r, n>>
      PROVE  x \in Signals(t, s)
  <2>1. x \in {r} \X (1..Program[t].slots[r].numExec)
    BY <1>2
  <2> QED
    BY <2>1 DEF Signals
<1> QED
  BY <1>1, <1>2

LEMMA SignalsFinite ==
  ASSUME NEW t \in TPnames, NEW s
  PROVE  IsFiniteSet(Signals(t, s))
<1> DEFINE R == Signallers(t, s)
           of(r) == {r} \X (1..Program[t].slots[r].numExec)
           M == {of(r) : r \in R}
           f == [r \in R |-> of(r)]
<1>1. /\ Program[t].slots \in Seq(SlotType)
      /\ DOMAIN Program[t].slots = 1..Len(Program[t].slots)
      /\ Len(Program[t].slots) \in Nat
  BY DefinitionAssumption
<1>2. IsFiniteSet(R)
  <2>1. R \in SUBSET (1..Len(Program[t].slots))
    BY <1>1 DEF Signallers
  <2>2. IsFiniteSet(1..Len(Program[t].slots))
    BY <1>1, FS_Interval
  <2> HIDE DEF R
  <2> QED
    BY <2>1, <2>2, FS_Subset
<1>3. \A r \in R : Program[t].slots[r].numExec \in Nat
  <2>1. \A r \in R : r \in DOMAIN Program[t].slots
    BY DEF Signallers
  <2> HIDE DEF R
  <2>2. \A r \in R : Program[t].slots[r] \in SlotType
    BY <1>1, <2>1
  <2> QED
    BY <2>2 DEF SlotType
<1>4. ASSUME NEW r \in R PROVE IsFiniteSet(of(r))
  <2> DEFINE n == Program[t].slots[r].numExec
             g == [k \in 1..n |-> <<r, k>>]
  <2>1. n \in Nat
    BY <1>3
  <2>2. of(r) = {r} \X (1..n)
    OBVIOUS
  <2> HIDE DEF n, of
  <2>3. g \in Surjection(1..n, of(r))
    <3>1. \A x \in of(r) : \E k \in 1..n : x = <<r, k>>
      BY <2>2
    <3>2. \A k \in 1..n : <<r, k>> \in of(r)
      BY <2>2
    <3> QED
      BY <3>1, <3>2 DEF Surjection
  <2>4. IsFiniteSet(1..n)
    BY <2>1, FS_Interval
  <2> HIDE DEF g
  <2> QED
    BY <2>3, <2>4, FS_Surjection
<1>5. f \in Surjection(R, M)
  <2> HIDE DEF R, of
  <2> QED
    BY DEF Surjection
<1>6. Signals(t, s) = UNION M
  BY DEF Signals
<1>7. \A T \in M : IsFiniteSet(T)
  BY <1>4
<1> HIDE DEF R, M, f, of
<1>8. IsFiniteSet(M)
  BY <1>2, <1>5, FS_Surjection
<1> QED
  BY <1>6, <1>7, <1>8, FS_UNION

LEMMA RemainingFinite ==
  ASSUME NEW p, p.tp \in TPnames, NEW s
  PROVE  /\ IsFiniteSet(Remaining(p, s))
         /\ Cardinality(Remaining(p, s)) \in Nat
         /\ Cardinality(Remaining(p, s)) = 0 <=> Remaining(p, s) = {}
<1>1. Remaining(p, s) \in SUBSET Signals(p.tp, s)
  BY DEF Remaining
<1>2. IsFiniteSet(Signals(p.tp, s))
  BY SignalsFinite
<1> HIDE DEF Remaining
<1>3. IsFiniteSet(Remaining(p, s))
  BY <1>1, <1>2, FS_Subset
<1> QED
  BY <1>3, FS_CardinalityType, FS_EmptySet

\* What the type of a procedure says of its slots.
LEMMA SlotFacts ==
  ASSUME NEW p \in Procedures
  PROVE  /\ p.tp \in TPnames
         /\ DOMAIN p.slots = DOMAIN Program[p.tp].slots
         /\ DOMAIN p.fired = DOMAIN p.slots
         /\ 0 \notin DOMAIN p.slots
         /\ \A s \in DOMAIN p.slots :
              /\ p.slots[s] \in SlotStates
              /\ p.slots[s].template = Program[p.tp].slots[s]
              /\ p.slots[s].template.numExec \in Nat
              /\ p.slots[s].currentDep \in 0..MaxWord
              /\ p.fired[s] \in Nat
<1>1. p.slots \in Seq(SlotStates) /\ p.fired \in Seq(Nat) /\ p.tp \in TPnames /\ AsDefined(p)
  BY DEF Procedures
<1>2. /\ DOMAIN p.slots = DOMAIN Program[p.tp].slots
      /\ DOMAIN p.fired = DOMAIN p.slots
      /\ \A s \in DOMAIN p.slots : p.slots[s].template = Program[p.tp].slots[s]
  BY <1>1 DEF AsDefined
<1>3. \A s \in DOMAIN p.slots : p.slots[s] \in SlotStates
  BY <1>1
<1>4. 0 \notin DOMAIN p.slots
  BY <1>1
<1>5. \A s \in DOMAIN p.fired : p.fired[s] \in Nat
  BY <1>1
<1> QED
  BY <1>1, <1>2, <1>3, <1>4, <1>5 DEF SlotStates, SlotType

\* Where nothing fires, what is left does not matter.
LEMMA IdleCounts ==
  ASSUME NEW p \in Procedures, NEW m, NEW n
  PROVE  CountInv(p, 0, m) <=> CountInv(p, 0, n)
BY SlotFacts DEF CountInv

LEMMA BuiltCounts ==
  ASSUME NEW id \in Nat, NEW t \in TPnames, CountsMatch(t), NEW n
  PROVE  CountInv(Built(id, NewClosure(t)), 0, n)
<1> DEFINE b == Built(id, NewClosure(t))
           slots == Program[t].slots
<1>1. b \in Procedures
  BY BuiltTyped
<1>2. /\ b.tp = t
      /\ b.slots = UserInitCtor(t)
      /\ b.fired = [i \in DOMAIN slots |-> 0]
  BY ClosureTyped DEF Built
<1>3. DOMAIN b.slots = DOMAIN slots /\ 0 \notin DOMAIN slots
  BY <1>1, <1>2, SlotFacts
<1> SUFFICES ASSUME NEW s \in DOMAIN slots PROVE Fresh(b, s)
  BY <1>3 DEF CountInv
<1>4. Remaining(b, s) = Signals(t, s)
  <2> SUFFICES ASSUME NEW x \in Signals(t, s) PROVE x[2] > b.fired[x[1]]
    BY <1>2 DEF Remaining
  <2>1. PICK r \in Signallers(t, s) : \E k \in 1..slots[r].numExec : x = <<r, k>>
    BY SignalsAre
  <2>2. PICK k \in 1..slots[r].numExec : x = <<r, k>>
    BY <2>1
  <2>3. r \in DOMAIN slots
    BY DEF Signallers
  <2>4. b.fired[r] = 0
    BY <1>2, <2>3
  <2>5. x[1] = r /\ x[2] = k /\ k > 0
    BY <2>2
  <2> QED
    BY <2>4, <2>5
<1>5. slots[s] \in SlotType
  BY DefinitionAssumption
<1>6. slots[s].numDep \in Nat
  BY <1>5, WordAssumption DEF SlotType
<1>7. b.slots[s] = IF s \in Program[t].signalled THEN DecDep(InitSyncSlot(slots[s]))
                                                ELSE InitSyncSlot(slots[s])
  BY <1>2 DEF UserInitCtor, Signalled
<1>8. InitSyncSlot(slots[s]).currentDep = slots[s].numDep
  BY DEF InitSyncSlot
<1>9. DecDep(InitSyncSlot(slots[s])).currentDep =
        IF slots[s].numDep = 0 THEN MaxWord ELSE slots[s].numDep - 1
  BY DEF DecDep, InitSyncSlot
<1>10. /\ Cardinality(Signals(t, s)) \in Nat
       /\ slots[s].numDep =
            Cardinality(Signals(t, s)) + (IF s \in Program[t].signalled THEN 1 ELSE 0)
  BY SignalsFinite, FS_CardinalityType DEF CountsMatch
<1> HIDE DEF b, slots
<1>11. b.slots[s].currentDep = Cardinality(Signals(t, s))
  BY <1>6, <1>7, <1>8, <1>9, <1>10
<1>12. b.fired[s] = 0
  BY <1>2
<1> QED
  BY <1>4, <1>11, <1>12 DEF Fresh

LEMMA ReadyCounts ==
  ASSUME NEW p \in Procedures, NEW m, CountInv(p, 0, m), NEW s \in DOMAIN p.slots, IsReady(p.slots[s])
  PROVE  CountInv(p, s, p.slots[s].template.numExec)
<1>1. /\ Fresh(p, s) \/ Over(p, s)
      /\ 0 \notin DOMAIN p.slots
      /\ p.slots[s].currentDep = 0
      /\ p.slots[s].template.numExec \in Nat
  BY SlotFacts DEF CountInv, IsReady
<1>2. Fresh(p, s)
  BY <1>1 DEF Over
<1>3. Remaining(p, s) = {}
  BY <1>1, <1>2, SlotFacts, RemainingFinite DEF Fresh
<1>4. Amid(p, s, p.slots[s].template.numExec)
  BY <1>1, <1>2, <1>3 DEF Amid, Fresh
<1> QED
  BY <1>1, <1>4 DEF CountInv

LEMMA AfterFiringIs ==
  ASSUME NEW p \in Procedures, NEW j \in DOMAIN p.slots
  PROVE  /\ AfterFiring(p, j).tp = p.tp
         /\ AfterFiring(p, j).fired = [p.fired EXCEPT ![j] = @ + 1]
         /\ AfterFiring(p, j).slots = Signalled(p.slots, p.slots[j].template.fire.signals)
<1>1. AfterFiring(p, j) =
        [[p EXCEPT !.slots = Signalled(p.slots, p.slots[j].template.fire.signals)]
           EXCEPT !.fired = [p.fired EXCEPT ![j] = @ + 1]]
  BY DEF AfterFiring, Procedures
<1> QED
  BY <1>1 DEF Procedures

\* Firing once more takes one signal from what the signalled slots wait for.
LEMMA FireRemaining ==
  ASSUME NEW p \in Procedures, NEW j \in DOMAIN p.slots, NEW s \in DOMAIN p.slots,
         p.fired[j] < p.slots[j].template.numExec
  PROVE  IF s \in p.slots[j].template.fire.signals
         THEN /\ <<j, p.fired[j] + 1>> \in Remaining(p, s)
              /\ Remaining(AfterFiring(p, j), s) = Remaining(p, s) \ {<<j, p.fired[j] + 1>>}
         ELSE Remaining(AfterFiring(p, j), s) = Remaining(p, s)
<1> DEFINE q == AfterFiring(p, j)
           k == p.fired[j] + 1
<1>1. /\ q.tp = p.tp
      /\ q.fired = [p.fired EXCEPT ![j] = @ + 1]
  BY AfterFiringIs
<1>2. /\ p.tp \in TPnames
      /\ DOMAIN p.slots = DOMAIN Program[p.tp].slots
      /\ DOMAIN p.fired = DOMAIN p.slots
      /\ \A r \in DOMAIN p.slots : /\ p.slots[r].template = Program[p.tp].slots[r]
                                   /\ p.slots[r].template.numExec \in Nat
                                   /\ p.fired[r] \in Nat
  BY SlotFacts
<1>3. \A r \in DOMAIN p.slots : q.fired[r] = IF r = j THEN k ELSE p.fired[r]
  BY <1>1, <1>2
<1>4. \A r : r \in Signallers(p.tp, s) <=>
               r \in DOMAIN p.slots /\ s \in p.slots[r].template.fire.signals
  BY <1>2 DEF Signallers
<1> HIDE DEF q
<1>5. ASSUME NEW x \in Signals(p.tp, s)
      PROVE  IF x = <<j, k>> THEN x \in Remaining(p, s) /\ x \notin Remaining(q, s)
             ELSE x \in Remaining(q, s) <=> x \in Remaining(p, s)
  <2>1. PICK r \in Signallers(p.tp, s) : \E n \in 1..Program[p.tp].slots[r].numExec : x = <<r, n>>
    BY <1>2, SignalsAre
  <2>2. PICK n \in 1..Program[p.tp].slots[r].numExec : x = <<r, n>>
    BY <2>1
  <2>3. x[1] = r /\ x[2] = n /\ r \in DOMAIN p.slots
    BY <1>4, <2>2
  <2>4. /\ x \in Remaining(p, s) <=> n > p.fired[r]
        /\ x \in Remaining(q, s) <=> n > q.fired[r]
    BY <1>1, <2>3 DEF Remaining
  <2>5. x = <<j, k>> <=> r = j /\ n = k
    BY <2>2
  <2>6. n \in Nat /\ p.fired[r] \in Nat
    BY <1>2, <2>3
  <2> QED
    BY <1>3, <2>3, <2>4, <2>5, <2>6
<1>6. Remaining(p, s) \subseteq Signals(p.tp, s) /\ Remaining(q, s) \subseteq Signals(p.tp, s)
  BY <1>1 DEF Remaining
<1>7. <<j, k>> \in Signals(p.tp, s) <=> s \in p.slots[j].template.fire.signals
  <2>1. k \in 1..Program[p.tp].slots[j].numExec
    BY <1>2
  <2>2. ASSUME s \in p.slots[j].template.fire.signals PROVE <<j, k>> \in Signals(p.tp, s)
    BY <1>2, <1>4, <2>1, <2>2, SignalsAre
  <2>3. ASSUME <<j, k>> \in Signals(p.tp, s) PROVE s \in p.slots[j].template.fire.signals
    <3>1. PICK r \in Signallers(p.tp, s) :
            \E n \in 1..Program[p.tp].slots[r].numExec : <<j, k>> = <<r, n>>
      BY <1>2, <2>3, SignalsAre
    <3>2. r = j
      BY <3>1
    <3> QED
      BY <1>4, <3>2
  <2> QED
    BY <2>2, <2>3
<1> HIDE DEF k
<1>8. CASE s \in p.slots[j].template.fire.signals
  <2>1. <<j, k>> \in Remaining(p, s) /\ Remaining(q, s) = Remaining(p, s) \ {<<j, k>>}
    BY <1>5, <1>6, <1>7, <1>8
  <2> QED
    BY <1>8, <2>1 DEF q, k
<1>9. CASE s \notin p.slots[j].template.fire.signals
  <2>1. Remaining(q, s) = Remaining(p, s)
    BY <1>5, <1>6, <1>7, <1>9
  <2> QED
    BY <1>9, <2>1 DEF q, k
<1> QED
  BY <1>8, <1>9

LEMMA FireCounts ==
  ASSUME NEW p \in Procedures, NEW j \in DOMAIN p.slots, NEW n \in Nat \ {0}, CountInv(p, j, n)
  PROVE  CountInv(AfterFiring(p, j), j, n - 1)
<1> DEFINE q == AfterFiring(p, j)
           signals == p.slots[j].template.fire.signals
<1>1. /\ q.fired = [p.fired EXCEPT ![j] = @ + 1]
      /\ q.slots = Signalled(p.slots, signals)
  BY AfterFiringIs
<1>2. /\ p.tp \in TPnames
      /\ DOMAIN p.fired = DOMAIN p.slots
      /\ \A s \in DOMAIN p.slots : /\ p.slots[s] \in SlotStates
                                   /\ p.slots[s].template.numExec \in Nat
                                   /\ p.slots[s].currentDep \in Nat
                                   /\ p.fired[s] \in Nat
  BY SlotFacts, WordAssumption
<1>3. Amid(p, j, n)
  BY DEF CountInv
<1>4. p.fired[j] < p.slots[j].template.numExec
  BY <1>2, <1>3 DEF Amid
<1>5. DOMAIN q.slots = DOMAIN p.slots
  BY <1>1 DEF Signalled
<1> SUFFICES ASSUME NEW s \in DOMAIN p.slots
             PROVE  IF s = j THEN Amid(q, s, n - 1) ELSE Fresh(q, s) \/ Over(q, s)
  BY <1>5 DEF CountInv
<1>6. IF s \in signals
      THEN /\ <<j, p.fired[j] + 1>> \in Remaining(p, s)
           /\ Remaining(q, s) = Remaining(p, s) \ {<<j, p.fired[j] + 1>>}
      ELSE Remaining(q, s) = Remaining(p, s)
  BY <1>4, FireRemaining
<1>7. q.fired[s] = IF s = j THEN p.fired[s] + 1 ELSE p.fired[s]
  BY <1>1, <1>2
<1>8. /\ q.slots[s] = IF s \in signals THEN DecDep(p.slots[s]) ELSE p.slots[s]
      /\ q.slots[s].template = p.slots[s].template
      /\ q.slots[s].currentDep =
           IF s \in signals
           THEN IF p.slots[s].currentDep = 0 THEN MaxWord ELSE p.slots[s].currentDep - 1
           ELSE p.slots[s].currentDep
  <2>1. q.slots[s] = IF s \in signals THEN DecDep(p.slots[s]) ELSE p.slots[s]
    BY <1>1 DEF Signalled
  <2>2. /\ DecDep(p.slots[s]).template = p.slots[s].template
        /\ DecDep(p.slots[s]).currentDep =
             IF p.slots[s].currentDep = 0 THEN MaxWord ELSE p.slots[s].currentDep - 1
    BY <1>2 DEF DecDep, SlotStates
  <2> QED
    BY <2>1, <2>2
<1> HIDE DEF q, signals
<1>9. CASE s \in signals
  <2>1. Remaining(p, s) # {}
    BY <1>6, <1>9
  <2>2. s # j
    BY <1>3, <2>1 DEF Amid
  <2>3. Fresh(p, s)
    BY <2>1, <2>2 DEF CountInv, Over
  <2>4. IsFiniteSet(Remaining(p, s)) /\ Cardinality(Remaining(p, s)) \in Nat \ {0}
    BY <1>2, <2>1, RemainingFinite
  <2>5. Cardinality(Remaining(q, s)) = Cardinality(Remaining(p, s)) - 1
    BY <1>6, <1>9, <2>4, FS_RemoveElement
  <2>6. p.slots[s].currentDep = Cardinality(Remaining(p, s)) /\ p.fired[s] = 0
    BY <2>3 DEF Fresh
  <2>7. q.slots[s].currentDep = p.slots[s].currentDep - 1
    BY <1>8, <1>9, <2>4, <2>6
  <2>8. Fresh(q, s)
    BY <1>7, <2>2, <2>5, <2>6, <2>7 DEF Fresh
  <2> QED
    BY <2>2, <2>8
<1>10. CASE s \notin signals
  <2>1. Remaining(q, s) = Remaining(p, s) /\ q.slots[s].currentDep = p.slots[s].currentDep
    BY <1>6, <1>8, <1>10
  <2>2. CASE s = j
    <3>1. q.fired[s] + (n - 1) = p.fired[s] + n
      BY <1>2, <1>7, <2>2
    <3> QED
      BY <1>3, <1>8, <2>1, <2>2, <3>1 DEF Amid
  <2>3. CASE s # j
    <3>1. Fresh(p, s) \/ Over(p, s)
      BY <2>3 DEF CountInv
    <3> QED
      BY <1>7, <1>8, <2>1, <2>3, <3>1 DEF Fresh, Over, Done
  <2> QED
    BY <2>2, <2>3
<1> QED
  BY <1>9, <1>10

LEMMA EndCounts ==
  ASSUME NEW p \in Procedures, NEW j \in DOMAIN p.slots, CountInv(p, j, 0), CountsMatch(p.tp), NEW n
  PROVE  CountInv([p EXCEPT !.slots[j] = ResetDep(@)], 0, n)
<1> DEFINE q == [p EXCEPT !.slots[j] = ResetDep(@)]
<1>1. /\ p.tp \in TPnames
      /\ DOMAIN p.slots = DOMAIN Program[p.tp].slots
      /\ 0 \notin DOMAIN p.slots
      /\ \A s \in DOMAIN p.slots : /\ p.slots[s] \in SlotStates
                                   /\ p.slots[s].template = Program[p.tp].slots[s]
                                   /\ p.slots[s].template.numExec \in Nat
                                   /\ p.fired[s] \in Nat
  BY SlotFacts
<1>2. /\ q.tp = p.tp /\ q.fired = p.fired
      /\ q.slots = [p.slots EXCEPT ![j] = ResetDep(@)]
  BY DEF Procedures
<1>3. /\ DOMAIN q.slots = DOMAIN p.slots
      /\ \A s \in DOMAIN p.slots : q.slots[s] = IF s = j THEN ResetDep(p.slots[s]) ELSE p.slots[s]
  BY <1>2
<1> SUFFICES ASSUME NEW s \in DOMAIN p.slots PROVE Fresh(q, s) \/ Over(q, s)
  BY <1>1, <1>3 DEF CountInv
<1>4. Remaining(q, s) = Remaining(p, s)
  BY <1>2 DEF Remaining
<1>5. CASE s = j
  <2>1. Amid(p, s, 0)
    BY <1>5 DEF CountInv
  <2>2. p.fired[s] = p.slots[s].template.numExec
    BY <1>1, <2>1 DEF Amid
  <2>3. /\ ResetDep(p.slots[s]).template = p.slots[s].template
        /\ ResetDep(p.slots[s]).currentDep = p.slots[s].template.resetDep
    BY <1>1 DEF ResetDep, SlotStates
  <2>4. p.slots[s].template.resetDep > 0
    BY <1>1 DEF CountsMatch
  <2> HIDE DEF q
  <2> QED
    BY <1>2, <1>3, <1>4, <1>5, <2>1, <2>2, <2>3, <2>4 DEF Amid, Over, Done
<1>6. CASE s # j
  <2>1. Fresh(p, s) \/ Over(p, s)
    BY <1>6 DEF CountInv
  <2> HIDE DEF q
  <2> QED
    BY <1>2, <1>3, <1>4, <1>6, <2>1 DEF Fresh, Over, Done
<1> QED
  BY <1>5, <1>6

LEMMA FireHeap ==
  ASSUME TypeInv, NEW c \in Cores, Fire(c)
  PROVE  /\ at[c][1] \in DOMAIN heap[c]
         /\ heap[c][at[c][1]] \in Procedures
         /\ at[c][2] \in DOMAIN heap[c][at[c][1]].slots
         /\ heap' = [heap EXCEPT ![c] =
              [heap[c] EXCEPT ![at[c][1]] = AfterFiring(heap[c][at[c][1]], at[c][2])]]
<1>1. pc[c] = "fire"
  BY DEF Fire, Goto
<1>2. at[c][1] \in DOMAIN heap[c] /\ at[c][2] \in DOMAIN heap[c][at[c][1]].slots
  BY <1>1 DEF TypeInv
<1>3. heap[c] \in Seq(Procedures)
  BY DEF TypeInv
<1> QED
  BY <1>2, <1>3 DEF Fire

LEMMA EndHeap ==
  ASSUME TypeInv, NEW c \in Cores, EndOfSlot(c)
  PROVE  /\ at[c][1] \in DOMAIN heap[c]
         /\ heap[c][at[c][1]] \in Procedures
         /\ at[c][2] \in DOMAIN heap[c][at[c][1]].slots
         /\ heap' = [heap EXCEPT ![c] = [heap[c] EXCEPT ![at[c][1]] =
              [heap[c][at[c][1]] EXCEPT !.slots[at[c][2]] = ResetDep(@)]]]
<1>1. pc[c] = "fire"
  BY DEF EndOfSlot, Goto
<1>2. at[c][1] \in DOMAIN heap[c] /\ at[c][2] \in DOMAIN heap[c][at[c][1]].slots
  BY <1>1 DEF TypeInv
<1>3. heap[c] \in Seq(Procedures)
  BY DEF TypeInv
<1> QED
  BY <1>2, <1>3 DEF EndOfSlot

LEMMA SlotFrame ==
  ASSUME SlotInv, NEW c \in Cores,
         \A d \in Cores \ {c} : /\ heap'[d] = heap[d] /\ at'[d] = at[d]
                                /\ left'[d] = left[d] /\ pc'[d] = pc[d],
         \A i \in DOMAIN heap'[c] : CountInv(heap'[c][i], Active(c, i)', left'[c])
  PROVE  SlotInv'
<1> SUFFICES ASSUME NEW d \in Cores, NEW i \in DOMAIN heap'[d]
             PROVE  CountInv(heap'[d][i], Active(d, i)', left'[d])
  BY DEF SlotInv
<1>1. CASE d = c
  BY <1>1
<1>2. CASE d # c
  <2>1. Active(d, i)' = Active(d, i)
    BY <1>2 DEF Active, Executing
  <2> QED
    BY <1>2, <2>1 DEF SlotInv
<1> QED
  BY <1>1, <1>2

\* A step that neither builds nor fires.
LEMMA SlotQuiet ==
  ASSUME SlotInv, heap' = heap, left' = left,
         \A d \in Cores : /\ Executing(d)' <=> Executing(d)
                          /\ Executing(d) => at'[d] = at[d]
  PROVE  SlotInv'
<1> SUFFICES ASSUME NEW d \in Cores, NEW i \in DOMAIN heap[d]
             PROVE  CountInv(heap[d][i], Active(d, i)', left[d])
  BY DEF SlotInv
<1>1. Active(d, i)' = Active(d, i)
  BY DEF Active
<1> QED
  BY <1>1 DEF SlotInv

LEMMA BuildSlots ==
  ASSUME TypeInv, SlotInv, \A t \in TPnames : CountsMatch(t), NEW c \in Cores, Build(c)
  PROVE  SlotInv'
<1>1. Head(queue) \in Entries
  BY DEF Build, TypeInv
<1>2. PICK t \in TPnames : Head(queue).closure = NewClosure(t)
  BY <1>1 DEF Entries, Closures
<1> DEFINE b == Built(Len(heap[c]), NewClosure(t))
<1>3. /\ heap' = [heap EXCEPT ![c] = Append(heap[c], b)]
      /\ at' = at /\ left' = left
      /\ pc[c] = "build" /\ pc' = [pc EXCEPT ![c] = "pop"]
  BY <1>2 DEF Build, Goto, scanVars
<1>4. heap[c] \in Seq(Procedures) /\ Len(heap[c]) \in Nat
  BY DEF TypeInv
<1>5. pc \in [Cores -> Locations] /\ heap \in [Cores -> Seq(Procedures)]
  BY PhasePC DEF TypeInv
<1>6. CountInv(b, 0, left[c])
  BY <1>4, BuiltCounts
<1> HIDE DEF b
<1>7. heap'[c] = Append(heap[c], b)
  BY <1>3, <1>5
<1>8. ASSUME NEW i \in DOMAIN heap'[c] PROVE CountInv(heap'[c][i], Active(c, i)', left'[c])
  <2>1. Active(c, i)' = 0 /\ Active(c, i) = 0
    BY <1>3, <1>5 DEF Active, Executing
  <2>2. CASE i \in DOMAIN heap[c]
    <3>1. heap'[c][i] = heap[c][i]
      BY <1>4, <1>7, <2>2
    <3> QED
      BY <1>3, <2>1, <2>2, <3>1 DEF SlotInv
  <2>3. CASE i \notin DOMAIN heap[c]
    <3>1. heap'[c][i] = b
      BY <1>4, <1>7, <2>3
    <3> QED
      BY <1>3, <1>6, <2>1, <3>1
  <2> QED
    BY <2>2, <2>3
<1>9. \A d \in Cores \ {c} : /\ heap'[d] = heap[d] /\ at'[d] = at[d]
                             /\ left'[d] = left[d] /\ pc'[d] = pc[d]
  BY <1>3, <1>5
<1> QED
  BY <1>8, <1>9, SlotFrame

LEMMA ReadySlots ==
  ASSUME TypeInv, RestInv, SlotInv, NEW c \in Cores, Ready(c)
  PROVE  SlotInv'
<1>1. PICK x \in ReadyAhead(c) :
        /\ at' = [at EXCEPT ![c] = x]
        /\ left' = [left EXCEPT ![c] = heap[c][x[1]].slots[x[2]].template.numExec]
  BY DEF Ready
<1>2. /\ x[1] \in DOMAIN heap[c] /\ x[2] \in DOMAIN heap[c][x[1]].slots
      /\ IsReady(heap[c][x[1]].slots[x[2]])
  BY ReadyInside DEF ReadyAhead
<1>3. /\ heap' = heap
      /\ pc[c] = "scan" /\ pc' = [pc EXCEPT ![c] = "fire"]
  BY DEF Ready, Goto
<1>4. /\ pc \in [Cores -> Locations] /\ heap[c] \in Seq(Procedures)
      /\ DOMAIN at = Cores /\ DOMAIN left = Cores
  BY PhasePC DEF TypeInv, RestInv
<1>5. /\ at'[c] = x /\ pc'[c] = "fire"
      /\ left'[c] = heap[c][x[1]].slots[x[2]].template.numExec
  BY <1>1, <1>3, <1>4
<1>6. ASSUME NEW i \in DOMAIN heap'[c] PROVE CountInv(heap'[c][i], Active(c, i)', left'[c])
  <2>1. i \in DOMAIN heap[c] /\ heap'[c][i] = heap[c][i] /\ heap[c][i] \in Procedures
    BY <1>3, <1>4
  <2>2. Active(c, i) = 0
    BY <1>3 DEF Active, Executing
  <2>3. Active(c, i)' = IF x[1] = i THEN x[2] ELSE 0
    BY <1>5 DEF Active, Executing
  <2>4. CountInv(heap[c][i], 0, left[c])
    BY <2>1, <2>2 DEF SlotInv
  <2>5. CASE x[1] = i
    <3>1. CountInv(heap[c][i], x[2], heap[c][i].slots[x[2]].template.numExec)
      BY <1>2, <2>1, <2>4, <2>5, ReadyCounts
    <3> QED
      BY <1>5, <2>1, <2>3, <2>5, <3>1
  <2>6. CASE x[1] # i
    BY <2>1, <2>3, <2>4, <2>6, IdleCounts
  <2> QED
    BY <2>5, <2>6
<1>7. \A d \in Cores \ {c} : /\ heap'[d] = heap[d] /\ at'[d] = at[d]
                             /\ left'[d] = left[d] /\ pc'[d] = pc[d]
  BY <1>1, <1>3, <1>4
<1> QED
  BY <1>6, <1>7, SlotFrame

LEMMA FireSlots ==
  ASSUME TypeInv, RestInv, SlotInv, NEW c \in Cores, Fire(c)
  PROVE  SlotInv'
<1> DEFINE k == at[c][1]
           j == at[c][2]
           q == AfterFiring(heap[c][k], j)
<1>1. /\ k \in DOMAIN heap[c] /\ heap[c][k] \in Procedures /\ j \in DOMAIN heap[c][k].slots
      /\ heap' = [heap EXCEPT ![c] = [heap[c] EXCEPT ![k] = q]]
  BY FireHeap
<1>2. PICK to \in {"fire", "invoke"} : pc[c] = "fire" /\ pc' = [pc EXCEPT ![c] = to]
  BY DEF Fire, Goto
<1>3. /\ at' = at
      /\ left[c] \in Nat \ {0}
      /\ left' = [left EXCEPT ![c] = @ - 1]
  BY DEF Fire, RestInv
<1>4. /\ pc \in [Cores -> Locations] /\ heap \in [Cores -> Seq(Procedures)]
      /\ DOMAIN left = Cores
  BY PhasePC DEF TypeInv, RestInv
<1>5. Executing(c) /\ Executing(c)'
  BY <1>2, <1>4 DEF Executing
<1>6. CountInv(heap[c][k], j, left[c])
  <2>1. Active(c, k) = j
    BY <1>5 DEF Active
  <2> HIDE DEF k, j
  <2> QED
    BY <1>1, <2>1 DEF SlotInv
<1>7. CountInv(q, j, left[c] - 1)
  <2> HIDE DEF k, j
  <2> QED
    BY <1>1, <1>3, <1>6, FireCounts
<1>8. \A i \in DOMAIN heap[c] : /\ Active(c, i) = IF i = k THEN j ELSE 0
                                /\ Active(c, i)' = IF i = k THEN j ELSE 0
  BY <1>3, <1>5 DEF Active
<1> HIDE DEF k, j, q
<1>9. /\ DOMAIN heap'[c] = DOMAIN heap[c]
      /\ \A i \in DOMAIN heap[c] : heap'[c][i] = IF i = k THEN q ELSE heap[c][i]
  BY <1>1, <1>4
<1>10. left'[c] = left[c] - 1
  BY <1>3, <1>4
<1>11. ASSUME NEW i \in DOMAIN heap'[c] PROVE CountInv(heap'[c][i], Active(c, i)', left'[c])
  <2>1. CASE i = k
    BY <1>7, <1>8, <1>9, <1>10, <2>1
  <2>2. CASE i # k
    <3>1. i \in DOMAIN heap[c] /\ heap[c][i] \in Procedures
      BY <1>4, <1>9
    <3>2. CountInv(heap[c][i], 0, left[c])
      BY <1>8, <2>2, <3>1 DEF SlotInv
    <3> QED
      BY <1>8, <1>9, <2>2, <3>1, <3>2, IdleCounts
  <2> QED
    BY <2>1, <2>2
<1>12. \A d \in Cores \ {c} : /\ heap'[d] = heap[d] /\ at'[d] = at[d]
                              /\ left'[d] = left[d] /\ pc'[d] = pc[d]
  BY <1>1, <1>2, <1>3, <1>4
<1> QED
  BY <1>11, <1>12, SlotFrame

LEMMA EndSlots ==
  ASSUME TypeInv, SlotInv, \A t \in TPnames : CountsMatch(t), NEW c \in Cores, EndOfSlot(c)
  PROVE  SlotInv'
<1> DEFINE k == at[c][1]
           j == at[c][2]
           q == [heap[c][k] EXCEPT !.slots[j] = ResetDep(@)]
<1>1. /\ k \in DOMAIN heap[c] /\ heap[c][k] \in Procedures /\ j \in DOMAIN heap[c][k].slots
      /\ heap' = [heap EXCEPT ![c] = [heap[c] EXCEPT ![k] = q]]
  BY EndHeap
<1>2. /\ pc[c] = "fire" /\ pc' = [pc EXCEPT ![c] = "scan"]
      /\ left[c] = 0 /\ left' = left
      /\ \A d \in Cores \ {c} : at'[d] = at[d]
  BY DEF EndOfSlot, Goto, TypeInv
<1>4. pc \in [Cores -> Locations] /\ heap \in [Cores -> Seq(Procedures)]
  BY PhasePC DEF TypeInv
<1>5. Executing(c) /\ ~Executing(c)'
  BY <1>2, <1>4 DEF Executing
<1>6. CountInv(heap[c][k], j, 0)
  <2>1. Active(c, k) = j
    BY <1>5 DEF Active
  <2> HIDE DEF k, j
  <2> QED
    BY <1>1, <1>2, <2>1 DEF SlotInv
<1>7. CountInv(q, 0, left[c])
  <2>1. heap[c][k].tp \in TPnames
    BY <1>1, SlotFacts
  <2> HIDE DEF k, j
  <2> QED
    BY <1>1, <1>6, <2>1, EndCounts
<1>8. \A i \in DOMAIN heap[c] : /\ Active(c, i) = IF i = k THEN j ELSE 0
                                /\ Active(c, i)' = 0
  BY <1>5 DEF Active
<1> HIDE DEF k, j, q
<1>9. /\ DOMAIN heap'[c] = DOMAIN heap[c]
      /\ \A i \in DOMAIN heap[c] : heap'[c][i] = IF i = k THEN q ELSE heap[c][i]
  BY <1>1, <1>4
<1>10. ASSUME NEW i \in DOMAIN heap'[c] PROVE CountInv(heap'[c][i], Active(c, i)', left'[c])
  <2>1. CASE i = k
    BY <1>2, <1>7, <1>8, <1>9, <2>1
  <2>2. CASE i # k
    <3>1. CountInv(heap[c][i], 0, left[c])
      BY <1>8, <1>9, <2>2 DEF SlotInv
    <3> QED
      BY <1>2, <1>8, <1>9, <2>2, <3>1
  <2> QED
    BY <2>1, <2>2
<1>11. \A d \in Cores \ {c} : /\ heap'[d] = heap[d] /\ at'[d] = at[d]
                              /\ left'[d] = left[d] /\ pc'[d] = pc[d]
  BY <1>1, <1>2, <1>4
<1> QED
  BY <1>10, <1>11, SlotFrame

LEMMA SlotNext ==
  ASSUME TypeInv, RestInv, SlotInv, \A t \in TPnames : CountsMatch(t), [Next]_vars
  PROVE  SlotInv'
<1>a. pc \in [Cores -> Locations]
  BY PhasePC DEF TypeInv
<1>1. ASSUME NEW c \in Cores, Reset(c) PROVE SlotInv'
  <2>1. /\ heap' = [heap EXCEPT ![c] = <<>>] /\ at' = at /\ left' = left
        /\ pc' = [pc EXCEPT ![c] = "waiting"]
    BY <1>1 DEF Reset, Arrive, Goto, scanVars
  <2>2. \A d \in Cores \ {c} : /\ heap'[d] = heap[d] /\ at'[d] = at[d]
                               /\ left'[d] = left[d] /\ pc'[d] = pc[d]
    BY <1>a, <2>1 DEF TypeInv
  <2>3. heap'[c] = <<>>
    BY <2>1 DEF TypeInv
  <2>4. DOMAIN heap'[c] = {}
    BY <2>3
  <2> QED
    BY <2>2, <2>4, SlotFrame
<1>2. ASSUME NEW c \in Cores,
             \/ Begin(c) \/ PushNext(c) \/ PushedAll(c) \/ Test(c) \/ Own(c) \/ Look(c) \/ Pop(c)
             \/ Disown(c) \/ ScanEnd(c) \/ Leave(c) \/ Pass(c) \/ LastBarrier(c)
      PROVE  SlotInv'
  <2>1. heap' = heap /\ left' = left
    BY <1>2 DEF Begin, PushNext, PushedAll, Test, Own, Look, Pop, Disown, ScanEnd, Leave, Pass,
         LastBarrier, scanVars
  <2>2. \A d \in Cores \ {c} : at'[d] = at[d]
    BY <1>2 DEF Begin, PushNext, PushedAll, Test, Own, Look, Pop, Disown, ScanEnd, Leave, Pass,
         LastBarrier, scanVars, TypeInv
  <2>3. PICK to \in Locations \ {"fire", "invoke", "finish"} :
          ~Executing(c) /\ pc' = [pc EXCEPT ![c] = to]
    <3>1. CASE PushNext(c)
      BY <1>a, <3>1 DEF PushNext, Executing, Locations
    <3>2. CASE ~PushNext(c)
      BY <1>2, <3>2 DEF Begin, PushedAll, Test, Own, Look, Pop, Disown, ScanEnd, Leave, Pass,
           LastBarrier, Arrive, Goto, AfterQueue, Executing, Locations
    <3> QED
      BY <3>1, <3>2
  <2>4. \A d \in Cores : /\ Executing(d)' <=> Executing(d)
                         /\ Executing(d) => at'[d] = at[d]
    BY <1>a, <2>2, <2>3 DEF Executing
  <2> QED
    BY <2>1, <2>4, SlotQuiet
<1>3. ASSUME NEW c \in Cores,
             InvokeNext(c) \/ InvokeRefused(c) \/ FinishExecution(c) \/ EndOfCodelet(c)
      PROVE  SlotInv'
  <2>1. heap' = heap /\ left' = left /\ at' = at
    BY <1>3 DEF InvokeNext, InvokeRefused, FinishExecution, EndOfCodelet, scanVars
  <2>2. PICK to \in {"fire", "invoke", "finish"} : Executing(c) /\ pc' = [pc EXCEPT ![c] = to]
    <3>1. CASE InvokeNext(c)
      BY <1>a, <3>1 DEF InvokeNext, Executing
    <3>2. CASE ~InvokeNext(c)
      BY <1>3, <3>2 DEF InvokeRefused, FinishExecution, EndOfCodelet, Goto, Executing
    <3> QED
      BY <3>1, <3>2
  <2>3. \A d \in Cores : Executing(d)' <=> Executing(d)
    BY <1>a, <2>2 DEF Executing
  <2> QED
    BY <2>1, <2>3, SlotQuiet
<1>4. CASE UNCHANGED vars
  <2>1. heap' = heap /\ left' = left /\ at' = at /\ pc' = pc
    BY <1>4 DEF vars, scanVars
  <2> QED
    BY <2>1, SlotQuiet DEF Executing
<1> QED
  BY <1>1, <1>2, <1>3, <1>4, BuildSlots, ReadySlots, FireSlots, EndSlots DEF Next, Step

LEMMA SlotsInOrder == TypeInv /\ RestInv /\ SlotInv => FiredInOrder
<1> SUFFICES ASSUME TypeInv, RestInv, SlotInv, NEW c \in Cores, NEW i \in DOMAIN heap[c]
             PROVE  LET p == heap[c][i] IN
                    \A s \in DOMAIN p.slots :
                      /\ p.fired[s] <= p.slots[s].template.numExec
                      /\ p.fired[s] > 0 =>
                           \A r \in DOMAIN p.slots :
                             s \in p.slots[r].template.fire.signals => Done(p, r)
  BY DEF FiredInOrder
<1> DEFINE p == heap[c][i]
<1>1. p \in Procedures
  BY DEF TypeInv
<1>2. CountInv(p, Active(c, i), left[c]) /\ left[c] \in Nat
  BY DEF SlotInv, RestInv
<1> HIDE DEF p
<1>3. /\ p.tp \in TPnames
      /\ DOMAIN p.slots = DOMAIN Program[p.tp].slots
      /\ \A s \in DOMAIN p.slots : /\ p.slots[s].template = Program[p.tp].slots[s]
                                   /\ p.slots[s].template.numExec \in Nat
                                   /\ p.fired[s] \in Nat
  BY <1>1, SlotFacts
<1>4. ASSUME NEW s \in DOMAIN p.slots
      PROVE  /\ p.fired[s] <= p.slots[s].template.numExec
             /\ p.fired[s] > 0 => Remaining(p, s) = {}
  <2>1. \/ \E n \in Nat : Amid(p, s, n)
        \/ Fresh(p, s)
        \/ Over(p, s)
    BY <1>2 DEF CountInv
  <2>2. ASSUME NEW n \in Nat, Amid(p, s, n)
        PROVE  p.fired[s] <= p.slots[s].template.numExec /\ Remaining(p, s) = {}
    BY <1>3, <2>2 DEF Amid
  <2>3. CASE Fresh(p, s)
    BY <1>3, <2>3 DEF Fresh
  <2>4. CASE Over(p, s)
    BY <1>3, <2>4 DEF Over, Done
  <2> QED
    BY <2>1, <2>2, <2>3, <2>4
<1>5. ASSUME NEW s \in DOMAIN p.slots, p.fired[s] > 0,
             NEW r \in DOMAIN p.slots, s \in p.slots[r].template.fire.signals
      PROVE  Done(p, r)
  <2> DEFINE n == p.slots[r].template.numExec
  <2>1. n \in Nat /\ p.fired[r] \in Nat /\ p.fired[r] <= n
    BY <1>3, <1>4
  <2>2. ASSUME p.fired[r] < n PROVE FALSE
    <3>1. n \in 1..Program[p.tp].slots[r].numExec
      BY <1>3, <2>1, <2>2
    <3>2. r \in Signallers(p.tp, s)
      BY <1>3, <1>5 DEF Signallers
    <3> HIDE DEF n
    <3>3. <<r, n>> \in Signals(p.tp, s)
      BY <1>3, <3>1, <3>2, SignalsAre
    <3>4. <<r, n>> \in Remaining(p, s)
      BY <2>2, <3>3 DEF Remaining
    <3> QED
      BY <1>4, <1>5, <3>4
  <2> HIDE DEF n
  <2>3. p.fired[r] = n
    BY <2>1, <2>2
  <2> QED
    BY <2>3 DEF Done, n
<1>6. \A s \in DOMAIN p.slots :
        /\ p.fired[s] <= p.slots[s].template.numExec
        /\ p.fired[s] > 0 =>
             \A r \in DOMAIN p.slots :
               s \in p.slots[r].template.fire.signals => Done(p, r)
  BY <1>4, <1>5
<1> QED
  BY <1>6 DEF p

\* Whatever the procedures, the experiments, the cores and the queue, each slot's
\* codelets are fired once and after all that signal it, as long as the user's
\* counts match what the codelets signal: a count of the slot is then always the
\* number of signals that are still to come, and the count that the slot is reset
\* to meets no more signals.
THEOREM SlotsFireInOrder ==
  (\A t \in TPnames : CountsMatch(t)) => (Spec => []FiredInOrder)
<1> SUFFICES ASSUME \A t \in TPnames : CountsMatch(t) PROVE Spec => []FiredInOrder
  OBVIOUS
<1> DEFINE Inv == TypeInv /\ RestInv /\ SlotInv
<1>1. Init => Inv
  <2> SUFFICES ASSUME Init PROVE Inv
    OBVIOUS
  <2>1. RestInv
    BY LenExperiments DEF Init, RestInv
  <2>2. SlotInv
    BY DEF Init, SlotInv
  <2> QED
    BY <2>1, <2>2, TypeInit
<1>2. Inv /\ [Next]_vars => Inv'
  BY TypeNext, RestNext, SlotNext
<1>3. Inv => FiredInOrder
  BY SlotsInOrder
<1> HIDE DEF Inv
<1> QED
  BY <1>1, <1>2, <1>3, PTL DEF Spec

-----------------------------------------------------------------------------
\* What a consumer leaves behind.  A scan without a codelet goes over all slots
\* from the first one, and where none is ready none waits.

AllDone(c) ==
    \A i \in DOMAIN heap[c] : \A s \in DOMAIN heap[c][i].slots : Done(heap[c][i], s)
NoneReady(c) ==
    \A i \in DOMAIN heap[c] : \A s \in DOMAIN heap[c][i].slots : ~IsReady(heap[c][i].slots[s])

LoopOf(c) ==
    /\ pc[c] \in {"begin", "push"} => heap[c] = <<>>
    /\ pc[c] = "waiting" /\ barriers[c] % 2 = 0 /\ barriers[c] < 2 * Len(Experiments) =>
         heap[c] = <<>>
    /\ pc[c] \in {"leave", "waiting", "reset", "end"} => AllDone(c)
    /\ at[c] = <<1, 1>> \/ Executing(c) \/ (pc[c] = "scan" /\ stillExecuting[c])
    /\ pc[c] = "test" /\ ~stillExecuting[c] => NoneReady(c)

LoopInv == \A c \in Cores : LoopOf(c)

\* Among the slots that have not fired all, one waits for none of the others.
LEMMA NoneReadyAllDone ==
  ASSUME TypeInv, SlotInv, \A t \in TPnames : Ordered(t),
         NEW c \in Cores, pc[c] = "test", NoneReady(c)
  PROVE  AllDone(c)
<1> SUFFICES ASSUME NEW i \in DOMAIN heap[c],
                    ~(\A s \in DOMAIN heap[c][i].slots : Done(heap[c][i], s))
             PROVE  FALSE
  BY DEF AllDone
<1> DEFINE p == heap[c][i]
           S == {s \in DOMAIN p.slots : ~Done(p, s)}
<1>1. p \in Procedures
  BY DEF TypeInv
<1>2. CountInv(p, 0, left[c])
  <2>1. Active(c, i) = 0
    BY DEF Active, Executing
  <2> QED
    BY <2>1 DEF SlotInv
<1>3. \A s \in DOMAIN p.slots : p.slots[s].currentDep # 0
  BY DEF NoneReady, IsReady
<1>4. S # {}
  OBVIOUS
<1> HIDE DEF p
<1>5. /\ p.tp \in TPnames
      /\ DOMAIN p.slots = DOMAIN Program[p.tp].slots
      /\ 0 \notin DOMAIN p.slots
      /\ \A s \in DOMAIN p.slots : /\ p.slots[s].template = Program[p.tp].slots[s]
                                   /\ p.slots[s].template.numExec \in Nat
                                   /\ p.fired[s] \in Nat
  BY <1>1, SlotFacts
<1>6. S \in (SUBSET DOMAIN Program[p.tp].slots) \ {{}}
  BY <1>4, <1>5
<1> HIDE DEF S
<1>7. PICK s \in S : Signallers(p.tp, s) \cap S = {}
  BY <1>5, <1>6 DEF Ordered
<1>8. s \in DOMAIN p.slots /\ ~Done(p, s)
  BY DEF S
<1>9. Fresh(p, s)
  BY <1>2, <1>5, <1>8 DEF CountInv, Over
<1>10. Remaining(p, s) # {}
  <2>1. Cardinality(Remaining(p, s)) # 0
    BY <1>3, <1>8, <1>9 DEF Fresh
  <2> QED
    BY <1>5, <2>1, RemainingFinite
<1>11. PICK x \in Signals(p.tp, s) : x[2] > p.fired[x[1]]
  BY <1>10 DEF Remaining
<1>12. PICK r \in Signallers(p.tp, s) : \E n \in 1..Program[p.tp].slots[r].numExec : x = <<r, n>>
  BY <1>5, SignalsAre
<1>13. PICK n \in 1..Program[p.tp].slots[r].numExec : x = <<r, n>>
  BY <1>12
<1>14. r \in DOMAIN p.slots
  BY <1>5 DEF Signallers
<1>15. n > p.fired[r] /\ n <= p.slots[r].template.numExec
  <2>1. x[1] = r /\ x[2] = n
    BY <1>13
  <2>2. p.slots[r].template = Program[p.tp].slots[r]
    BY <1>5, <1>14
  <2>3. n <= Program[p.tp].slots[r].numExec
    OBVIOUS
  <2> QED
    BY <1>11, <2>1, <2>2, <2>3
<1>16. ~Done(p, r)
  <2>1. /\ n \in Nat /\ p.fired[r] \in Nat /\ p.slots[r].template.numExec \in Nat
    BY <1>5, <1>14
  <2>2. p.fired[r] # p.slots[r].template.numExec
    BY <1>15, <2>1
  <2> QED
    BY <2>2 DEF Done
<1>17. r \in S
  BY <1>14, <1>16 DEF S
<1> QED
  BY <1>7, <1>17

LEMMA LoopFrame ==
  ASSUME LoopInv, NEW c \in Cores, LoopOf(c)',
         \A d \in Cores \ {c} : /\ heap'[d] = heap[d] /\ at'[d] = at[d] /\ pc'[d] = pc[d]
                                /\ stillExecuting'[d] = stillExecuting[d]
                                /\ barriers'[d] = barriers[d]
  PROVE  LoopInv'
<1> SUFFICES ASSUME NEW d \in Cores, d # c PROVE LoopOf(d)'
  BY DEF LoopInv
<1>1. LoopOf(d)
  BY DEF LoopInv
<1> QED
  BY <1>1 DEF LoopOf, AllDone, NoneReady, Executing

\* A scan that came to its end from the first slot on has found none ready.
LEMMA ScanFound ==
  ASSUME TypeInv, NEW c \in Cores, at[c] = <<1, 1>>, ReadyAhead(c) = {}
  PROVE  NoneReady(c)
<1> SUFFICES ASSUME NEW i \in DOMAIN heap[c], NEW s \in DOMAIN heap[c][i].slots,
                    IsReady(heap[c][i].slots[s])
             PROVE  FALSE
  BY DEF NoneReady
<1>1. heap[c] \in Seq(Procedures) /\ heap[c][i] \in Procedures
  BY DEF TypeInv
<1>2. heap[c][i].slots \in Seq(SlotStates)
  BY <1>1 DEF Procedures
<1>3. i \in Nat /\ i >= 1
  BY <1>1
<1>4. s \in Nat /\ s >= 1
  BY <1>2
<1>5. NotBefore(<<i, s>>, at[c])
  BY <1>3, <1>4 DEF NotBefore
<1>6. <<i, s>> \in {i} \X DOMAIN heap[c][i].slots
  OBVIOUS
<1>7. <<i, s>> \in UNION {{k} \X DOMAIN heap[c][k].slots : k \in DOMAIN heap[c]}
  BY <1>6
<1>8. <<i, s>>[1] = i /\ <<i, s>>[2] = s
  OBVIOUS
<1>9. <<i, s>> \in ReadyAhead(c)
  BY <1>5, <1>7, <1>8 DEF ReadyAhead
<1> QED
  BY <1>9

LEMMA LoopNext ==
  ASSUME TypeInv, RestInv, SlotInv, LoopInv, \A t \in TPnames : Ordered(t), [Next]_vars
  PROVE  LoopInv'
<1>a. /\ pc \in [Cores -> Locations] /\ barriers \in [Cores -> Nat]
      /\ heap \in [Cores -> Seq(Procedures)] /\ DOMAIN at = Cores
      /\ stillExecuting \in [Cores -> BOOLEAN]
  BY PhasePC DEF TypeInv, RestInv
<1>b. \A c \in Cores : LoopOf(c)
  BY DEF LoopInv
<1>1. ASSUME NEW c \in Cores, Begin(c) PROVE LoopInv'
  <2>1. /\ UNCHANGED <<heap, at, stillExecuting, barriers>> /\ pc[c] = "begin"
        /\ \E to \in {"test", "push"} : pc' = [pc EXCEPT ![c] = to]
    BY <1>1 DEF Begin, Goto, scanVars
  <2>2. heap[c] = <<>> /\ at[c] = <<1, 1>>
    BY <1>b, <2>1 DEF LoopOf, Executing
  <2>3. LoopOf(c)'
    BY <1>a, <2>1, <2>2 DEF LoopOf, NoneReady
  <2> QED
    BY <1>a, <2>1, <2>3, LoopFrame
<1>2. ASSUME NEW c \in Cores, PushNext(c) PROVE LoopInv'
  BY <1>2 DEF PushNext, scanVars, LoopInv, LoopOf, AllDone, NoneReady, Executing
<1>3. ASSUME NEW c \in Cores, PushedAll(c) PROVE LoopInv'
  <2>1. /\ UNCHANGED <<heap, at, stillExecuting>> /\ pc[c] = "push"
        /\ pc' = [pc EXCEPT ![c] = "waiting"]
        /\ barriers' = [barriers EXCEPT ![c] = @ + 1]
    BY <1>3 DEF PushedAll, Arrive, Goto, scanVars
  <2>2. heap[c] = <<>> /\ at[c] = <<1, 1>>
    BY <1>b, <2>1 DEF LoopOf, Executing
  <2>3. LoopOf(c)'
    BY <1>a, <2>1, <2>2 DEF LoopOf, AllDone
  <2> QED
    BY <1>a, <2>1, <2>3, LoopFrame
<1>4. ASSUME NEW c \in Cores, Test(c) PROVE LoopInv'
  <2>1. /\ UNCHANGED <<heap, at, barriers>> /\ pc[c] = "test"
        /\ stillExecuting' = [stillExecuting EXCEPT ![c] = FALSE]
        /\ \/ pc' = [pc EXCEPT ![c] = "leave"] /\ ~stillExecuting[c]
           \/ \E to \in {"look", "own"} : pc' = [pc EXCEPT ![c] = to]
    BY <1>4 DEF Test, Goto
  <2>2. at[c] = <<1, 1>>
    BY <1>b, <2>1 DEF LoopOf, Executing
  <2>3. ~stillExecuting[c] => AllDone(c)
    BY <1>b, <2>1, NoneReadyAllDone DEF LoopOf
  <2>4. pc'[c] \in {"leave", "look", "own"} /\ (pc'[c] = "leave" => AllDone(c)')
    BY <1>a, <2>1, <2>3 DEF AllDone
  <2>5. LoopOf(c)'
    BY <2>1, <2>2, <2>4 DEF LoopOf
  <2> QED
    BY <1>a, <2>1, <2>5, LoopFrame
<1>5. ASSUME NEW c \in Cores, Own(c) \/ Look(c) \/ Build(c) \/ Pop(c) \/ Disown(c) PROVE LoopInv'
  <2>1. /\ UNCHANGED <<at, stillExecuting, barriers>>
        /\ \A d \in Cores \ {c} : heap'[d] = heap[d]
    BY <1>5 DEF Own, Look, Build, Pop, Disown, scanVars, TypeInv
  <2>2. /\ pc[c] \in {"own", "look", "build", "pop", "disown"}
        /\ \E to \in {"look", "build", "pop", "scan", "disown"} : pc' = [pc EXCEPT ![c] = to]
    BY <1>5 DEF Own, Look, Build, Pop, Disown, AfterQueue, Goto
  <2>3. at[c] = <<1, 1>>
    BY <1>b, <2>2 DEF LoopOf, Executing
  <2>4. LoopOf(c)'
    BY <1>a, <2>1, <2>2, <2>3 DEF LoopOf
  <2> QED
    BY <1>a, <2>1, <2>2, <2>4, LoopFrame
<1>6. ASSUME NEW c \in Cores, ScanEnd(c) PROVE LoopInv'
  <2>1. /\ UNCHANGED <<heap, stillExecuting, barriers>> /\ ReadyAhead(c) = {}
        /\ pc[c] = "scan" /\ pc' = [pc EXCEPT ![c] = "test"]
        /\ at' = [at EXCEPT ![c] = <<1, 1>>]
    BY <1>6 DEF ScanEnd, Goto
  <2>2. ~stillExecuting[c] => at[c] = <<1, 1>>
    BY <1>b, <2>1 DEF LoopOf, Executing
  <2>3. ~stillExecuting[c] => NoneReady(c)
    BY <2>1, <2>2, ScanFound
  <2>4. LoopOf(c)'
    BY <1>a, <2>1, <2>3 DEF LoopOf, NoneReady
  <2> QED
    BY <1>a, <2>1, <2>4, LoopFrame
<1>7. ASSUME NEW c \in Cores,
             \/ Ready(c) \/ Fire(c) \/ InvokeNext(c) \/ InvokeRefused(c) \/ FinishExecution(c)
             \/ EndOfCodelet(c)
      PROVE  LoopInv'
  <2>1. /\ UNCHANGED <<stillExecuting, barriers>>
        /\ \A d \in Cores \ {c} : heap'[d] = heap[d] /\ at'[d] = at[d]
    <3>1. CASE Fire(c)
      <4>1. \A d \in Cores \ {c} : heap'[d] = heap[d]
        BY <1>a, <3>1, FireHeap
      <4> QED
        BY <3>1, <4>1 DEF Fire
    <3>2. CASE ~Fire(c)
      BY <1>a, <1>7, <3>2 DEF Ready, InvokeNext, InvokeRefused, FinishExecution, EndOfCodelet, scanVars
    <3> QED
      BY <3>1, <3>2
  <2>2. PICK to \in {"fire", "invoke", "finish"} : pc' = [pc EXCEPT ![c] = to]
    <3>1. CASE InvokeNext(c)
      BY <1>a, <3>1 DEF InvokeNext
    <3>2. CASE ~InvokeNext(c)
      BY <1>7, <3>2 DEF Ready, Fire, InvokeRefused, FinishExecution, EndOfCodelet, Goto
    <3> QED
      BY <3>1, <3>2
  <2>3. LoopOf(c)'
    BY <1>a, <2>2 DEF LoopOf, Executing
  <2> QED
    BY <1>a, <2>1, <2>2, <2>3, LoopFrame
<1>8. ASSUME NEW c \in Cores, EndOfSlot(c) PROVE LoopInv'
  <2>1. /\ barriers' = barriers
        /\ stillExecuting' = [stillExecuting EXCEPT ![c] = TRUE]
        /\ pc' = [pc EXCEPT ![c] = "scan"]
        /\ \A d \in Cores \ {c} : at'[d] = at[d]
    BY <1>a, <1>8 DEF EndOfSlot, Goto
  <2>2. \A d \in Cores \ {c} : heap'[d] = heap[d]
    BY <1>a, <1>8, EndHeap
  <2>3. LoopOf(c)'
    BY <1>a, <2>1 DEF LoopOf
  <2> QED
    BY <1>a, <2>1, <2>2, <2>3, LoopFrame
<1>9. ASSUME NEW c \in Cores, Leave(c) PROVE LoopInv'
  <2>1. /\ UNCHANGED <<heap, at, stillExecuting>> /\ pc[c] = "leave"
        /\ pc' = [pc EXCEPT ![c] = "waiting"]
        /\ barriers' = [barriers EXCEPT ![c] = @ + 1]
    BY <1>9 DEF Leave, Arrive, Goto, scanVars
  <2>2. barriers[c] \in Nat /\ barriers[c] % 2 = 0
    BY <2>1 DEF TypeInv, PhaseInv, Running, Locations
  <2>3. barriers'[c] % 2 # 0
    <3>1. barriers'[c] = barriers[c] + 1
      BY <1>a, <2>1
    <3>2. \A n \in Nat : n % 2 = 0 => (n + 1) % 2 # 0
      OBVIOUS
    <3> QED
      BY <2>2, <3>1, <3>2
  <2>4. at[c] = <<1, 1>> /\ AllDone(c)
    BY <1>b, <2>1 DEF LoopOf, Executing
  <2>5. LoopOf(c)'
    BY <1>a, <2>1, <2>3, <2>4 DEF LoopOf, AllDone
  <2> QED
    BY <1>a, <2>1, <2>5, LoopFrame
<1>10. ASSUME NEW c \in Cores, Pass(c) PROVE LoopInv'
  <2>1. /\ UNCHANGED <<heap, at, stillExecuting, barriers>> /\ pc[c] = "waiting"
        /\ pc' = [pc EXCEPT ![c] = IF barriers[c] = 2 * Len(Experiments) THEN "end"
                                   ELSE IF barriers[c] % 2 = 1 THEN "reset" ELSE "begin"]
    BY <1>10 DEF Pass, Goto, Ended, scanVars
  <2>2. at[c] = <<1, 1>> /\ AllDone(c)
    BY <1>b, <2>1 DEF LoopOf, Executing
  <2>3. pc'[c] = "begin" => heap[c] = <<>>
    <3>1. barriers[c] \in 1..(2 * Len(Experiments)) /\ Len(Experiments) \in Nat
      BY <2>1, LenExperiments DEF TypeInv, PhaseInv
    <3>2. pc'[c] = "begin" => barriers[c] % 2 = 0 /\ barriers[c] < 2 * Len(Experiments)
      BY <1>a, <2>1, <3>1
    <3> QED
      BY <1>b, <2>1, <3>2 DEF LoopOf
  <2>4. pc'[c] \in {"end", "reset", "begin"}
    BY <1>a, <2>1
  <2>5. LoopOf(c)'
    BY <2>1, <2>2, <2>3, <2>4 DEF LoopOf, AllDone
  <2> QED
    BY <1>a, <2>1, <2>5, LoopFrame
<1>11. ASSUME NEW c \in Cores, Reset(c) \/ LastBarrier(c) PROVE LoopInv'
  <2>1. /\ UNCHANGED <<at, stillExecuting>> /\ pc[c] = "reset"
        /\ pc' = [pc EXCEPT ![c] = "waiting"]
        /\ barriers' = [barriers EXCEPT ![c] = @ + 1]
        /\ \A d \in Cores \ {c} : heap'[d] = heap[d]
    BY <1>a, <1>11 DEF Reset, LastBarrier, Arrive, Goto, scanVars
  <2>2. at[c] = <<1, 1>> /\ AllDone(c)
    BY <1>b, <2>1 DEF LoopOf, Executing
  <2>3. \/ heap'[c] = <<>>
        \/ heap'[c] = heap[c] /\ ~(barriers'[c] < 2 * Len(Experiments))
    <3>1. CASE Reset(c)
      BY <1>a, <3>1 DEF Reset
    <3>2. CASE LastBarrier(c)
      BY <1>a, <2>1, <3>2, LenExperiments DEF LastBarrier
    <3> QED
      BY <1>11, <3>1, <3>2
  <2>4. AllDone(c)'
    BY <2>2, <2>3 DEF AllDone
  <2>5. LoopOf(c)'
    BY <1>a, <2>1, <2>2, <2>3, <2>4 DEF LoopOf
  <2> QED
    BY <1>a, <2>1, <2>5, LoopFrame
<1>12. CASE UNCHANGED vars
  BY <1>12 DEF vars, scanVars, LoopInv, LoopOf, AllDone, NoneReady, Executing
<1> QED
  BY <1>1, <1>2, <1>3, <1>4, <1>5, <1>6, <1>7, <1>8, <1>9, <1>10, <1>11, <1>12 DEF Next, Step

\* Whatever the experiments, the cores and the queue, a consumer that has left its
\* loop has fired every codelet of what it has built, as long as the counts match
\* and no slots wait for each other: it leaves after a scan from the first slot to
\* the last that has found none ready, and then none is waiting either.
THEOREM NothingLeftBehind ==
  (\A t \in TPnames : CountsMatch(t) /\ Ordered(t)) => (Spec => []CodeletsDone)
<1> SUFFICES ASSUME \A t \in TPnames : CountsMatch(t) /\ Ordered(t)
             PROVE  Spec => []CodeletsDone
  OBVIOUS
<1> DEFINE Inv == TypeInv /\ RestInv /\ SlotInv /\ LoopInv
<1>1. Init => Inv
  <2> SUFFICES ASSUME Init PROVE Inv
    OBVIOUS
  <2>1. RestInv
    BY LenExperiments DEF Init, RestInv
  <2>2. SlotInv
    BY DEF Init, SlotInv
  <2>3. LoopInv
    BY DEF Init, LoopInv, LoopOf
  <2> QED
    BY <2>1, <2>2, <2>3, TypeInit
<1>2. Inv /\ [Next]_vars => Inv'
  BY TypeNext, RestNext, SlotNext, LoopNext
<1>3. Inv => CodeletsDone
  BY DEF LoopInv, LoopOf, AllDone, CodeletsDone
<1> HIDE DEF Inv
<1> QED
  BY <1>1, <1>2, <1>3, PTL DEF Spec
=============================================================================
