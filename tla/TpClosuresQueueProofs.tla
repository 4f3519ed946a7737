----------------------- MODULE TpClosuresQueueProofs -----------------------
(***************************************************************************)
(* What holds of the ownership and of the memory of the closures queue for  *)
(* every set of pushers and owners, every queue size and all closures, with *)
(* owners that call any function at any time.  The last part of the proof   *)
(* that it implements ClosureFifo is in TpClosuresQueueRefinement.          *)
(***************************************************************************)
EXTENDS TpClosuresQueue, TLAPS

-----------------------------------------------------------------------------
(* The part of the state that decides who may do what: which function a core *)
(* is in, and where.  The contents of the queue play no part in it.          *)

ControlType == /\ pc \in [Cores -> Locations]
               /\ op \in [Cores -> Operations]
               /\ top = [c \in Cores |-> top[c]]

\* The locations that only some functions have.
ControlPlaces ==
  \A c \in Cores :
     /\ pc[c] = "owner" => op[c] \in {"disown", "peak", "pop", "popAndDisown"}
     /\ pc[c] = "insert" => op[c] = "push"
     /\ pc[c] = "load" => op[c] = "peak"
     /\ pc[c] = "advance" => op[c] \in {"pop", "popAndDisown"}

OwnerInv == ControlType /\ ControlPlaces /\ CheckedOwnerStays

LEMMA OwnerInit == Init => OwnerInv
BY DEF Init, OwnerInv, ControlType, ControlPlaces, CheckedOwnerStays, PastOwnerTest,
       Locations, Operations, NoPointer

\* Core c alone moves and the queue keeps its owner: nothing changes for the
\* others, so only c has to be looked at.
LEMMA OthersUntouched ==
  ASSUME OwnerInv, NEW c \in Cores,
         ControlType', ControlPlaces',
         \A d \in Cores \ {c} : pc'[d] = pc[d] /\ op'[d] = op[d] /\ top'[d] = top[d],
         queueOwner' = queueOwner,
         PastOwnerTest(c)' \/ top'[c] # NoPointer => queueOwner = c
  PROVE  OwnerInv'
BY DEF OwnerInv, CheckedOwnerStays, PastOwnerTest

\* While a core is past the test, or holds a pointer, no other core is or does.
LEMMA OneOwner ==
  ASSUME OwnerInv, NEW c \in Cores, queueOwner = c, NEW d \in Cores \ {c}
  PROVE  ~PastOwnerTest(d) /\ top[d] = NoPointer
BY DEF OwnerInv, CheckedOwnerStays

LEMMA CallsKeepOwner == ASSUME OwnerInv, NEW c \in Cores, Calls(c) PROVE OwnerInv'
<1>1. PICK o \in Operations, l \in {"lock", "owner", "body"} :
         /\ Call(c, o, l)
         /\ l = "lock" => o \in {"push", "own"}
         /\ l = "owner" => o \in {"peak", "disown", "pop", "popAndDisown"}
         /\ l = "body" => o = "test"
  BY DEF Calls, CallPush, CallOwn, CallPeakOrDisown, CallPop, CallIsEmpty, Operations
<1>2. ControlType' /\ ControlPlaces'
  BY <1>1 DEF Call, Goto, OwnerInv, ControlType, ControlPlaces, Locations
<1>3. PastOwnerTest(c)' \/ top'[c] # NoPointer => queueOwner = c
  BY <1>1 DEF Call, Goto, OwnerInv, ControlType, CheckedOwnerStays, PastOwnerTest
<1>4. /\ \A d \in Cores \ {c} : pc'[d] = pc[d] /\ op'[d] = op[d] /\ top'[d] = top[d]
      /\ queueOwner' = queueOwner
  BY <1>1 DEF Call, Goto, OwnerInv, ControlType
<1>. QED
  BY <1>2, <1>3, <1>4, OthersUntouched

-----------------------------------------------------------------------------
(* The steps, by what they do to the owner.                                  *)

\* Steps that take no ownership and give none up.
LEMMA StepsKeepOwner ==
  ASSUME OwnerInv, NEW c \in Cores,
         \/ NotOwner(c) \/ IsOwner(c) \/ Lock(c) \/ OwnRefused(c)
         \/ PushRefused(c) \/ PushFits(c) \/ InsertAtTail(c) \/ InsertAtInit(c)
         \/ PeakEmpty(c) \/ PeakFound(c) \/ PeakLoad(c) \/ IsEmpty(c)
         \/ PopEmpty(c) \/ PopFound(c) \/ PopAdvance(c)
         \/ Unlock(c) \/ Return(c)
  PROVE  OwnerInv'
<1>. USE DEF OwnerInv, ControlType, ControlPlaces, Goto, Locations, Operations
<1>. DEFINE Untouched ==
       /\ \A d \in Cores \ {c} : pc'[d] = pc[d] /\ op'[d] = op[d] /\ top'[d] = top[d]
       /\ queueOwner' = queueOwner
     Checked == PastOwnerTest(c)' \/ top'[c] # NoPointer => queueOwner = c
     Goal == ControlType' /\ ControlPlaces' /\ Untouched /\ Checked
<1>. USE DEF CheckedOwnerStays, PastOwnerTest
<1>1. CASE NotOwner(c)
  <2>. Goal
    BY <1>1 DEF NotOwner, ring
  <2>. QED
    BY OthersUntouched
<1>2. CASE IsOwner(c)
  <2>. AfterOwner(op[c]) = IF op[c] = "disown" THEN "disown"
                           ELSE IF op[c] = "peak" THEN "body" ELSE "lock"
    BY <1>2 DEF IsOwner, AfterOwner
  <2>. Goal
    BY <1>2 DEF IsOwner, ring
  <2>. QED
    BY OthersUntouched
<1>3. CASE Lock(c)
  <2>. Goal
    BY <1>3 DEF Lock, ring
  <2>. QED
    BY OthersUntouched
<1>4. CASE OwnRefused(c) \/ PushRefused(c) \/ PushFits(c)
  <2>. Goal
    BY <1>4 DEF OwnRefused, PushRefused, PushFits, ring
  <2>. QED
    BY OthersUntouched
<1>5. CASE InsertAtTail(c) \/ InsertAtInit(c)
  <2>. Goal
    BY <1>5 DEF InsertAtTail, InsertAtInit
  <2>. QED
    BY OthersUntouched
<1>6. CASE PeakEmpty(c) \/ PeakFound(c) \/ PeakLoad(c)
  <2>. Goal
    BY <1>6 DEF PeakEmpty, PeakFound, PeakLoad, ring
  <2>. QED
    BY OthersUntouched
<1>7. CASE IsEmpty(c) \/ PopEmpty(c) \/ PopFound(c)
  <2>. Goal
    BY <1>7 DEF IsEmpty, PopEmpty, PopFound, ring
  <2>. QED
    BY OthersUntouched
<1>8. CASE PopAdvance(c)
  <2>. Goal
    BY <1>8 DEF PopAdvance
  <2>. QED
    BY OthersUntouched
<1>9. CASE Unlock(c)
  <2>. Goal
    BY <1>9 DEF Unlock, ring
  <2>. QED
    BY OthersUntouched
<1>10. CASE Return(c)
  <2>. Goal
    BY <1>10 DEF Return, ring
  <2>. QED
    BY OthersUntouched
<1>. QED
  BY <1>1, <1>2, <1>3, <1>4, <1>5, <1>6, <1>7, <1>8, <1>9, <1>10

\* A core takes a queue that nobody owns: no core is past the test then.
LEMMA OwnKeepsOwner == ASSUME OwnerInv, NEW c \in Cores, Own(c) PROVE OwnerInv'
<1>1. ControlType' /\ ControlPlaces'
  BY DEF Own, Goto, ring, OwnerInv, ControlType, ControlPlaces, Locations
<1>2. \A d \in Cores : ~PastOwnerTest(d) /\ top[d] = NoPointer
  BY CoreAssumption DEF Own, OwnerInv, CheckedOwnerStays
<1>3. CheckedOwnerStays'
  BY <1>2 DEF Own, Goto, OwnerInv, ControlType, CheckedOwnerStays, PastOwnerTest
<1>. QED
  BY <1>1, <1>3 DEF OwnerInv

\* The owner that gives the queue up is the only one past the test, and it
\* drops its pointer.
LEMMA DisownKeepsOwner == ASSUME OwnerInv, NEW c \in Cores, Disown(c) PROVE OwnerInv'
<1>1. ControlType' /\ ControlPlaces'
  BY DEF Disown, Goto, ring, OwnerInv, ControlType, ControlPlaces, Locations
<1>2. queueOwner = c
  BY DEF Disown, Goto, OwnerInv, CheckedOwnerStays, PastOwnerTest
<1>3. \A d \in Cores : ~PastOwnerTest(d)' /\ top'[d] = NoPointer
  BY <1>2, OneOwner DEF Disown, Goto, OwnerInv, ControlType, PastOwnerTest
<1>. QED
  BY <1>1, <1>3 DEF OwnerInv, CheckedOwnerStays

LEMMA OwnerStep == OwnerInv /\ [Next]_vars => OwnerInv'
<1>. SUFFICES ASSUME OwnerInv, [Next]_vars PROVE OwnerInv'
  OBVIOUS
<1>1. CASE UNCHANGED vars
  BY <1>1 DEF vars, OwnerInv, ControlType, ControlPlaces, CheckedOwnerStays, PastOwnerTest
<1>2. ASSUME NEW c \in Cores, Calls(c) PROVE OwnerInv'
  BY <1>2, CallsKeepOwner
<1>3. ASSUME NEW c \in Cores, Step(c) PROVE OwnerInv'
  BY <1>3, StepsKeepOwner, OwnKeepsOwner, DisownKeepsOwner DEF Step
<1>. QED
  BY <1>1, <1>2, <1>3 DEF Next

\* CheckedOwnerStays: a core that has passed the test of queueOwner, which
\* takes no mutex, or that holds a pointer into the queue is still the owner
\* when it acts on it, whatever the other cores call in the meantime.
THEOREM OwnerStays == Spec => []CheckedOwnerStays
<1>1. OwnerInv => CheckedOwnerStays
  BY DEF OwnerInv
<1>. QED
  BY <1>1, OwnerInit, OwnerStep, PTL DEF Spec

-----------------------------------------------------------------------------
(* The memory.  What lies between two addresses lo and hi is a row of whole   *)
(* closures: each begins where the one before ends, and none crosses hi.      *)

Tiled(words, lo, hi) ==
  /\ lo < hi => \E d \in Closures : words[lo] = <<d, 0>>
  /\ \A a \in lo..(hi - 1), d \in Closures :
        words[a] = <<d, 0>> =>
           /\ a + ClosureSize[d] <= hi
           /\ \A k \in 0..(ClosureSize[d] - 1) : words[a + k] = <<d, k>>
           /\ a + ClosureSize[d] < hi => \E e \in Closures : words[a + ClosureSize[d]] = <<e, 0>>

LEMMA TiledNothing == ASSUME NEW words, NEW lo \in Int, NEW hi \in Int, hi <= lo
                      PROVE  Tiled(words, lo, hi)
BY DEF Tiled

\* What lies elsewhere does not matter.
LEMMA TiledKept ==
  ASSUME NEW words, NEW other, NEW lo \in Nat, NEW hi \in Nat, Tiled(words, lo, hi),
         \A a \in lo..(hi - 1) : other[a] = words[a]
  PROVE  Tiled(other, lo, hi)
<1>1. lo < hi => \E d \in Closures : other[lo] = <<d, 0>>
  BY DEF Tiled
<1>2. ASSUME NEW a \in lo..(hi - 1), NEW d \in Closures, other[a] = <<d, 0>>
      PROVE  /\ a + ClosureSize[d] <= hi
             /\ \A k \in 0..(ClosureSize[d] - 1) : other[a + k] = <<d, k>>
             /\ a + ClosureSize[d] < hi =>
                   \E e \in Closures : other[a + ClosureSize[d]] = <<e, 0>>
  <2>1. words[a] = <<d, 0>> /\ ClosureSize[d] \in Nat \ {0}
    BY <1>2, SizeAssumption
  <2>2. /\ a + ClosureSize[d] <= hi
        /\ \A k \in 0..(ClosureSize[d] - 1) : words[a + k] = <<d, k>>
        /\ a + ClosureSize[d] < hi => \E e \in Closures : words[a + ClosureSize[d]] = <<e, 0>>
    BY <2>1 DEF Tiled
  <2>3. ASSUME NEW k \in 0..(ClosureSize[d] - 1)
        PROVE  other[a + k] = words[a + k]
    BY <2>1, <2>2
  <2>4. a + ClosureSize[d] < hi => other[a + ClosureSize[d]] = words[a + ClosureSize[d]]
    BY <2>1
  <2>. QED
    BY <2>2, <2>3, <2>4
<1>. QED
  BY <1>1, <1>2 DEF Tiled

\* A closure is put behind the row.
LEMMA TiledExtended ==
  ASSUME NEW words, NEW other, NEW lo \in Nat, NEW hi \in Nat, lo <= hi,
         Tiled(words, lo, hi), NEW d \in Closures,
         \A a \in lo..(hi - 1) : other[a] = words[a],
         \A k \in 0..(ClosureSize[d] - 1) : other[hi + k] = <<d, k>>
  PROVE  Tiled(other, lo, hi + ClosureSize[d])
<1>. DEFINE end == hi + ClosureSize[d]
<1>1. ClosureSize[d] \in Nat \ {0}
  BY SizeAssumption
<1>2. Tiled(other, lo, hi)
  BY TiledKept
<1>3. other[hi] = <<d, 0>>
  BY <1>1
<1>4. lo < end => \E e \in Closures : other[lo] = <<e, 0>>
  <2>1. CASE lo < hi
    BY <1>2, <2>1 DEF Tiled
  <2>2. CASE lo = hi
    BY <1>3, <2>2
  <2>. QED
    BY <2>1, <2>2
<1>5. ASSUME NEW a \in lo..(end - 1), NEW e \in Closures, other[a] = <<e, 0>>
      PROVE  /\ a + ClosureSize[e] <= end
             /\ \A k \in 0..(ClosureSize[e] - 1) : other[a + k] = <<e, k>>
             /\ a + ClosureSize[e] < end =>
                   \E f \in Closures : other[a + ClosureSize[e]] = <<f, 0>>
  <2>1. ClosureSize[e] \in Nat \ {0}
    BY SizeAssumption
  <2>2. CASE a < hi
    <3>1. /\ a + ClosureSize[e] <= hi
          /\ \A k \in 0..(ClosureSize[e] - 1) : other[a + k] = <<e, k>>
          /\ a + ClosureSize[e] < hi =>
                \E f \in Closures : other[a + ClosureSize[e]] = <<f, 0>>
      <4>1. a \in lo..(hi - 1)
        BY <2>2
      <4>. QED
        BY <1>2, <1>5, <4>1 DEF Tiled
    <3>. QED
      BY <1>1, <1>3, <2>1, <3>1
  <2>3. CASE a >= hi
    <3>1. a - hi \in 0..(ClosureSize[d] - 1) /\ a = hi + (a - hi)
      BY <1>1, <2>3
    <3>2. other[a] = <<d, a - hi>>
      BY <3>1
    <3>3. e = d /\ a = hi
      BY <1>5, <3>1, <3>2
    <3>. QED
      BY <1>1, <3>3
  <2>. QED
    BY <2>2, <2>3
<1>. QED
  BY <1>4, <1>5 DEF Tiled

\* The first closure is taken away.
LEMMA TiledRest ==
  ASSUME NEW words, NEW lo \in Nat, NEW hi \in Nat, lo < hi, Tiled(words, lo, hi)
  PROVE  LET d == words[lo][1]
         IN /\ d \in Closures
            /\ words[lo] = <<d, 0>>
            /\ \A k \in 0..(ClosureSize[d] - 1) : words[lo + k] = <<d, k>>
            /\ ClosureSize[d] \in Nat \ {0}
            /\ lo + ClosureSize[d] <= hi
            /\ Tiled(words, lo + ClosureSize[d], hi)
<1>1. PICK d \in Closures : words[lo] = <<d, 0>>
  BY DEF Tiled
<1>2. ClosureSize[d] \in Nat \ {0}
  BY SizeAssumption
<1>3. lo \in lo..(hi - 1)
  OBVIOUS
<1>4. /\ lo + ClosureSize[d] <= hi
      /\ \A k \in 0..(ClosureSize[d] - 1) : words[lo + k] = <<d, k>>
      /\ lo + ClosureSize[d] < hi => \E e \in Closures : words[lo + ClosureSize[d]] = <<e, 0>>
  BY <1>1, <1>3 DEF Tiled
<1>5. Tiled(words, lo + ClosureSize[d], hi)
  <2>1. (lo + ClosureSize[d])..(hi - 1) \subseteq lo..(hi - 1)
    BY <1>2
  <2>. QED
    BY <1>4, <2>1 DEF Tiled
<1>6. words[lo][1] = d
  BY <1>1
<1>. QED
  BY <1>1, <1>2, <1>4, <1>5, <1>6

-----------------------------------------------------------------------------
(* The calls: who has the mutex, what a core pushes and what it found before  *)
(* it acts on it.                                                             *)

LocalInv(c) ==
  /\ HasLock(c) => lockMutex = c
  /\ op[c] = "push" => arg[c] \in Closures
  /\ op[c] # "push" => arg[c] = Garbage
  /\ pc[c] = "idle" <=> op[c] = "none"
  /\ pc[c] \in {"lock", "unlock"} => op[c] \in {"push", "own", "pop", "popAndDisown"}
  /\ pc[c] = "body" => op[c] \notin {"none", "disown"}
  /\ pc[c] = "disown" => op[c] \in {"disown", "popAndDisown"}
  /\ pc[c] \in {"unlock", "disown"} /\ op[c] = "popAndDisown" =>
        top[c] = NoPointer /\ result[c] = "SUCCESS_OP"

CallInv == /\ lockMutex \in Cores \cup {0}
           /\ queueOwner \in Cores \cup InitialOwners \cup {0}
           /\ arg \in [Cores -> Closures \cup {Garbage}]
           /\ result \in [Cores -> Results]
           /\ \A c \in Cores : LocalInv(c)

LEMMA CallInit == Init => CallInv
BY DEF Init, CallInv, LocalInv, HasLock, Results

\* A step of core c: the others stay where they are, and keep the mutex if
\* they have it.
OthersStay(c) ==
  \A d \in Cores \ {c} :
     /\ pc'[d] = pc[d] /\ op'[d] = op[d] /\ arg'[d] = arg[d]
     /\ top'[d] = top[d] /\ result'[d] = result[d]
     /\ lockMutex = d => lockMutex' = d

LEMMA OthersLocal ==
  ASSUME NEW c \in Cores, OthersStay(c), NEW d \in Cores \ {c}, LocalInv(d)
  PROVE  LocalInv(d)'
BY DEF OthersStay, LocalInv, HasLock

LEMMA StepsStay ==
  ASSUME OwnerInv, CallInv, NEW c \in Cores, Calls(c) \/ Step(c)
  PROVE  OthersStay(c)
<1>. USE DEF OthersStay, OwnerInv, ControlType, CallInv, Goto, Answer
<1>1. CASE Calls(c)
  BY <1>1 DEF Calls, CallPush, CallOwn, CallPeakOrDisown, CallPop, CallIsEmpty, Call
<1>2. CASE NotOwner(c) \/ IsOwner(c) \/ Own(c) \/ OwnRefused(c) \/ Disown(c)
  BY <1>2 DEF NotOwner, IsOwner, Own, OwnRefused, Disown
<1>3. CASE Lock(c)
  BY <1>3, CoreAssumption DEF Lock
<1>4. CASE PushRefused(c) \/ PushFits(c) \/ InsertAtTail(c) \/ InsertAtInit(c)
  BY <1>4 DEF PushRefused, PushFits, InsertAtTail, InsertAtInit
<1>5. CASE PeakEmpty(c) \/ PeakFound(c) \/ PeakLoad(c) \/ IsEmpty(c)
  BY <1>5 DEF PeakEmpty, PeakFound, PeakLoad, IsEmpty
<1>6. CASE PopEmpty(c) \/ PopFound(c) \/ PopAdvance(c)
  BY <1>6 DEF PopEmpty, PopFound, PopAdvance
<1>7. CASE Unlock(c)
  <2>1. lockMutex = c
    BY <1>7 DEF Unlock, LocalInv, HasLock
  <2>. QED
    BY <1>7, <2>1 DEF Unlock
<1>8. CASE Return(c)
  BY <1>8 DEF Return
<1>. QED
  BY <1>1, <1>2, <1>3, <1>4, <1>5, <1>6, <1>7, <1>8 DEF Step

LEMMA CallStep ==
  ASSUME OwnerInv, CallInv, NEW c \in Cores, Calls(c) \/ Step(c)
  PROVE  CallInv'
<1>. DEFINE Types == /\ lockMutex' \in Cores \cup {0}
                     /\ queueOwner' \in Cores \cup InitialOwners \cup {0}
                     /\ arg' \in [Cores -> Closures \cup {Garbage}]
                     /\ result' \in [Cores -> Results]
<1>1. Types
  <2>. USE DEF CallInv, Goto, Answer, Results
  <2>1. CASE Calls(c)
    BY <2>1 DEF Calls, CallPush, CallOwn, CallPeakOrDisown, CallPop, CallIsEmpty, Call
  <2>2. CASE NotOwner(c) \/ IsOwner(c) \/ Lock(c) \/ Own(c) \/ OwnRefused(c) \/ Disown(c)
    BY <2>2 DEF NotOwner, IsOwner, Lock, Own, OwnRefused, Disown
  <2>3. CASE PushRefused(c) \/ PushFits(c) \/ InsertAtTail(c) \/ InsertAtInit(c)
    BY <2>3 DEF PushRefused, PushFits, InsertAtTail, InsertAtInit
  <2>4. CASE PeakEmpty(c) \/ PeakFound(c) \/ PeakLoad(c) \/ IsEmpty(c)
    BY <2>4 DEF PeakEmpty, PeakFound, PeakLoad, IsEmpty
  <2>5. CASE PopEmpty(c) \/ PopFound(c) \/ PopAdvance(c)
    BY <2>5 DEF PopEmpty, PopFound, PopAdvance
  <2>6. CASE Unlock(c) \/ Return(c)
    BY <2>6 DEF Unlock, Return
  <2>. QED
    BY <2>1, <2>2, <2>3, <2>4, <2>5, <2>6 DEF Step
<1>2. LocalInv(c)'
  <2>. USE DEF LocalInv, HasLock, OwnerInv, ControlType, ControlPlaces, Goto, Answer,
               Locations, Operations
  <2>0. LocalInv(c) /\ result \in [Cores -> Results]
                    /\ arg \in [Cores -> Closures \cup {Garbage}]
    BY DEF CallInv
  <2>1. CASE CallPush(c)
    BY <2>0, <2>1 DEF CallPush, Call
  <2>2. CASE CallOwn(c) \/ CallPeakOrDisown(c) \/ CallPop(c) \/ CallIsEmpty(c)
    BY <2>0, <2>2 DEF CallOwn, CallPeakOrDisown, CallPop, CallIsEmpty, Call
  <2>3. CASE NotOwner(c)
    BY <2>0, <2>3 DEF NotOwner
  <2>4. CASE IsOwner(c)
    BY <2>0, <2>4 DEF IsOwner, AfterOwner
  <2>5. CASE Lock(c)
    BY <2>0, <2>5 DEF Lock
  <2>6. CASE Own(c) \/ OwnRefused(c)
    BY <2>0, <2>6 DEF Own, OwnRefused
  <2>7. CASE Disown(c)
    BY <2>0, <2>7 DEF Disown
  <2>8. CASE PushRefused(c) \/ PushFits(c)
    BY <2>0, <2>8 DEF PushRefused, PushFits
  <2>9. CASE InsertAtTail(c) \/ InsertAtInit(c)
    BY <2>0, <2>9 DEF InsertAtTail, InsertAtInit
  <2>10. CASE PeakEmpty(c) \/ PeakFound(c) \/ PeakLoad(c) \/ IsEmpty(c)
    BY <2>0, <2>10 DEF PeakEmpty, PeakFound, PeakLoad, IsEmpty
  <2>11. CASE PopEmpty(c) \/ PopFound(c)
    BY <2>0, <2>11 DEF PopEmpty, PopFound
  <2>12. CASE PopAdvance(c)
    BY <2>0, <2>12 DEF PopAdvance
  <2>13. CASE Unlock(c)
    BY <2>0, <2>13 DEF Unlock
  <2>14. CASE Return(c)
    BY <2>0, <2>14 DEF Return
  <2>. QED
    BY <2>1, <2>2, <2>3, <2>4, <2>5, <2>6, <2>7, <2>8, <2>9, <2>10, <2>11, <2>12,
       <2>13, <2>14 DEF Calls, Step
<1>3. ASSUME NEW d \in Cores \ {c}
      PROVE  LocalInv(d)'
  BY <1>3, StepsStay, OthersLocal DEF CallInv
<1>. QED
  BY <1>1, <1>2, <1>3 DEF CallInv

-----------------------------------------------------------------------------
(* The ring.  What the head has passed on its way from the beginning is a row  *)
(* of whole closures too: when the tail stands at the end of the memory and    *)
(* the head goes back to the beginning, the head is at a closure again.        *)

RingInv ==
  /\ headAddress \in Offsets
  /\ tailAddress \in Addresses
  /\ padding \in Addresses
  /\ space \in [Offsets -> Words]
  /\ headAddress = tailAddress => headAddress = 0
  /\ headAddress <= tailAddress => /\ padding = 0
                                   /\ Tiled(space, 0, headAddress)
                                   /\ Tiled(space, headAddress, tailAddress)
  /\ tailAddress < headAddress => /\ headAddress < QueueSize - padding
                                  /\ Tiled(space, headAddress, QueueSize - padding)
                                  /\ Tiled(space, 0, tailAddress)

\* What a core found under the mutex, or as the owner, when it acts on it.
FoundInv ==
  \A c \in Cores :
     /\ pc[c] = "insert" => Fits(arg[c])
     /\ pc[c] \in {"advance", "load"} => headAddress # tailAddress
     /\ top[c] # NoPointer => top[c] = headAddress /\ headAddress # tailAddress

LEMMA CopiedWords ==
  ASSUME NEW a \in Nat, NEW d \in Closures, a + ClosureSize[d] <= QueueSize,
         space \in [Offsets -> Words]
  PROVE  /\ CopiedTo(a, d) \in [Offsets -> Words]
         /\ \A k \in 0..(ClosureSize[d] - 1) : CopiedTo(a, d)[a + k] = <<d, k>>
         /\ \A i \in Offsets : i < a \/ i >= a + ClosureSize[d] => CopiedTo(a, d)[i] = space[i]
<1>1. ClosureSize[d] \in Nat \ {0} /\ QueueSize \in Nat
  BY SizeAssumption
<1>2. ASSUME NEW i \in Offsets, i \in a..(a + ClosureSize[d] - 1)
      PROVE  <<d, i - a>> \in Words
  BY <1>1, <1>2 DEF Words, Offsets
<1>3. CopiedTo(a, d) \in [Offsets -> Words]
  BY <1>2 DEF CopiedTo
<1>4. ASSUME NEW k \in 0..(ClosureSize[d] - 1)
      PROVE  CopiedTo(a, d)[a + k] = <<d, k>>
  <2>1. a + k \in Offsets /\ a + k \in a..(a + ClosureSize[d] - 1) /\ (a + k) - a = k
    BY <1>1 DEF Offsets
  <2>. QED
    BY <2>1 DEF CopiedTo
<1>5. \A i \in Offsets : i < a \/ i >= a + ClosureSize[d] => CopiedTo(a, d)[i] = space[i]
  BY <1>1 DEF CopiedTo, Offsets
<1>. QED
  BY <1>3, <1>4, <1>5

LEMMA RingInit == Init => RingInv
<1>. SUFFICES ASSUME Init PROVE RingInv
  OBVIOUS
<1>1. Tiled(space, headAddress, tailAddress) /\ Tiled(space, 0, headAddress)
  BY TiledNothing DEF Init
<1>. QED
  BY <1>1, SizeAssumption DEF Init, RingInv, Offsets, Addresses, Words

\* pushTpClosureQueue, between the head and the tail or after the tail.
LEMMA InsertAtTailRing ==
  ASSUME RingInv, NEW c \in Cores, arg[c] \in Closures, Fits(arg[c]), InsertAtTail(c)
  PROVE  /\ RingInv'
         /\ headAddress' = headAddress
         /\ headAddress' # tailAddress'
         /\ tailAddress + ClosureSize[arg[c]] <= QueueSize
<1>. DEFINE d == arg[c]
            t == tailAddress
            end == tailAddress + ClosureSize[d]
<1>0. /\ headAddress \in Nat /\ tailAddress \in Nat /\ padding \in Nat
      /\ headAddress < QueueSize /\ tailAddress <= QueueSize
      /\ QueueSize \in Nat /\ ClosureSize[d] \in Nat \ {0}
  BY SizeAssumption DEF RingInv, Offsets, Addresses
<1>1. /\ space' = CopiedTo(t, d)
      /\ tailAddress' = end
      /\ headAddress' = headAddress
      /\ padding' = padding
  BY DEF InsertAtTail
<1>2. end <= QueueSize /\ (tailAddress < headAddress => end < headAddress)
  BY <1>0 DEF InsertAtTail, GoesAtTail, Fits, MaxFreeSpace, RightOfTail, LeftOfHead, RingInv
<1>3. end \in Addresses
  BY <1>0, <1>2 DEF Addresses
<1>4. /\ space' \in [Offsets -> Words]
      /\ \A k \in 0..(ClosureSize[d] - 1) : space'[t + k] = <<d, k>>
      /\ \A i \in Offsets : i < t \/ i >= end => space'[i] = space[i]
  <2>1. space \in [Offsets -> Words]
    BY DEF RingInv
  <2>2. t \in Nat /\ d \in Closures /\ t + ClosureSize[d] <= QueueSize
    BY <1>0, <1>2
  <2>. HIDE DEF t, d
  <2>3. /\ CopiedTo(t, d) \in [Offsets -> Words]
        /\ \A k \in 0..(ClosureSize[d] - 1) : CopiedTo(t, d)[t + k] = <<d, k>>
        /\ \A i \in Offsets : i < t \/ i >= t + ClosureSize[d] => CopiedTo(t, d)[i] = space[i]
    BY <2>1, <2>2, CopiedWords
  <2>. QED
    BY <1>1, <2>3 DEF t
<1>5. CASE headAddress <= tailAddress
  <2>1. Tiled(space, 0, headAddress) /\ Tiled(space, headAddress, t) /\ padding = 0
    BY <1>5 DEF RingInv
  <2>2. \A a \in headAddress..(t - 1) : space'[a] = space[a]
    BY <1>0, <1>4 DEF Offsets
  <2>3. Tiled(space', headAddress, end)
    BY <1>0, <1>4, <1>5, <2>1, <2>2, TiledExtended
  <2>4. Tiled(space', 0, headAddress)
    <3>1. \A a \in 0..(headAddress - 1) : space'[a] = space[a]
      BY <1>0, <1>4, <1>5 DEF Offsets
    <3>2. 0 \in Nat
      OBVIOUS
    <3>. QED
      BY <1>0, <2>1, <3>1, <3>2, TiledKept
  <2>5. headAddress' < tailAddress' /\ headAddress \in Offsets
    BY <1>0, <1>1, <1>5 DEF Offsets
  <2>. HIDE DEF end
  <2>6. RingInv'
    <3>1. tailAddress' \in Addresses /\ padding' \in Addresses /\ padding' = 0
      BY <1>1, <1>3, <2>1 DEF RingInv
    <3>2. Tiled(space', 0, headAddress') /\ Tiled(space', headAddress', tailAddress')
      BY <1>1, <2>3, <2>4
    <3>3. headAddress' \in Nat /\ tailAddress' \in Nat
      BY <1>0, <1>1, <3>1, SizeAssumption DEF Addresses
    <3>. QED
      BY <1>1, <1>4, <2>5, <3>1, <3>2, <3>3 DEF RingInv
  <2>. QED
    BY <1>0, <1>1, <1>2, <2>5, <2>6 DEF end
<1>6. CASE tailAddress < headAddress
  <2>1. /\ headAddress < QueueSize - padding
        /\ Tiled(space, headAddress, QueueSize - padding)
        /\ Tiled(space, 0, t)
    BY <1>6 DEF RingInv
  <2>2. \A a \in 0..(t - 1) : space'[a] = space[a]
    BY <1>0, <1>4, <1>6 DEF Offsets
  <2>3. Tiled(space', 0, end)
    <3>1. 0 \in Nat /\ 0 <= t /\ t \in Nat
      BY <1>0
    <3>. QED
      BY <1>4, <2>1, <2>2, <3>1, TiledExtended
  <2>4. \A a \in headAddress..(QueueSize - padding - 1) : space'[a] = space[a]
    BY <1>0, <1>2, <1>4, <1>6 DEF Offsets
  <2>5. QueueSize - padding \in Nat
    BY <1>0, <2>1
  <2>6. Tiled(space', headAddress, QueueSize - padding)
    BY <1>0, <2>1, <2>4, <2>5, TiledKept
  <2>7. tailAddress' < headAddress'
    BY <1>1, <1>2, <1>6
  <2>8. RingInv'
    BY <1>0, <1>1, <1>3, <1>4, <2>1, <2>3, <2>6, <2>7 DEF RingInv, Offsets
  <2>. QED
    BY <1>0, <1>1, <1>2, <2>7, <2>8
<1>. QED
  BY <1>0, <1>5, <1>6

\* pushTpClosureQueue, over the padding to the beginning.
LEMMA InsertAtInitRing ==
  ASSUME RingInv, NEW c \in Cores, arg[c] \in Closures, Fits(arg[c]), InsertAtInit(c)
  PROVE  /\ RingInv'
         /\ headAddress' = headAddress
         /\ headAddress < tailAddress
         /\ tailAddress' < headAddress'
         /\ headAddress' # tailAddress'
<1>. DEFINE d == arg[c]
<1>0. /\ headAddress \in Nat /\ tailAddress \in Nat
      /\ headAddress < QueueSize /\ tailAddress <= QueueSize
      /\ QueueSize \in Nat /\ ClosureSize[d] \in Nat \ {0}
  BY SizeAssumption DEF RingInv, Offsets, Addresses
<1>1. /\ space' = CopiedTo(0, d)
      /\ tailAddress' = ClosureSize[d]
      /\ headAddress' = headAddress
      /\ padding' = QueueSize - tailAddress
  BY DEF InsertAtInit, RightOfTail
<1>2. headAddress < tailAddress /\ ClosureSize[d] < headAddress
  BY <1>0 DEF InsertAtInit, GoesAtTail, Fits, MaxFreeSpace, RightOfTail, LeftOfHead
<1>4. /\ space' \in [Offsets -> Words]
      /\ \A k \in 0..(ClosureSize[d] - 1) : space'[k] = <<d, k>>
      /\ \A i \in Offsets : i >= ClosureSize[d] => space'[i] = space[i]
  <2>1. space \in [Offsets -> Words]
    BY DEF RingInv
  <2>2. 0 \in Nat /\ d \in Closures /\ 0 + ClosureSize[d] <= QueueSize
    BY <1>0, <1>2
  <2>. HIDE DEF d
  <2>3. /\ CopiedTo(0, d) \in [Offsets -> Words]
        /\ \A k \in 0..(ClosureSize[d] - 1) : CopiedTo(0, d)[0 + k] = <<d, k>>
        /\ \A i \in Offsets : i < 0 \/ i >= 0 + ClosureSize[d] => CopiedTo(0, d)[i] = space[i]
    BY <2>1, <2>2, CopiedWords
  <2>. QED
    BY <1>0, <1>1, <2>3
<1>5. Tiled(space, headAddress, tailAddress)
  BY <1>0, <1>2 DEF RingInv
<1>6. \A a \in headAddress..(tailAddress - 1) : space'[a] = space[a]
  BY <1>0, <1>2, <1>4 DEF Offsets
<1>7. Tiled(space', headAddress, tailAddress)
  BY <1>0, <1>5, <1>6, TiledKept
<1>8. Tiled(space', 0, ClosureSize[d])
  <2>1. Tiled(space, 0, 0)
    BY TiledNothing
  <2>2. \A a \in 0..(0 - 1) : space'[a] = space[a]
    OBVIOUS
  <2>3. \A k \in 0..(ClosureSize[d] - 1) : space'[0 + k] = <<d, k>>
    BY <1>0, <1>4
  <2>4. Tiled(space', 0, 0 + ClosureSize[d])
    <3>1. 0 \in Nat /\ 0 <= 0
      OBVIOUS
    <3>. QED
      BY <2>1, <2>2, <2>3, <3>1, TiledExtended
  <2>. QED
    BY <1>0, <2>4
<1>9. QueueSize - padding' = tailAddress
  BY <1>0, <1>1
<1>. QED
  BY <1>0, <1>1, <1>2, <1>4, <1>7, <1>8, <1>9 DEF RingInv, Offsets, Addresses

\* popTopElementQueue.
LEMMA PopAdvanceRing ==
  ASSUME RingInv, NEW c \in Cores, headAddress # tailAddress, PopAdvance(c)
  PROVE  RingInv'
<1>. DEFINE d == space[headAddress][1]
            next == headAddress + ClosureSize[d]
            end == IF headAddress < tailAddress THEN tailAddress ELSE QueueSize - padding
<1>0. /\ headAddress \in Nat /\ tailAddress \in Nat /\ padding \in Nat
      /\ headAddress < QueueSize /\ tailAddress <= QueueSize /\ QueueSize \in Nat
  BY SizeAssumption DEF RingInv, Offsets, Addresses
<1>1. Tiled(space, headAddress, end) /\ headAddress < end /\ end \in Nat
  BY <1>0 DEF RingInv
<1>2. /\ ClosureSize[d] \in Nat \ {0}
      /\ next <= end
      /\ Tiled(space, next, end)
  BY <1>0, <1>1, TiledRest
<1>3. /\ d \in Closures
      /\ \A k \in 0..(ClosureSize[d] - 1) : space[headAddress + k] = <<d, k>>
  BY <1>0, <1>1, TiledRest
<1>. HIDE DEF d
<1>5. UNCHANGED space /\ space' \in [Offsets -> Words]
  BY DEF PopAdvance, RingInv
<1>6. CASE headAddress < tailAddress
  <2>0. padding = 0 /\ next <= tailAddress
    BY <1>0, <1>2, <1>6 DEF RingInv
  <2>1. Tiled(space, 0, next)
    <3>1. Tiled(space, 0, headAddress)
      BY <1>0, <1>6 DEF RingInv
    <3>2. 0 \in Nat /\ 0 <= headAddress
      BY <1>0
    <3>. QED
      BY <1>0, <1>3, <3>1, <3>2, TiledExtended
  <2>2. CASE next = QueueSize
    <3>1. headAddress' = 0 /\ tailAddress' = QueueSize /\ padding' = 0
      BY <1>0, <2>0, <2>2, SizeAssumption DEF PopAdvance, TopSize, d
    <3>2. Tiled(space', 0, 0) /\ Tiled(space', 0, QueueSize)
      BY <1>5, <2>1, <2>2, TiledNothing
    <3>. QED
      BY <1>0, <1>5, <3>1, <3>2, SizeAssumption DEF RingInv, Offsets, Addresses
  <2>3. CASE next = tailAddress /\ next # QueueSize
    <3>1. headAddress' = 0 /\ tailAddress' = 0 /\ padding' = 0
      BY <1>0, <1>2, <2>0, <2>3 DEF PopAdvance, TopSize, d
    <3>2. Tiled(space', 0, 0)
      BY TiledNothing
    <3>. QED
      BY <1>0, <1>5, <3>1, <3>2 DEF RingInv, Offsets, Addresses
  <2>4. CASE next < tailAddress
    <3>1. headAddress' = next /\ tailAddress' = tailAddress /\ padding' = 0
      BY <1>0, <1>2, <2>0, <2>4 DEF PopAdvance, TopSize, d
    <3>2. Tiled(space', 0, next) /\ Tiled(space', next, tailAddress)
      BY <1>2, <1>5, <1>6, <2>1
    <3>3. next \in Nat /\ next < tailAddress
      BY <1>0, <1>2, <2>4
    <3>. HIDE DEF next
    <3>. QED
      BY <1>0, <1>5, <3>1, <3>2, <3>3 DEF RingInv, Offsets, Addresses
  <2>. QED
    BY <1>0, <1>2, <2>0, <2>2, <2>3, <2>4
<1>7. CASE tailAddress < headAddress
  <2>1. Tiled(space, 0, tailAddress)
    BY <1>7 DEF RingInv
  <2>2. CASE next = end
    <3>1. next + padding = QueueSize
      BY <1>0, <1>7, <2>2
    <3>2. headAddress' = 0 /\ tailAddress' = tailAddress /\ padding' = 0
      BY <3>1 DEF PopAdvance, TopSize, d
    <3>3. Tiled(space', 0, 0)
      BY TiledNothing
    <3>. QED
      BY <1>0, <1>5, <2>1, <3>2, <3>3 DEF RingInv, Offsets, Addresses
  <2>3. CASE next # end
    <3>1. next + padding # QueueSize /\ next # tailAddress
      BY <1>0, <1>2, <1>7, <2>3
    <3>2. headAddress' = next /\ tailAddress' = tailAddress /\ padding' = padding
      BY <3>1 DEF PopAdvance, TopSize, d
    <3>. QED
      BY <1>0, <1>2, <1>5, <1>7, <2>1, <2>3, <3>2 DEF RingInv, Offsets, Addresses
  <2>. QED
    BY <2>2, <2>3
<1>. QED
  BY <1>0, <1>6, <1>7

-----------------------------------------------------------------------------
(* All together.                                                              *)

FullInv == OwnerInv /\ CallInv /\ RingInv /\ FoundInv

\* The three steps that change the ring; the others leave it alone.
LEMMA RingChanges ==
  ASSUME NEW c \in Cores, Calls(c) \/ Step(c)
  PROVE  InsertAtTail(c) \/ InsertAtInit(c) \/ PopAdvance(c) \/ UNCHANGED ring
<1>1. CASE Calls(c)
  BY <1>1 DEF Calls, CallPush, CallOwn, CallPeakOrDisown, CallPop, CallIsEmpty, Call
<1>2. CASE Step(c)
  BY <1>2 DEF Step, NotOwner, IsOwner, Lock, Own, OwnRefused, Disown, PushRefused, PushFits,
              PeakEmpty, PeakFound, PeakLoad, IsEmpty, PopEmpty, PopFound, Unlock, Return
<1>. QED
  BY <1>1, <1>2

LEMMA RingSame == ASSUME UNCHANGED ring PROVE RingInv' <=> RingInv
BY DEF ring, RingInv, Tiled

\* What the ring is like when a core is about to change it.
LEMMA ReadyToInsert ==
  ASSUME FullInv, NEW c \in Cores, pc[c] = "insert"
  PROVE  /\ arg[c] \in Closures /\ Fits(arg[c])
         /\ lockMutex = c
         /\ \A d \in Cores \ {c} : ~HasLock(d)
BY DEF FullInv, OwnerInv, ControlPlaces, CallInv, LocalInv, HasLock, FoundInv

LEMMA ReadyToAdvance ==
  ASSUME FullInv, NEW c \in Cores, pc[c] = "advance"
  PROVE  /\ headAddress # tailAddress
         /\ queueOwner = c
         /\ \A d \in Cores \ {c} : ~HasLock(d)
BY DEF FullInv, OwnerInv, CheckedOwnerStays, PastOwnerTest, CallInv, LocalInv, HasLock, FoundInv

LEMMA RingStep ==
  ASSUME FullInv,
         NEW c \in Cores, Calls(c) \/ Step(c)
  PROVE  RingInv'
<1>1. CASE InsertAtTail(c)
  BY <1>1, ReadyToInsert, InsertAtTailRing DEF FullInv, InsertAtTail, Goto
<1>2. CASE InsertAtInit(c)
  BY <1>2, ReadyToInsert, InsertAtInitRing DEF FullInv, InsertAtInit, Goto
<1>3. CASE PopAdvance(c)
  BY <1>3, ReadyToAdvance, PopAdvanceRing DEF FullInv, PopAdvance, Goto
<1>4. CASE UNCHANGED ring
  BY <1>4, RingSame DEF FullInv
<1>. QED
  BY <1>1, <1>2, <1>3, <1>4, RingChanges

FoundBy(c) ==
  /\ pc[c] = "insert" => Fits(arg[c])
  /\ pc[c] \in {"advance", "load"} => headAddress # tailAddress
  /\ top[c] # NoPointer => top[c] = headAddress /\ headAddress # tailAddress

LEMMA FoundStep ==
  ASSUME FullInv,
         NEW c \in Cores, Calls(c) \/ Step(c)
  PROVE  FoundInv'
<1>. USE DEF Goto
<1>0. FoundBy(c)
  BY DEF FullInv, FoundInv, FoundBy
<1>1. FoundBy(c)'
  <2>0. pc \in [Cores -> Locations] /\ top = [d \in Cores |-> top[d]] /\ OwnerInv
    BY DEF FullInv, OwnerInv, ControlType
  <2>. USE DEF FoundBy
  <2>1. CASE CallPush(c)
    BY <1>0, <2>0, <2>1 DEF CallPush, Call, ring
  <2>2. CASE CallOwn(c) \/ CallPeakOrDisown(c) \/ CallPop(c) \/ CallIsEmpty(c)
    BY <1>0, <2>0, <2>2 DEF CallOwn, CallPeakOrDisown, CallPop, CallIsEmpty, Call, ring
  <2>3. CASE NotOwner(c) \/ Lock(c) \/ Own(c) \/ OwnRefused(c)
    BY <1>0, <2>0, <2>3 DEF NotOwner, Lock, Own, OwnRefused, ring
  <2>4. CASE IsOwner(c)
    BY <1>0, <2>0, <2>4 DEF IsOwner, AfterOwner, ring, OwnerInv, ControlPlaces
  <2>5. CASE Disown(c) \/ PushRefused(c)
    BY <1>0, <2>0, <2>5 DEF Disown, PushRefused, ring
  <2>6. CASE PushFits(c)
    BY <1>0, <2>0, <2>6 DEF PushFits, ring, Fits, MaxFreeSpace, RightOfTail, LeftOfHead
  <2>7. CASE InsertAtTail(c)
    BY <1>0, <2>0, <2>7, ReadyToInsert, InsertAtTailRing DEF FullInv, InsertAtTail
  <2>8. CASE InsertAtInit(c)
    BY <1>0, <2>0, <2>8, ReadyToInsert, InsertAtInitRing DEF FullInv, InsertAtInit
  <2>9. CASE PeakEmpty(c) \/ PeakFound(c) \/ IsEmpty(c)
    BY <1>0, <2>0, <2>9 DEF PeakEmpty, PeakFound, IsEmpty, ring, QueueIsEmpty
  <2>10. CASE PeakLoad(c)
    BY <1>0, <2>0, <2>10 DEF PeakLoad, ring
  <2>11. CASE PopEmpty(c) \/ PopFound(c)
    BY <1>0, <2>0, <2>11 DEF PopEmpty, PopFound, ring, QueueIsEmpty
  <2>12. CASE PopAdvance(c)
    BY <1>0, <2>0, <2>12 DEF PopAdvance
  <2>13. CASE Unlock(c)
    BY <1>0, <2>0, <2>13 DEF Unlock, ring
  <2>14. CASE Return(c)
    BY <1>0, <2>0, <2>14 DEF Return, ring
  <2>. QED
    BY <2>1, <2>2, <2>3, <2>4, <2>5, <2>6, <2>7, <2>8, <2>9, <2>10, <2>11, <2>12,
       <2>13, <2>14 DEF Calls, Step
<1>2. ASSUME NEW d \in Cores \ {c}
      PROVE  FoundBy(d)'
  <2>0. FoundBy(d)
    BY DEF FullInv, FoundInv, FoundBy
  <2>1. pc'[d] = pc[d] /\ arg'[d] = arg[d] /\ top'[d] = top[d]
    BY StepsStay DEF OthersStay, FullInv
  <2>2. CASE InsertAtTail(c)
    <3>1. ~HasLock(d) /\ headAddress' = headAddress /\ headAddress' # tailAddress'
      BY <2>2, ReadyToInsert, InsertAtTailRing DEF FullInv, InsertAtTail
    <3>. QED
      BY <2>0, <2>1, <3>1 DEF FoundBy, HasLock
  <2>3. CASE InsertAtInit(c)
    <3>1. ~HasLock(d) /\ headAddress' = headAddress /\ headAddress' # tailAddress'
      BY <2>3, ReadyToInsert, InsertAtInitRing DEF FullInv, InsertAtInit
    <3>. QED
      BY <2>0, <2>1, <3>1 DEF FoundBy, HasLock
  <2>4. CASE PopAdvance(c)
    <3>1. ~HasLock(d) /\ ~PastOwnerTest(d) /\ top[d] = NoPointer
      BY <2>4, ReadyToAdvance, OneOwner DEF FullInv, PopAdvance
    <3>. QED
      BY <2>0, <2>1, <3>1 DEF FoundBy, HasLock, PastOwnerTest
  <2>5. CASE UNCHANGED ring
    BY <2>0, <2>1, <2>5 DEF FoundBy, ring, Fits, MaxFreeSpace, RightOfTail, LeftOfHead
  <2>. QED
    BY <2>2, <2>3, <2>4, <2>5, RingChanges
<1>. QED
  BY <1>1, <1>2 DEF FoundInv, FoundBy

LEMMA FullInit == Init => FullInv
<1>1. Init => FoundInv
  BY DEF Init, FoundInv
<1>. QED
  BY <1>1, OwnerInit, CallInit, RingInit DEF FullInv

LEMMA FullStep == FullInv /\ [Next]_vars => FullInv'
<1>. SUFFICES ASSUME FullInv, [Next]_vars PROVE FullInv'
  OBVIOUS
<1>1. CASE UNCHANGED vars
  <2>1. OwnerInv'
    BY <1>1, OwnerStep DEF FullInv
  <2>2. CallInv' /\ FoundInv'
    BY <1>1 DEF vars, FullInv, CallInv, LocalInv, HasLock, FoundInv, Fits, MaxFreeSpace,
                RightOfTail, LeftOfHead
  <2>3. RingInv'
    BY <1>1, RingSame DEF vars, ring, FullInv
  <2>. QED
    BY <2>1, <2>2, <2>3 DEF FullInv
<1>2. ASSUME NEW c \in Cores, Calls(c) \/ Step(c)
      PROVE  FullInv'
  <2>1. OwnerInv'
    BY <1>2, OwnerStep DEF FullInv, Next
  <2>2. CallInv'
    BY <1>2, CallStep DEF FullInv
  <2>3. RingInv' /\ FoundInv'
    BY <1>2, RingStep, FoundStep
  <2>. QED
    BY <2>1, <2>2, <2>3 DEF FullInv
<1>. QED
  BY <1>1, <1>2 DEF Next

LEMMA FullType == FullInv => TypeOK
<1>. SUFFICES ASSUME FullInv PROVE TypeOK
  OBVIOUS
<1>1. \A c \in Cores : top[c] \in Offsets \cup {NoPointer}
  BY DEF FullInv, FoundInv, RingInv
<1>2. top = [c \in Cores |-> top[c]]
  BY DEF FullInv, OwnerInv, ControlType
<1>3. top \in [Cores -> Offsets \cup {NoPointer}]
  BY <1>1, <1>2
<1>4. headAddress \in Offsets /\ tailAddress \in Addresses
  BY SizeAssumption DEF FullInv, RingInv, Offsets, Addresses
<1>. QED
  BY <1>3, <1>4 DEF FullInv, RingInv, CallInv, OwnerInv, ControlType, TypeOK

\* TypeOK: for all closures, cores and sizes of the memory the head stays
\* inside the memory, the tail goes no further than its end, and no byte of a
\* closure is written outside it.
THEOREM TypeCorrect == Spec => []TypeOK
BY FullInit, FullStep, FullType, PTL DEF Spec

-----------------------------------------------------------------------------

\* A step of a core under the mutex that ends that part of the function.
LEMMA GivesBack ==
  ASSUME OwnerInv, CallInv, NEW c \in Cores, Calls(c) \/ Step(c),
         NEW d \in Cores, HasLock(d), ~HasLock(d)'
  PROVE  \/ lockMutex' = 0
         \/ op[d] \in {"pop", "popAndDisown"} /\ Answer(d, "EMPTY_QUEUE")
<1>1. d = c
  BY StepsStay DEF OthersStay, HasLock
<1>. USE DEF Goto, HasLock, OwnerInv, ControlType
<1>2. ~Calls(c)
  BY <1>1 DEF Calls, CallPush, CallOwn, CallPeakOrDisown, CallPop, CallIsEmpty, Call
<1>3. CASE NotOwner(c) \/ IsOwner(c) \/ Lock(c) \/ Disown(c) \/ Return(c)
  BY <1>1, <1>3 DEF NotOwner, IsOwner, Lock, Disown, Return
<1>4. CASE Own(c) \/ OwnRefused(c) \/ PushRefused(c) \/ PushFits(c)
  BY <1>1, <1>4 DEF Own, OwnRefused, PushRefused, PushFits
<1>5. CASE InsertAtTail(c) \/ InsertAtInit(c) \/ PopFound(c) \/ PopAdvance(c)
  BY <1>1, <1>5 DEF InsertAtTail, InsertAtInit, PopFound, PopAdvance
<1>6. CASE PeakEmpty(c) \/ PeakFound(c) \/ PeakLoad(c) \/ IsEmpty(c)
  BY <1>1, <1>6 DEF PeakEmpty, PeakFound, PeakLoad, IsEmpty
<1>7. CASE PopEmpty(c) \/ Unlock(c)
  BY <1>1, <1>7 DEF PopEmpty, Unlock
<1>. QED
  BY <1>2, <1>3, <1>4, <1>5, <1>6, <1>7 DEF Step

\* MutexGivenBack: whatever the cores call, only the pop of an empty queue
\* returns with the mutex.
THEOREM OnlyAnEmptyPopKeepsTheMutex == Spec => MutexGivenBack
<1>. DEFINE Given == \A c \in Cores : HasLock(c) /\ ~HasLock(c)' =>
                        \/ lockMutex' = 0
                        \/ op[c] \in {"pop", "popAndDisown"} /\ Answer(c, "EMPTY_QUEUE")
<1>1. FullInv /\ [Next]_vars => [Given]_vars
  BY GivesBack DEF Next, FullInv
<1>. QED
  BY <1>1, FullInit, FullStep, PTL DEF Spec, MutexGivenBack
=============================================================================
