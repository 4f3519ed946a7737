--------------------------- MODULE SyncSlotProofs ---------------------------
(***************************************************************************)
(* What holds of a synchronization slot for every number of cores, of       *)
(* dependencies and of codelets.                                            *)
(***************************************************************************)
EXTENDS SyncSlot, FiniteSetTheorems, TLAPS

-----------------------------------------------------------------------------
(* Type correctness.  The loop's index stays a word because the last codelet *)
(* has a number below NumCodelets.                                           *)

LoopInside == \A c \in Cores : pc[c] = "push" => register[c] < NumCodelets

TypeInv == TypeOK /\ LoopInside

LEMMA TypeInit == Init => TypeInv
BY DepAssumption DEF Init, TypeInv, TypeOK, LoopInside, Words, Locations

LEMMA TypeStep == TypeInv /\ [Next]_vars => TypeInv'
<1>. SUFFICES ASSUME TypeOK, LoopInside, [Next]_vars PROVE TypeOK' /\ LoopInside'
  BY DEF TypeInv
<1>. USE DepAssumption DEF TypeOK, LoopInside, Words, Locations, Goto, Holds
<1>1. CASE UNCHANGED vars
  BY <1>1 DEF vars
<1>2. ASSUME NEW c \in Cores, Call(c) PROVE TypeOK' /\ LoopInside'
  BY <1>2 DEF Call
<1>3. ASSUME NEW c \in Cores, Lock(c) PROVE TypeOK' /\ LoopInside'
  BY <1>3 DEF Lock
<1>4. ASSUME NEW c \in Cores, DecLoad(c) PROVE TypeOK' /\ LoopInside'
  BY <1>4 DEF DecLoad
<1>5. ASSUME NEW c \in Cores, DecStore(c) PROVE TypeOK' /\ LoopInside'
  BY <1>5 DEF DecStore, Decremented
<1>6. ASSUME NEW c \in Cores, Unlock(c) PROVE TypeOK' /\ LoopInside'
  BY <1>6 DEF Unlock
<1>7. ASSUME NEW c \in Cores, ReadReady(c) PROVE TypeOK' /\ LoopInside'
  BY <1>7 DEF ReadReady
<1>8. ASSUME NEW c \in Cores, ReadNotReady(c) PROVE TypeOK' /\ LoopInside'
  BY <1>8 DEF ReadNotReady
<1>9. ASSUME NEW c \in Cores, SetID(c) PROVE TypeOK' /\ LoopInside'
  BY <1>9 DEF SetID
<1>10. ASSUME NEW c \in Cores, PushTemplate(c) PROVE TypeOK' /\ LoopInside'
  <2>1. register[c] + 1 \in Words
    BY <1>10 DEF PushTemplate
  <2>2. Append(pushed[c], codeletID) \in Seq(Words)
    OBVIOUS
  <2>. QED
    BY <1>10, <2>1, <2>2 DEF PushTemplate
<1>11. ASSUME NEW c \in Cores, EndLoop(c) PROVE TypeOK' /\ LoopInside'
  BY <1>11 DEF EndLoop
<1>. QED
  BY <1>1, <1>2, <1>3, <1>4, <1>5, <1>6, <1>7, <1>8, <1>9, <1>10, <1>11 DEF Next, Step

\* TypeOK: counts are words, codeletIDs are words, and the loop that numbers
\* the codelets never overflows its index.
THEOREM TypeCorrect == Spec => []TypeOK
<1>1. TypeInv => TypeOK
  BY DEF TypeInv
<1>. QED
  BY <1>1, TypeInit, TypeStep, PTL DEF Spec

-----------------------------------------------------------------------------
(* The mutex of the slot makes the load and the store one: what a core has   *)
(* loaded is still what the slot counts when it stores.                      *)

MutexHeld == \A c \in Cores : pc[c] \in {"load", "store", "unlock"} => lockMutex = c

LoadedIsCurrent == \A c \in Cores : pc[c] = "store" => register[c] = currentDep

CountInv == /\ TypeOK
            /\ MutexHeld
            /\ LoadedIsCurrent
            /\ DependenciesCounted
            /\ NoneTooEarly

\* The cores that decrement are finitely many, and a step of core c adds or
\* removes only c.
LEMMA DecrementingFinite == /\ IsFiniteSet(Decrementing)
                            /\ Cardinality(Decrementing) \in Nat
BY CoreAssumption, FS_Subset, FS_CardinalityType DEF Decrementing

LEMMA CountInit == Init => CountInv
<1>. SUFFICES ASSUME Init PROVE CountInv
  OBVIOUS
<1>1. TypeOK
  BY TypeInit DEF TypeInv
<1>2. Decrementing = {}
  BY DEF Init, Decrementing
<1>3. Told = {}
  BY DEF Init, Told
<1>. QED
  BY <1>1, <1>2, <1>3, FS_EmptySet, DepAssumption
     DEF Init, CountInv, MutexHeld, LoadedIsCurrent, DependenciesCounted, NoneTooEarly

\* The steps that leave the count, the dependencies owed, and the cores that
\* decrement or were told, as they are.
LEMMA CountUntouched ==
  ASSUME CountInv, currentDep' = currentDep, owed' = owed,
         Decrementing' = Decrementing, Told' \subseteq Told
  PROVE  DependenciesCounted' /\ NoneTooEarly'
BY DEF CountInv, DependenciesCounted, NoneTooEarly

LEMMA CountStep == CountInv /\ TypeOK' /\ [Next]_vars => CountInv'
<1>. SUFFICES ASSUME CountInv, TypeOK', [Next]_vars PROVE CountInv'
  OBVIOUS
<1>. USE DEF Goto, Holds, TypeOK
<1>1. CASE UNCHANGED vars
  <2>1. Decrementing' = Decrementing /\ Told' = Told
    BY <1>1 DEF vars, Decrementing, Told
  <2>. QED
    BY <1>1, <2>1, CountUntouched
       DEF vars, CountInv, MutexHeld, LoadedIsCurrent
<1>2. ASSUME NEW c \in Cores, Call(c) PROVE CountInv'
  <2>1. MutexHeld' /\ LoadedIsCurrent'
    BY <1>2 DEF Call, CountInv, MutexHeld, LoadedIsCurrent
  <2>2. Decrementing' = Decrementing \cup {c} /\ c \notin Decrementing
    BY <1>2 DEF Call, Decrementing
  <2>3. Cardinality(Decrementing') = Cardinality(Decrementing) + 1
    BY <2>2, DecrementingFinite, FS_AddElement
  <2>4. DependenciesCounted'
    BY <1>2, <2>3, DecrementingFinite DEF Call, CountInv, DependenciesCounted
  <2>5. Told = {} /\ Told' = {}
    BY <1>2 DEF Call, CountInv, NoneTooEarly, Told
  <2>. QED
    BY <2>1, <2>4, <2>5 DEF CountInv, NoneTooEarly
<1>3. ASSUME NEW c \in Cores, Lock(c) \/ DecLoad(c) PROVE CountInv'
  <2>1. MutexHeld' /\ LoadedIsCurrent'
    BY <1>3, CoreAssumption DEF Lock, DecLoad, CountInv, MutexHeld, LoadedIsCurrent
  <2>2. Decrementing' = Decrementing /\ Told' = Told
    BY <1>3 DEF Lock, DecLoad, Decrementing, Told
  <2>. QED
    BY <1>3, <2>1, <2>2, CountUntouched DEF Lock, DecLoad, CountInv
<1>4. ASSUME NEW c \in Cores, DecStore(c) PROVE CountInv'
  <2>1. MutexHeld'
    BY <1>4 DEF DecStore, CountInv, MutexHeld
  <2>2. LoadedIsCurrent'
    BY <1>4 DEF DecStore, CountInv, MutexHeld, LoadedIsCurrent
  <2>3. Decrementing' = Decrementing \ {c} /\ c \in Decrementing
    BY <1>4 DEF DecStore, Decrementing
  <2>4. /\ Cardinality(Decrementing') = Cardinality(Decrementing) - 1
        /\ Cardinality(Decrementing) >= 1
    <3>1. Cardinality(Decrementing') = Cardinality(Decrementing) - 1
      BY <2>3, DecrementingFinite, FS_RemoveElement
    <3>2. Cardinality(Decrementing) # 0
      BY <2>3, DecrementingFinite, FS_EmptySet
    <3>. QED
      BY <3>1, <3>2, DecrementingFinite
  <2>5. currentDep' = currentDep - 1
    BY <1>4, <2>4, DecrementingFinite
       DEF DecStore, CountInv, LoadedIsCurrent, DependenciesCounted, Decremented
  <2>6. DependenciesCounted'
    BY <1>4, <2>4, <2>5, DecrementingFinite DEF DecStore, CountInv, DependenciesCounted
  <2>7. Told = {} /\ Told' = {}
    BY <1>4, <2>3 DEF DecStore, CountInv, NoneTooEarly, Told
  <2>. QED
    BY <2>1, <2>2, <2>6, <2>7 DEF CountInv, NoneTooEarly
<1>5. ASSUME NEW c \in Cores, Unlock(c) PROVE CountInv'
  <2>1. MutexHeld' /\ LoadedIsCurrent'
    BY <1>5 DEF Unlock, CountInv, MutexHeld, LoadedIsCurrent
  <2>2. Decrementing' = Decrementing /\ Told' = Told
    BY <1>5 DEF Unlock, Decrementing, Told
  <2>. QED
    BY <1>5, <2>1, <2>2, CountUntouched DEF Unlock, CountInv
<1>6. ASSUME NEW c \in Cores, ReadReady(c) PROVE CountInv'
  <2>1. MutexHeld' /\ LoadedIsCurrent'
    BY <1>6 DEF ReadReady, CountInv, MutexHeld, LoadedIsCurrent
  <2>2. Decrementing' = Decrementing
    BY <1>6 DEF ReadReady, Decrementing
  <2>3. owed = 0 /\ Cardinality(Decrementing) = 0
    BY <1>6, DecrementingFinite, DepAssumption
       DEF ReadReady, CountInv, DependenciesCounted
  <2>4. Decrementing = {}
    BY <2>3, DecrementingFinite, FS_EmptySet
  <2>. QED
    BY <1>6, <2>1, <2>2, <2>3, <2>4
       DEF ReadReady, CountInv, DependenciesCounted, NoneTooEarly
<1>7. ASSUME NEW c \in Cores,
             ReadNotReady(c) \/ SetID(c) \/ PushTemplate(c) \/ EndLoop(c)
      PROVE  CountInv'
  <2>1. MutexHeld' /\ LoadedIsCurrent'
    BY <1>7 DEF ReadNotReady, SetID, PushTemplate, EndLoop, CountInv, MutexHeld,
                LoadedIsCurrent
  <2>2. Decrementing' = Decrementing
    BY <1>7 DEF ReadNotReady, SetID, PushTemplate, EndLoop, Decrementing
  <2>3. Told' \subseteq Told
    BY <1>7 DEF ReadNotReady, SetID, PushTemplate, EndLoop, Told
  <2>. QED
    BY <1>7, <2>1, <2>2, <2>3, CountUntouched
       DEF ReadNotReady, SetID, PushTemplate, EndLoop, CountInv
<1>. QED
  BY <1>1, <1>2, <1>3, <1>4, <1>5, <1>6, <1>7 DEF Next, Step

LEMMA CountAlways == Spec => []CountInv
BY TypeCorrect, CountInit, CountStep, PTL DEF Spec

\* DependenciesCounted: whatever the interleaving of the cores' loads and
\* stores, no decrement of a slot is lost and none is made twice.
THEOREM EveryDependencyCounted == Spec => []DependenciesCounted
<1>1. CountInv => DependenciesCounted
  BY DEF CountInv
<1>. QED
  BY <1>1, CountAlways, PTL

\* NoneTooEarly: no codelet of the slot is pushed before its last dependency
\* is satisfied, although the count is read after the unlock.
THEOREM NoCodeletTooEarly == Spec => []NoneTooEarly
<1>1. CountInv => NoneTooEarly
  BY DEF CountInv
<1>. QED
  BY <1>1, CountAlways, PTL
=============================================================================
