--------------------------- MODULE BarrierProofs ---------------------------
(***************************************************************************)
(* What holds of the barrier for every number of threads but one: alone, a  *)
(* thread never finds that it is the last.                                  *)
(***************************************************************************)
EXTENDS Barrier, FiniteSetTheorems, TLAPS

NotAlone == numThreads >= 2

LEMMA NumThreadsType == numThreads \in Nat
BY ThreadAssumption, FS_CardinalityType DEF numThreads

-----------------------------------------------------------------------------
(* The inductive invariant.                                                  *)

\* Between the mutex's lock and its unlock a thread holds it.
MutexHeld == \A t \in Threads :
  pc[t] \in {"body", "register", "signal", "unlock_last", "unlock"} => lock = t

\* A thread that has not begun to wait has its mailbox empty.
NotYetSignalled == \A t \in Threads :
  pc[t] \in {"enter", "body", "register", "unlock"} => mailboxVar[t] = 0

\* What a thread has found about the counter still holds while it has the mutex.
CounterFound == \A t \in Threads :
  /\ pc[t] = "register" => counter # numThreads - 1
  /\ pc[t] = "signal" => counter = numThreads - 1
  /\ pc[t] = "unlock_last" => counter = 0

LastSlotEmpty == mailboxes[numThreads - 1] = Null

BarrierInv == /\ TypeOK
              /\ MutexHeld
              /\ NotYetSignalled
              /\ CounterFound
              /\ LastSlotEmpty
              /\ PendingSignals

\* While a thread has the mutex, no other one is signalling or is about to
\* unlock.
LEMMA NoOtherHolder ==
  ASSUME BarrierInv, NEW t \in Threads,
         pc[t] \in {"body", "register", "signal", "unlock_last", "unlock"},
         NEW u \in Threads \ {t}
  PROVE  pc[u] \in {"out", "enter", "wait"}
BY DEF BarrierInv, TypeOK, MutexHeld, Locations

LEMMA BarrierInit == Init => BarrierInv
BY NumThreadsType, ThreadAssumption, FS_EmptySet
   DEF Init, BarrierInv, TypeOK, MutexHeld, NotYetSignalled, CounterFound,
       LastSlotEmpty, PendingSignals, Pending, Signalling, Slots, Locations, numThreads

\* A step of a thread outside the mutex, or that takes it: the shared fields
\* stay, and the thread is not one of those to be signalled.
LEMMA OutsideStep ==
  ASSUME BarrierInv, NotAlone, NEW t \in Threads,
         Enter(t) \/ Lock(t) \/ Leave(t)
  PROVE  BarrierInv'
<1>. USE NumThreadsType DEF Goto, shared, BarrierInv, TypeOK
<1>1. TypeOK'
  BY DEF Enter, Lock, Leave, Locations
<1>2. MutexHeld' /\ NotYetSignalled' /\ CounterFound' /\ LastSlotEmpty'
  BY ThreadAssumption
     DEF Enter, Lock, Leave, MutexHeld, NotYetSignalled, CounterFound, LastSlotEmpty
<1>3. Signalling' = Signalling
  BY DEF Signalling, Enter, Lock, Leave
<1>4. Pending' = Pending
  BY <1>3 DEF Pending, Enter, Lock, Leave
<1>5. ASSUME NEW s \in Pending
      PROVE  /\ mailboxes'[s] = mailboxes[s]
             /\ mailboxes[s] # t
             /\ pc'[mailboxes[s]] = pc[mailboxes[s]]
             /\ mailboxVar'[mailboxes[s]] = mailboxVar[mailboxes[s]]
  BY <1>5 DEF PendingSignals, Enter, Lock, Leave
<1>6. PendingSignals'
  BY <1>4, <1>5 DEF PendingSignals
<1>. QED
  BY <1>1, <1>2, <1>6

\* The first to arrive, and those between.
LEMMA ArriveStep ==
  ASSUME BarrierInv, NotAlone, NEW t \in Threads,
         ArriveFirst(t) \/ ArriveBetween(t)
  PROVE  BarrierInv'
<1>. USE NumThreadsType DEF Goto, shared, BarrierInv, TypeOK
<1>1. TypeOK'
  BY DEF ArriveFirst, ArriveBetween, Locations, Slots
<1>2. MutexHeld' /\ NotYetSignalled' /\ CounterFound' /\ LastSlotEmpty'
  BY DEF ArriveFirst, ArriveBetween, MutexHeld, NotYetSignalled, CounterFound,
         LastSlotEmpty, IsLast, NotAlone, Slots
<1>3. ~Signalling /\ ~Signalling'
  BY NoOtherHolder DEF Signalling, ArriveFirst, ArriveBetween
<1>4. Pending = 0..(counter - 1) /\ Pending' = Pending
  BY <1>3 DEF Pending, ArriveFirst, ArriveBetween
<1>5. CASE ArriveFirst(t)
  <2>1. Pending' = {}
    BY <1>4, <1>5 DEF ArriveFirst
  <2>. QED
    BY <1>1, <1>2, <2>1 DEF PendingSignals
<1>6. CASE ArriveBetween(t)
  <2>1. \A s \in Pending : mailboxes[s] # t
    BY <1>6 DEF PendingSignals, ArriveBetween
  <2>2. PendingSignals'
    BY <1>4, <1>6, <2>1 DEF PendingSignals, ArriveBetween
  <2>. QED
    BY <1>1, <1>2, <2>2
<1>. QED
  BY <1>5, <1>6

\* The mailbox that is registered is that of a thread that no slot names yet.
LEMMA RegisterStep ==
  ASSUME BarrierInv, NotAlone, NEW t \in Threads, Register(t)
  PROVE  BarrierInv'
<1>. USE NumThreadsType DEF Goto, BarrierInv, TypeOK
<1>1. counter \in 0..(numThreads - 2) /\ counter \in Slots
  BY DEF Register, CounterFound, Slots, NotAlone
<1>2. TypeOK'
  BY <1>1 DEF Register, Locations, Slots
<1>3. MutexHeld' /\ NotYetSignalled'
  BY DEF Register, MutexHeld, NotYetSignalled
<1>4. CounterFound'
  BY NoOtherHolder DEF Register, CounterFound
<1>5. LastSlotEmpty'
  BY <1>1 DEF Register, LastSlotEmpty, Slots
<1>6. ~Signalling /\ ~Signalling'
  BY NoOtherHolder DEF Signalling, Register
<1>7. Pending = 0..(counter - 1) /\ Pending' = 0..counter
  BY <1>1, <1>6 DEF Pending, Register
<1>8. \A s \in Pending : mailboxes[s] # t
  BY DEF PendingSignals, Register
<1>9. /\ mailboxes'[counter] = t
      /\ \A s \in Pending : mailboxes'[s] = mailboxes[s]
      /\ pc'[t] = "unlock" /\ mailboxVar'[t] = 0
  BY <1>1, <1>7 DEF Register, NotYetSignalled, Slots
<1>10. ASSUME NEW s \in Pending'
       PROVE  s = counter \/ s \in Pending
  BY <1>1, <1>7, <1>10
<1>11. PendingSignals'
  <2>1. ASSUME NEW s \in Pending'
        PROVE  /\ mailboxes'[s] \in Threads
               /\ pc'[mailboxes'[s]] \in {"unlock", "wait"}
               /\ mailboxVar'[mailboxes'[s]] = 0
    BY <1>8, <1>9, <1>10, <2>1 DEF PendingSignals, Register
  <2>2. ASSUME NEW s \in Pending', NEW r \in Pending', mailboxes'[s] = mailboxes'[r]
        PROVE  s = r
    BY <1>8, <1>9, <1>10, <2>2 DEF PendingSignals
  <2>. QED
    BY <2>1, <2>2 DEF PendingSignals
<1>. QED
  BY <1>2, <1>3, <1>4, <1>5, <1>11

\* The last to arrive: what was registered is what it is going to signal.
LEMMA ArriveLastStep ==
  ASSUME BarrierInv, NotAlone, NEW t \in Threads, ArriveLast(t)
  PROVE  BarrierInv'
<1>. USE NumThreadsType DEF Goto, shared, BarrierInv, TypeOK
<1>1. TypeOK'
  BY DEF ArriveLast, Locations
<1>2. MutexHeld' /\ NotYetSignalled' /\ LastSlotEmpty'
  BY DEF ArriveLast, MutexHeld, NotYetSignalled, LastSlotEmpty
<1>3. CounterFound'
  BY NoOtherHolder DEF ArriveLast, CounterFound, IsLast
<1>4. ~Signalling /\ Signalling'
  BY NoOtherHolder DEF Signalling, ArriveLast
<1>5. Pending' = Pending
  BY <1>4 DEF Pending, ArriveLast
<1>6. \A s \in Pending : mailboxes[s] # t
  BY DEF PendingSignals, ArriveLast
<1>7. PendingSignals'
  BY <1>5, <1>6 DEF PendingSignals, ArriveLast
<1>. QED
  BY <1>1, <1>2, <1>3, <1>7

\* One signal: the mailbox it goes to is named by no slot that is left.
LEMMA SignalStep ==
  ASSUME BarrierInv, NotAlone, NEW t \in Threads, Signal(t)
  PROVE  BarrierInv'
<1>. USE NumThreadsType DEF shared, BarrierInv, TypeOK
<1>1. TypeOK'
  BY DEF Signal, Slots
<1>2. MutexHeld' /\ CounterFound' /\ LastSlotEmpty'
  BY DEF Signal, MutexHeld, CounterFound, LastSlotEmpty
<1>3. Signalling /\ Signalling'
  BY DEF Signalling, Signal
<1>4. counter = numThreads - 1 /\ next \in 0..(numThreads - 1)
  BY DEF Signal, CounterFound, Slots
<1>5. Pending = next..(numThreads - 2) /\ Pending' = (next + 1)..(numThreads - 2)
  BY <1>3, <1>4 DEF Pending, Signal
<1>6. NotYetSignalled'
  <2>1. CASE mailboxes[next] = Null
    BY <2>1 DEF Signal, NotYetSignalled
  <2>2. CASE mailboxes[next] # Null
    <3>1. next \in Pending
      BY <1>4, <1>5, <2>2 DEF LastSlotEmpty
    <3>2. mailboxes[next] \in Threads /\ pc[mailboxes[next]] = "wait"
      BY <3>1, NoOtherHolder DEF PendingSignals, Signal
    <3>. QED
      BY <3>2 DEF Signal, NotYetSignalled
  <2>. QED
    BY <2>1, <2>2
<1>7. \A s \in Pending' : s \in Pending /\ s # next
  BY <1>4, <1>5
<1>8. \A s \in Pending' : mailboxes[s] # mailboxes[next]
  <2>1. CASE mailboxes[next] = Null
    BY <1>7, <2>1, ThreadAssumption DEF PendingSignals
  <2>2. CASE mailboxes[next] # Null
    <3>1. next \in Pending
      BY <1>4, <1>5, <2>2 DEF LastSlotEmpty
    <3>. QED
      BY <1>7, <3>1 DEF PendingSignals
  <2>. QED
    BY <2>1, <2>2
<1>9. PendingSignals'
  BY <1>7, <1>8 DEF PendingSignals, Signal
<1>. QED
  BY <1>1, <1>2, <1>6, <1>9

\* The end of the last thread's call.
LEMMA LastLeavesStep ==
  ASSUME BarrierInv, NotAlone, NEW t \in Threads,
         ResetCounter(t) \/ UnlockLast(t)
  PROVE  BarrierInv'
<1>. USE NumThreadsType DEF Goto, shared, BarrierInv, TypeOK
<1>1. TypeOK'
  BY DEF ResetCounter, UnlockLast, Locations, Slots, NotAlone
<1>2. MutexHeld'
  BY NoOtherHolder DEF ResetCounter, UnlockLast, MutexHeld
<1>3. CounterFound'
  BY NoOtherHolder DEF ResetCounter, UnlockLast, CounterFound
<1>4. NotYetSignalled' /\ LastSlotEmpty'
  BY DEF ResetCounter, UnlockLast, NotYetSignalled, LastSlotEmpty
<1>5. counter' = 0
  BY DEF ResetCounter, UnlockLast, CounterFound
<1>6. ~Signalling'
  BY NoOtherHolder DEF Signalling, ResetCounter, UnlockLast
<1>7. Pending' = {}
  BY <1>5, <1>6 DEF Pending
<1>. QED
  BY <1>1, <1>2, <1>3, <1>4, <1>7 DEF PendingSignals

LEMMA UnlockStep ==
  ASSUME BarrierInv, NotAlone, NEW t \in Threads, Unlock(t)
  PROVE  BarrierInv'
<1>. USE NumThreadsType DEF Goto, shared, BarrierInv, TypeOK
<1>1. TypeOK'
  BY DEF Unlock, Locations
<1>2. MutexHeld'
  BY NoOtherHolder DEF Unlock, MutexHeld
<1>3. NotYetSignalled' /\ LastSlotEmpty' /\ CounterFound'
  BY DEF Unlock, NotYetSignalled, LastSlotEmpty, CounterFound
<1>4. Signalling' = Signalling
  BY DEF Signalling, Unlock
<1>5. Pending' = Pending
  BY <1>4 DEF Pending, Unlock
<1>6. PendingSignals'
  BY <1>5 DEF PendingSignals, Unlock
<1>. QED
  BY <1>1, <1>2, <1>3, <1>6

LEMMA BarrierStep == NotAlone /\ BarrierInv /\ [Next]_vars => BarrierInv'
<1>. SUFFICES ASSUME NotAlone, BarrierInv, [Next]_vars PROVE BarrierInv'
  OBVIOUS
<1>1. CASE UNCHANGED vars
  BY <1>1 DEF vars, shared, BarrierInv, TypeOK, MutexHeld, NotYetSignalled,
              CounterFound, LastSlotEmpty, PendingSignals, Pending, Signalling
<1>2. ASSUME NEW t \in Threads, Enter(t) \/ Step(t) PROVE BarrierInv'
  BY <1>2, OutsideStep, ArriveStep, RegisterStep, ArriveLastStep, SignalStep,
     LastLeavesStep, UnlockStep DEF Step
<1>. QED
  BY <1>1, <1>2 DEF Next

LEMMA BarrierAlways == ASSUME NotAlone PROVE Spec => []BarrierInv
<1>1. BarrierInv /\ [Next]_vars => BarrierInv'
  BY BarrierStep
<1>. QED
  BY <1>1, BarrierInit, PTL DEF Spec

\* TypeOK: no mailbox is registered beyond the last slot but one, however many
\* threads there are.
THEOREM TypeCorrect == ASSUME NotAlone PROVE Spec => []TypeOK
<1>1. BarrierInv => TypeOK
  BY DEF BarrierInv
<1>. QED
  BY <1>1, BarrierAlways, PTL

\* PendingSignals: whoever is going to be signalled is still inside the barrier
\* and has not been signalled yet, although threads of the phase before leave
\* without the mutex.
THEOREM SignalsReachTheWaiting == ASSUME NotAlone PROVE Spec => []PendingSignals
<1>1. BarrierInv => PendingSignals
  BY DEF BarrierInv
<1>. QED
  BY <1>1, BarrierAlways, PTL

-----------------------------------------------------------------------------
(* The barrier implements BarrierPhases.                                     *)

\* The last thread to arrive finds every other one registered: there are as
\* many slots before the last as there are others, and no two slots name the
\* same one.
LEMMA OthersRegistered ==
  ASSUME BarrierInv, NotAlone, NEW t \in Threads, ArriveLast(t),
         NEW u \in Threads \ {t}
  PROVE  \E s \in 0..(numThreads - 2) : mailboxes[s] = u
<1>. DEFINE Before == 0..(numThreads - 2)
<1>1. SUFFICES ASSUME \A s \in Before : mailboxes[s] # u PROVE FALSE
  OBVIOUS
<1>2. Pending = Before
  <2>1. ~Signalling
    BY NoOtherHolder DEF Signalling, ArriveLast, Goto
  <2>. QED
    BY <2>1, NumThreadsType DEF Pending, ArriveLast, IsLast
<1>3. IsFiniteSet(Before) /\ Cardinality(Before) = numThreads - 1
  BY NumThreadsType, FS_Interval DEF NotAlone
<1>4. /\ IsFiniteSet(Threads \ {t})
      /\ Cardinality(Threads \ {t}) = numThreads - 1
  BY ThreadAssumption, FS_RemoveElement DEF numThreads
<1>5. /\ IsFiniteSet((Threads \ {t}) \ {u})
      /\ Cardinality((Threads \ {t}) \ {u}) = numThreads - 2
  BY <1>4, NumThreadsType, FS_RemoveElement
<1>. DEFINE named == [s \in Before |-> mailboxes[s]]
<1>6. named \in [Before -> (Threads \ {t}) \ {u}]
  BY <1>1, <1>2 DEF BarrierInv, PendingSignals, ArriveLast, Goto
<1>7. \E s, r \in Before : s # r /\ named[s] = named[r]
  <2>. HIDE DEF Before, named
  <2>. QED
    BY <1>3, <1>5, <1>6, NumThreadsType, FS_PigeonHole
<1>. QED
  BY <1>2, <1>7 DEF BarrierInv, PendingSignals

\* The steps that no thread's phase shows.
LEMMA SilentStep ==
  ASSUME BarrierInv, NotAlone, NEW t \in Threads,
         \/ Lock(t) \/ ArriveFirst(t) \/ ArriveBetween(t) \/ Register(t)
         \/ ResetCounter(t) \/ Unlock(t),
         NEW u \in Threads
  PROVE  Phase(u)' = Phase(u)
<1>. USE NumThreadsType DEF Goto, BarrierInv, TypeOK
<1>1. CASE Lock(t)
  BY <1>1 DEF Lock, Phase, ToBeSignalled, Signalling
<1>2. CASE ArriveFirst(t) \/ ArriveBetween(t) \/ Register(t)
  <2>1. ~Signalling /\ ~Signalling'
    BY <1>2, NoOtherHolder DEF Signalling, ArriveFirst, ArriveBetween, Register
  <2>. QED
    BY <1>2, <2>1 DEF ArriveFirst, ArriveBetween, Register, shared, Phase, ToBeSignalled
<1>3. CASE ResetCounter(t)
  <2>1. ~ToBeSignalled(u) /\ ~ToBeSignalled(u)'
    <3>1. ~Signalling'
      BY <1>3, NoOtherHolder DEF Signalling, ResetCounter
    <3>. QED
      BY <1>3, <3>1 DEF ToBeSignalled, ResetCounter, Slots
  <2>. QED
    BY <1>3, <2>1 DEF ResetCounter, Phase
<1>4. CASE Unlock(t)
  <2>1. ~Signalling /\ ~Signalling'
    BY <1>4, NoOtherHolder DEF Signalling, Unlock
  <2>2. mailboxVar[t] = 0
    BY <1>4 DEF Unlock, NotYetSignalled
  <2>. QED
    BY <1>4, <2>1, <2>2 DEF Unlock, Phase, ToBeSignalled
<1>. QED
  BY <1>1, <1>2, <1>3, <1>4

\* A signal takes a thread from those to be signalled to those that were.
LEMMA SignalIsSilent ==
  ASSUME BarrierInv, NotAlone, NEW t \in Threads, Signal(t), NEW u \in Threads
  PROVE  Phase(u)' = Phase(u)
<1>. USE NumThreadsType DEF BarrierInv, TypeOK
<1>1. Signalling /\ Signalling' /\ next \in 0..(numThreads - 1)
  BY DEF Signal, Signalling, shared, Slots
<1>2. pc' = pc /\ mailboxes' = mailboxes /\ next' = next + 1
  BY DEF Signal, shared
<1>3. CASE mailboxes[next] = u
  <2>1. u # Null /\ mailboxVar'[u] = 1 /\ ToBeSignalled(u)
    BY <1>1, <1>3, ThreadAssumption DEF Signal, ToBeSignalled
  <2>. QED
    BY <1>2, <2>1 DEF Phase
<1>4. CASE mailboxes[next] # u
  <2>1. mailboxVar'[u] = mailboxVar[u]
    BY <1>1, <1>4 DEF Signal, Slots
  <2>2. ToBeSignalled(u)' <=> ToBeSignalled(u)
    BY <1>1, <1>2, <1>4 DEF ToBeSignalled
  <2>. QED
    BY <1>2, <2>1, <2>2 DEF Phase
<1>. QED
  BY <1>3, <1>4

\* The steps of one thread that come to the barrier or leave it.
LEMMA PassageStep ==
  ASSUME BarrierInv, NotAlone, NEW t \in Threads,
         Enter(t) \/ Leave(t) \/ UnlockLast(t)
  PROVE  /\ \A u \in Threads \ {t} : Phase(u)' = Phase(u)
         /\ \/ Phase(t) = "out" /\ Phase(t)' = "arrived"
            \/ Phase(t) = "released" /\ Phase(t)' = "out"
<1>. USE DEF Goto, BarrierInv, TypeOK
<1>1. \A u \in Threads : ToBeSignalled(u)' <=> ToBeSignalled(u)
  BY DEF Enter, Leave, UnlockLast, shared, ToBeSignalled, Signalling
<1>2. ASSUME NEW u \in Threads \ {t} PROVE Phase(u)' = Phase(u)
  BY <1>1, <1>2 DEF Enter, Leave, UnlockLast, shared, Phase
<1>3. \/ Phase(t) = "out" /\ Phase(t)' = "arrived"
      \/ Phase(t) = "released" /\ Phase(t)' = "out"
  BY DEF Enter, Leave, UnlockLast, Phase
<1>. QED
  BY <1>2, <1>3

\* The last thread's arrival opens the barrier for all.
LEMMA OpenStep ==
  ASSUME BarrierInv, NotAlone, NEW t \in Threads, ArriveLast(t), NEW u \in Threads
  PROVE  Phase(u) = "arrived" /\ Phase(u)' = "released"
<1>. USE NumThreadsType DEF Goto, BarrierInv, TypeOK
<1>1. ~Signalling /\ Signalling'
  BY NoOtherHolder DEF Signalling, ArriveLast
<1>2. CASE u = t
  BY <1>2 DEF ArriveLast, Phase
<1>3. CASE u # t
  <2>1. PICK s \in 0..(numThreads - 2) : mailboxes[s] = u
    BY <1>3, OthersRegistered
  <2>2. s \in Pending
    BY <1>1, <2>1 DEF Pending, ArriveLast, IsLast
  <2>3. pc[u] = "wait" /\ mailboxVar[u] = 0
    BY <1>3, <2>1, <2>2, NoOtherHolder DEF PendingSignals, ArriveLast
  <2>4. ToBeSignalled(u)'
    BY <1>1, <2>1 DEF ToBeSignalled, ArriveLast, shared
  <2>. QED
    BY <1>1, <1>3, <2>3, <2>4 DEF ArriveLast, Phase, ToBeSignalled
<1>. QED
  BY <1>2, <1>3

LEMMA PhaseInit == Init => Phases!Init
BY DEF Init, Phases!Init, Phase

LEMMA PhaseStep ==
  ASSUME NotAlone, BarrierInv, [Next]_vars
  PROVE  [Phases!Next]_([t \in Threads |-> Phase(t)])
<1>. DEFINE phase == [t \in Threads |-> Phase(t)]
<1>1. CASE UNCHANGED vars
  <2>1. \A u \in Threads : Phase(u)' = Phase(u)
    BY <1>1 DEF vars, shared, Phase, ToBeSignalled, Signalling
  <2>. QED
    BY <2>1
<1>2. ASSUME NEW t \in Threads,
             \/ Lock(t) \/ ArriveFirst(t) \/ ArriveBetween(t) \/ Register(t)
             \/ Signal(t) \/ ResetCounter(t) \/ Unlock(t)
      PROVE  phase' = phase
  <2>1. \A u \in Threads : Phase(u)' = Phase(u)
    BY <1>2, SilentStep, SignalIsSilent
  <2>. QED
    BY <2>1
<1>3. ASSUME NEW t \in Threads, Enter(t) \/ Leave(t) \/ UnlockLast(t)
      PROVE  Phases!Arrive(t) \/ Phases!Leave(t)
  <2>1. /\ \A u \in Threads \ {t} : Phase(u)' = Phase(u)
        /\ \/ Phase(t) = "out" /\ Phase(t)' = "arrived"
           \/ Phase(t) = "released" /\ Phase(t)' = "out"
    BY <1>3, PassageStep
  <2>. QED
    BY <2>1 DEF Phases!Arrive, Phases!Leave
<1>4. ASSUME NEW t \in Threads, ArriveLast(t) PROVE Phases!Open
  <2>1. \A u \in Threads : Phase(u) = "arrived" /\ Phase(u)' = "released"
    BY <1>4, OpenStep
  <2>. QED
    BY <2>1 DEF Phases!Open
<1>. QED
  BY <1>1, <1>2, <1>3, <1>4 DEF Next, Step, Phases!Next

\* ImplementsPhases: no thread leaves the barrier before all have arrived,
\* phase after phase, for any number of threads.
THEOREM NobodyLeavesEarly == ASSUME NotAlone PROVE Spec => ImplementsPhases
<1>1. BarrierInv /\ [Next]_vars => [Phases!Next]_([t \in Threads |-> Phase(t)])
  BY PhaseStep
<1>. QED
  BY <1>1, PhaseInit, BarrierAlways, PTL DEF Spec, ImplementsPhases, Phases!Spec
=============================================================================
