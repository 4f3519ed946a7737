------------------------------ MODULE SyncSlot ------------------------------
(***************************************************************************)
(* A synchronization slot (src/eDARTS/src/assets/syncSlot.c) between the    *)
(* cores that satisfy its dependencies and the codelets that wait for them: *)
(* decDepAndPush, the policy of both schedulers                             *)
(* (src/eDARTS/src/runtime/device/e_darts_cu_scheduler.c).  The core that   *)
(* is told that no dependency is left pushes the slot's codelets to its own *)
(* queue, through the slot's codeletTemplate, which all the cores share.    *)
(*                                                                          *)
(* The slot is initialised with InitDep dependencies, and the program       *)
(* satisfies each of them once: `owed' counts those it has not yet asked    *)
(* for.  Nothing in the runtime resets a slot.                              *)
(***************************************************************************)
EXTENDS Integers, FiniteSets, Sequences

CONSTANTS Cores,        \* the cores that satisfy dependencies
          InitDep,      \* the dependencies of the slot
          NumCodelets,  \* how many codelets it starts
          MaxWord       \* the largest unsigned: 2^32 - 1 on the chip

ASSUME CoreAssumption == IsFiniteSet(Cores) /\ 0 \notin Cores

ASSUME DepAssumption == /\ MaxWord \in Nat \ {0}
                        /\ InitDep \in 1..MaxWord
                        /\ NumCodelets \in 0..MaxWord

VARIABLES currentDep, lockMutex,  \* of the syncSlot_t
          codeletID,  \* of its codeletTemplate
          owed,       \* dependencies the program has still to satisfy
          pc,         \* where each core is
          register,   \* what it has loaded: a count, or the loop's i
          pushed      \* the codeletIDs of the codelets in its queue

vars == <<currentDep, lockMutex, codeletID, owed, pc, register, pushed>>

Words == 0..MaxWord

Locations == {"idle", "lock", "load", "store", "unlock", "read",
              "loop", "push"}

\* initSyncSlot, with the codeletID that initCodelet was given.
Init == /\ currentDep = InitDep
        /\ lockMutex = 0
        /\ codeletID = 0
        /\ owed = InitDep
        /\ pc = [c \in Cores |-> "idle"]
        /\ register = [c \in Cores |-> 0]
        /\ pushed = [c \in Cores |-> <<>>]

-----------------------------------------------------------------------------

Goto(c, from, to) == pc[c] = from /\ pc' = [pc EXCEPT ![c] = to]

Holds(c, v) == register' = [register EXCEPT ![c] = v]

\* Mutation: two for one.
DecrementedTwice(n) == n - 2

\* An unsigned decrement.
Decremented(n) == IF n = 0 THEN MaxWord ELSE n - 1

Call(c) == /\ Goto(c, "idle", "lock")
           /\ owed > 0
           /\ owed' = owed - 1
           /\ UNCHANGED <<currentDep, lockMutex, codeletID, register, pushed>>

\* Mutation: darts_mutex_lock returns -1, its result is not looked at.
LockIgnored(c) == /\ Goto(c, "lock", "load")
                  /\ UNCHANGED <<currentDep, lockMutex, codeletID, owed, register, pushed>>

Lock(c) == /\ Goto(c, "lock", "load")
           /\ lockMutex = 0
           /\ lockMutex' = c
           /\ UNCHANGED <<currentDep, codeletID, owed, register, pushed>>

DecLoad(c) == /\ Goto(c, "load", "store")
              /\ Holds(c, currentDep)
              /\ UNCHANGED <<currentDep, lockMutex, codeletID, owed, pushed>>

DecStore(c) == /\ Goto(c, "store", "unlock")
               /\ currentDep' = Decremented(register[c])
               /\ UNCHANGED <<lockMutex, codeletID, owed, register, pushed>>

Unlock(c) == /\ Goto(c, "unlock", "read")
             /\ lockMutex' = 0
             /\ UNCHANGED <<currentDep, codeletID, owed, register, pushed>>

\* Mutations: the count before the decrement is compared, and 1 with the count.
ReadyByOldCount(c) == /\ Goto(c, "read", "loop")
                      /\ register[c] = 0
                      /\ Holds(c, 0)
                      /\ UNCHANGED <<currentDep, lockMutex, codeletID, owed, pushed>>

ReadyAtOne(c) == /\ Goto(c, "read", "loop")
                 /\ currentDep <= 1
                 /\ Holds(c, 0)
                 /\ UNCHANGED <<currentDep, lockMutex, codeletID, owed, pushed>>

\* return syncSlot->currentDep, after the unlock; the caller compares with 0.
ReadReady(c) == /\ Goto(c, "read", "loop")
                /\ currentDep = 0
                /\ Holds(c, 0)
                /\ UNCHANGED <<currentDep, lockMutex, codeletID, owed, pushed>>

ReadNotReady(c) == /\ Goto(c, "read", "idle")
                   /\ currentDep # 0
                   /\ Holds(c, 0)
                   /\ UNCHANGED <<currentDep, lockMutex, codeletID, owed, pushed>>

\* One turn of the loop: the shared template gets the number, then the queue
\* gets a copy of the template.
SetID(c) == /\ Goto(c, "loop", "push")
            /\ register[c] < NumCodelets
            /\ codeletID' = register[c]
            /\ UNCHANGED <<currentDep, lockMutex, owed, register, pushed>>

PushTemplate(c) == /\ Goto(c, "push", "loop")
                   /\ pushed' = [pushed EXCEPT ![c] = Append(@, codeletID)]
                   /\ Holds(c, register[c] + 1)
                   /\ UNCHANGED <<currentDep, lockMutex, codeletID, owed>>

EndLoop(c) == /\ Goto(c, "loop", "idle")
              /\ register[c] >= NumCodelets
              /\ Holds(c, 0)
              /\ UNCHANGED <<currentDep, lockMutex, codeletID, owed, pushed>>

Step(c) == \/ Lock(c) \/ DecLoad(c) \/ DecStore(c) \/ Unlock(c)
           \/ ReadReady(c) \/ ReadNotReady(c)
           \/ SetID(c) \/ PushTemplate(c) \/ EndLoop(c)

Next == \E c \in Cores : Call(c) \/ Step(c)

Spec == Init /\ [][Next]_vars

\* The program satisfies every dependency, and no core stops in between.
FairSpec == Spec /\ \A c \in Cores : WF_vars(Call(c) \/ Step(c))

-----------------------------------------------------------------------------

TypeOK == /\ currentDep \in Words
          /\ lockMutex \in Cores \cup {0}
          /\ codeletID \in Words
          /\ owed \in 0..InitDep
          /\ pc \in [Cores -> Locations]
          /\ register \in [Cores -> Words]
          /\ pushed \in [Cores -> Seq(Words)]

\* The cores that are in syncSlotDecDep and have not stored their decrement.
Decrementing == {c \in Cores : pc[c] \in {"lock", "load", "store"}}

\* No decrement is lost and none is made twice: what the slot counts is what
\* the program has not asked for and what is being decremented, however the
\* loads and the stores of the cores interleave.
DependenciesCounted == currentDep = owed + Cardinality(Decrementing)

\* The cores that were told that the slot is ready.
Told == {c \in Cores : pc[c] \in {"loop", "push"} \/ pushed[c] # <<>>}

\* No codelet starts before the last dependency is satisfied.
NoneTooEarly == Told # {} => owed = 0 /\ Decrementing = {}

\* Once all the dependencies are satisfied, some core starts all the codelets:
\* the read after the unlock is late, but the last reader finds zero.
SlotFires == <>(\E c \in Cores : Len(pushed[c]) >= NumCodelets)

\* The header: "a number of codelets created whenever this syncSlot is ready"
\* (threadedProcedure.h:126) - that number, not a multiple of it.
FiresOnce == Cardinality(Told) <= 1
=============================================================================
