------------------------------ MODULE Barrier ------------------------------
(***************************************************************************)
(* The barrier of src/eDARTS/src/multithreading/e_darts_barrier.c.  Every   *)
(* thread (one per core) calls darts_barrier again and again.  The last to  *)
(* arrive stores 1 in the mailbox of each of the others, a local variable   *)
(* of darts_barrier that its owner spins on without the mutex, so that the  *)
(* first ones signalled may be back at the barrier before the last ones are *)
(* signalled.                                                               *)
(*                                                                          *)
(* A mailbox is named by the thread whose variable it is; Null is the       *)
(* address 0.  darts_barrier passes the address of a local variable that is *)
(* 0, so the argument check of _private_darts_barrier passes.               *)
(***************************************************************************)
EXTENDS Integers, FiniteSets

CONSTANTS Threads, Null

ASSUME ThreadAssumption == IsFiniteSet(Threads) /\ Threads # {} /\ Null \notin Threads

VARIABLES lock,         \* barrier->lock: Null or the thread whose coreid it holds
          counter,      \* barrier->counter
          mailboxes,    \* barrier->mailboxes, the first numThreads of them
          mailboxVar,   \* the local variable of each thread
          pc,           \* where each thread is
          next          \* the loop index of the one that signals

shared == <<lock, counter, mailboxes>>
vars == <<lock, counter, mailboxes, mailboxVar, pc, next>>

numThreads == Cardinality(Threads)
Slots == 0..(numThreads - 1)

Locations == {"out", "enter", "body", "register", "signal", "unlock_last",
              "unlock", "wait"}

\* darts_barrier_init.
Init == /\ lock = Null
        /\ counter = 0
        /\ mailboxes = [s \in Slots |-> Null]
        /\ mailboxVar = [t \in Threads |-> 0]
        /\ pc = [t \in Threads |-> "out"]
        /\ next = 0

-----------------------------------------------------------------------------

Goto(t, from, to) == pc[t] = from /\ pc' = [pc EXCEPT ![t] = to]

\* A call of darts_barrier.
Enter(t) == /\ Goto(t, "out", "enter")
            /\ mailboxVar' = [mailboxVar EXCEPT ![t] = 0]
            /\ UNCHANGED <<shared, next>>

Lock(t) == /\ Goto(t, "enter", "body")
           /\ lock = Null
           /\ lock' = t
           /\ UNCHANGED <<counter, mailboxes, mailboxVar, next>>

\* The first clears the mailboxes that the phase before has left.
ArriveFirst(t) == /\ Goto(t, "body", "register")
                  /\ counter = 0
                  /\ mailboxes' = [s \in Slots |-> Null]
                  /\ UNCHANGED <<lock, counter, mailboxVar, next>>

\* Mutations: one too late, and one too early.
IsLastTooLate == counter = numThreads
IsLastTooEarly == counter = numThreads - 2

IsLast == counter = numThreads - 1

\* Mutation: the loop starts at the second mailbox.
ArriveLastSkipsOne(t) == /\ Goto(t, "body", "signal")
                         /\ counter # 0
                         /\ IsLast
                         /\ next' = 1
                         /\ UNCHANGED <<shared, mailboxVar>>

ArriveLast(t) == /\ Goto(t, "body", "signal")
                 /\ counter # 0
                 /\ IsLast
                 /\ next' = 0
                 /\ UNCHANGED <<shared, mailboxVar>>

ArriveBetween(t) == /\ Goto(t, "body", "register")
                    /\ counter # 0
                    /\ ~IsLast
                    /\ UNCHANGED <<shared, mailboxVar, next>>

Register(t) == /\ Goto(t, "register", "unlock")
               /\ mailboxes' = [mailboxes EXCEPT ![counter] = t]
               /\ counter' = counter + 1
               /\ UNCHANGED <<lock, mailboxVar, next>>

\* The store to a mailbox.  The last slot has none: the store goes to address
\* 0 of the core, where no variable of the program is.
Signal(t) == /\ pc[t] = "signal"
             /\ next \in Slots
             /\ LET m == mailboxes[next]
                IN mailboxVar' = IF m = Null THEN mailboxVar
                                             ELSE [mailboxVar EXCEPT ![m] = 1]
             /\ next' = next + 1
             /\ UNCHANGED <<shared, pc>>

\* Mutation: the counter is not reset.
ResetForgotten(t) == /\ Goto(t, "signal", "unlock_last")
                     /\ next \notin Slots
                     /\ next' = 0
                     /\ UNCHANGED <<shared, mailboxVar>>

ResetCounter(t) == /\ Goto(t, "signal", "unlock_last")
                   /\ next \notin Slots
                   /\ counter' = 0
                   /\ next' = 0
                   /\ UNCHANGED <<lock, mailboxes, mailboxVar>>

UnlockLast(t) == /\ Goto(t, "unlock_last", "out")
                 /\ lock' = Null
                 /\ UNCHANGED <<counter, mailboxes, mailboxVar, next>>

Unlock(t) == /\ Goto(t, "unlock", "wait")
             /\ lock' = Null
             /\ UNCHANGED <<counter, mailboxes, mailboxVar, next>>

\* The spin on the mailbox ends, and darts_barrier returns.
Leave(t) == /\ Goto(t, "wait", "out")
            /\ mailboxVar[t] # 0
            /\ UNCHANGED <<shared, mailboxVar, next>>

Step(t) == \/ Lock(t)
           \/ ArriveFirst(t) \/ ArriveLast(t) \/ ArriveBetween(t)
           \/ Register(t) \/ Signal(t) \/ ResetCounter(t)
           \/ UnlockLast(t) \/ Unlock(t) \/ Leave(t)

Next == \E t \in Threads : Enter(t) \/ Step(t)

Spec == Init /\ [][Next]_vars

\* Every thread comes to the barrier again and none stops inside it.  A thread
\* that the mutex passes over needs no more: the others end up waiting for it.
FairSpec == Spec /\ \A t \in Threads : WF_vars(Enter(t) \/ Step(t))

-----------------------------------------------------------------------------

\* Type invariant: the counter never counts the last thread, so no mailbox is
\* ever registered beyond the last slot but one.
TypeOK == /\ lock \in Threads \cup {Null}
          /\ counter \in Slots
          /\ mailboxes \in [Slots -> Threads \cup {Null}]
          /\ mailboxVar \in [Threads -> {0, 1}]
          /\ pc \in [Threads -> Locations]
          /\ next \in 0..numThreads

Signalling == \E t \in Threads : pc[t] = "signal"

\* The slots of the mailboxes that have still to be signalled in this phase.
Pending == (IF Signalling THEN next ELSE 0)..(counter - 1)

\* The mailboxes still to be signalled belong to distinct threads, each inside
\* the barrier with its mailbox still 0: no thread is signalled twice, none
\* that has left (its mailbox would be a dead word of its stack), and none of
\* the next phase.
PendingSignals ==
  /\ \A s \in Pending : /\ mailboxes[s] \in Threads
                         /\ pc[mailboxes[s]] \in {"unlock", "wait"}
                         /\ mailboxVar[mailboxes[s]] = 0
  /\ \A s, r \in Pending : mailboxes[s] = mailboxes[r] => s = r

\* Every thread that arrives is released in the end.
EveryoneLeaves == \A t \in Threads : pc[t] = "enter" ~> pc[t] = "out"

-----------------------------------------------------------------------------
(* The barrier implements BarrierPhases.  It opens when the last thread finds *)
(* that it is the last; a thread that waits is released from then on, since   *)
(* its mailbox is among those that are going to be signalled.                 *)

ToBeSignalled(t) == Signalling /\ \E s \in next..(numThreads - 1) : mailboxes[s] = t

Phase(t) ==
  CASE pc[t] = "out" -> "out"
    [] pc[t] \in {"enter", "body", "register", "unlock"} -> "arrived"
    [] pc[t] \in {"signal", "unlock_last"} -> "released"
    [] pc[t] = "wait" -> IF mailboxVar[t] # 0 \/ ToBeSignalled(t)
                           THEN "released" ELSE "arrived"

Phases == INSTANCE BarrierPhases WITH phase <- [t \in Threads |-> Phase(t)]

\* Refinement: no thread leaves before all have arrived, phase after phase,
\* with threads coming back while others have not left yet.
ImplementsPhases == Phases!Spec
=============================================================================
