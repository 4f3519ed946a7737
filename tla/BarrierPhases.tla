--------------------------- MODULE BarrierPhases ---------------------------
(***************************************************************************)
(* What a barrier promises: nobody leaves before everybody has arrived, and *)
(* a thread that is quick to come back waits with the next phase, not with  *)
(* the one that the slow threads are still leaving.                         *)
(***************************************************************************)
CONSTANTS Threads

VARIABLE phase   \* out of the barrier, arrived at it, or released from it

Init == phase = [t \in Threads |-> "out"]

Arrive(t) == /\ phase[t] = "out"
             /\ phase' = [phase EXCEPT ![t] = "arrived"]

\* Everybody is there: all are released at once.
Open == /\ \A t \in Threads : phase[t] = "arrived"
        /\ phase' = [t \in Threads |-> "released"]

Leave(t) == /\ phase[t] = "released"
            /\ phase' = [phase EXCEPT ![t] = "out"]

Next == Open \/ \E t \in Threads : Arrive(t) \/ Leave(t)

Spec == Init /\ [][Next]_phase
=============================================================================
