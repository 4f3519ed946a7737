------------------------------ MODULE PrintPort ------------------------------
(***************************************************************************)
(* What the print service promises: a port that holds one message at a      *)
(* time.  A message is put in while the port is free, printed once, and     *)
(* then taken away, which frees the port.                                   *)
(***************************************************************************)
CONSTANTS Messages, NoMessage

VARIABLES job,     \* the message in the port
          printed  \* whether it has been printed

vars == <<job, printed>>

Init == job = NoMessage /\ printed = FALSE

Request(m) == /\ job = NoMessage
              /\ job' = m
              /\ UNCHANGED printed

Finish == /\ job # NoMessage
          /\ ~printed
          /\ printed' = TRUE
          /\ UNCHANGED job

Free == /\ printed
        /\ job' = NoMessage
        /\ printed' = FALSE

Next == (\E m \in Messages : Request(m)) \/ Finish \/ Free

Spec == Init /\ [][Next]_vars
=============================================================================
