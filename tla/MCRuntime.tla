------------------------------ MODULE MCRuntime ------------------------------
(***************************************************************************)
(* Runtime for TLC.  The program: `left' and `right' run on different CUs    *)
(* and satisfy the slot `join', which starts two codelets `both'; these      *)
(* satisfy the slot `done', which starts `last'.  Either CU has one more     *)
(* codelet queued, so that the two `both' fill its queue.  On the CU of      *)
(* `right' this is the termination codelet: when `right' comes last, that    *)
(* CU leaves its loop with both `both' still queued, and begins with them    *)
(* when it is run again.  The SU's codelets invoke threaded procedures, as   *)
(* many as fit.                                                              *)
(***************************************************************************)
EXTENDS Runtime, TLC

MCCodelets == {"left", "right", "both", "last", "wait", "spawn", "again", "final"}

MCCalls == [left  |-> <<<<"decDep", "join">>>>,
            right |-> <<<<"decDep", "join">>>>,
            both  |-> <<<<"decDep", "done">>>>,
            last  |-> <<>>,
            wait  |-> <<>>,
            spawn |-> <<<<"invokeTP", "">>, <<"addCodelet", "again">>>>,
            again |-> <<<<"invokeTP", "">>, <<"addCodelet", "final">>>>,
            final |-> <<<<"terminate", "">>>>]

MCQueued == (1 :> <<"spawn">>) @@ (2 :> <<"left", "wait">>) @@ (3 :> <<"right", "final">>)

MCSlots == {"join", "done"}
MCInitDep == [join |-> 2, done |-> 2]
MCNumCodelets == [join |-> 2, done |-> 1]
MCTemplate == [join |-> "both", done |-> "last"]

\* What DependencyOrder asks of the program.
ASSUME TemplatesAssumption == TemplatesOfSlots

\* The same with a CU that invokes.
MCQueuedInvoke == (1 :> <<>>) @@ (2 :> <<"spawn">>) @@ (3 :> <<>>)
=============================================================================
