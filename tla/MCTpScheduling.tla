---------------------------- MODULE MCTpScheduling ----------------------------
(***************************************************************************)
(* TpScheduling for TLC, with the procedures of                             *)
(* test/assets/tpClosuresQueue/e_tp_definitions.h: simple_tp, complex_tp,   *)
(* whose two adders signal the codelet that signals the printer and invokes *)
(* finish_tp, and finish_tp, which ends the experiment.                     *)
(***************************************************************************)
EXTENDS TpScheduling, TLC

Codelet(signals, invokes, finishes) ==
    [signals |-> signals, invokes |-> invokes, finishes |-> finishes]
Assigned(deps, codelet) ==
    [numDep |-> deps, resetDep |-> deps, numExec |-> 1, fire |-> codelet]

print_message == Codelet({}, {}, FALSE)
print_codelet == Codelet({}, {}, FALSE)
add_dram_to_c == Codelet({4}, {}, FALSE)
add_dram_to_d == Codelet({4}, {}, FALSE)
mult_c_and_d_to_c == Codelet({1}, {"finish_tp"}, FALSE)
finishExecution == Codelet({}, {}, TRUE)

finish_tp == [args |-> <<>>, slots |-> <<Assigned(1, finishExecution)>>, signalled |-> {1}]
simple_tp == [args |-> <<>>, slots |-> <<Assigned(1, print_message)>>, signalled |-> {1}]
complex_tp == [args |-> <<5, 6>>,
               slots |-> <<Assigned(1, print_codelet), Assigned(1, add_dram_to_c),
                           Assigned(1, add_dram_to_d), Assigned(2, mult_c_and_d_to_c)>>,
               signalled |-> {2, 3}]

MCProgram == [finish_tp |-> finish_tp, simple_tp |-> simple_tp, complex_tp |-> complex_tp]

\* The same with a procedure of twenty arguments.
MCProgramTwenty ==
    [MCProgram EXCEPT !.complex_tp.args = [i \in 1..20 |-> i]]

Nothing == [c \in Cores |-> <<>>]
Pushes(works) == works @@ Nothing

\* What each experiment of the test does, with its cores: (0,0) consumes, (0,1)
\* produces and then consumes, and two do what the others do: the first of these
\* is (1,1) in the third experiment, and each pushes for several of the test's.
MCExperiments ==
    LET simple == <<"simple_tp">>
        complex == <<"complex_tp">>
    IN <<[consumers |-> {1}, keeps |-> TRUE, retries |-> FALSE,
          work |-> Pushes(2 :> simple \o complex)],
         [consumers |-> {1}, keeps |-> TRUE, retries |-> TRUE,
          work |-> Pushes((2 :> simple \o complex) @@ (3 :> simple \o simple)
                          @@ (4 :> simple \o simple))],
         [consumers |-> {1, 2}, keeps |-> FALSE, retries |-> TRUE,
          work |-> Pushes((3 :> simple \o complex)
                          @@ (4 :> simple \o simple))]>>

MCExperimentsTwenty == <<MCExperiments[1]>>

\* The theorems speak of these procedures.
ASSUME ProgramAssumption == \A t \in TPnames : CountsMatch(t) /\ Ordered(t)

\* A row of the closures of an experiment, one complex_tp among them, ends at the
\* end of the memory neither in this queue nor in the test's of 25 words: there
\* the queue of tpClosuresQueue.c is the FIFO of TpScheduling.
ASSUME RowsEndBefore ==
    \A words \in {QueueWords, 25}, simples \in 0..25, complexes \in 0..1 :
        simples * Words(NewClosure("simple_tp"))
          + complexes * Words(NewClosure("complex_tp")) # words
=============================================================================
