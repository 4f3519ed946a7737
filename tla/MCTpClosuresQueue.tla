------------------------- MODULE MCTpClosuresQueue -------------------------
(***************************************************************************)
(* TpClosuresQueue for TLC: two kinds of closures, a small one and a large  *)
(* one, in a memory of seven words that they fill exactly (3 + 2 + 2) or    *)
(* leave a word of padding in (2 + 2 + 2, and a large one goes to the       *)
(* beginning).                                                              *)
(***************************************************************************)
EXTENDS TpClosuresQueue, TLC

CONSTANTS small, large, o1, o2

MCClosures == {small, large}

\* In words.
MCClosureSize == (small :> 2) @@ (large :> 3)

\* The cores are interchangeable.
MCCoresAlike == Permutations({o1, o2})
=============================================================================
