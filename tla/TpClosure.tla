------------------------------ MODULE TpClosure ------------------------------
(***************************************************************************)
(* The closures of threaded procedures: what                                *)
(* src/eDARTS/include/codeletModel/tpClosure.h makes of                     *)
(* DEFINE_TP_CLOSURE(TPname, types of the arguments).  It has one macro for *)
(* each number of arguments, DEFINE_TP_CLOSURE_ARGS0 to ..ARGS25, and each  *)
(* of them the same parts: the packed structure, TPname_closureExec, which  *)
(* calls the constructor with the arguments of the closure, and             *)
(* _invoke_TPname, which makes a closure.  The number of arguments is a     *)
(* parameter here, and what sets some of the 26 macros apart has a          *)
(* definition of its own.  An argument is one word.                         *)
(***************************************************************************)
EXTENDS Naturals, Sequences

CONSTANT Unset      \* what a word of a local variable holds before it is set

\* GET_MACRO_TPCLOSURE chooses among the macros by the number of arguments.
MaxArity == 25

\* Macros that cannot be used: closureExec with two backslashes at the end of its
\* call, of which one is left in the code...
StrayBackslash == 7..10

\* ... and _invoke with a parameter whose type is misspelt (13) or that is not
\* declared (14).
MisspeltInvoke == {13, 14}

HasMacro(arity) == arity \in (0..MaxArity) \ (StrayBackslash \cup MisspeltInvoke)

\* Mutation: an _invoke that is one argument short.
ForgottenLast(arity) == {arity}

\* The argument that _invoke does not store in the closure, counted from 1.
Forgotten(arity) == IF arity = 20 THEN {20} ELSE {}

\* Words of the structure: the genericTpClosure_t and the arguments.
genericTpClosure == 3
ClosureWords(arity) == genericTpClosure + arity

\* _invoke_TPname(args)
Invoke(TPname, args) ==
    [tp |-> TPname,
     args |-> [i \in DOMAIN args |-> IF i \in Forgotten(Len(args)) THEN Unset ELSE args[i]]]

\* What TPname_closureExec passes to the constructor.
ClosureExec(closure) == closure.args
=============================================================================
