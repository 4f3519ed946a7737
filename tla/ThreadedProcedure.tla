-------------------------- MODULE ThreadedProcedure --------------------------
(***************************************************************************)
(* Threaded procedures as src/eDARTS/include/codeletModel/                  *)
(* threadedProcedure.h, src/codeletModel and src/assets/syncSlot.c build    *)
(* them: metadata, followed in memory by the synchronization slots that     *)
(* the user's constructor assigns and signals.                              *)
(*                                                                          *)
(* Program[TPname] is what the user defines: the constructor's code as the  *)
(* slots it assigns and the set of them that it signals, and each slot's    *)
(* codelet by what it does for others: the slots of its own procedure that  *)
(* it decrements, the procedures that it invokes, and whether it ends the   *)
(* program.  The memory regions, which only codelets look into, are left    *)
(* out.                                                                     *)
(***************************************************************************)
EXTENDS TpClosure, FiniteSets

CONSTANTS Program, MaxWord

TPnames == DOMAIN Program

CodeletType == [signals : SUBSET Nat, invokes : SUBSET TPnames, finishes : BOOLEAN]

SlotType == [numDep : 0..MaxWord, resetDep : 0..MaxWord, numExec : Nat, fire : CodeletType]

ASSUME WordAssumption == MaxWord \in Nat

ASSUME DefinitionAssumption ==
    \A t \in TPnames :
        /\ Program[t].slots \in Seq(SlotType)
        /\ Len(Program[t].slots) > 0
        /\ Program[t].signalled \subseteq DOMAIN Program[t].slots
        /\ \A i \in DOMAIN Program[t].slots :
             Program[t].slots[i].fire.signals \subseteq DOMAIN Program[t].slots
        /\ Program[t].args \in Seq(Nat)
        /\ HasMacro(Len(Program[t].args))

\* ASSIGN_SYNC_SLOT_CODELET: initCodelet and initSyncSlot.
InitSyncSlot(slot) == [currentDep |-> slot.numDep, template |-> slot]

\* syncSlotDecDep, where no other core comes in between: a decrement of an
\* unsigned.
DecDep(slot) == [slot EXCEPT !.currentDep = IF @ = 0 THEN MaxWord ELSE @ - 1]

Signalled(slots, which) ==
    [i \in DOMAIN slots |-> IF i \in which THEN DecDep(slots[i]) ELSE slots[i]]

\* Mutation: the count is left as it is.
ResetDepNot(slot) == slot

\* syncSlotResetDep
ResetDep(slot) == [slot EXCEPT !.currentDep = slot.template.resetDep]

\* _TPname_userInitCtor: the constructor's code.
UserInitCtor(TPname) ==
    LET assigned == [i \in DOMAIN Program[TPname].slots |-> InitSyncSlot(Program[TPname].slots[i])]
    IN  Signalled(assigned, Program[TPname].signalled)

\* A closure becomes a threaded procedure: _TPname_metadataCtor gives it its id
\* and number of slots, then closureExec calls the constructor.  (fired counts
\* the codelets that each slot has fired, for the properties.)
Built(TPid, closure) ==
    [id |-> TPid,
     tp |-> closure.tp,
     args |-> ClosureExec(closure),
     slots |-> UserInitCtor(closure.tp),
     fired |-> [i \in DOMAIN Program[closure.tp].slots |-> 0]]

-----------------------------------------------------------------------------
\* What a user's definition has to get right, as slots only count: nothing in the
\* code compares the number of dependencies with what will satisfy them.

\* The slots of procedure t whose codelets signal slot s.
Signallers(t, s) == {r \in DOMAIN Program[t].slots : s \in Program[t].slots[r].fire.signals}

\* What slot s waits for: the n-th codelet of slot r.
Signals(t, s) == UNION {{r} \X (1..Program[t].slots[r].numExec) : r \in Signallers(t, s)}

\* Each slot waits for as many signals as there are, and a reset one for more.
CountsMatch(t) ==
    \A s \in DOMAIN Program[t].slots :
        /\ Program[t].slots[s].numDep =
             Cardinality(Signals(t, s)) + (IF s \in Program[t].signalled THEN 1 ELSE 0)
        /\ Program[t].slots[s].resetDep > 0

\* No slots wait for each other all around.
Ordered(t) ==
    \A S \in (SUBSET DOMAIN Program[t].slots) \ {{}} : \E s \in S : Signallers(t, s) \cap S = {}
=============================================================================
