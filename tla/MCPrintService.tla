--------------------------- MODULE MCPrintService ---------------------------
(***************************************************************************)
(* PrintService for TLC: a message with text, an integer and a float, and   *)
(* one that is as long as the buffer and is cut inside its last conversion. *)
(***************************************************************************)
EXTENDS PrintService, TLC

CONSTANTS numbers, long

MCMessages == {numbers, long}

MCText == (numbers :> <<"x", "%", "d", "%", "f">>)
          @@ (long :> <<"%", "c", "%", "u", "%", "d">>)

\* What the buffer can contain after at most n steps of the device and the host.
HeadsAfter[n \in 0..6] ==
    IF n = 0 THEN {[i \in 1..MaxChars |-> Nul]}
    ELSE HeadsAfter[n - 1]
         \cup UNION {{[old EXCEPT ![1] = Nul]} \cup {HeadWith(old, Text[m]) : m \in Messages}
                     : old \in HeadsAfter[n - 1]}

FieldsAfter[n \in 0..6] ==
    IF n = 0 THEN {[p \in 1..ArgsSize |-> NulByte]}
    ELSE FieldsAfter[n - 1]
         \cup UNION {{[old EXCEPT ![1] = NulByte]}
                     \cup {ArgumentsWith(old, m, letter) : m \in Messages, letter \in StackLetters}
                     : old \in FieldsAfter[n - 1]}

\* The hypotheses of the theorems about the print service hold of these messages.
ASSUME MessagesAssumption == /\ ArgumentsFit
                             /\ HoldContents(HeadsAfter[6], FieldsAfter[6])
                             /\ FormatsAgree(HeadsAfter[6], FieldsAfter[6])
=============================================================================
