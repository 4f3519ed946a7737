----------------------------- MODULE PrintFormat -----------------------------
(***************************************************************************)
(* What a message of e_darts_print becomes on its way: the device           *)
(* (src/eDARTS/src/runtime/device/e_darts_print.c) copies the characters    *)
(* and the raw bytes of the arguments, the host                             *)
(* (src/eDARTS/src/runtime/host/darts_print_server.c) finds each argument   *)
(* again by adding up sizes.  Both go by the letters after the % signs,     *)
(* each with a table of its own.                                            *)
(*                                                                          *)
(* Text[m] is the sequence of the characters of message m.  Byte b of its   *)
(* argument i is the triple <<m, i, b>>, so that a byte found at a wrong    *)
(* place, or left there by another message, is told from the right one.     *)
(***************************************************************************)
EXTENDS Integers, SequencesExt

CONSTANTS Messages,  \* what the program prints
          Text,      \* its characters
          MaxChars,  \* MAX_NUM_CHARACTERS
          MaxArgs,   \* MAX_NUM_ARGUMENTS
          ArgsSize,  \* ARGUMENTS_SIZE
          StackLetters  \* what may lie on the stack behind the used argTypes

ASSUME SizesAssumption == MaxChars \in Nat \ {0} /\ MaxArgs \in Nat /\ ArgsSize \in Nat

Nul == "nul"
Junk == "junk"  \* what the stack or the memory after a field holds
NulByte == <<>>
JunkByte == <<Junk>>

-----------------------------------------------------------------------------
\* On the device.

TypeSelector(letter) ==
    CASE letter \in {"d", "i", "o", "u", "x", "X"} -> 4
      [] letter \in {"c", "C"} -> 1
      [] letter \in {"e", "E", "f", "F", "g", "G", "a", "A", "n", "N"} -> 8
      [] OTHER -> 0

\* The letters behind the % signs among the first n characters.
LettersIn(text, n) ==
    LET percents == SelectSeq([i \in 1..n |-> i], LAMBDA i : text[i] = "%")
    IN [k \in 1..Len(percents) |->
           IF percents[k] < Len(text) THEN text[percents[k] + 1] ELSE Nul]

CharCount(text) == IF Len(text) < MaxChars THEN Len(text) ELSE MaxChars

ArgTypes == [m \in Messages |->
    LET letters == LettersIn(Text[m], CharCount(Text[m]))
    IN IF Len(letters) <= MaxArgs THEN letters ELSE SubSeq(letters, 1, MaxArgs)]

\* Mutation: the terminator goes where the count stopped.
HeadUntruncated(old, text) ==
    [i \in DOMAIN old \cup {CharCount(text) + 1} |->
        IF i <= CharCount(text) THEN text[i]
        ELSE IF i = CharCount(text) + 1 THEN Nul ELSE old[i]]

\* printingBufferHead with the message copied into it, over what was there.
HeadWith(old, text) ==
    LET end == IF CharCount(text) = MaxChars THEN MaxChars ELSE CharCount(text) + 1
    IN [i \in DOMAIN old |-> IF i < end THEN text[i] ELSE IF i = end THEN Nul ELSE old[i]]

\* The caller's arguments: an argument takes whole words, and the words follow
\* each other (the calling convention, and the (char *) args_list of the code).
SlotSize(letter) == IF letter \in {"e", "E", "f", "F", "g", "G", "a", "A"} THEN 8 ELSE 4

ArgList == [m \in Messages |->
    LET letters == LettersIn(Text[m], Len(Text[m]))
    IN FlattenSeq([i \in DOMAIN letters |-> [b \in 1..SlotSize(letters[i]) |-> <<m, i, b>>]])]

StringTypes == {"s", "S"}

\* One turn of the copying loop: `at' bytes are done, `zeros' are those an %s wrote.
CopyArgument(done, letter) ==
    IF done.at >= ArgsSize THEN done
    ELSE IF letter \in StringTypes THEN [at |-> done.at + 1, zeros |-> done.zeros \cup {done.at + 1}]
    ELSE [done EXCEPT !.at = @ + TypeSelector(letter)]

\* The loop begins one past the last of argTypes, with whatever letter the
\* stack holds there, and takes the types backwards, the bytes forwards.
Copied == [m \in Messages, letter \in StackLetters |->
    FoldLeft(CopyArgument, [at |-> 0, zeros |-> {}], <<letter>> \o Reverse(ArgTypes[m]))]

CopiedSize(m, letter) == Copied[m, letter].at
CopiedZeros(m, letter) == Copied[m, letter].zeros

\* The arguments field with the arguments of m, over what was there.
ArgumentsWith(old, m, letter) ==
    [p \in 1..(IF CopiedSize(m, letter) > Len(old) THEN CopiedSize(m, letter) ELSE Len(old)) |->
        IF p > CopiedSize(m, letter) THEN old[p]
        ELSE IF p \in CopiedZeros(m, letter) THEN NulByte
        ELSE IF p <= Len(ArgList[m]) THEN ArgList[m][p] ELSE JunkByte]

-----------------------------------------------------------------------------
\* On the host.

\* TRANSFORM_PARAMETER: how far it moves the argument pointer.
HostSize(letter) ==
    CASE letter \in {"d", "i", "o", "u", "x", "X"} -> 4
      [] letter \in {"e", "E", "f", "g", "G", "a", "A"} -> 8
      [] letter \in {"c", "C"} -> 1
      [] OTHER -> 0

\* A conversion of its bytes, and the character that myChar[2], which nobody
\* sets, adds behind the letter; nothing for a letter the macro does not know.
Transformed(letter, arguments, at, extra) ==
    IF HostSize(letter) = 0 THEN <<>>
    ELSE LET value == [b \in 1..HostSize(letter) |->
                          IF at + b \in DOMAIN arguments THEN arguments[at + b] ELSE JunkByte]
         IN <<<<letter, value>>>> \o extra

\* processedBuffer: what is printed for a head and its arguments.
Processed(head, arguments, extra) ==
    LET line[i \in 1..(MaxChars + 2), at \in 0..(8 * MaxChars)] ==
            IF i > MaxChars \/ head[i] = Nul THEN <<>>
            ELSE IF head[i] = "%"
            THEN LET letter == IF i < MaxChars THEN head[i + 1] ELSE Junk
                 IN Transformed(letter, arguments, at, extra) \o line[i + 2, at + HostSize(letter)]
            ELSE <<<<head[i]>>>> \o line[i + 1, at]
    IN line[1, 0]

-----------------------------------------------------------------------------
\* What is printed, the junk characters of the host's own stack left aside.
Readable(line) == SelectSeq(line, LAMBDA item : item # JunkByte)

\* What the caller of e_darts_print may expect, as of printf: each conversion
\* with the bytes of its own argument, the low byte of it for a character.
Expected == [m \in Messages |->
    LET text == Text[m]
        argumentAt(i) == Len(LettersIn(text, i))
        valueSize(letter) == IF letter \in {"c", "C"} THEN 1 ELSE SlotSize(letter)
        item(i) == IF text[i] = "%"
                   THEN <<<<text[i + 1], [b \in 1..valueSize(text[i + 1]) |-> <<m, argumentAt(i), b>>]>>>>
                   ELSE IF i > 1 /\ text[i - 1] = "%" THEN <<>> ELSE <<<<text[i]>>>>
    IN FlattenSeq([i \in DOMAIN text |-> IF i = Len(text) /\ text[i] = "%" THEN <<>> ELSE item(i)])]

\* The same line when the copying loop has begun with a string type: the zero it
\* stores for that takes the place of the first byte of the first argument.
FirstByteLost(line, m) ==
    [k \in DOMAIN line |->
        IF Len(line[k]) = 1 THEN line[k]
        ELSE <<line[k][1],
               [b \in DOMAIN line[k][2] |->
                   IF line[k][2][b] = <<m, 1, 1>> THEN NulByte ELSE line[k][2][b]]>>]

Printed(m, letter) ==
    IF letter \in StringTypes THEN FirstByteLost(Expected[m], m) ELSE Expected[m]

\* The messages both sides can handle: short enough, with conversions that
\* both tables know, and nothing behind a character, whose argument takes
\* a word of the list and a byte of the buffer.
Printable == {m \in Messages :
    LET letters == LettersIn(Text[m], Len(Text[m]))
    IN /\ Len(Text[m]) < MaxChars
       /\ Len(letters) <= MaxArgs
       /\ Len(ArgList[m]) <= ArgsSize
       /\ \A k \in DOMAIN letters : HostSize(letters[k]) > 0
       /\ \A k \in DOMAIN letters : letters[k] \in {"c", "C"} => k = Len(letters)}

-----------------------------------------------------------------------------
\* Facts about the messages that the device and the host take for granted.

\* The copying loop tests the end of the field before an argument, not after it.
ArgumentsFit == \A m \in Messages, letter \in StackLetters :
                    CopiedSize(m, letter) \in 0..ArgsSize

\* Whatever the head and the arguments held before, and whatever lay behind
\* argTypes, the host unpacks what the device packs, but for the byte that a
\* string type behind argTypes costs, for the contents in Heads and Fields.
FormatsAgree(Heads, Fields) ==
    \A m \in Printable, letter \in StackLetters, extra \in {<<>>, <<JunkByte>>} :
    \A oldHead \in Heads, oldArguments \in Fields :
        Readable(Processed(HeadWith(oldHead, Text[m]),
                           ArgumentsWith(oldArguments, m, letter), extra)) = Printed(m, letter)

\* Heads and Fields hold all that the buffer ever contains: emptied, with a
\* message copied into it, and with its first byte cleared.
HoldContents(Heads, Fields) ==
    /\ [i \in 1..MaxChars |-> Nul] \in Heads
    /\ [p \in 1..ArgsSize |-> NulByte] \in Fields
    /\ \A old \in Heads : /\ [old EXCEPT ![1] = Nul] \in Heads
                         /\ \A m \in Messages : HeadWith(old, Text[m]) \in Heads
    /\ \A old \in Fields : /\ [old EXCEPT ![1] = NulByte] \in Fields
                          /\ \A m \in Messages, letter \in StackLetters :
                                ArgumentsWith(old, m, letter) \in Fields
=============================================================================
