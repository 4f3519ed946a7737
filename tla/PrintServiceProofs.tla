-------------------------- MODULE PrintServiceProofs --------------------------
(***************************************************************************)
(* The print service is a port, for any number of cores and any messages.   *)
(* The argument: the cores exclude each other with the mutex, and the core  *)
(* inside and the host's thread with the flag, which only the core raises   *)
(* and only the host clears.                                                *)
(***************************************************************************)
EXTENDS PrintService, TLAPS

\* A core that has the mutex.
Inside(c) == pc[c] \in {"wait", "head", "arguments", "raise", "unlock"}

\* A core that has found the flag cleared and not raised it yet.
Filling(c) == pc[c] \in {"head", "arguments", "raise"}

\* The server has found the flag raised and not cleared it yet.
Serving == server \in {"readRest", "process", "print", "putFlag"}

PortInv == /\ pc \in [Cores -> Locations]
           /\ message \in [Cores -> Messages \cup {NoMessage}]
           /\ requested \in Messages \cup {NoMessage}
           /\ flag \in {0, 1}
           /\ \A c \in Cores : Inside(c) <=> mutex = c
           /\ \A c \in Cores : pc[c] # "idle" => message[c] \in Messages
           /\ \A c \in Cores : Filling(c) => flag = 0
           /\ Serving => flag = 1
           /\ flag = 1 <=> requested # NoMessage

LEMMA PortInvInit == Init => PortInv
BY CoreAssumption DEF Init, PortInv, Inside, Filling, Serving, Locations

LEMMA PortInvNext == PortInv /\ [Next]_vars => PortInv'
<1> SUFFICES ASSUME PortInv, [Next]_vars
             PROVE  PortInv'
  OBVIOUS
<1> USE DEF PortInv, Inside, Filling, Serving, Locations, Goto, host, buffer, device
<1>1. ASSUME NEW c \in Cores, NEW m \in Messages, Call(c, m)
      PROVE  PortInv'
  BY <1>1 DEF Call
<1>2. ASSUME NEW c \in Cores, Lock(c)
      PROVE  PortInv'
  BY <1>2, CoreAssumption DEF Lock
<1>3. ASSUME NEW c \in Cores, Wait(c)
      PROVE  PortInv'
  BY <1>3 DEF Wait
<1>4. ASSUME NEW c \in Cores, WriteHead(c)
      PROVE  PortInv'
  BY <1>4 DEF WriteHead
<1>5. ASSUME NEW c \in Cores, WriteArguments(c)
      PROVE  PortInv'
  BY <1>5 DEF WriteArguments
<1>6. ASSUME NEW c \in Cores, Raise(c)
      PROVE  PortInv'
  BY <1>6, NoMessageAssumption DEF Raise
<1>7. ASSUME NEW c \in Cores, Unlock(c)
      PROVE  PortInv'
  BY <1>7, CoreAssumption DEF Unlock
<1>8. CASE Check
  BY <1>8 DEF Check, ServerGoto
<1>9. CASE ReadFlag
  BY <1>9 DEF ReadFlag, ServerGoto
<1>10. CASE ReadRest
  BY <1>10 DEF ReadRest, ServerGoto
<1>11. CASE Process
  BY <1>11 DEF Process, ServerGoto
<1>12. CASE PrintLine
  BY <1>12 DEF PrintLine, ServerGoto
<1>13. CASE PutFlag
  BY <1>13 DEF PutFlag, ServerGoto
<1>14. CASE PutHead
  BY <1>14 DEF PutHead, ServerGoto
<1>15. CASE PutArguments
  BY <1>15 DEF PutArguments, ServerGoto
<1>16. CASE StopServer
  BY <1>16 DEF StopServer
<1>17. CASE UNCHANGED vars
  BY <1>17 DEF vars
<1> QED
  BY <1>1, <1>2, <1>3, <1>4, <1>5, <1>6, <1>7, <1>8, <1>9, <1>10, <1>11, <1>12,
     <1>13, <1>14, <1>15, <1>16, <1>17 DEF Next, Step, ServerStep

-----------------------------------------------------------------------------

LEMMA PortInitial == Init => Port!Init
BY DEF Init, Port!Init

\* Only three actions show at the port: the flag goes up for a message while
\* the port is free, the server prints what is there, and takes it away.
LEMMA PortStep == PortInv /\ [Next]_vars => [Port!Next]_(Port!vars)
<1> SUFFICES ASSUME PortInv, [Next]_vars
             PROVE  [Port!Next]_(Port!vars)
  OBVIOUS
<1> USE DEF Port!vars, host, buffer, device
<1>1. ASSUME NEW c \in Cores, Raise(c)
      PROVE  Port!Request(message[c]) /\ message[c] \in Messages
  BY <1>1 DEF Raise, Goto, PortInv, Filling, Port!Request
<1>2. ASSUME PrintLine
      PROVE  Port!Finish
  BY <1>2 DEF PrintLine, ServerGoto, PortInv, Serving, Port!Finish
<1>3. ASSUME PutFlag
      PROVE  Port!Free
  BY <1>3 DEF PutFlag, ServerGoto, Port!Free
<1>4. ASSUME NEW c \in Cores, NEW m \in Messages, Call(c, m)
      PROVE  UNCHANGED Port!vars
  BY <1>4 DEF Call
<1>5. ASSUME NEW c \in Cores,
             Lock(c) \/ Wait(c) \/ WriteHead(c) \/ WriteArguments(c) \/ Unlock(c)
      PROVE  UNCHANGED Port!vars
  BY <1>5 DEF Lock, Wait, WriteHead, WriteArguments, Unlock
<1>6. ASSUME Check \/ ReadFlag \/ ReadRest \/ Process \/ PutHead \/ PutArguments
      PROVE  UNCHANGED Port!vars
  BY <1>6 DEF Check, ReadFlag, ReadRest, Process, PutHead, PutArguments, ServerGoto
<1>7. ASSUME StopServer \/ UNCHANGED vars
      PROVE  UNCHANGED Port!vars
  BY <1>7 DEF StopServer, vars
<1> QED
  BY <1>1, <1>2, <1>3, <1>4, <1>5, <1>6, <1>7 DEF Next, Step, ServerStep, Port!Next

\* However many cores print, each message that is put into the buffer finds it
\* empty, is printed once, and is printed before the next one is put in.
THEOREM PrintsInTurn == Spec => ImplementsPort
<1>1. Spec => []PortInv
  BY PortInvInit, PortInvNext, PTL DEF Spec
<1> QED
  BY <1>1, PortInitial, PortStep, PTL DEF Spec, ImplementsPort, Port!Spec

\* No two cores are between the lock and the unlock of the printing mutex.
THEOREM OneCorePrints == Spec => [](\A c, d \in Cores : Inside(c) /\ Inside(d) => c = d)
<1>1. PortInv => \A c, d \in Cores : Inside(c) /\ Inside(d) => c = d
  BY DEF PortInv
<1>2. Spec => []PortInv
  BY PortInvInit, PortInvNext, PTL DEF Spec
<1> QED
  BY <1>1, <1>2, PTL

-----------------------------------------------------------------------------
(* The types, if the arguments of no message go beyond the field: the code   *)
(* tests the end of the field before it copies an argument, not after it.    *)

LEMMA HeadDomain == ASSUME NEW old, NEW text PROVE DOMAIN HeadWith(old, text) = DOMAIN old
BY DEF HeadWith

LEMMA ArgumentsDomain ==
  ASSUME ArgumentsFit, NEW old, DOMAIN old = 1..ArgsSize,
         NEW m \in Messages, NEW letter \in StackLetters
  PROVE  DOMAIN ArgumentsWith(old, m, letter) = 1..ArgsSize
<1>1. CopiedSize(m, letter) \in 0..ArgsSize
  BY DEF ArgumentsFit
<1>2. Len(old) = ArgsSize
  BY SizesAssumption
<1> QED
  BY <1>1, <1>2, SizesAssumption DEF ArgumentsWith

LEMMA TypeInit == Init => TypeOK
<1> SUFFICES ASSUME Init
             PROVE  TypeOK
  OBVIOUS
<1>1. DOMAIN head = 1..MaxChars /\ DOMAIN arguments = 1..ArgsSize
  BY DEF Init
<1>2. DOMAIN copy.head = 1..MaxChars /\ DOMAIN copy.arguments = 1..ArgsSize
  BY DEF Init, EmptyCopy
<1> QED
  BY <1>1, <1>2 DEF Init, TypeOK, Locations, ServerLocations

LEMMA TypeNext == ArgumentsFit /\ PortInv /\ TypeOK /\ [Next]_vars => TypeOK'
<1> SUFFICES ASSUME ArgumentsFit, PortInv, TypeOK, [Next]_vars
             PROVE  TypeOK'
  OBVIOUS
<1> USE DEF TypeOK, Locations, ServerLocations, Goto, ServerGoto, host, buffer, device
<1>1. ASSUME NEW c \in Cores, NEW m \in Messages, Call(c, m)
      PROVE  TypeOK'
  BY <1>1 DEF Call
<1>2. ASSUME NEW c \in Cores, Lock(c) \/ Wait(c) \/ Unlock(c)
      PROVE  TypeOK'
  BY <1>2 DEF Lock, Wait, Unlock
<1>3. ASSUME NEW c \in Cores, WriteHead(c)
      PROVE  TypeOK'
  BY <1>3, HeadDomain DEF WriteHead
<1>4. ASSUME NEW c \in Cores, WriteArguments(c)
      PROVE  TypeOK'
  <2>1. message[c] \in Messages
    BY <1>4 DEF WriteArguments, PortInv
  <2>2. DOMAIN arguments' = 1..ArgsSize
    BY <1>4, <2>1, ArgumentsDomain DEF WriteArguments
  <2> QED
    BY <1>4, <2>2 DEF WriteArguments
<1>5. ASSUME NEW c \in Cores, Raise(c)
      PROVE  TypeOK'
  BY <1>5 DEF Raise
<1>6. CASE Check \/ ReadFlag \/ Process \/ PrintLine
  BY <1>6 DEF Check, ReadFlag, Process, PrintLine
<1>7. CASE ReadRest
  BY <1>7 DEF ReadRest
<1>8. CASE PutFlag
  BY <1>8 DEF PutFlag
<1>9. CASE PutHead
  BY <1>9 DEF PutHead
<1>10. CASE PutArguments
  BY <1>10 DEF PutArguments, EmptyCopy
<1>11. CASE StopServer \/ UNCHANGED vars
  BY <1>11 DEF StopServer, vars
<1> QED
  BY <1>1, <1>2, <1>3, <1>4, <1>5, <1>6, <1>7, <1>8, <1>9, <1>10, <1>11
  DEF Next, Step, ServerStep

\* Nothing is stored outside the two fields of the buffer, neither by the cores
\* nor by the write back of the server, if the arguments of every message fit.
THEOREM TypeCorrect == ArgumentsFit => (Spec => []TypeOK)
<1> SUFFICES ASSUME ArgumentsFit
             PROVE  Spec => []TypeOK
  OBVIOUS
<1>1. Init => PortInv /\ TypeOK
  BY PortInvInit, TypeInit
<1>2. PortInv /\ TypeOK /\ [Next]_vars => (PortInv /\ TypeOK)'
  BY PortInvNext, TypeNext
<1> QED
  BY <1>1, <1>2, PTL DEF Spec

-----------------------------------------------------------------------------
(* What is printed is what was sent.  The buffer is followed from the write   *)
(* of a core to the server's copy: while no filling overlapped a write back,  *)
(* the head and the arguments are those of the message for which the flag     *)
(* goes up, whatever they were written over.                                  *)

IsHeadOf(m, h, Heads) == \E old \in Heads : h = HeadWith(old, Text[m])

\* The arguments of m, copied with that letter behind argTypes.
IsArgumentsOf(m, letter, a, Fields) ==
  letter \in StackLetters /\ \E old \in Fields : a = ArgumentsWith(old, m, letter)

WritingBack == server \in {"putHead", "putArguments"}

ContentsInv(Heads, Fields) == /\ head \in Heads
                              /\ arguments \in Fields
                              /\ copy.head \in Heads
                              /\ copy.arguments \in Fields
                              /\ copy = [head |-> copy.head, arguments |-> copy.arguments]

\* What a core has written stays as it is until the flag is cleared again.
FilledInv(Heads, Fields) ==
  ~overlapped =>
    /\ \A c \in Cores :
          /\ pc[c] \in {"arguments", "raise"} =>
                ~WritingBack /\ IsHeadOf(message[c], head, Heads)
          /\ pc[c] = "raise" => IsArgumentsOf(message[c], stray, arguments, Fields)
    /\ flag = 1 => /\ ~WritingBack
                   /\ IsHeadOf(requested, head, Heads)
                   /\ IsArgumentsOf(requested, stray, arguments, Fields)

\* What the server holds is what the buffer held when the flag was up.
CopiedInv(Heads, Fields) ==
  ~overlapped =>
    /\ server \in {"process", "print"} => /\ IsHeadOf(requested, copy.head, Heads)
                                          /\ IsArgumentsOf(requested, stray, copy.arguments, Fields)
    /\ server = "print" => \E extra \in {<<>>, <<JunkByte>>} :
                              processed = Processed(copy.head, copy.arguments, extra)

BufferInv(Heads, Fields) == /\ ContentsInv(Heads, Fields)
                            /\ FilledInv(Heads, Fields)
                            /\ CopiedInv(Heads, Fields)

LEMMA BufferInit ==
  ASSUME NEW Heads, NEW Fields, HoldContents(Heads, Fields)
  PROVE  Init => BufferInv(Heads, Fields)
BY DEF Init, BufferInv, ContentsInv, FilledInv, CopiedInv, HoldContents, EmptyCopy

LEMMA ContentsNext ==
  ASSUME NEW Heads, NEW Fields, HoldContents(Heads, Fields),
         PortInv, ContentsInv(Heads, Fields), [Next]_vars
  PROVE  ContentsInv(Heads, Fields)'
<1> USE DEF ContentsInv, HoldContents, Goto, ServerGoto, host, buffer, device
<1>1. ASSUME NEW c \in Cores, NEW m \in Messages, Call(c, m)
      PROVE  ContentsInv(Heads, Fields)'
  BY <1>1 DEF Call
<1>2. ASSUME NEW c \in Cores, Lock(c) \/ Wait(c) \/ Raise(c) \/ Unlock(c)
      PROVE  ContentsInv(Heads, Fields)'
  BY <1>2 DEF Lock, Wait, Raise, Unlock
<1>3. ASSUME NEW c \in Cores, WriteHead(c)
      PROVE  ContentsInv(Heads, Fields)'
  <2>1. message[c] \in Messages
    BY <1>3 DEF WriteHead, PortInv
  <2> QED
    BY <1>3, <2>1 DEF WriteHead
<1>4. ASSUME NEW c \in Cores, WriteArguments(c)
      PROVE  ContentsInv(Heads, Fields)'
  <2>1. message[c] \in Messages
    BY <1>4 DEF WriteArguments, PortInv
  <2> QED
    BY <1>4, <2>1 DEF WriteArguments
<1>5. CASE Check \/ ReadFlag \/ ReadRest \/ Process \/ PrintLine \/ PutFlag
  BY <1>5 DEF Check, ReadFlag, ReadRest, Process, PrintLine, PutFlag
<1>6. CASE PutHead
  BY <1>6 DEF PutHead
<1>7. CASE PutArguments
  BY <1>7 DEF PutArguments, EmptyCopy
<1>8. CASE StopServer \/ UNCHANGED vars
  BY <1>8 DEF StopServer, vars
<1> QED
  BY <1>1, <1>2, <1>3, <1>4, <1>5, <1>6, <1>7, <1>8 DEF Next, Step, ServerStep

\* One core alone fills, and only while the server waits for the flag or
\* writes back.
LEMMA FillingAlone ==
  ASSUME PortInv, NEW c \in Cores, Filling(c)
  PROVE  /\ flag = 0
         /\ ~Serving
         /\ \A d \in Cores : Filling(d) => d = c
BY DEF PortInv, Filling, Inside, Serving

LEMMA FilledNext ==
  ASSUME NEW Heads, NEW Fields, HoldContents(Heads, Fields),
         PortInv, ContentsInv(Heads, Fields), FilledInv(Heads, Fields), [Next]_vars
  PROVE  FilledInv(Heads, Fields)'
<1> USE DEF FilledInv, Goto, ServerGoto, WritingBack, host, buffer, device
<1>0. pc \in [Cores -> Locations] /\ message \in [Cores -> Messages \cup {NoMessage}]
  BY DEF PortInv
<1>1. ASSUME NEW c \in Cores, NEW m \in Messages, Call(c, m)
      PROVE  FilledInv(Heads, Fields)'
  BY <1>0, <1>1 DEF Call
<1>2. ASSUME NEW c \in Cores, Lock(c) \/ Wait(c) \/ Unlock(c)
      PROVE  FilledInv(Heads, Fields)'
  BY <1>0, <1>2 DEF Lock, Wait, Unlock
<1>3. ASSUME NEW c \in Cores, WriteHead(c)
      PROVE  FilledInv(Heads, Fields)'
  <2>1. flag = 0 /\ \A d \in Cores : Filling(d) => d = c
    BY <1>3, FillingAlone DEF WriteHead, Filling
  <2>2. IsHeadOf(message[c], head', Heads)
    BY <1>3 DEF WriteHead, IsHeadOf, ContentsInv
  <2>3. pc'[c] = "arguments" /\ \A d \in Cores \ {c} : pc'[d] \notin {"arguments", "raise"}
    BY <1>0, <1>3, <2>1 DEF WriteHead, Filling
  <2>4. ~overlapped' => ~WritingBack'
    BY <1>3 DEF WriteHead
  <2>5. message' = message /\ flag' = 0
    BY <1>3, <2>1 DEF WriteHead
  <2> HIDE DEF WritingBack
  <2> QED
    BY <2>2, <2>3, <2>4, <2>5
<1>4. ASSUME NEW c \in Cores, WriteArguments(c)
      PROVE  FilledInv(Heads, Fields)'
  <2>1. flag = 0 /\ \A d \in Cores : Filling(d) => d = c
    BY <1>4, FillingAlone DEF WriteArguments, Filling
  <2>2. IsArgumentsOf(message[c], stray', arguments', Fields)
    BY <1>4 DEF WriteArguments, IsArgumentsOf, ContentsInv
  <2>3. pc'[c] = "raise" /\ \A d \in Cores \ {c} : pc'[d] \notin {"arguments", "raise"}
    BY <1>0, <1>4, <2>1 DEF WriteArguments, Filling
  <2> QED
    BY <1>4, <2>1, <2>2, <2>3 DEF WriteArguments
<1>5. ASSUME NEW c \in Cores, Raise(c)
      PROVE  FilledInv(Heads, Fields)'
  BY <1>0, <1>5 DEF Raise
<1>6. CASE Check \/ ReadFlag \/ ReadRest \/ Process \/ PrintLine
  BY <1>6 DEF Check, ReadFlag, ReadRest, Process, PrintLine
<1>7. CASE PutFlag
  <2>1. \A d \in Cores : ~Filling(d)
    BY <1>7, FillingAlone DEF PutFlag, Serving
  <2> QED
    BY <1>7, <2>1 DEF PutFlag, Filling
<1>8. CASE PutHead \/ PutArguments
  BY <1>8 DEF PutHead, PutArguments
<1>9. CASE StopServer \/ UNCHANGED vars
  BY <1>9 DEF StopServer, vars
<1> QED
  BY <1>1, <1>2, <1>3, <1>4, <1>5, <1>6, <1>7, <1>8, <1>9 DEF Next, Step, ServerStep

LEMMA CopiedNext ==
  ASSUME NEW Heads, NEW Fields,
         PortInv, FilledInv(Heads, Fields), CopiedInv(Heads, Fields), [Next]_vars
  PROVE  CopiedInv(Heads, Fields)'
<1> USE DEF CopiedInv, Goto, ServerGoto, host, buffer, device
<1>1. ASSUME NEW c \in Cores, NEW m \in Messages, Call(c, m)
      PROVE  CopiedInv(Heads, Fields)'
  BY <1>1 DEF Call
<1>2. ASSUME NEW c \in Cores, Lock(c) \/ Wait(c) \/ Unlock(c)
      PROVE  CopiedInv(Heads, Fields)'
  BY <1>2 DEF Lock, Wait, Unlock
<1>3. ASSUME NEW c \in Cores, WriteHead(c) \/ WriteArguments(c) \/ Raise(c)
      PROVE  CopiedInv(Heads, Fields)'
  <2>1. server \notin {"process", "print"}
    BY <1>3, FillingAlone DEF WriteHead, WriteArguments, Raise, Filling, Serving
  <2> QED
    BY <1>3, <2>1 DEF WriteHead, WriteArguments, Raise
<1>4. CASE Check \/ ReadFlag \/ PrintLine \/ PutFlag \/ PutHead \/ PutArguments
  BY <1>4 DEF Check, ReadFlag, PrintLine, PutFlag, PutHead, PutArguments
<1>5. CASE ReadRest
  BY <1>5 DEF ReadRest, FilledInv, PortInv, Serving
<1>6. CASE Process
  BY <1>6 DEF Process
<1>7. CASE StopServer \/ UNCHANGED vars
  BY <1>7 DEF StopServer, vars
<1> QED
  BY <1>1, <1>2, <1>3, <1>4, <1>5, <1>6, <1>7 DEF Next, Step, ServerStep

\* Whatever cores print, whatever the buffer held before and whatever letter lies
\* behind argTypes, a message whose filling did not overlap a write back is printed
\* with its own bytes, but for the one byte that a string type behind argTypes
\* costs, if this is what the unpacking makes of a message that one core packs on
\* its own.
THEOREM PrintedAsPassed ==
  ASSUME NEW Heads, NEW Fields,
         HoldContents(Heads, Fields), FormatsAgree(Heads, Fields)
  PROVE  Spec => []PrintedWhole
<1>1. Init => PortInv /\ BufferInv(Heads, Fields)
  BY PortInvInit, BufferInit
<1>2. PortInv /\ BufferInv(Heads, Fields) /\ [Next]_vars => (PortInv /\ BufferInv(Heads, Fields))'
  BY PortInvNext, ContentsNext, FilledNext, CopiedNext DEF BufferInv
<1>3. BufferInv(Heads, Fields) => PrintedWhole
  BY DEF BufferInv, CopiedInv, PrintedWhole, FormatsAgree, IsHeadOf, IsArgumentsOf
<1> QED
  BY <1>1, <1>2, <1>3, PTL DEF Spec
=============================================================================
