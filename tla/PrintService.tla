---------------------------- MODULE PrintService ----------------------------
(***************************************************************************)
(* Printing from the chip: the cores in e_darts_print                       *)
(* (src/eDARTS/src/runtime/device/e_darts_print.c) and the host's thread    *)
(* (src/eDARTS/src/runtime/host/darts_print_server.c), with one buffer in   *)
(* shared memory between them.  A core waits for the flag to be 0 with the  *)
(* mutex taken, fills the buffer and raises the flag.  The server polls,    *)
(* prints, and clears the flag by writing back the whole buffer as it had   *)
(* read it: the flag goes first, as it lies first, so a core may already be *)
(* filling the buffer while the rest is written back.                       *)
(***************************************************************************)
EXTENDS PrintFormat

CONSTANTS Cores,     \* the cores that print
          NoMessage

ASSUME CoreAssumption == 0 \notin Cores

ASSUME NoMessageAssumption == NoMessage \notin Messages

VARIABLES flag, head, arguments,  \* sendPrintInstruction and the rest of __printBuffer
          mutex,       \* __printingMutex
          pc, message, \* where each core is, and what it prints
          stillRunning,
          server,      \* where the host's thread is
          copy,        \* its myBuffer
          processed,   \* its processedBuffer
          requested,   \* the message for which the flag is raised
          overlapped,  \* whether the buffer was filled in during a write back
          stray        \* the letter behind argTypes when it was filled in

device == <<pc, message, mutex, requested, overlapped, stray>>
host   == <<server, copy, processed>>
buffer == <<flag, head, arguments>>
vars   == <<flag, head, arguments, mutex, pc, message, stillRunning, server,
            copy, processed, requested, overlapped, stray>>

\* The server's locals, when nothing in them will be read again.
EmptyCopy == [head |-> [i \in 1..MaxChars |-> Nul], arguments |-> [p \in 1..ArgsSize |-> NulByte]]

\* start_printing_server, and the device's memory as the loader leaves it.
Init == /\ flag = 0
        /\ head = [i \in 1..MaxChars |-> Nul]
        /\ arguments = [p \in 1..ArgsSize |-> NulByte]
        /\ mutex = 0
        /\ pc = [c \in Cores |-> "idle"]
        /\ message = [c \in Cores |-> NoMessage]
        /\ stillRunning = TRUE
        /\ server = "check"
        /\ copy = EmptyCopy
        /\ processed = <<>>
        /\ requested = NoMessage
        /\ overlapped = FALSE
        /\ stray = Nul

Goto(c, from, to) == pc[c] = from /\ pc' = [pc EXCEPT ![c] = to]

-----------------------------------------------------------------------------
\* e_darts_print

Call(c, m) == /\ Goto(c, "idle", "lock")
              /\ message' = [message EXCEPT ![c] = m]
              /\ UNCHANGED <<mutex, requested, overlapped, stray, stillRunning, host, buffer>>

Lock(c) == /\ Goto(c, "lock", "wait")
           /\ mutex = 0
           /\ mutex' = c
           /\ UNCHANGED <<message, requested, overlapped, stray, stillRunning, host, buffer>>

\* Mutation: the wait for the host left out.
WaitSkipped(c) == /\ Goto(c, "wait", "head")
                  /\ UNCHANGED <<message, mutex, requested, overlapped, stray, stillRunning, host, buffer>>

Wait(c) == /\ Goto(c, "wait", "head")
           /\ flag = 0
           /\ UNCHANGED <<message, mutex, requested, overlapped, stray, stillRunning, host, buffer>>

\* Mutation: the flag is raised with the message, before the arguments.
WriteHeadRaised(c) == /\ Goto(c, "head", "arguments")
                      /\ head' = HeadWith(head, Text[message[c]])
                      /\ overlapped' = (server \in {"putHead", "putArguments"})
                      /\ flag' = 1
                      /\ requested' = message[c]
                      /\ UNCHANGED <<arguments, message, mutex, stray, stillRunning, host>>

WriteHead(c) == /\ Goto(c, "head", "arguments")
                /\ head' = HeadWith(head, Text[message[c]])
                /\ overlapped' = (server \in {"putHead", "putArguments"})
                /\ UNCHANGED <<flag, arguments, message, mutex, requested, stray, stillRunning, host>>

WriteArguments(c) == /\ Goto(c, "arguments", "raise")
                     /\ stray' \in StackLetters
                     /\ arguments' = ArgumentsWith(arguments, message[c], stray')
                     /\ UNCHANGED <<flag, head, message, mutex, requested, overlapped, stillRunning, host>>

Raise(c) == /\ Goto(c, "raise", "unlock")
            /\ flag' = 1
            /\ requested' = message[c]
            /\ UNCHANGED <<head, arguments, message, mutex, overlapped, stray, stillRunning, host>>

Unlock(c) == /\ Goto(c, "unlock", "idle")
             /\ mutex' = 0
             /\ message' = [message EXCEPT ![c] = NoMessage]
             /\ UNCHANGED <<requested, overlapped, stray, stillRunning, host, buffer>>

Step(c) == \/ Lock(c) \/ Wait(c) \/ WriteHead(c) \/ WriteArguments(c)
           \/ Raise(c) \/ Unlock(c)

-----------------------------------------------------------------------------
\* printing_server

ServerGoto(from, to) == server = from /\ server' = to

Check == /\ ServerGoto("check", IF stillRunning THEN "readFlag" ELSE "exited")
         /\ UNCHANGED <<copy, processed, stillRunning, buffer, device>>

\* e_read copies upwards: the flag, then the rest, which only matters when the
\* flag was 1.
ReadFlag == /\ ServerGoto("readFlag", IF flag = 1 THEN "readRest" ELSE "check")
            /\ UNCHANGED <<copy, processed, stillRunning, buffer, device>>

ReadRest == /\ ServerGoto("readRest", "process")
            /\ copy' = [head |-> head, arguments |-> arguments]
            /\ UNCHANGED <<processed, stillRunning, buffer, device>>

Process == /\ ServerGoto("process", "print")
           /\ \E extra \in {<<>>, <<JunkByte>>} :
                 processed' = Processed(copy.head, copy.arguments, extra)
           /\ UNCHANGED <<copy, stillRunning, buffer, device>>

PrintLine == /\ ServerGoto("print", "putFlag")
             /\ processed' = <<>>
             /\ UNCHANGED <<copy, stillRunning, buffer, device>>

\* Mutation: the copy is written back without clearing its flag.
PutFlagUncleared == /\ ServerGoto("putFlag", "putHead")
                    /\ UNCHANGED <<flag, head, arguments, copy, processed, stillRunning, device>>

\* e_write copies upwards as well: first the flag,
PutFlag == /\ ServerGoto("putFlag", "putHead")
           /\ flag' = 0
           /\ requested' = NoMessage
           /\ overlapped' = FALSE
           /\ stray' = Nul
           /\ UNCHANGED <<head, arguments, copy, processed, stillRunning, pc, message, mutex>>

\* then the head, emptied, and the arguments as they were read.
PutHead == /\ ServerGoto("putHead", "putArguments")
           /\ head' = [copy.head EXCEPT ![1] = Nul]
           /\ UNCHANGED <<flag, arguments, copy, processed, stillRunning, device>>

PutArguments == /\ ServerGoto("putArguments", "check")
                /\ arguments' = [copy.arguments EXCEPT ![1] = NulByte]
                /\ copy' = EmptyCopy
                /\ UNCHANGED <<flag, head, processed, stillRunning, device>>

ServerStep == \/ Check \/ ReadFlag \/ ReadRest \/ Process \/ PrintLine
              \/ PutFlag \/ PutHead \/ PutArguments

\* stop_printing_server, whenever the host's main thread gets there.
StopServer == /\ stillRunning
              /\ stillRunning' = FALSE
              /\ UNCHANGED <<host, buffer, device>>

-----------------------------------------------------------------------------

Next == \/ \E c \in Cores : (\E m \in Messages : Call(c, m)) \/ Step(c)
        \/ ServerStep
        \/ StopServer

Spec == Init /\ [][Next]_vars

\* The cores and the host's thread run; the calls and the stop need not come.
FairSpec == Spec /\ (\A c \in Cores : WF_vars(Step(c))) /\ WF_vars(ServerStep)

-----------------------------------------------------------------------------

Locations == {"idle", "lock", "wait", "head", "arguments", "raise", "unlock"}

ServerLocations == {"check", "readFlag", "readRest", "process", "print",
                    "putFlag", "putHead", "putArguments", "exited"}

\* Nothing is stored outside the fields: the terminator of the longest message
\* and the last byte of the widest arguments lie inside.
TypeOK == /\ flag \in {0, 1}
          /\ DOMAIN head = 1..MaxChars
          /\ DOMAIN arguments = 1..ArgsSize
          /\ mutex \in Cores \cup {0}
          /\ pc \in [Cores -> Locations]
          /\ message \in [Cores -> Messages \cup {NoMessage}]
          /\ stillRunning \in BOOLEAN
          /\ server \in ServerLocations
          /\ DOMAIN copy.head = 1..MaxChars
          /\ DOMAIN copy.arguments = 1..ArgsSize
          /\ requested \in Messages \cup {NoMessage}
          /\ overlapped \in BOOLEAN
          /\ stray \in StackLetters \cup {Nul}

\* Whoever prints at the same time, a message is put into the buffer only when
\* the one before has been printed, and is printed once (the flag of e_darts_print.h:
\* the device raises it, the host clears it).
Port == INSTANCE PrintPort WITH job <- requested, printed <- (server = "putFlag")
ImplementsPort == Port!Spec

\* Two cores that print at once do not mix their messages, and what the device
\* packs the host unpacks: a message that was not filled in during a write back
\* is printed with the very bytes its caller passed, whatever was in the buffer
\* before (junk characters of the host's own stack left aside).  The copying loop
\* begins one past the last of argTypes, which nobody set: an s that lies there
\* costs the first byte of the first argument, and no more; any other letter
\* costs nothing.
PrintedWhole ==
    server = "print" /\ ~overlapped /\ requested \in Printable =>
        Readable(processed) = Printed(requested, stray)

\* A core that waits for the host with the mutex taken gets its turn, for as long
\* as the server has not been stopped.
PrintReturns == \A c \in Cores : pc[c] = "wait" ~> (pc[c] = "idle" \/ ~stillRunning)

\* The header: "Send a message to this function and the message will be send to
\* the host by copying it to the printBuffer" (e_darts_print.h:49-50).
PrintedAsSent ==
    server = "print" /\ requested \in Printable =>
        Readable(processed) = Expected[requested]
=============================================================================
