--------------------------- MODULE CodeletsQueue ---------------------------
(***************************************************************************)
(* The ring of codelets of src/eDARTS/src/assets/codeletsQueue.c, shared by *)
(* the cores of an Epiphany chip.  Each core runs pushCodeletQueue,         *)
(* popCodeletQueue or queueEmpty; one action is what the other cores can    *)
(* see happen at once:                                                      *)
(*   - push and pop: taking the mutex, testing for room or for a codelet,   *)
(*     moving the codelet and the address (all under the mutex, and no      *)
(*     unlocked reader looks at the bytes), and releasing the mutex;        *)
(*   - queueEmpty takes no mutex: one action per load.                      *)
(*                                                                          *)
(* Addresses are offsets from initAddress, the first byte after the         *)
(* codeletsQueue_t.  The check of the queue's own address                   *)
(* (IS_ADDRESS_VALID) is about the caller's pointer and passes here.        *)
(***************************************************************************)
EXTENDS Naturals, Sequences

CONSTANTS Producers,    \* cores that push
          Consumers,    \* cores that pop
          Testers,      \* cores that ask queueEmpty
          QueueSize,    \* queue->size, in bytes
          CodeletSize,  \* sizeof(codelet_t)
          Codelets,     \* the codelets that are pushed
          Garbage       \* an uninitialised byte

Cores == Producers \cup Consumers \cup Testers

\* A codelet fits in the ring; coreids are never DARTS_MUTEX_NULL, that is 0.
ASSUME SizeAssumption == /\ QueueSize \in Nat
                         /\ CodeletSize \in 1..QueueSize

ASSUME CoreAssumption == 0 \notin Cores

ASSUME GarbageAssumption == Garbage \notin Codelets \X Nat

VARIABLES headAddress, tailAddress, lockMutex,  \* of the codeletsQueue_t
          space,   \* the bytes of the ring
          pc,      \* where each core is
          buffer,  \* the codelet_t whose address each core passes
          result,  \* what its last operation returned
          loads    \* what queueEmpty has loaded so far

queue == <<headAddress, tailAddress, lockMutex, space>>
vars == <<headAddress, tailAddress, lockMutex, space, pc, buffer, result, loads>>

Offsets == 0..(QueueSize - 1)
BufferIndex == 0..(CodeletSize - 1)
Bytes == (Codelets \X BufferIndex) \cup {Garbage}

BytesOf(d) == [k \in BufferIndex |-> <<d, k>>]
Uninitialised == [k \in BufferIndex |-> Garbage]

\* queueEmpty loads head and tail twice each, in an order C leaves open
\* within each pair.  QueueSize stands for "not loaded yet".
Loads == [head1 : 0..QueueSize, tail1 : 0..QueueSize,
          head2 : 0..QueueSize, tail2 : 0..QueueSize]
NoLoads == [head1 |-> QueueSize, tail1 |-> QueueSize,
            head2 |-> QueueSize, tail2 |-> QueueSize]

Locations == {"idle", "push_lock", "push_check", "push_insert",
              "pop_lock", "pop_check", "pop_take", "unlock", "queueEmpty"}

Results == {"NONE", "SUCCESS_OP", "NOT_ENOUGH_SPACE", "EMPTY_QUEUE",
            "is_empty", "is_not_empty"}

\* initCodeletsQueue.
Init == /\ headAddress = 0
        /\ tailAddress = 0
        /\ lockMutex = 0
        /\ space = [i \in Offsets |-> Garbage]
        /\ pc = [c \in Cores |-> "idle"]
        /\ buffer = [c \in Cores |-> Uninitialised]
        /\ result = [c \in Cores |-> "NONE"]
        /\ loads = [c \in Cores |-> NoLoads]

-----------------------------------------------------------------------------

\* GET_QUEUE_AVAILABLE_SPACE, from a head and a tail.
SpaceBetween(head, tail) == IF head <= tail THEN QueueSize - (tail - head)
                                            ELSE (head - tail) - 1

AvailableSpace == SpaceBetween(headAddress, tailAddress)

QueueIsFull == AvailableSpace < CodeletSize

QueueIsEmpty == AvailableSpace = QueueSize

\* Mutation: the codelet may end at endAddress and still be a normal one.
EndsInsideOrAtEnd(a) == a + CodeletSize <= QueueSize

\* The codelet at address a ends before the end of the ring.
EndsInside(a) == a + CodeletSize < QueueSize

\* The byte loops go back to the first byte when they reach endAddress.
Wrap(a) == IF a >= QueueSize THEN a - QueueSize ELSE a

\* Mutation: the byte loop does not go back to the first byte.
StoredWithoutWrap(a, b) ==
  [i \in Offsets |-> IF i >= a /\ i < a + CodeletSize THEN b[i - a] ELSE space[i]]

\* The ring with codelet b stored byte by byte from address a.
StoredAt(a, b) ==
  [i \in Offsets |->
     IF \E k \in BufferIndex : Wrap(a + k) = i
       THEN b[CHOOSE k \in BufferIndex : Wrap(a + k) = i]
       ELSE space[i]]

\* The codelet read byte by byte from address a.
ReadAt(a) == [k \in BufferIndex |-> space[Wrap(a + k)]]

Goto(c, from, to) == pc[c] = from /\ pc' = [pc EXCEPT ![c] = to]

Answer(c, r) == result' = [result EXCEPT ![c] = r]

\* Mutation: darts_mutex_lock returns -1, its result is not looked at.
LockIgnored(c) == c \in Cores /\ UNCHANGED lockMutex

\* darts_mutex_lock: testset stores the coreid when the mutex holds 0, and
\* the core spins until then.
Lock(c) == lockMutex = 0 /\ lockMutex' = c

-----------------------------------------------------------------------------

CallPush(c) ==
  /\ c \in Producers
  /\ Goto(c, "idle", "push_lock")
  /\ \E d \in Codelets : buffer' = [buffer EXCEPT ![c] = BytesOf(d)]
  /\ Answer(c, "NONE")
  /\ UNCHANGED <<queue, loads>>

LockToPush(c) ==
  /\ Goto(c, "push_lock", "push_check")
  /\ Lock(c)
  /\ UNCHANGED <<headAddress, tailAddress, space, buffer, result, loads>>

\* Mutation: the early return forgets to unlock.
PushFullKeepsLock(c) ==
  /\ Goto(c, "push_check", "idle")
  /\ QueueIsFull
  /\ Answer(c, "NOT_ENOUGH_SPACE")
  /\ UNCHANGED <<queue, buffer, loads>>

PushFull(c) ==
  /\ Goto(c, "push_check", "unlock")
  /\ QueueIsFull
  /\ Answer(c, "NOT_ENOUGH_SPACE")
  /\ UNCHANGED <<queue, buffer, loads>>

PushRoom(c) ==
  /\ Goto(c, "push_check", "push_insert")
  /\ ~QueueIsFull
  /\ UNCHANGED <<queue, buffer, result, loads>>

PushNormal(c) ==
  /\ Goto(c, "push_insert", "unlock")
  /\ EndsInside(tailAddress)
  /\ space' = StoredAt(tailAddress, buffer[c])
  /\ tailAddress' = tailAddress + CodeletSize
  /\ Answer(c, "SUCCESS_OP")
  /\ UNCHANGED <<headAddress, lockMutex, buffer, loads>>

PushSplit(c) ==
  /\ Goto(c, "push_insert", "unlock")
  /\ ~EndsInside(tailAddress)
  /\ space' = StoredAt(tailAddress, buffer[c])
  /\ tailAddress' = Wrap(tailAddress + CodeletSize)
  /\ Answer(c, "SUCCESS_OP")
  /\ UNCHANGED <<headAddress, lockMutex, buffer, loads>>

CallPop(c) ==
  /\ c \in Consumers
  /\ Goto(c, "idle", "pop_lock")
  /\ buffer' = [buffer EXCEPT ![c] = Uninitialised]
  /\ Answer(c, "NONE")
  /\ UNCHANGED <<queue, loads>>

LockToPop(c) ==
  /\ Goto(c, "pop_lock", "pop_check")
  /\ Lock(c)
  /\ UNCHANGED <<headAddress, tailAddress, space, buffer, result, loads>>

\* The caller's buffer stays as it was: popedCodelet = 0 clears the
\* parameter, not the codelet.
PopEmpty(c) ==
  /\ Goto(c, "pop_check", "unlock")
  /\ QueueIsEmpty
  /\ Answer(c, "EMPTY_QUEUE")
  /\ UNCHANGED <<queue, buffer, loads>>

PopFound(c) ==
  /\ Goto(c, "pop_check", "pop_take")
  /\ ~QueueIsEmpty
  /\ UNCHANGED <<queue, buffer, result, loads>>

PopNormal(c) ==
  /\ Goto(c, "pop_take", "unlock")
  /\ EndsInside(headAddress)
  /\ buffer' = [buffer EXCEPT ![c] = ReadAt(headAddress)]
  /\ headAddress' = headAddress + CodeletSize
  /\ Answer(c, "SUCCESS_OP")
  /\ UNCHANGED <<tailAddress, lockMutex, space, loads>>

PopSplit(c) ==
  /\ Goto(c, "pop_take", "unlock")
  /\ ~EndsInside(headAddress)
  /\ buffer' = [buffer EXCEPT ![c] = ReadAt(headAddress)]
  /\ headAddress' = Wrap(headAddress + CodeletSize)
  /\ Answer(c, "SUCCESS_OP")
  /\ UNCHANGED <<tailAddress, lockMutex, space, loads>>

\* darts_mutex_unlock, and the operation returns.
Unlock(c) ==
  /\ Goto(c, "unlock", "idle")
  /\ lockMutex' = 0
  /\ UNCHANGED <<headAddress, tailAddress, space, buffer, result, loads>>

CallQueueEmpty(c) ==
  /\ c \in Testers
  /\ Goto(c, "idle", "queueEmpty")
  /\ loads' = [loads EXCEPT ![c] = NoLoads]
  /\ Answer(c, "NONE")
  /\ UNCHANGED <<queue, buffer>>

\* Load one of the operands of the macro: those of the comparison first.
Load(c, reg, value) ==
  /\ pc[c] = "queueEmpty"
  /\ loads[c][reg] = QueueSize
  /\ loads' = [loads EXCEPT ![c][reg] = value]
  /\ UNCHANGED <<queue, pc, buffer, result>>

Compared(c) == loads[c].head1 # QueueSize /\ loads[c].tail1 # QueueSize
Subtracted(c) == loads[c].head2 # QueueSize /\ loads[c].tail2 # QueueSize

LoadOperand(c) ==
  \/ Load(c, "head1", headAddress)
  \/ Load(c, "tail1", tailAddress)
  \/ Compared(c) /\ Load(c, "head2", headAddress)
  \/ Compared(c) /\ Load(c, "tail2", tailAddress)

\* queue->size never changes: comparing with it needs no step of its own.
\* A negative difference is a huge unsigned one: equal to no size either way.
ReturnQueueEmpty(c) ==
  LET l == loads[c]
      empty == /\ l.head1 <= l.tail1
               /\ l.tail2 = l.head2
  IN /\ Goto(c, "queueEmpty", "idle")
     /\ Compared(c) /\ Subtracted(c)
     /\ Answer(c, IF empty THEN "is_empty" ELSE "is_not_empty")
     /\ loads' = [loads EXCEPT ![c] = NoLoads]
     /\ UNCHANGED <<queue, buffer>>

-----------------------------------------------------------------------------

Push(c) == \/ LockToPush(c) \/ PushFull(c) \/ PushRoom(c)
           \/ PushNormal(c) \/ PushSplit(c)

Pop(c) == \/ LockToPop(c) \/ PopEmpty(c) \/ PopFound(c)
          \/ PopNormal(c) \/ PopSplit(c)

Step(c) == Push(c) \/ Pop(c) \/ Unlock(c) \/ LoadOperand(c) \/ ReturnQueueEmpty(c)

Call(c) == CallPush(c) \/ CallPop(c) \/ CallQueueEmpty(c)

Next == \E c \in Cores : Call(c) \/ Step(c)

Spec == Init /\ [][Next]_vars

\* A core inside an operation keeps executing; whether it ever calls one is
\* its program's business.
FairSpec == Spec /\ \A c \in Cores : WF_vars(Step(c))
-----------------------------------------------------------------------------

\* Type invariant: the addresses stay inside the ring, and a pc, a buffer, a
\* result and the loads are what the code can hold.
TypeOK == /\ headAddress \in Offsets
          /\ tailAddress \in Offsets
          /\ lockMutex \in Cores \cup {0}
          /\ space \in [Offsets -> Bytes]
          /\ pc \in [Cores -> Locations]
          /\ buffer \in [Cores -> [BufferIndex -> Bytes]]
          /\ result \in [Cores -> Results]
          /\ loads \in [Cores -> Loads]

\* The bytes in use, as the addresses tell them.
Used == IF headAddress <= tailAddress
          THEN tailAddress - headAddress
          ELSE QueueSize - (headAddress - tailAddress)

\* No number of codelets fills the ring to the last byte: what initCodeletsQueue's
\* caller must see to, since tailAddress would then come to equal headAddress.
NoExactFit == \A n \in Nat : n * CodeletSize # QueueSize

\* Core c's push, or pop, moves its codelet in this step.
Pushes(c) == pc[c] = "push_insert" /\ pc'[c] = "unlock"
Pops(c) == pc[c] = "pop_take" /\ pc'[c] = "unlock"

\* Action property: an accepted codelet is in the queue from then on.  A push
\* that answers SUCCESS_OP leaves CodeletSize more bytes in use, a pop that
\* does leaves CodeletSize less: no push brings tailAddress round to
\* headAddress, which would make a full queue look empty to everybody.
CodeletInserted ==
  [][\A c \in Cores : /\ Pushes(c) => Used' = Used + CodeletSize
                      /\ Pops(c) => Used = Used' + CodeletSize]_vars

\* The mutex is always released in the end: no answer leaves it taken, so no
\* core spins in darts_mutex_lock for ever with nobody inside.
LockReleased == \A c \in Cores : lockMutex = c ~> lockMutex # c

-----------------------------------------------------------------------------
(* The queue implements CodeletFifo.  The body of a push or a pop is where   *)
(* it takes effect; queueEmpty takes effect when it loads tail for the       *)
(* second time (the asker is the only core that moves head).                 *)

Whole(b) == IF \E d \in Codelets : b = BytesOf(d)
              THEN CHOOSE d \in Codelets : b = BytesOf(d)
              ELSE Garbage

Contents ==
  [n \in 1..(Used \div CodeletSize) |->
     Whole(ReadAt(Wrap(headAddress + (n - 1) * CodeletSize)))]

TailLoaded(c) == loads[c].tail2 # QueueSize

Stage(c) ==
  CASE pc[c] = "idle" -> "idle"
    [] pc[c] \in {"push_lock", "push_check", "push_insert"} -> "push"
    [] pc[c] \in {"pop_lock", "pop_check", "pop_take"} -> "pop"
    [] pc[c] = "unlock" -> "done"
    [] pc[c] = "queueEmpty" -> IF TailLoaded(c) THEN "done" ELSE "test"

AnswerOf(c) ==
  IF pc[c] = "queueEmpty" /\ TailLoaded(c)
    THEN IF loads[c].head1 <= loads[c].tail1 /\ loads[c].tail2 = headAddress
           THEN "is_empty" ELSE "is_not_empty"
    ELSE result[c]

Fifo == INSTANCE CodeletFifo
          WITH Capacity <- QueueSize \div CodeletSize,
               NoCodelet <- Garbage,
               fifo <- Contents,
               stage <- [c \in Cores |-> Stage(c)],
               item <- [c \in Cores |-> Whole(buffer[c])],
               answer <- [c \in Cores |-> AnswerOf(c)]

\* Refinement: however the cores interleave, every push, pop and queueEmpty
\* answers what a bounded first-in first-out queue would have answered at one
\* instant of the call, and hands out whole codelets in the order they came.
ImplementsFifo == Fifo!Spec
=============================================================================
