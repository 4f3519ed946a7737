-------------------------- MODULE TpClosuresQueue --------------------------
(***************************************************************************)
(* The queue of tpClosures of src/eDARTS/src/assets/tpClosuresQueue.c: a    *)
(* stretch of memory that closures of different sizes share.  A closure is  *)
(* always in one piece: when it does not fit between the tail and the end,  *)
(* the bytes there become padding and it goes to the beginning.  Anybody    *)
(* pushes, under the mutex; the owner looks at the oldest closure without   *)
(* the mutex and removes it under the mutex.                                *)
(*                                                                          *)
(* Addresses are offsets from initAddress, in units of a word.  One action  *)
(* is what other cores can see happen at once: a body under the mutex, or   *)
(* one test or one load or store of a function that takes no mutex.  Such a *)
(* function may read head and tail in one action: it is the owner's, and    *)
(* only the owner moves the head.                                           *)
(***************************************************************************)
EXTENDS Integers, Sequences, FiniteSets

CONSTANTS Pushers,        \* cores that push
          Owners,         \* cores that own, peak and pop
          QueueSize,      \* queue->size
          Closures,       \* the closures that are pushed
          ClosureSize,    \* sizeof(genericTpClosure_t) + sizeOfArgs of each
          Garbage,        \* an uninitialised word
          InitialOwners   \* what queueOwner may hold before anybody owns it:
                          \* initTpClosuresQueue does not set it

Cores == Pushers \cup Owners

ASSUME SizeAssumption == /\ QueueSize \in Nat \ {0}
                         /\ ClosureSize \in [Closures -> Nat \ {0}]

ASSUME CoreAssumption == 0 \notin Cores

ASSUME GarbageAssumption == Garbage \notin Closures \X Nat

VARIABLES headAddress, tailAddress, padding, lockMutex, queueOwner,
          space,   \* the words of the queue
          pc,      \* where each core is
          op,      \* the function it is in
          arg,     \* the closure it pushes
          top,     \* its pointer to the oldest closure, while it may use it
          result   \* what its operation is about to return

ring == <<headAddress, tailAddress, padding, space>>
vars == <<headAddress, tailAddress, padding, lockMutex, queueOwner, space,
          pc, op, arg, top, result>>

Offsets == 0..(QueueSize - 1)
Addresses == 0..QueueSize       \* tailAddress may reach the end
NoPointer == -1

Words == (Closures \X Offsets) \cup {Garbage}

Operations == {"none", "push", "own", "disown", "peak", "pop", "popAndDisown", "test"}
Locations == {"idle", "owner", "lock", "body", "insert", "advance", "load",
              "unlock", "disown", "return"}
Results == {"NONE", "SUCCESS_OP", "NOT_ENOUGH_SPACE", "NOT_OWNER", "EMPTY_QUEUE",
            "is_empty", "is_not_empty"}

\* initTpClosuresQueue.
Init == /\ headAddress = 0
        /\ tailAddress = 0
        /\ padding = 0
        /\ lockMutex = 0
        /\ queueOwner \in InitialOwners
        /\ space = [i \in Offsets |-> Garbage]
        /\ pc = [c \in Cores |-> "idle"]
        /\ op = [c \in Cores |-> "none"]
        /\ arg = [c \in Cores |-> Garbage]
        /\ top = [c \in Cores |-> NoPointer]
        /\ result = [c \in Cores |-> "NONE"]

-----------------------------------------------------------------------------

QueueIsEmpty == headAddress = tailAddress

LeftOfHead == headAddress
RightOfTail == QueueSize - tailAddress

\* calculateMaxFreeSpaceQueue.
MaxFreeSpace ==
  IF tailAddress >= headAddress
    THEN IF RightOfTail >= LeftOfHead THEN RightOfTail ELSE LeftOfHead
    ELSE headAddress - tailAddress

\* Mutation: the tail may come to meet the head.
FitsExactly(d) == ClosureSize[d] <= MaxFreeSpace

Fits(d) == ClosureSize[d] < MaxFreeSpace

\* The memcpy of closure d to address a.
CopiedTo(a, d) ==
  [i \in Offsets |-> IF i \in a..(a + ClosureSize[d] - 1) THEN <<d, i - a>> ELSE space[i]]

\* The size that the first words of the oldest closure tell.
TopSize == ClosureSize[space[headAddress][1]]

Goto(c, from, to) == pc[c] = from /\ pc' = [pc EXCEPT ![c] = to]

Answer(c, r) == result' = [result EXCEPT ![c] = r]

-----------------------------------------------------------------------------
(* Calls.                                                                    *)

Call(c, o, first) ==
  /\ Goto(c, "idle", first)
  /\ op' = [op EXCEPT ![c] = o]
  /\ UNCHANGED <<ring, lockMutex, queueOwner, top, result>>

CallPush(c) ==
  /\ c \in Pushers
  /\ Call(c, "push", "lock")
  /\ \E d \in Closures : arg' = [arg EXCEPT ![c] = d]

CallOwn(c) ==
  /\ c \in Owners
  /\ Call(c, "own", "lock")
  /\ UNCHANGED arg

CallPeakOrDisown(c) ==
  /\ c \in Owners
  /\ \E o \in {"peak", "disown"} : Call(c, o, "owner")
  /\ UNCHANGED arg

\* Whether the core has looked at the closure or not.
CallPop(c) ==
  /\ c \in Owners
  /\ \E o \in {"pop", "popAndDisown"} : Call(c, o, "owner")
  /\ UNCHANGED arg

\* isTpClosureQueueEmpty, which only the owner asks.
CallIsEmpty(c) ==
  /\ c \in Owners
  /\ queueOwner = c
  /\ Call(c, "test", "body")
  /\ UNCHANGED arg

-----------------------------------------------------------------------------
(* The unlocked test of queueOwner that peak, disown and both pops begin     *)
(* with.                                                                     *)

NotOwner(c) ==
  /\ Goto(c, "owner", "return")
  /\ queueOwner # c
  /\ top' = IF op[c] = "peak" THEN [top EXCEPT ![c] = NoPointer] ELSE top
  /\ Answer(c, "NOT_OWNER")
  /\ UNCHANGED <<ring, lockMutex, queueOwner, op, arg>>

AfterOwner(o) == CASE o = "disown" -> "disown"
                   [] o = "peak" -> "body"
                   [] o \in {"pop", "popAndDisown"} -> "lock"

IsOwner(c) ==
  /\ Goto(c, "owner", AfterOwner(op[c]))
  /\ queueOwner = c
  /\ UNCHANGED <<ring, lockMutex, queueOwner, op, arg, top, result>>

\* darts_mutex_lock: spins until testset finds 0.
Lock(c) ==
  /\ Goto(c, "lock", "body")
  /\ lockMutex = 0
  /\ lockMutex' = c
  /\ UNCHANGED <<ring, queueOwner, op, arg, top, result>>

-----------------------------------------------------------------------------
(* ownTpClosureQueue, disownTpClosureQueue.                                  *)

\* Mutation: whoever has the mutex owns the queue.
OwnUntested(c) ==
  /\ op[c] = "own"
  /\ Goto(c, "body", "unlock")
  /\ queueOwner' = c
  /\ Answer(c, "SUCCESS_OP")
  /\ UNCHANGED <<ring, lockMutex, op, arg, top>>

Own(c) ==
  /\ op[c] = "own"
  /\ Goto(c, "body", "unlock")
  /\ queueOwner = 0
  /\ queueOwner' = c
  /\ Answer(c, "SUCCESS_OP")
  /\ UNCHANGED <<ring, lockMutex, op, arg, top>>

OwnRefused(c) ==
  /\ op[c] = "own"
  /\ Goto(c, "body", "unlock")
  /\ queueOwner # 0
  /\ Answer(c, "NOT_OWNER")
  /\ UNCHANGED <<ring, lockMutex, queueOwner, op, arg, top>>

\* The last store of disownTpClosureQueue and of popTopElementAndDisownQueue.
Disown(c) ==
  /\ Goto(c, "disown", "return")
  /\ queueOwner' = 0
  /\ top' = [top EXCEPT ![c] = NoPointer]
  /\ Answer(c, "SUCCESS_OP")
  /\ UNCHANGED <<ring, lockMutex, op, arg>>

-----------------------------------------------------------------------------
(* pushTpClosureQueue.                                                       *)

\* Mutation: the early return keeps the mutex.
PushRefusedKeepsLock(c) ==
  /\ op[c] = "push"
  /\ Goto(c, "body", "return")
  /\ ~Fits(arg[c])
  /\ Answer(c, "NOT_ENOUGH_SPACE")
  /\ UNCHANGED <<ring, lockMutex, queueOwner, op, arg, top>>

PushRefused(c) ==
  /\ op[c] = "push"
  /\ Goto(c, "body", "unlock")
  /\ ~Fits(arg[c])
  /\ Answer(c, "NOT_ENOUGH_SPACE")
  /\ UNCHANGED <<ring, lockMutex, queueOwner, op, arg, top>>

PushFits(c) ==
  /\ op[c] = "push"
  /\ Goto(c, "body", "insert")
  /\ Fits(arg[c])
  /\ UNCHANGED <<ring, lockMutex, queueOwner, op, arg, top, result>>

\* Mutation: one word too many goes after the tail.
GoesAtTailLoose(d) == tailAddress <= headAddress \/ RightOfTail + 1 >= ClosureSize[d]

\* Between the head and the tail, or after the tail.
GoesAtTail(d) == tailAddress <= headAddress \/ RightOfTail >= ClosureSize[d]

InsertAtTail(c) ==
  /\ Goto(c, "insert", "unlock")
  /\ GoesAtTail(arg[c])
  /\ space' = CopiedTo(tailAddress, arg[c])
  /\ tailAddress' = tailAddress + ClosureSize[arg[c]]
  /\ Answer(c, "SUCCESS_OP")
  /\ UNCHANGED <<headAddress, padding, lockMutex, queueOwner, op, arg, top>>

InsertAtInit(c) ==
  /\ Goto(c, "insert", "unlock")
  /\ ~GoesAtTail(arg[c])
  /\ padding' = RightOfTail
  /\ space' = CopiedTo(0, arg[c])
  /\ tailAddress' = ClosureSize[arg[c]]
  /\ Answer(c, "SUCCESS_OP")
  /\ UNCHANGED <<headAddress, lockMutex, queueOwner, op, arg, top>>

-----------------------------------------------------------------------------
(* peakTopElement and isTpClosureQueueEmpty.                                 *)

PeakEmpty(c) ==
  /\ op[c] = "peak"
  /\ Goto(c, "body", "return")
  /\ QueueIsEmpty
  /\ top' = [top EXCEPT ![c] = NoPointer]
  /\ Answer(c, "EMPTY_QUEUE")
  /\ UNCHANGED <<ring, lockMutex, queueOwner, op, arg>>

PeakFound(c) ==
  /\ op[c] = "peak"
  /\ Goto(c, "body", "load")
  /\ ~QueueIsEmpty
  /\ UNCHANGED <<ring, lockMutex, queueOwner, op, arg, top, result>>

PeakLoad(c) ==
  /\ Goto(c, "load", "return")
  /\ top' = [top EXCEPT ![c] = headAddress]
  /\ Answer(c, "SUCCESS_OP")
  /\ UNCHANGED <<ring, lockMutex, queueOwner, op, arg>>

IsEmpty(c) ==
  /\ op[c] = "test"
  /\ Goto(c, "body", "return")
  /\ Answer(c, IF QueueIsEmpty THEN "is_empty" ELSE "is_not_empty")
  /\ UNCHANGED <<ring, lockMutex, queueOwner, op, arg, top>>

-----------------------------------------------------------------------------
(* popTopElementQueue and popTopElementAndDisownQueue.                       *)

\* The early return keeps the mutex.
PopEmpty(c) ==
  /\ op[c] \in {"pop", "popAndDisown"}
  /\ Goto(c, "body", "return")
  /\ QueueIsEmpty
  /\ Answer(c, "EMPTY_QUEUE")
  /\ UNCHANGED <<ring, lockMutex, queueOwner, op, arg, top>>

PopFound(c) ==
  /\ op[c] \in {"pop", "popAndDisown"}
  /\ Goto(c, "body", "advance")
  /\ ~QueueIsEmpty
  /\ UNCHANGED <<ring, lockMutex, queueOwner, op, arg, top, result>>

PopAdvance(c) ==
  LET next == headAddress + TopSize
      atEnd == next + padding = QueueSize
      head == IF atEnd THEN 0 ELSE next
      empty == head = tailAddress
  IN /\ Goto(c, "advance", "unlock")
     /\ headAddress' = IF empty THEN 0 ELSE head
     /\ tailAddress' = IF empty THEN 0 ELSE tailAddress
     /\ padding' = IF atEnd \/ empty THEN 0 ELSE padding
     /\ top' = [top EXCEPT ![c] = NoPointer]
     /\ Answer(c, "SUCCESS_OP")
     /\ UNCHANGED <<lockMutex, queueOwner, space, op, arg>>

-----------------------------------------------------------------------------

Unlock(c) ==
  /\ Goto(c, "unlock", IF op[c] = "popAndDisown" THEN "disown" ELSE "return")
  /\ lockMutex' = 0
  /\ UNCHANGED <<ring, queueOwner, op, arg, top, result>>

Return(c) ==
  /\ Goto(c, "return", "idle")
  /\ op' = [op EXCEPT ![c] = "none"]
  /\ arg' = [arg EXCEPT ![c] = Garbage]
  /\ Answer(c, "NONE")
  /\ UNCHANGED <<ring, lockMutex, queueOwner, top>>

Calls(c) == \/ CallPush(c) \/ CallOwn(c) \/ CallPeakOrDisown(c)
            \/ CallPop(c) \/ CallIsEmpty(c)

Step(c) == \/ NotOwner(c) \/ IsOwner(c) \/ Lock(c)
           \/ Own(c) \/ OwnRefused(c) \/ Disown(c)
           \/ PushRefused(c) \/ PushFits(c) \/ InsertAtTail(c) \/ InsertAtInit(c)
           \/ PeakEmpty(c) \/ PeakFound(c) \/ PeakLoad(c) \/ IsEmpty(c)
           \/ PopEmpty(c) \/ PopFound(c) \/ PopAdvance(c)
           \/ Unlock(c) \/ Return(c)

Next == \E c \in Cores : Calls(c) \/ Step(c)

Spec == Init /\ [][Next]_vars

-----------------------------------------------------------------------------

\* Type invariant: the head stays inside the memory, the tail may reach its
\* end, and the padding lies between.
TypeOK == /\ headAddress \in Offsets
          /\ tailAddress \in Addresses
          /\ padding \in Addresses
          /\ lockMutex \in Cores \cup {0}
          /\ queueOwner \in Cores \cup InitialOwners \cup {0}
          /\ space \in [Offsets -> Words]
          /\ pc \in [Cores -> Locations]
          /\ op \in [Cores -> Operations]
          /\ arg \in [Cores -> Closures \cup {Garbage}]
          /\ top \in [Cores -> Offsets \cup {NoPointer}]
          /\ result \in [Cores -> Results]

\* The owner's part of a function, after the unlocked test of queueOwner.
PastOwnerTest(c) ==
  \/ pc[c] \in {"load", "advance", "disown"}
  \/ pc[c] \in {"lock", "body"} /\ op[c] \in {"peak", "pop", "popAndDisown"}
  \/ pc[c] = "unlock" /\ op[c] \in {"pop", "popAndDisown"}

\* A core that has passed the test of queueOwner, or that holds a pointer to
\* the oldest closure, is still the owner when it acts on it, although the
\* test takes no mutex and every other core may be in any function.
CheckedOwnerStays ==
  \A c \in Cores : PastOwnerTest(c) \/ top[c] # NoPointer => queueOwner = c

\* The part of a function between its lock and its unlock.
HasLock(c) ==
  \/ pc[c] \in {"insert", "advance", "unlock"}
  \/ pc[c] = "body" /\ op[c] \in {"push", "own", "pop", "popAndDisown"}

\* Push, own and both pops leave the part under the mutex with the mutex free
\* for the others, on every path but one: the pop of an empty queue returns
\* with it, and nobody gets it any more.
MutexGivenBack ==
  [][\A c \in Cores : HasLock(c) /\ ~HasLock(c)' =>
        \/ lockMutex' = 0
        \/ op[c] \in {"pop", "popAndDisown"} /\ Answer(c, "EMPTY_QUEUE")]_vars

-----------------------------------------------------------------------------
(* The queue implements ClosureFifo.  The closures in it are those that begin *)
(* between the head and the tail, over the padding, in the order in which the *)
(* head will come to them.                                                    *)

Live == IF headAddress <= tailAddress THEN headAddress..(tailAddress - 1)
        ELSE headAddress..(QueueSize - padding - 1) \cup 0..(tailAddress - 1)

Starts == {a \in Live : space[a] # Garbage /\ space[a][2] = 0}

\* How far the head goes to come to address a.
Reach(a) == IF a < headAddress THEN QueueSize + a ELSE a

Earlier(starts, a) == {b \in starts : Reach(b) < Reach(a)}

Nth(starts, n) == CHOOSE a \in {a \in starts : Cardinality(Earlier(starts, a)) = n - 1} : TRUE

\* The closure that lies whole at address a.
LiesAt(d, a) == /\ a + ClosureSize[d] <= QueueSize
                /\ \A k \in 0..(ClosureSize[d] - 1) : space[a + k] = <<d, k>>

WholeAt(a) == IF space[a] # Garbage /\ LiesAt(space[a][1], a) THEN space[a][1] ELSE Garbage

Contents == LET starts == Starts
            IN [n \in 1..Cardinality(starts) |-> WholeAt(Nth(starts, n))]

Stage(c) ==
  CASE pc[c] = "idle" -> "idle"
    [] pc[c] \in {"owner", "lock", "body", "insert", "advance", "load"} -> op[c]
    [] pc[c] = "return" -> "done"
    [] pc[c] = "disown" -> IF op[c] = "disown" THEN "disown" ELSE "release"
    [] pc[c] = "unlock" -> IF op[c] = "popAndDisown" THEN "release" ELSE "done"

Fifo == INSTANCE ClosureFifo
          WITH Pushable <- {d \in Closures : ClosureSize[d] < QueueSize},
               NoClosure <- Garbage,
               NoOwner <- 0,
               fifo <- Contents,
               owner <- queueOwner,
               stage <- [c \in Cores |-> Stage(c)],
               item <- arg,
               held <- [c \in Cores |-> IF top[c] = NoPointer THEN Garbage
                                        ELSE WholeAt(top[c])],
               answer <- result

\* Refinement: closures come out whole and in the order they went in, an
\* empty queue refuses none that can fit, every answer is true at one instant
\* of the call, and the closure the owner looks at is neither removed nor
\* overwritten while it may look at it.
ImplementsClosureFifo == Fifo!Spec

\* Nothing is in the queue, yet it does not look empty: the head has come to
\* the end of the memory and gone back to its beginning, and the tail has not.
Stranded == headAddress = 0 /\ tailAddress = QueueSize

\* Refinement, whatever the sizes: every step of every core is one that
\* ImplementsClosureFifo allows, but for the pop of a last closure that ends
\* exactly where the memory ends.
FifoUnlessStranded ==
  /\ Fifo!Init
  /\ [][Fifo!Next \/ \E c \in Cores : PopAdvance(c) /\ Stranded']_(Fifo!vars)

\* popTopElementQueue and popTopElementAndDisownQueue take the oldest closure
\* out of the queue and nothing else ("it is just removed from the queue").
PopRemoves == [][\A c \in Cores : PopAdvance(c) => Contents' = Tail(Contents)]_vars
=============================================================================
