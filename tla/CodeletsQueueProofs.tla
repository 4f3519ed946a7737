------------------------ MODULE CodeletsQueueProofs ------------------------
(***************************************************************************)
(* What holds of the codelets queue for every number of cores, every ring   *)
(* size and every codelet size: the addresses stay in the ring, the mutex   *)
(* excludes, no codelet is lost, and the queue implements CodeletFifo.      *)
(***************************************************************************)
EXTENDS CodeletsQueue, TLAPS

-----------------------------------------------------------------------------
(* The geometry of the ring.                                                 *)

\* An address that a codelet at a runs to is brought back inside the ring by
\* one turn: the byte loops never store past endAddress.
LEMMA WrapInside == ASSUME NEW a \in Offsets, NEW k \in 0..CodeletSize
                    PROVE  Wrap(a + k) \in Offsets
BY SizeAssumption DEF Wrap, Offsets

\* Reading a codelet's bytes from the ring yields a codelet's worth of bytes.
LEMMA ReadAtType == ASSUME TypeOK, NEW a \in Offsets
                    PROVE  ReadAt(a) \in [BufferIndex -> Bytes]
<1>1. ASSUME NEW k \in BufferIndex PROVE Wrap(a + k) \in Offsets
  BY <1>1, WrapInside, SizeAssumption DEF BufferIndex
<1>. QED
  BY <1>1 DEF ReadAt, TypeOK

\* Storing a codelet's bytes in the ring leaves bytes in every place of it.
LEMMA StoredAtType == ASSUME TypeOK, NEW a \in Offsets,
                             NEW b \in [BufferIndex -> Bytes]
                      PROVE  StoredAt(a, b) \in [Offsets -> Bytes]
<1>1. ASSUME NEW i \in Offsets
      PROVE  (IF \E k \in BufferIndex : Wrap(a + k) = i
                THEN b[CHOOSE k \in BufferIndex : Wrap(a + k) = i]
                ELSE space[i]) \in Bytes
  BY <1>1 DEF TypeOK
<1>. QED
  BY <1>1 DEF StoredAt

-----------------------------------------------------------------------------
(* Type correctness.                                                         *)

LEMMA TypeInit == Init => TypeOK
BY SizeAssumption
   DEF Init, TypeOK, Offsets, Bytes, BufferIndex, Locations, Results, Loads,
       NoLoads, Uninitialised

LEMMA TypeStep == TypeOK /\ [Next]_vars => TypeOK'
<1>. SUFFICES ASSUME TypeOK, [Next]_vars PROVE TypeOK'
  OBVIOUS
<1>1. CASE UNCHANGED vars
  BY <1>1 DEF TypeOK, vars
<1>2. ASSUME NEW c \in Cores, CallPush(c) PROVE TypeOK'
  <2>1. PICK d \in Codelets : buffer' = [buffer EXCEPT ![c] = BytesOf(d)]
    BY <1>2 DEF CallPush
  <2>2. BytesOf(d) \in [BufferIndex -> Bytes]
    BY DEF BytesOf, Bytes
  <2>. QED
    BY <1>2, <2>1, <2>2
       DEF TypeOK, CallPush, Goto, Answer, queue, Locations, Results
<1>3. ASSUME NEW c \in Cores, CallPop(c) PROVE TypeOK'
  <2>1. Uninitialised \in [BufferIndex -> Bytes]
    BY DEF Uninitialised, Bytes
  <2>. QED
    BY <1>3, <2>1 DEF TypeOK, CallPop, Goto, Answer, queue, Locations, Results
<1>4. ASSUME NEW c \in Cores, CallQueueEmpty(c) PROVE TypeOK'
  <2>1. NoLoads \in Loads
    BY SizeAssumption DEF NoLoads, Loads
  <2>. QED
    BY <1>4, <2>1
       DEF TypeOK, CallQueueEmpty, Goto, Answer, queue, Locations, Results
<1>5. ASSUME NEW c \in Cores, LockToPush(c) \/ LockToPop(c) PROVE TypeOK'
  BY <1>5 DEF TypeOK, LockToPush, LockToPop, Goto, Lock, Locations
<1>6. ASSUME NEW c \in Cores, PushFull(c) \/ PushRoom(c) \/ PopEmpty(c) \/ PopFound(c)
      PROVE  TypeOK'
  BY <1>6 DEF TypeOK, PushFull, PushRoom, PopEmpty, PopFound, Goto, Answer,
              queue, Locations, Results
<1>7. ASSUME NEW c \in Cores, PushNormal(c) PROVE TypeOK'
  <2>1. space' \in [Offsets -> Bytes]
    BY <1>7, StoredAtType DEF PushNormal, TypeOK
  <2>2. tailAddress' \in Offsets
    BY <1>7, SizeAssumption DEF PushNormal, EndsInside, TypeOK, Offsets
  <2>. QED
    BY <1>7, <2>1, <2>2 DEF TypeOK, PushNormal, Goto, Answer, Locations, Results
<1>8. ASSUME NEW c \in Cores, PushSplit(c) PROVE TypeOK'
  <2>1. space' \in [Offsets -> Bytes]
    BY <1>8, StoredAtType DEF PushSplit, TypeOK
  <2>2. tailAddress' \in Offsets
    BY <1>8, WrapInside, SizeAssumption DEF PushSplit, TypeOK
  <2>. QED
    BY <1>8, <2>1, <2>2 DEF TypeOK, PushSplit, Goto, Answer, Locations, Results
<1>9. ASSUME NEW c \in Cores, PopNormal(c) PROVE TypeOK'
  <2>1. ReadAt(headAddress) \in [BufferIndex -> Bytes]
    BY ReadAtType DEF TypeOK
  <2>2. headAddress' \in Offsets
    BY <1>9, SizeAssumption DEF PopNormal, EndsInside, TypeOK, Offsets
  <2>. QED
    BY <1>9, <2>1, <2>2 DEF TypeOK, PopNormal, Goto, Answer, Locations, Results
<1>10. ASSUME NEW c \in Cores, PopSplit(c) PROVE TypeOK'
  <2>1. ReadAt(headAddress) \in [BufferIndex -> Bytes]
    BY ReadAtType DEF TypeOK
  <2>2. headAddress' \in Offsets
    BY <1>10, WrapInside, SizeAssumption DEF PopSplit, TypeOK
  <2>. QED
    BY <1>10, <2>1, <2>2 DEF TypeOK, PopSplit, Goto, Answer, Locations, Results
<1>11. ASSUME NEW c \in Cores, Unlock(c) PROVE TypeOK'
  BY <1>11 DEF TypeOK, Unlock, Goto, Locations
<1>12. ASSUME NEW c \in Cores, LoadOperand(c) PROVE TypeOK'
  <2>1. headAddress \in 0..QueueSize /\ tailAddress \in 0..QueueSize
    BY SizeAssumption DEF TypeOK, Offsets
  <2>2. PICK reg \in {"head1", "tail1", "head2", "tail2"}, v \in 0..QueueSize :
          Load(c, reg, v)
    BY <1>12, <2>1 DEF LoadOperand
  <2>3. [loads[c] EXCEPT ![reg] = v] \in Loads
    BY DEF TypeOK, Loads
  <2>4. loads' = [loads EXCEPT ![c] = [loads[c] EXCEPT ![reg] = v]]
    BY <2>2 DEF Load
  <2>5. loads' \in [Cores -> Loads]
    BY <2>3, <2>4 DEF TypeOK
  <2>. QED
    BY <2>2, <2>5 DEF TypeOK, Load, queue
<1>13. ASSUME NEW c \in Cores, ReturnQueueEmpty(c) PROVE TypeOK'
  <2>1. NoLoads \in Loads
    BY SizeAssumption DEF NoLoads, Loads
  <2>. QED
    BY <1>13, <2>1
       DEF TypeOK, ReturnQueueEmpty, Goto, Answer, queue, Locations, Results
<1>. QED
  BY <1>1, <1>2, <1>3, <1>4, <1>5, <1>6, <1>7, <1>8, <1>9, <1>10, <1>11, <1>12,
     <1>13 DEF Next, Call, Step, Push, Pop

\* headAddress and tailAddress never leave the ring and every byte a core
\* moves is a byte of the ring or of its buffer, whatever the sizes: the
\* tests of the normal and of the split branches leave no address out.
THEOREM TypeCorrect == Spec => []TypeOK
<1>. QED
  BY TypeInit, TypeStep, PTL DEF Spec

-----------------------------------------------------------------------------
(* Mutual exclusion: the core inside a push or a pop is the one whose coreid *)
(* the mutex holds.                                                          *)

Critical == {"push_check", "push_insert", "pop_check", "pop_take", "unlock"}

MutexInv == \A c \in Cores : pc[c] \in Critical <=> lockMutex = c

LEMMA MutexInit == Init => MutexInv
BY CoreAssumption DEF Init, MutexInv, Critical

LEMMA MutexStep == TypeOK /\ MutexInv /\ [Next]_vars => MutexInv'
<1>. SUFFICES ASSUME TypeOK, MutexInv, [Next]_vars PROVE MutexInv'
  OBVIOUS
<1>. USE CoreAssumption DEF TypeOK, MutexInv, Critical, Goto
<1>1. CASE UNCHANGED vars
  BY <1>1 DEF vars
<1>2. ASSUME NEW c \in Cores, Call(c) PROVE MutexInv'
  BY <1>2 DEF Call, CallPush, CallPop, CallQueueEmpty, queue
<1>3. ASSUME NEW c \in Cores, LockToPush(c) \/ LockToPop(c) PROVE MutexInv'
  BY <1>3 DEF LockToPush, LockToPop, Lock
<1>4. ASSUME NEW c \in Cores, PushFull(c) \/ PushRoom(c) \/ PopEmpty(c) \/ PopFound(c)
      PROVE  MutexInv'
  BY <1>4 DEF PushFull, PushRoom, PopEmpty, PopFound, queue
<1>5. ASSUME NEW c \in Cores, PushNormal(c) \/ PushSplit(c) \/ PopNormal(c) \/ PopSplit(c)
      PROVE  MutexInv'
  BY <1>5 DEF PushNormal, PushSplit, PopNormal, PopSplit
<1>6. ASSUME NEW c \in Cores, Unlock(c) PROVE MutexInv'
  BY <1>6 DEF Unlock
<1>7. ASSUME NEW c \in Cores, LoadOperand(c) \/ ReturnQueueEmpty(c) PROVE MutexInv'
  BY <1>7 DEF LoadOperand, Load, ReturnQueueEmpty, queue
<1>. QED
  BY <1>1, <1>2, <1>3, <1>4, <1>5, <1>6, <1>7 DEF Next, Step, Push, Pop

\* No two cores are between darts_mutex_lock and darts_mutex_unlock at once.
THEOREM MutualExclusion ==
  Spec => [](\A c, d \in Cores : pc[c] \in Critical /\ pc[d] \in Critical => c = d)
<1>1. Spec => [](TypeOK /\ MutexInv)
  BY TypeInit, TypeStep, MutexInit, MutexStep, PTL DEF Spec
<1>2. TypeOK /\ MutexInv
        => \A c, d \in Cores : pc[c] \in Critical /\ pc[d] \in Critical => c = d
  BY DEF MutexInv
<1>. QED
  BY <1>1, <1>2, PTL

-----------------------------------------------------------------------------
(* Accounting.  The bytes in use are a whole number of codelets, and what a  *)
(* core found under the mutex - room, or a codelet - is still there when it  *)
(* uses it.  Then Used cannot jump from QueueSize to zero: that takes a      *)
(* number of codelets that fills the ring exactly.                           *)

RoomInv == \A c \in Cores : pc[c] = "push_insert" => ~QueueIsFull
FoundInv == \A c \in Cores : pc[c] = "pop_take" => ~QueueIsEmpty
WholeInv == \E n \in Nat : Used = n * CodeletSize

AccountInv == TypeOK /\ MutexInv /\ RoomInv /\ FoundInv /\ WholeInv

LEMMA UsedInside == TypeOK => Used \in 0..(QueueSize - 1)
BY SizeAssumption DEF TypeOK, Offsets, Used

LEMMA MultipleNext == ASSUME NEW n \in Nat
                      PROVE  n * CodeletSize + CodeletSize = (n + 1) * CodeletSize
BY SizeAssumption

LEMMA MultiplePrevious ==
  ASSUME NEW n \in Nat, n * CodeletSize # 0
  PROVE  /\ n - 1 \in Nat
         /\ n * CodeletSize - CodeletSize = (n - 1) * CodeletSize
<1>1. n # 0
  BY SizeAssumption
<1>. QED
  BY <1>1, SizeAssumption

\* With a whole number of codelets in the ring and room for one more, one
\* more does not fill it: that is where NoExactFit is needed.
LEMMA RoomLeft ==
  ASSUME NoExactFit, TypeOK, WholeInv, ~QueueIsFull
  PROVE  Used + CodeletSize < QueueSize
<1>1. PICK n \in Nat : Used = n * CodeletSize
  BY DEF WholeInv
<1>2. Used + CodeletSize # QueueSize
  BY <1>1, MultipleNext DEF NoExactFit
<1>3. Used + CodeletSize <= QueueSize
  BY SizeAssumption
     DEF QueueIsFull, AvailableSpace, SpaceBetween, Used, TypeOK, Offsets
<1>. QED
  BY <1>2, <1>3, UsedInside, SizeAssumption

\* A ring that is not empty holds at least one codelet.
LEMMA CodeletThere ==
  ASSUME TypeOK, WholeInv, ~QueueIsEmpty
  PROVE  Used >= CodeletSize
<1>1. Used # 0
  BY SizeAssumption
     DEF QueueIsEmpty, AvailableSpace, SpaceBetween, Used, TypeOK, Offsets
<1>2. PICK n \in Nat : Used = n * CodeletSize
  BY DEF WholeInv
<1>3. n - 1 \in Nat /\ Used - CodeletSize = (n - 1) * CodeletSize
  BY <1>1, <1>2, MultiplePrevious
<1>4. (n - 1) * CodeletSize \in Nat
  BY <1>3, SizeAssumption
<1>. QED
  BY <1>3, <1>4, UsedInside, SizeAssumption

\* A push that found room adds its codelet to the bytes in use.
LEMMA PushAdds ==
  ASSUME NoExactFit, AccountInv, NEW c \in Cores,
         PushNormal(c) \/ PushSplit(c)
  PROVE  Used' = Used + CodeletSize
<1>1. Used + CodeletSize < QueueSize
  BY RoomLeft DEF AccountInv, RoomInv, PushNormal, PushSplit, Goto
<1>2. headAddress \in Offsets /\ tailAddress \in Offsets /\ headAddress' = headAddress
  BY DEF AccountInv, TypeOK, PushNormal, PushSplit
<1>3. CASE PushNormal(c)
  BY <1>1, <1>2, <1>3, SizeAssumption DEF PushNormal, EndsInside, Used, Offsets
<1>4. CASE PushSplit(c)
  BY <1>1, <1>2, <1>4, SizeAssumption DEF PushSplit, EndsInside, Wrap, Used, Offsets
<1>. QED
  BY <1>3, <1>4

\* A pop that found a codelet takes it from the bytes in use.
LEMMA PopRemoves ==
  ASSUME AccountInv, NEW c \in Cores, PopNormal(c) \/ PopSplit(c)
  PROVE  Used' = Used - CodeletSize
<1>1. Used >= CodeletSize
  BY CodeletThere DEF AccountInv, FoundInv, PopNormal, PopSplit, Goto
<1>2. headAddress \in Offsets /\ tailAddress \in Offsets /\ tailAddress' = tailAddress
  BY DEF AccountInv, TypeOK, PopNormal, PopSplit
<1>3. CASE PopNormal(c)
  BY <1>1, <1>2, <1>3, SizeAssumption DEF PopNormal, EndsInside, Used, Offsets
<1>4. CASE PopSplit(c)
  BY <1>1, <1>2, <1>4, SizeAssumption DEF PopSplit, EndsInside, Wrap, Used, Offsets
<1>. QED
  BY <1>3, <1>4

LEMMA AccountInit == Init => AccountInv
<1>. SUFFICES ASSUME Init PROVE AccountInv
  OBVIOUS
<1>1. TypeOK /\ MutexInv
  BY TypeInit, MutexInit
<1>2. RoomInv /\ FoundInv
  BY DEF Init, RoomInv, FoundInv
<1>3. Used = 0 /\ 0 = 0 * CodeletSize
  BY SizeAssumption DEF Init, Used
<1>. QED
  BY <1>1, <1>2, <1>3 DEF AccountInv, WholeInv

\* The steps that leave both addresses alone leave the bytes in use alone,
\* and the room or the codelet that another core found.
LEMMA SameAddresses ==
  ASSUME UNCHANGED <<headAddress, tailAddress>>
  PROVE  /\ Used' = Used
         /\ QueueIsFull' = QueueIsFull
         /\ QueueIsEmpty' = QueueIsEmpty
BY DEF Used, QueueIsFull, QueueIsEmpty, AvailableSpace

LEMMA WholeStep ==
  ASSUME NoExactFit, AccountInv, [Next]_vars PROVE WholeInv'
<1>1. PICK n \in Nat : Used = n * CodeletSize
  BY DEF AccountInv, WholeInv
<1>2. CASE UNCHANGED <<headAddress, tailAddress>>
  BY <1>1, <1>2, SameAddresses DEF WholeInv
<1>3. ASSUME NEW c \in Cores, PushNormal(c) \/ PushSplit(c) PROVE WholeInv'
  <2>1. Used' = (n + 1) * CodeletSize
    BY <1>1, <1>3, PushAdds, MultipleNext
  <2>2. n + 1 \in Nat
    OBVIOUS
  <2>. QED
    BY <2>1, <2>2 DEF WholeInv
<1>4. ASSUME NEW c \in Cores, PopNormal(c) \/ PopSplit(c) PROVE WholeInv'
  <2>1. Used >= CodeletSize
    BY <1>4, CodeletThere DEF AccountInv, FoundInv, PopNormal, PopSplit, Goto
  <2>2. n - 1 \in Nat /\ n * CodeletSize - CodeletSize = (n - 1) * CodeletSize
    BY <1>1, <2>1, MultiplePrevious, SizeAssumption
  <2>3. Used' = (n - 1) * CodeletSize
    BY <1>1, <1>4, <2>2, PopRemoves
  <2>. QED
    BY <2>2, <2>3 DEF WholeInv
<1>. QED
  BY <1>2, <1>3, <1>4
     DEF Next, Call, Step, Push, Pop, CallPush, CallPop, CallQueueEmpty,
         LockToPush, PushFull, PushRoom, LockToPop, PopEmpty, PopFound, Unlock,
         LoadOperand, Load, ReturnQueueEmpty, queue, vars

\* Only the holder of the mutex moves an address, so what a core has found
\* stays found until that core uses it.
LEMMA FindingsStep ==
  ASSUME AccountInv, [Next]_vars PROVE RoomInv' /\ FoundInv'
<1>. USE DEF AccountInv, RoomInv, FoundInv, TypeOK, Goto
<1>1. CASE UNCHANGED vars
  BY <1>1, SameAddresses DEF vars
<1>2. ASSUME NEW c \in Cores, PushRoom(c) \/ PopFound(c) PROVE RoomInv' /\ FoundInv'
  BY <1>2, SameAddresses DEF PushRoom, PopFound, queue
<1>3. ASSUME NEW c \in Cores,
             \/ Call(c) \/ LockToPush(c) \/ LockToPop(c)
             \/ PushFull(c) \/ PopEmpty(c) \/ Unlock(c)
             \/ LoadOperand(c) \/ ReturnQueueEmpty(c)
      PROVE  RoomInv' /\ FoundInv'
  BY <1>3, SameAddresses
     DEF Call, CallPush, CallPop, CallQueueEmpty, LockToPush, LockToPop,
         PushFull, PopEmpty, Unlock, LoadOperand, Load, ReturnQueueEmpty, queue
<1>4. ASSUME NEW c \in Cores,
             PushNormal(c) \/ PushSplit(c) \/ PopNormal(c) \/ PopSplit(c)
      PROVE  RoomInv' /\ FoundInv'
  <2>1. pc[c] \in Critical /\ pc' = [pc EXCEPT ![c] = "unlock"]
    BY <1>4 DEF PushNormal, PushSplit, PopNormal, PopSplit, Critical
  <2>2. \A d \in Cores : d # c => pc[d] \notin {"push_insert", "pop_take"}
    BY <2>1 DEF MutexInv, Critical
  <2>. QED
    BY <2>1, <2>2
<1>. QED
  BY <1>1, <1>2, <1>3, <1>4 DEF Next, Step, Push, Pop

LEMMA AccountStep == NoExactFit => (AccountInv /\ [Next]_vars => AccountInv')
BY TypeStep, MutexStep, WholeStep, FindingsStep DEF AccountInv

\* A step that moves a codelet is one of the four insertions and removals.
LEMMA InsertedStep ==
  NoExactFit =>
    (AccountInv /\ [Next]_vars
       => [\A c \in Cores : /\ Pushes(c) => Used' = Used + CodeletSize
                            /\ Pops(c) => Used = Used' + CodeletSize]_vars)
<1>. SUFFICES ASSUME NoExactFit, AccountInv, Next, NEW c \in Cores
              PROVE  /\ Pushes(c) => Used' = Used + CodeletSize
                     /\ Pops(c) => Used = Used' + CodeletSize
  OBVIOUS
<1>1. ASSUME Pushes(c) PROVE PushNormal(c) \/ PushSplit(c)
  <2>1. pc[c] = "push_insert" /\ pc'[c] = "unlock"
    BY <1>1 DEF Pushes
  <2>2. PICK d \in Cores : Call(d) \/ Step(d)
    BY DEF Next
  <2>3. d = c
    BY <2>1, <2>2
       DEF Call, Step, Push, Pop, Goto, AccountInv, TypeOK, CallPush, CallPop,
           CallQueueEmpty, LockToPush, LockToPop, PushFull, PushRoom, PushNormal,
           PushSplit, PopEmpty, PopFound, PopNormal, PopSplit, Unlock,
           LoadOperand, Load, ReturnQueueEmpty
  <2>. QED
    BY <2>1, <2>2, <2>3
       DEF Call, Step, Push, Pop, Goto, CallPush, CallPop, CallQueueEmpty,
           LockToPush, LockToPop, PushFull, PushRoom, PopEmpty, PopFound,
           PopNormal, PopSplit, Unlock, LoadOperand, Load, ReturnQueueEmpty
<1>2. ASSUME Pops(c) PROVE PopNormal(c) \/ PopSplit(c)
  <2>1. pc[c] = "pop_take" /\ pc'[c] = "unlock"
    BY <1>2 DEF Pops
  <2>2. PICK d \in Cores : Call(d) \/ Step(d)
    BY DEF Next
  <2>3. d = c
    BY <2>1, <2>2
       DEF Call, Step, Push, Pop, Goto, AccountInv, TypeOK, CallPush, CallPop,
           CallQueueEmpty, LockToPush, LockToPop, PushFull, PushRoom, PushNormal,
           PushSplit, PopEmpty, PopFound, PopNormal, PopSplit, Unlock,
           LoadOperand, Load, ReturnQueueEmpty
  <2>. QED
    BY <2>1, <2>2, <2>3
       DEF Call, Step, Push, Pop, Goto, CallPush, CallPop, CallQueueEmpty,
           LockToPush, LockToPop, PushFull, PushRoom, PopEmpty, PopFound,
           PushNormal, PushSplit, Unlock, LoadOperand, Load, ReturnQueueEmpty
<1>3. Used \in Nat
  BY UsedInside, SizeAssumption DEF AccountInv
<1>. QED
  BY <1>1, <1>2, <1>3, PushAdds, PopRemoves, SizeAssumption

\* When no number of codelets fills the ring to the last byte, every push
\* that answers SUCCESS_OP leaves its codelet in the queue: a full queue never
\* looks empty.  (For a ring that 25 codelets fill exactly, as in
\* test/assets/codeletQueue/e_codQueue.c:82, the property is false.)
THEOREM InsertedForEverySize ==
  ASSUME NoExactFit PROVE Spec => CodeletInserted
<1>1. Spec => []AccountInv
  <2>1. AccountInv /\ [Next]_vars => AccountInv'
    BY AccountStep
  <2>. QED
    BY <2>1, AccountInit, PTL DEF Spec
<1>2. AccountInv /\ [Next]_vars
        => [\A c \in Cores : /\ Pushes(c) => Used' = Used + CodeletSize
                             /\ Pops(c) => Used = Used' + CodeletSize]_vars
  BY InsertedStep
<1>. QED
  BY <1>1, <1>2, PTL DEF Spec, CodeletInserted

-----------------------------------------------------------------------------
(* The contents.  A place in the ring is told by how many bytes it lies       *)
(* behind the head: the n-th codelet lies (n - 1) * CodeletSize behind it,    *)
(* and the tail Used behind it.                                               *)

LEMMA WrapTwice ==
  ASSUME NEW a \in Offsets, NEW o \in Nat, NEW k \in Nat, o + k < QueueSize
  PROVE  Wrap(Wrap(a + o) + k) = Wrap(a + o + k)
BY SizeAssumption DEF Wrap, Offsets

LEMMA WrapDiffers ==
  ASSUME NEW a \in Offsets, NEW o \in Nat, NEW k \in Nat, o < QueueSize, k < QueueSize,
         Wrap(a + o) = Wrap(a + k)
  PROVE  o = k
BY SizeAssumption DEF Wrap, Offsets

LEMMA WrapOffset ==
  ASSUME NEW a \in Offsets, NEW o \in Nat, o <= QueueSize
  PROVE  Wrap(a + o) \in Offsets
BY SizeAssumption DEF Wrap, Offsets

LEMMA TailBehindHead ==
  ASSUME headAddress \in Offsets, tailAddress \in Offsets
  PROVE  tailAddress = Wrap(headAddress + Used)
BY SizeAssumption DEF Wrap, Offsets, Used

\* So many bytes hold so many codelets.
LEMMA CodeletsIn ==
  ASSUME NEW n \in Nat, NEW m \in Nat
  PROVE  /\ m \div CodeletSize \in Nat
         /\ n * CodeletSize <= m /\ m < (n + 1) * CodeletSize => m \div CodeletSize = n
         /\ n * CodeletSize <= m => n <= m \div CodeletSize
         /\ m < (n + 1) * CodeletSize => m \div CodeletSize <= n
<1>. DEFINE q == m \div CodeletSize
<1>0. CodeletSize \in Nat \ {0}
  BY SizeAssumption
<1>1. q \in Nat /\ q * CodeletSize <= m /\ m < (q + 1) * CodeletSize
  BY <1>0
<1>. HIDE DEF q
<1>2. ASSUME NEW i \in Nat, NEW j \in Nat, i < j
      PROVE  (i + 1) * CodeletSize <= j * CodeletSize
  <2>1. PICK e \in Nat : j = (i + 1) + e
    <3>1. j - (i + 1) \in Nat /\ j = (i + 1) + (j - (i + 1))
      BY <1>2
    <3>. QED
      BY <3>1
  <2>2. j * CodeletSize = (i + 1) * CodeletSize + e * CodeletSize /\ e * CodeletSize \in Nat
    BY <1>0, <2>1
  <2>3. (i + 1) * CodeletSize \in Nat
    BY <1>0
  <2>. QED
    BY <2>2, <2>3
<1>3. /\ n * CodeletSize \in Nat /\ (n + 1) * CodeletSize \in Nat
      /\ q * CodeletSize \in Nat /\ (q + 1) * CodeletSize \in Nat
  BY <1>0, <1>1
<1>4. n * CodeletSize <= m => n <= q
  BY <1>1, <1>2, <1>3
<1>5. m < (n + 1) * CodeletSize => q <= n
  BY <1>1, <1>2, <1>3
<1>. QED
  BY <1>1, <1>4, <1>5 DEF q

LEMMA PlaceOf ==
  ASSUME NEW n \in Nat, NEW i \in 1..n
  PROVE  /\ (i - 1) * CodeletSize \in Nat
         /\ (i - 1) * CodeletSize + CodeletSize = i * CodeletSize
         /\ (i - 1) * CodeletSize + CodeletSize <= n * CodeletSize
<1>0. CodeletSize \in Nat
  BY SizeAssumption
<1>1. PICK e \in Nat : n = i + e
  <2>1. n - i \in Nat /\ n = i + (n - i)
    OBVIOUS
  <2>. QED
    BY <2>1
<1>2. n * CodeletSize = i * CodeletSize + e * CodeletSize /\ e * CodeletSize \in Nat
  BY <1>0, <1>1
<1>3. /\ (i - 1) * CodeletSize \in Nat
      /\ (i - 1) * CodeletSize + CodeletSize = i * CodeletSize
  BY <1>0
<1>. QED
  BY <1>0, <1>2, <1>3

\* The codelet that lies o bytes behind the head.
Behind(w, h, o) == Whole([k \in BufferIndex |-> w[Wrap(h + o + k)]])

\* The first n codelets of a ring w with head h.
FirstOf(w, h, n) == [i \in 1..n |-> Behind(w, h, (i - 1) * CodeletSize)]

LEMMA ContentsAre ==
  ASSUME NEW n \in Nat, headAddress \in Offsets, Used = n * CodeletSize, Used < QueueSize
  PROVE  Contents = FirstOf(space, headAddress, n)
<1>0. CodeletSize \in Nat \ {0} /\ QueueSize \in Nat /\ BufferIndex = 0..(CodeletSize - 1)
  BY SizeAssumption DEF BufferIndex
<1>1. Used \div CodeletSize = n
  <2>1. n * CodeletSize \in Nat /\ (n + 1) * CodeletSize = n * CodeletSize + CodeletSize
    BY <1>0
  <2>. QED
    BY <1>0, <2>1, CodeletsIn
<1>2. ASSUME NEW i \in 1..n
      PROVE  ReadAt(Wrap(headAddress + (i - 1) * CodeletSize))
               = [k \in BufferIndex |-> space[Wrap(headAddress + (i - 1) * CodeletSize + k)]]
  <2>. DEFINE o == (i - 1) * CodeletSize
  <2>1. o \in Nat /\ o + CodeletSize < QueueSize
    BY <1>0, PlaceOf, SizeAssumption
  <2>. HIDE DEF o
  <2>2. \A k \in BufferIndex : Wrap(Wrap(headAddress + o) + k) = Wrap(headAddress + o + k)
    BY <1>0, <2>1, WrapTwice
  <2>3. ReadAt(Wrap(headAddress + o)) = [k \in BufferIndex |-> space[Wrap(headAddress + o + k)]]
    BY <2>2 DEF ReadAt
  <2>. QED
    BY <2>3 DEF o
<1>. QED
  BY <1>1, <1>2 DEF Contents, FirstOf, Behind

\* The same after a step.
LEMMA NextContentsAre ==
  ASSUME NEW n \in Nat, headAddress' \in Offsets, Used' = n * CodeletSize, Used' < QueueSize
  PROVE  Contents' = FirstOf(space', headAddress', n)
<1>0. CodeletSize \in Nat \ {0} /\ QueueSize \in Nat /\ BufferIndex = 0..(CodeletSize - 1)
  BY SizeAssumption DEF BufferIndex
<1>1. Used' \div CodeletSize = n
  <2>1. n * CodeletSize \in Nat /\ (n + 1) * CodeletSize = n * CodeletSize + CodeletSize
    BY <1>0
  <2>. QED
    BY <1>0, <2>1, CodeletsIn
<1>2. ASSUME NEW i \in 1..n
      PROVE  [k \in BufferIndex |-> space'[Wrap(Wrap(headAddress' + (i - 1) * CodeletSize) + k)]]
               = [k \in BufferIndex |-> space'[Wrap(headAddress' + (i - 1) * CodeletSize + k)]]
  <2>. DEFINE o == (i - 1) * CodeletSize
              h == headAddress'
  <2>1. o \in Nat /\ o + CodeletSize < QueueSize /\ h \in Offsets
    BY <1>0, PlaceOf, SizeAssumption
  <2>. HIDE DEF o, h
  <2>2. \A k \in BufferIndex : Wrap(Wrap(h + o) + k) = Wrap(h + o + k)
    BY <1>0, <2>1, WrapTwice
  <2>3. [k \in BufferIndex |-> space'[Wrap(Wrap(h + o) + k)]]
          = [k \in BufferIndex |-> space'[Wrap(h + o + k)]]
    BY <2>2
  <2>. QED
    BY <2>3 DEF o, h
<1>3. Contents' = [i \in 1..(Used' \div CodeletSize) |->
                     Whole([k \in BufferIndex |->
                       space'[Wrap(Wrap(headAddress' + (i - 1) * CodeletSize) + k)]])]
  BY DEF Contents, ReadAt, Wrap, Whole
<1>. QED
  BY <1>1, <1>2, <1>3 DEF FirstOf, Behind

\* The bytes of a codelet that is stored in the ring, and the bytes elsewhere.
LEMMA StoredBytes ==
  ASSUME NEW h \in Offsets, NEW o \in Nat, o + CodeletSize < QueueSize, NEW b
  PROVE  /\ \A k \in BufferIndex : StoredAt(Wrap(h + o), b)[Wrap(h + o + k)] = b[k]
         /\ \A e \in 0..(o - 1) : StoredAt(Wrap(h + o), b)[Wrap(h + e)] = space[Wrap(h + e)]
<1>0. CodeletSize \in Nat \ {0} /\ QueueSize \in Nat /\ BufferIndex = 0..(CodeletSize - 1)
  BY SizeAssumption DEF BufferIndex
<1>1. \A k \in BufferIndex : Wrap(Wrap(h + o) + k) = Wrap(h + o + k) /\ o + k \in Nat
  BY <1>0, WrapTwice
<1>2. ASSUME NEW k \in BufferIndex
      PROVE  StoredAt(Wrap(h + o), b)[Wrap(h + o + k)] = b[k]
  <2>1. Wrap(h + o + k) \in Offsets
    <3>1. o + k \in Nat /\ o + k <= QueueSize /\ h + o + k = h + (o + k)
      BY <1>0 DEF Offsets
    <3>. QED
      BY <3>1, WrapOffset
  <2>2. ASSUME NEW j \in BufferIndex, Wrap(h + o + j) = Wrap(h + o + k)
        PROVE  j = k
    <3>1. /\ o + j \in Nat /\ o + j < QueueSize /\ h + o + j = h + (o + j)
          /\ o + k \in Nat /\ o + k < QueueSize /\ h + o + k = h + (o + k)
      BY <1>0 DEF Offsets
    <3>2. o + j = o + k
      BY <2>2, <3>1, WrapDiffers
    <3>. QED
      BY <1>0, <3>2
  <2>3. (CHOOSE j \in BufferIndex : Wrap(Wrap(h + o) + j) = Wrap(h + o + k)) = k
    BY <1>1, <2>2
  <2>. QED
    BY <1>1, <2>1, <2>3 DEF StoredAt
<1>3. ASSUME NEW e \in 0..(o - 1)
      PROVE  StoredAt(Wrap(h + o), b)[Wrap(h + e)] = space[Wrap(h + e)]
  <2>1. Wrap(h + e) \in Offsets
    BY <1>0, WrapOffset
  <2>2. ASSUME NEW j \in BufferIndex
        PROVE  Wrap(h + o + j) # Wrap(h + e)
    <3>1. /\ o + j \in Nat /\ o + j < QueueSize /\ h + o + j = h + (o + j)
          /\ e \in Nat /\ e < QueueSize /\ o + j # e
      BY <1>0 DEF Offsets
    <3>. QED
      BY <3>1, WrapDiffers
  <2>. QED
    BY <1>1, <2>1, <2>2 DEF StoredAt
<1>. QED
  BY <1>2, <1>3

\* pushCodeletQueue puts its codelet behind the others, and moves none.
LEMMA PushAppends ==
  ASSUME NoExactFit, AccountInv, NEW c \in Cores, PushNormal(c) \/ PushSplit(c),
         buffer[c] \in [BufferIndex -> Bytes]
  PROVE  Contents' = Append(Contents, Whole(buffer[c]))
<1>. DEFINE b == buffer[c]
            h == headAddress
            u == Used
            w == StoredAt(Wrap(h + u), b)
<1>1. PICK n \in Nat : Used = n * CodeletSize
  BY DEF AccountInv, WholeInv
<1>2. u + CodeletSize < QueueSize
  BY RoomLeft DEF AccountInv, RoomInv, PushNormal, PushSplit, Goto
<1>3. u \in Nat /\ h \in Offsets /\ CodeletSize \in Nat \ {0} /\ QueueSize \in Nat
      /\ BufferIndex = 0..(CodeletSize - 1) /\ n + 1 \in Nat
  BY UsedInside, SizeAssumption DEF AccountInv, TypeOK, BufferIndex
<1>4. space' = w /\ headAddress' = h
  BY TailBehindHead DEF AccountInv, TypeOK, PushNormal, PushSplit
<1>5. Used' = (n + 1) * CodeletSize /\ Used' < QueueSize
  BY <1>1, <1>2, PushAdds, MultipleNext
<1>6. Contents = FirstOf(space, h, n)
  BY <1>1, <1>2, <1>3, ContentsAre
<1>7. Contents' = FirstOf(w, h, n + 1)
  BY <1>3, <1>4, <1>5, NextContentsAre
<1>8. ASSUME NEW i \in 1..n
      PROVE  Behind(w, h, (i - 1) * CodeletSize) = Behind(space, h, (i - 1) * CodeletSize)
  <2>. DEFINE o == (i - 1) * CodeletSize
  <2>1. o \in Nat /\ o + CodeletSize <= u
    BY <1>1, PlaceOf
  <2>2. ASSUME NEW k \in BufferIndex
        PROVE  w[Wrap(h + o + k)] = space[Wrap(h + o + k)]
    <3>1. o + k \in 0..(u - 1) /\ h + o + k = h + (o + k)
      BY <1>3, <2>1 DEF Offsets
    <3>. HIDE DEF o, u
    <3>2. w[Wrap(h + (o + k))] = space[Wrap(h + (o + k))]
      BY <1>2, <1>3, <3>1, StoredBytes
    <3>. QED
      BY <3>1, <3>2
  <2>. QED
    BY <2>2 DEF Behind
<1>9. Behind(w, h, n * CodeletSize) = Whole(b)
  <2>1. \A k \in BufferIndex : w[Wrap(h + u + k)] = b[k]
    <3>. HIDE DEF u
    <3>. QED
      BY <1>2, <1>3, StoredBytes
  <2>2. [k \in BufferIndex |-> w[Wrap(h + u + k)]] = b
    BY <2>1
  <2>. QED
    BY <1>1, <2>2 DEF Behind
<1>10. (n + 1) - 1 = n
  OBVIOUS
<1>. HIDE DEF b, h, u, w
<1>11. FirstOf(w, h, n + 1) = Append(FirstOf(space, h, n), Whole(b))
  <2>. DEFINE s == FirstOf(space, h, n)
              r == FirstOf(w, h, n + 1)
  <2>1. s = [i \in 1..n |-> s[i]] /\ \A i \in 1..n : s[i] = Behind(space, h, (i - 1) * CodeletSize)
    BY DEF FirstOf
  <2>2. /\ r = [i \in 1..(n + 1) |-> r[i]]
        /\ \A i \in 1..(n + 1) : r[i] = Behind(w, h, (i - 1) * CodeletSize)
    BY DEF FirstOf
  <2>. HIDE DEF s, r
  <2>3. \A i \in 1..n : r[i] = s[i]
    BY <1>8, <2>1, <2>2
  <2>4. r[n + 1] = Whole(b)
    BY <1>9, <1>10, <2>2
  <2>5. Append(s, Whole(b)) = [i \in 1..(n + 1) |-> IF i <= n THEN s[i] ELSE Whole(b)]
    BY <2>1
  <2>6. \A i \in 1..(n + 1) : r[i] = IF i <= n THEN s[i] ELSE Whole(b)
    BY <1>1, <2>3, <2>4
  <2>7. r = Append(s, Whole(b))
    BY <2>2, <2>5, <2>6
  <2>. QED
    BY <2>7 DEF s, r
<1>. QED
  BY <1>6, <1>7, <1>11 DEF b

\* popCodeletQueue takes the first of them.
LEMMA PopTakesFirst ==
  ASSUME AccountInv, NEW c \in Cores, PopNormal(c) \/ PopSplit(c)
  PROVE  /\ Contents # <<>>
         /\ Contents' = Tail(Contents)
         /\ Whole(ReadAt(headAddress)) = Head(Contents)
<1>. DEFINE h == headAddress
            g == Wrap(h + CodeletSize)
<1>1. PICK n \in Nat : Used = n * CodeletSize
  BY DEF AccountInv, WholeInv
<1>2. Used >= CodeletSize
  BY CodeletThere DEF AccountInv, FoundInv, PopNormal, PopSplit, Goto
<1>3. Used \in Nat /\ Used < QueueSize /\ h \in Offsets /\ CodeletSize \in Nat \ {0}
      /\ QueueSize \in Nat /\ BufferIndex = 0..(CodeletSize - 1)
  BY UsedInside, SizeAssumption DEF AccountInv, TypeOK, BufferIndex
<1>4. n - 1 \in Nat /\ n * CodeletSize - CodeletSize = (n - 1) * CodeletSize
  BY <1>1, <1>2, <1>3, MultiplePrevious
<1>5. space' = space /\ headAddress' = g /\ g \in Offsets
  <2>1. g \in Offsets
    BY <1>3, WrapInside
  <2>2. headAddress' = g
    BY <1>3, SizeAssumption DEF PopNormal, PopSplit, EndsInside, Wrap, Offsets
  <2>. QED
    BY <2>1, <2>2 DEF PopNormal, PopSplit
<1>6. Used' = (n - 1) * CodeletSize /\ Used' < QueueSize
  BY <1>1, <1>3, <1>4, PopRemoves
<1>7. Contents = FirstOf(space, h, n)
  BY <1>1, <1>3, ContentsAre
<1>8. Contents' = FirstOf(space, g, n - 1)
  BY <1>4, <1>5, <1>6, NextContentsAre
<1>9. ASSUME NEW i \in 1..(n - 1)
      PROVE  Behind(space, g, (i - 1) * CodeletSize) = Behind(space, h, ((i + 1) - 1) * CodeletSize)
  <2>. DEFINE o == (i - 1) * CodeletSize
  <2>1. /\ o \in Nat /\ o + CodeletSize <= (n - 1) * CodeletSize
        /\ ((i + 1) - 1) * CodeletSize = o + CodeletSize
    <3>1. (i + 1) - 1 = i
      OBVIOUS
    <3>. QED
      BY <1>4, <3>1, PlaceOf
  <2>2. o + CodeletSize + CodeletSize <= Used
    BY <1>1, <1>3, <1>4, <2>1
  <2>. HIDE DEF o
  <2>3. ASSUME NEW k \in BufferIndex
        PROVE  Wrap(g + o + k) = Wrap(h + (o + CodeletSize) + k)
    <3>1. /\ o + k \in Nat /\ CodeletSize + (o + k) < QueueSize
          /\ g + o + k = g + (o + k)
          /\ h + CodeletSize + (o + k) = h + (o + CodeletSize) + k
      BY <1>3, <1>5, <2>1, <2>2 DEF Offsets
    <3>2. Wrap(g + (o + k)) = Wrap(h + CodeletSize + (o + k))
      BY <1>3, <3>1, WrapTwice
    <3>. QED
      BY <3>1, <3>2
  <2>4. Behind(space, g, o) = Behind(space, h, o + CodeletSize)
    BY <2>3 DEF Behind
  <2>. QED
    BY <2>1, <2>4 DEF o
<1>10. Behind(space, h, (1 - 1) * CodeletSize) = Whole(ReadAt(h))
  <2>1. (1 - 1) * CodeletSize = 0 /\ \A k \in BufferIndex : h + 0 + k = h + k
    BY <1>3 DEF Offsets
  <2>. QED
    BY <2>1 DEF Behind, ReadAt
<1>. HIDE DEF h, g
<1>. DEFINE s == FirstOf(space, h, n)
            r == FirstOf(space, g, n - 1)
<1>11. s = [i \in 1..n |-> s[i]] /\ \A i \in 1..n : s[i] = Behind(space, h, (i - 1) * CodeletSize)
  BY DEF FirstOf
<1>12. /\ r = [i \in 1..(n - 1) |-> r[i]]
       /\ \A i \in 1..(n - 1) : r[i] = Behind(space, g, (i - 1) * CodeletSize)
  BY DEF FirstOf
<1>. HIDE DEF s, r
<1>13. \A i \in 1..(n - 1) : r[i] = s[i + 1]
  BY <1>4, <1>9, <1>11, <1>12
<1>14. Tail(s) = [i \in 1..(n - 1) |-> s[i + 1]] /\ s # <<>> /\ Head(s) = s[1]
  BY <1>4, <1>11
<1>15. r = Tail(s)
  BY <1>12, <1>13, <1>14
<1>16. Head(s) = Whole(ReadAt(h))
  BY <1>4, <1>10, <1>11, <1>14
<1>. QED
  BY <1>7, <1>8, <1>14, <1>15, <1>16 DEF h, s, r

-----------------------------------------------------------------------------
(* The calls.  A core that pushes passes a codelet; and while the consumer    *)
(* asks queueEmpty, which takes no mutex, nobody moves the head: what it has  *)
(* loaded of it stays true, and a ring that was not empty at the first load   *)
(* of the tail is not at the second.                                          *)

\* Who asks whether the queue is empty is the only core that pops.
SoleConsumer == \A c \in Testers, d \in Consumers : c = d

CalledBy(c) ==
  /\ pc[c] \in {"push_lock", "push_check", "push_insert"} =>
        \E d \in Codelets : buffer[c] = BytesOf(d)
  /\ pc[c] \in {"pop_lock", "pop_check", "pop_take"} => c \in Consumers
  /\ pc[c] = "queueEmpty" => c \in Testers

TestedBy(c) ==
  pc[c] = "queueEmpty" =>
     /\ loads[c].head1 # QueueSize => loads[c].head1 = headAddress
     /\ loads[c].head2 # QueueSize => loads[c].head2 = headAddress
     /\ loads[c].head2 # QueueSize \/ loads[c].tail2 # QueueSize => Compared(c)
     /\ loads[c].tail1 # QueueSize /\ loads[c].tail1 # headAddress => headAddress # tailAddress

CallsInv == \A c \in Cores : CalledBy(c) /\ TestedBy(c)

FifoInv == AccountInv /\ CallsInv

OthersStay(c) ==
  \A d \in Cores \ {c} : /\ pc'[d] = pc[d] /\ buffer'[d] = buffer[d]
                         /\ result'[d] = result[d] /\ loads'[d] = loads[d]

LEMMA StepsStay ==
  ASSUME TypeOK, NEW c \in Cores, Call(c) \/ Step(c)
  PROVE  OthersStay(c)
<1>. USE DEF OthersStay, TypeOK, Goto, Answer, queue
<1>1. CASE Call(c)
  BY <1>1 DEF Call, CallPush, CallPop, CallQueueEmpty
<1>2. CASE Push(c)
  BY <1>2 DEF Push, LockToPush, PushFull, PushRoom, PushNormal, PushSplit
<1>3. CASE Pop(c)
  BY <1>3 DEF Pop, LockToPop, PopEmpty, PopFound, PopNormal, PopSplit
<1>4. CASE Unlock(c) \/ ReturnQueueEmpty(c)
  BY <1>4 DEF Unlock, ReturnQueueEmpty
<1>5. CASE LoadOperand(c)
  BY <1>5 DEF LoadOperand, Load
<1>. QED
  BY <1>1, <1>2, <1>3, <1>4, <1>5 DEF Step

\* Only a pop moves the head, and only a push moves the tail.
LEMMA RingMoves ==
  ASSUME NEW c \in Cores, Call(c) \/ Step(c)
  PROVE  \/ PushNormal(c) \/ PushSplit(c)
         \/ PopNormal(c) \/ PopSplit(c)
         \/ UNCHANGED <<headAddress, tailAddress, space>>
BY DEF Call, Step, Push, Pop, CallPush, CallPop, CallQueueEmpty, LockToPush, PushFull,
       PushRoom, LockToPop, PopEmpty, PopFound, Unlock, LoadOperand, Load,
       ReturnQueueEmpty, queue

\* What a core that asks queueEmpty has loaded stays true.
LEMMA OthersTested ==
  ASSUME NoExactFit, SoleConsumer, FifoInv, NEW c \in Cores, Call(c) \/ Step(c), TypeOK',
         NEW d \in Cores \ {c}
  PROVE  CalledBy(d)' /\ TestedBy(d)'
<1>1. pc'[d] = pc[d] /\ buffer'[d] = buffer[d] /\ loads'[d] = loads[d]
  BY StepsStay DEF OthersStay, FifoInv, AccountInv
<1>2. CalledBy(d) /\ TestedBy(d)
  BY DEF FifoInv, CallsInv
<1>3. CalledBy(d)'
  BY <1>1, <1>2 DEF CalledBy
<1>4. CASE PushNormal(c) \/ PushSplit(c)
  <2>1. Used' = Used + CodeletSize
    BY <1>4, PushAdds DEF FifoInv
  <2>2. Used' # 0
    BY <2>1, UsedInside, SizeAssumption DEF FifoInv, AccountInv
  <2>3. headAddress' # tailAddress' /\ headAddress' = headAddress
    <3>1. headAddress' \in Nat /\ headAddress' = headAddress
      BY <1>4, SizeAssumption DEF TypeOK, Offsets, PushNormal, PushSplit
    <3>2. headAddress' = tailAddress' => Used' = tailAddress' - headAddress'
      BY <3>1 DEF Used
    <3>. QED
      BY <2>2, <3>1, <3>2
  <2>. QED
    BY <1>1, <1>2, <1>3, <2>3 DEF TestedBy, Compared
<1>5. CASE PopNormal(c) \/ PopSplit(c)
  <2>1. c \in Consumers
    BY <1>5 DEF FifoInv, CallsInv, CalledBy, PopNormal, PopSplit, Goto
  <2>2. pc[d] # "queueEmpty"
    BY <1>2, <2>1 DEF SoleConsumer, CalledBy
  <2>. QED
    BY <1>1, <1>3, <2>2 DEF TestedBy
<1>6. CASE UNCHANGED <<headAddress, tailAddress, space>>
  BY <1>1, <1>2, <1>3, <1>6 DEF TestedBy, Compared
<1>. QED
  BY <1>4, <1>5, <1>6, RingMoves

LEMMA SelfTested ==
  ASSUME FifoInv, NEW c \in Cores, Call(c) \/ Step(c)
  PROVE  CalledBy(c)' /\ TestedBy(c)'
<1>0. /\ pc \in [Cores -> Locations] /\ buffer = [d \in Cores |-> buffer[d]]
      /\ loads \in [Cores -> Loads]
      /\ headAddress \in Offsets /\ tailAddress \in Offsets
      /\ CalledBy(c) /\ TestedBy(c)
  BY DEF FifoInv, AccountInv, TypeOK, CallsInv
<1>. USE DEF Goto
<1>1. CASE Call(c)
  BY <1>0, <1>1 DEF Call, CallPush, CallPop, CallQueueEmpty, CalledBy, TestedBy, NoLoads
<1>2. CASE Push(c)
  BY <1>0, <1>2 DEF Push, LockToPush, PushFull, PushRoom, PushNormal, PushSplit, CalledBy,
                    TestedBy, queue
<1>3. CASE Pop(c)
  BY <1>0, <1>3 DEF Pop, LockToPop, PopEmpty, PopFound, PopNormal, PopSplit, CalledBy, TestedBy,
                    queue
<1>4. CASE Unlock(c) \/ ReturnQueueEmpty(c)
  BY <1>0, <1>4 DEF Unlock, ReturnQueueEmpty, CalledBy, TestedBy
<1>5. CASE LoadOperand(c)
  <2>1. headAddress # QueueSize /\ tailAddress # QueueSize
    BY <1>0, SizeAssumption DEF Offsets
  <2>2. CalledBy(c)'
    BY <1>0, <1>5 DEF LoadOperand, Load, CalledBy
  <2>3. UNCHANGED <<headAddress, tailAddress>>
    BY <1>5 DEF LoadOperand, Load, queue
  <2>4. CASE Load(c, "head1", headAddress)
    BY <1>0, <2>1, <2>2, <2>3, <2>4 DEF Load, TestedBy, Compared, Loads
  <2>5. CASE Load(c, "tail1", tailAddress)
    BY <1>0, <2>1, <2>2, <2>3, <2>5 DEF Load, TestedBy, Compared, Loads
  <2>6. CASE Compared(c) /\ Load(c, "head2", headAddress)
    BY <1>0, <2>1, <2>2, <2>3, <2>6 DEF Load, TestedBy, Compared, Loads
  <2>7. CASE Compared(c) /\ Load(c, "tail2", tailAddress)
    BY <1>0, <2>1, <2>2, <2>3, <2>7 DEF Load, TestedBy, Compared, Loads
  <2>. QED
    BY <1>5, <2>4, <2>5, <2>6, <2>7 DEF LoadOperand
<1>. QED
  BY <1>1, <1>2, <1>3, <1>4, <1>5 DEF Step

LEMMA FifoInit == Init => FifoInv
BY AccountInit DEF Init, FifoInv, CallsInv, CalledBy, TestedBy

LEMMA FifoStep == NoExactFit /\ SoleConsumer => (FifoInv /\ [Next]_vars => FifoInv')
<1>. SUFFICES ASSUME NoExactFit, SoleConsumer, FifoInv, [Next]_vars PROVE FifoInv'
  OBVIOUS
<1>1. AccountInv'
  BY AccountStep DEF FifoInv
<1>2. CASE UNCHANGED vars
  BY <1>1, <1>2 DEF vars, FifoInv, CallsInv, CalledBy, TestedBy, Compared
<1>3. ASSUME NEW c \in Cores, Call(c) \/ Step(c)
      PROVE  FifoInv'
  BY <1>1, <1>3, OthersTested, SelfTested DEF FifoInv, CallsInv, AccountInv
<1>. QED
  BY <1>2, <1>3 DEF Next

-----------------------------------------------------------------------------
(* Every step is one of CodeletFifo, or none.                                 *)

Stages == [c \in Cores |-> Stage(c)]
Items == [c \in Cores |-> Whole(buffer[c])]
Answers == [c \in Cores |-> AnswerOf(c)]

LEMMA WholeCodelet ==
  /\ \A d \in Codelets : Whole(BytesOf(d)) = d
  /\ Whole(Uninitialised) = Garbage
<1>0. 0 \in BufferIndex
  BY SizeAssumption DEF BufferIndex
<1>1. ASSUME NEW d \in Codelets, NEW e \in Codelets, BytesOf(d) = BytesOf(e)
      PROVE  d = e
  <2>1. BytesOf(d)[0] = <<d, 0>> /\ BytesOf(e)[0] = <<e, 0>>
    BY <1>0 DEF BytesOf
  <2>. QED
    BY <1>1, <2>1
<1>2. ASSUME NEW d \in Codelets
      PROVE  Uninitialised # BytesOf(d)
  <2>1. BytesOf(d)[0] = <<d, 0>> /\ Uninitialised[0] = Garbage
    BY <1>0 DEF BytesOf, Uninitialised
  <2>. QED
    BY <2>1, GarbageAssumption
<1>3. ASSUME NEW d \in Codelets
      PROVE  Whole(BytesOf(d)) = d
  <2>. DEFINE b == BytesOf(d)
  <2>1. \A e \in Codelets : b = BytesOf(e) <=> e = d
    BY <1>1
  <2>. HIDE DEF b
  <2>2. Whole(b) = d
    BY <2>1 DEF Whole
  <2>. QED
    BY <2>2 DEF b
<1>4. Whole(Uninitialised) = Garbage
  BY <1>2 DEF Whole
<1>. QED
  BY <1>3, <1>4

\* What a step of core c changes of what CodeletFifo sees.
LEMMA SeenMoves ==
  ASSUME SoleConsumer, FifoInv, NEW c \in Cores, Call(c) \/ Step(c)
  PROVE  /\ Stages' = [Stages EXCEPT ![c] = Stage(c)']
         /\ Items' = [Items EXCEPT ![c] = Whole(buffer'[c])]
         /\ Answers' = [Answers EXCEPT ![c] = AnswerOf(c)']
         /\ Stages[c] = Stage(c) /\ Items[c] = Whole(buffer[c]) /\ Answers[c] = AnswerOf(c)
<1>1. OthersStay(c)
  BY StepsStay DEF FifoInv, AccountInv
<1>2. ASSUME NEW d \in Cores \ {c}
      PROVE  Stage(d)' = Stage(d) /\ Whole(buffer'[d]) = Whole(buffer[d]) /\ AnswerOf(d)' = AnswerOf(d)
  <2>1. pc'[d] = pc[d] /\ buffer'[d] = buffer[d] /\ result'[d] = result[d] /\ loads'[d] = loads[d]
    BY <1>1 DEF OthersStay
  <2>2. headAddress' = headAddress \/ pc[d] # "queueEmpty"
    <3>1. CASE PopNormal(c) \/ PopSplit(c)
      BY <3>1 DEF SoleConsumer, FifoInv, CallsInv, CalledBy, PopNormal, PopSplit, Goto
    <3>2. CASE ~(PopNormal(c) \/ PopSplit(c))
      BY <3>2, RingMoves DEF PushNormal, PushSplit
    <3>. QED
      BY <3>1, <3>2
  <2>. QED
    BY <2>1, <2>2 DEF Stage, AnswerOf, TailLoaded
<1>3. Stages' = [Stages EXCEPT ![c] = Stage(c)']
  BY <1>2 DEF Stages
<1>4. Items' = [Items EXCEPT ![c] = Whole(buffer'[c])]
  <2>1. Items' = [d \in Cores |-> Whole(buffer'[d])]
    BY DEF Items, Whole
  <2>. QED
    BY <1>2, <2>1 DEF Items
<1>5. Answers' = [Answers EXCEPT ![c] = AnswerOf(c)']
  BY <1>2 DEF Answers
<1>. QED
  BY <1>3, <1>4, <1>5 DEF Stages, Items, Answers

LEMMA SameRing ==
  ASSUME UNCHANGED <<headAddress, tailAddress, space>>
  PROVE  Contents' = Contents
BY DEF Contents, Used, ReadAt, Whole, Wrap

\* The codelets in the ring, and whether it is full or empty.
LEMMA CountSeen ==
  ASSUME NoExactFit, AccountInv
  PROVE  /\ Len(Contents) \in Nat
         /\ ~QueueIsFull <=> Len(Contents) < QueueSize \div CodeletSize
         /\ QueueIsEmpty <=> Contents = <<>>
         /\ headAddress = tailAddress <=> Contents = <<>>
<1>1. PICK n \in Nat : Used = n * CodeletSize
  BY DEF AccountInv, WholeInv
<1>2. /\ Used \in Nat /\ Used < QueueSize /\ CodeletSize \in Nat \ {0} /\ QueueSize \in Nat
      /\ headAddress \in Offsets /\ tailAddress \in Offsets
  BY UsedInside, SizeAssumption DEF AccountInv, TypeOK
<1>3. Len(Contents) = n /\ (Contents = <<>> <=> n = 0)
  <2>1. Contents = FirstOf(space, headAddress, n)
    BY <1>1, <1>2, ContentsAre
  <2>2. Len(FirstOf(space, headAddress, n)) = n
    BY DEF FirstOf
  <2>3. n = 0 => FirstOf(space, headAddress, n) = <<>>
    BY DEF FirstOf
  <2>. QED
    BY <2>1, <2>2, <2>3
<1>4. Used = 0 <=> n = 0
  BY <1>1, <1>2
<1>5. /\ QueueIsEmpty <=> Used = 0
      /\ headAddress = tailAddress <=> Used = 0
  BY <1>2 DEF QueueIsEmpty, AvailableSpace, SpaceBetween, Used, Offsets
<1>6. /\ n + 1 \in Nat /\ (n + 1) * CodeletSize = Used + CodeletSize
      /\ (n + 1) * CodeletSize # QueueSize
  BY <1>1, MultipleNext DEF NoExactFit
<1>7. ASSUME ~QueueIsFull
      PROVE  n < QueueSize \div CodeletSize
  <2>1. Used + CodeletSize < QueueSize
    BY <1>7, RoomLeft DEF AccountInv
  <2>2. n + 1 <= QueueSize \div CodeletSize
    BY <1>2, <1>6, <2>1, CodeletsIn
  <2>. QED
    BY <1>2, <2>2
<1>8. ASSUME QueueIsFull
      PROVE  ~(n < QueueSize \div CodeletSize)
  <2>1. QueueSize <= Used + CodeletSize
    BY <1>2, <1>8 DEF QueueIsFull, AvailableSpace, SpaceBetween, Used, Offsets
  <2>2. QueueSize < (n + 1) * CodeletSize
    BY <1>2, <1>6, <2>1
  <2>3. QueueSize \div CodeletSize <= n
    BY <1>2, <2>2, CodeletsIn
  <2>. QED
    BY <1>2, <2>3
<1>. QED
  BY <1>3, <1>4, <1>5, <1>7, <1>8

\* The state of the calls, for the steps below.
LEMMA TypesSeen ==
  ASSUME FifoInv
  PROVE  /\ pc \in [Cores -> Locations]
         /\ buffer \in [Cores -> [BufferIndex -> Bytes]]
         /\ result \in [Cores -> Results]
         /\ loads \in [Cores -> Loads]
         /\ headAddress \in Offsets /\ tailAddress \in Offsets
         /\ \A c \in Cores : CalledBy(c) /\ TestedBy(c)
BY DEF FifoInv, AccountInv, TypeOK, CallsInv

LEMMA CallMaps ==
  ASSUME SoleConsumer, FifoInv, NEW c \in Cores, Call(c)
  PROVE  Fifo!AskPush(c) \/ Fifo!AskPop(c) \/ Fifo!AskEmpty(c)
<1>. USE TypesSeen
<1>1. /\ pc[c] = "idle" /\ result' = [result EXCEPT ![c] = "NONE"]
      /\ UNCHANGED <<headAddress, tailAddress, space>>
  BY DEF Call, CallPush, CallPop, CallQueueEmpty, Goto, Answer, queue
<1>2. Contents' = Contents
  BY <1>1, SameRing
<1>3. Stages[c] = "idle" /\ Answers' = [Answers EXCEPT ![c] = "NONE"]
  <2>1. Stage(c) = "idle"
    BY <1>1 DEF Stage
  <2>2. AnswerOf(c)' = "NONE"
    BY <1>1 DEF AnswerOf, TailLoaded, Call, CallPush, CallPop, CallQueueEmpty, Goto, NoLoads
  <2>. QED
    BY <2>1, <2>2, SeenMoves
<1>4. ASSUME CallPush(c)
      PROVE  Fifo!AskPush(c)
  <2>1. PICK d \in Codelets : buffer' = [buffer EXCEPT ![c] = BytesOf(d)]
    BY <1>4 DEF CallPush
  <2>2. Whole(buffer'[c]) = d
    BY <2>1, WholeCodelet
  <2>3. Stage(c)' = "push"
    BY <1>4 DEF CallPush, Goto, Stage
  <2>4. /\ Stages' = [Stages EXCEPT ![c] = "push"]
        /\ Items' = [Items EXCEPT ![c] = d]
    BY <2>2, <2>3, SeenMoves
  <2>. QED
    BY <1>2, <1>3, <2>4 DEF Fifo!AskPush, Fifo!Ask, Stages, Items, Answers
<1>5. ASSUME CallPop(c)
      PROVE  Fifo!AskPop(c)
  <2>1. Whole(buffer'[c]) = Garbage
    BY <1>5, WholeCodelet DEF CallPop
  <2>2. Stage(c)' = "pop"
    BY <1>5 DEF CallPop, Goto, Stage
  <2>3. /\ Stages' = [Stages EXCEPT ![c] = "pop"]
        /\ Items' = [Items EXCEPT ![c] = Garbage]
    BY <2>1, <2>2, SeenMoves
  <2>. QED
    BY <1>2, <1>3, <2>3 DEF Fifo!AskPop, Fifo!Ask, Stages, Items, Answers
<1>6. ASSUME CallQueueEmpty(c)
      PROVE  Fifo!AskEmpty(c)
  <2>1. buffer'[c] = buffer[c]
    BY <1>6 DEF CallQueueEmpty
  <2>2. Stage(c)' = "test"
    BY <1>6 DEF CallQueueEmpty, Goto, Stage, TailLoaded, NoLoads
  <2>3. /\ Stages' = [Stages EXCEPT ![c] = "test"]
        /\ Items' = [Items EXCEPT ![c] = Items[c]]
    BY <2>1, <2>2, SeenMoves
  <2>. QED
    BY <1>2, <1>3, <2>3 DEF Fifo!AskEmpty, Fifo!Ask, Stages, Items, Answers
<1>. QED
  BY <1>4, <1>5, <1>6 DEF Call

\* Taking the mutex, and the tests for room and for a codelet that pass.
LEMMA HiddenMaps ==
  ASSUME SoleConsumer, FifoInv, NEW c \in Cores,
         LockToPush(c) \/ LockToPop(c) \/ PushRoom(c) \/ PopFound(c)
  PROVE  UNCHANGED Fifo!vars
<1>. USE TypesSeen
<1>1. /\ UNCHANGED <<headAddress, tailAddress, space, buffer, result, loads>>
      /\ Call(c) \/ Step(c)
  BY DEF LockToPush, LockToPop, PushRoom, PopFound, queue, Step, Push, Pop
<1>2. Stage(c)' = Stage(c) /\ AnswerOf(c)' = AnswerOf(c)
  BY <1>1 DEF LockToPush, LockToPop, PushRoom, PopFound, Goto, Stage, AnswerOf
<1>3. /\ Contents' = Contents
      /\ Stages' = [Stages EXCEPT ![c] = Stages[c]]
      /\ Answers' = [Answers EXCEPT ![c] = Answers[c]]
      /\ Items' = [Items EXCEPT ![c] = Items[c]]
  BY <1>1, <1>2, SeenMoves, SameRing
<1>4. Stages' = Stages /\ Answers' = Answers /\ Items' = Items
  BY <1>3 DEF Stages, Answers, Items
<1>. QED
  BY <1>3, <1>4 DEF Fifo!vars, Stages, Answers, Items

LEMMA PushMaps ==
  ASSUME NoExactFit, SoleConsumer, FifoInv, NEW c \in Cores
  PROVE  /\ PushNormal(c) \/ PushSplit(c) => Fifo!Insert(c)
         /\ PushFull(c) => Fifo!Refuse(c)
<1>. USE TypesSeen
<1>1. ASSUME PushNormal(c) \/ PushSplit(c) \/ PushFull(c)
      PROVE  /\ Stages[c] = "push" /\ Stages' = [Stages EXCEPT ![c] = "done"]
             /\ Items[c] = Whole(buffer[c]) /\ Items' = Items
             /\ Answers' = [Answers EXCEPT ![c] = IF PushFull(c) THEN "NOT_ENOUGH_SPACE"
                                                                ELSE "SUCCESS_OP"]
  <2>1. /\ pc[c] \in {"push_check", "push_insert"} /\ pc' = [pc EXCEPT ![c] = "unlock"]
        /\ result'[c] = IF PushFull(c) THEN "NOT_ENOUGH_SPACE" ELSE "SUCCESS_OP"
        /\ buffer' = buffer
        /\ Step(c)
    BY <1>1 DEF PushNormal, PushSplit, PushFull, Goto, Answer, Step, Push
  <2>2. Stage(c) = "push" /\ Stage(c)' = "done" /\ AnswerOf(c)' = result'[c]
    BY <2>1 DEF Stage, AnswerOf
  <2>3. Items' = Items
    BY <2>1 DEF Items, Whole
  <2>. QED
    BY <2>1, <2>2, <2>3, SeenMoves
<1>2. ASSUME PushNormal(c) \/ PushSplit(c)
      PROVE  Fifo!Insert(c)
  <2>1. ~QueueIsFull /\ pc[c] = "push_insert"
    BY <1>2 DEF PushNormal, PushSplit, Goto, FifoInv, AccountInv, RoomInv
  <2>2. Len(Contents) < QueueSize \div CodeletSize
    BY <2>1, CountSeen DEF FifoInv
  <2>3. Contents' = Append(Contents, Items[c])
    BY <1>1, <1>2, PushAppends DEF FifoInv
  <2>4. ~PushFull(c)
    BY <2>1 DEF PushFull, Goto
  <2>. QED
    BY <1>1, <1>2, <2>2, <2>3, <2>4 DEF Fifo!Insert, Fifo!Answered, Stages, Items, Answers
<1>3. ASSUME PushFull(c)
      PROVE  Fifo!Refuse(c)
  <2>1. QueueIsFull /\ UNCHANGED <<headAddress, tailAddress, space>>
    BY <1>3 DEF PushFull, queue
  <2>2. Len(Contents) >= QueueSize \div CodeletSize
    <3>1. QueueSize \div CodeletSize \in Nat
      <4>1. QueueSize \in Nat /\ 0 \in Nat
        BY SizeAssumption
      <4>. QED
        BY <4>1, CodeletsIn
    <3>. QED
      BY <2>1, <3>1, CountSeen DEF FifoInv
  <2>. QED
    BY <1>1, <1>3, <2>1, <2>2, SameRing DEF Fifo!Refuse, Fifo!Answered, Stages, Items, Answers
<1>. QED
  BY <1>2, <1>3

LEMMA PopMaps ==
  ASSUME NoExactFit, SoleConsumer, FifoInv, NEW c \in Cores
  PROVE  /\ PopNormal(c) \/ PopSplit(c) => Fifo!Take(c)
         /\ PopEmpty(c) => Fifo!FindEmpty(c)
<1>. USE TypesSeen
<1>1. ASSUME PopNormal(c) \/ PopSplit(c) \/ PopEmpty(c)
      PROVE  /\ Stages[c] = "pop" /\ Stages' = [Stages EXCEPT ![c] = "done"]
             /\ Items' = [Items EXCEPT ![c] = Whole(buffer'[c])]
             /\ Answers' = [Answers EXCEPT ![c] = result'[c]]
  <2>1. /\ pc[c] \in {"pop_check", "pop_take"} /\ pc' = [pc EXCEPT ![c] = "unlock"]
        /\ Step(c)
    BY <1>1 DEF PopNormal, PopSplit, PopEmpty, Goto, Step, Pop
  <2>2. Stage(c) = "pop" /\ Stage(c)' = "done" /\ AnswerOf(c)' = result'[c]
    BY <2>1 DEF Stage, AnswerOf
  <2>. QED
    BY <2>1, <2>2, SeenMoves
<1>2. ASSUME PopNormal(c) \/ PopSplit(c)
      PROVE  Fifo!Take(c)
  <2>1. /\ Contents # <<>> /\ Contents' = Tail(Contents)
        /\ Whole(ReadAt(headAddress)) = Head(Contents)
    BY <1>2, PopTakesFirst DEF FifoInv
  <2>2. buffer'[c] = ReadAt(headAddress) /\ result'[c] = "SUCCESS_OP"
    BY <1>2 DEF PopNormal, PopSplit, Answer
  <2>. QED
    BY <1>1, <1>2, <2>1, <2>2 DEF Fifo!Take, Fifo!Answered, Stages, Items, Answers
<1>3. ASSUME PopEmpty(c)
      PROVE  Fifo!FindEmpty(c)
  <2>1. QueueIsEmpty /\ UNCHANGED <<headAddress, tailAddress, space, buffer>>
        /\ result'[c] = "EMPTY_QUEUE"
    BY <1>3 DEF PopEmpty, queue, Answer
  <2>2. Contents = <<>>
    BY <2>1, CountSeen DEF FifoInv
  <2>3. Items' = Items
    BY <2>1 DEF Items, Whole
  <2>. QED
    BY <1>1, <1>3, <2>1, <2>2, <2>3, SameRing
       DEF Fifo!FindEmpty, Fifo!Answered, Stages, Items, Answers
<1>. QED
  BY <1>2, <1>3

LEMMA ReturnMaps ==
  ASSUME SoleConsumer, FifoInv, NEW c \in Cores, Unlock(c) \/ ReturnQueueEmpty(c)
  PROVE  Fifo!Return(c)
<1>. USE TypesSeen
<1>1. /\ UNCHANGED <<headAddress, tailAddress, space, buffer>>
      /\ pc' = [pc EXCEPT ![c] = "idle"]
      /\ Step(c)
  BY DEF Unlock, ReturnQueueEmpty, queue, Goto, Step
<1>2. Stage(c) = "done" /\ Stage(c)' = "idle"
  BY <1>1 DEF Unlock, ReturnQueueEmpty, Goto, Stage, Subtracted, TailLoaded
<1>3. AnswerOf(c)' = AnswerOf(c)
  <2>1. AnswerOf(c)' = result'[c]
    BY <1>1 DEF AnswerOf
  <2>2. CASE Unlock(c)
    BY <2>1, <2>2 DEF Unlock, Goto, AnswerOf
  <2>3. CASE ReturnQueueEmpty(c)
    BY <2>1, <2>3 DEF ReturnQueueEmpty, Goto, Answer, AnswerOf, Subtracted, TailLoaded, TestedBy
  <2>. QED
    BY <2>2, <2>3
<1>4. /\ Contents' = Contents
      /\ Stages[c] = "done" /\ Stages' = [Stages EXCEPT ![c] = "idle"]
      /\ Answers' = [Answers EXCEPT ![c] = Answers[c]]
      /\ Items' = [Items EXCEPT ![c] = Items[c]]
  BY <1>1, <1>2, <1>3, SeenMoves, SameRing
<1>5. Answers' = Answers /\ Items' = Items
  BY <1>4 DEF Answers, Items
<1>. QED
  BY <1>4, <1>5 DEF Fifo!Return, Stages, Items, Answers

\* queueEmpty answers when it loads the tail for the second time: the ring is
\* empty then if and only if the two loads of the tail agree with the head.
LEMMA LoadMaps ==
  ASSUME NoExactFit, SoleConsumer, FifoInv, NEW c \in Cores, LoadOperand(c)
  PROVE  Fifo!Test(c) \/ UNCHANGED Fifo!vars
<1>. USE TypesSeen
<1>1. /\ UNCHANGED <<headAddress, tailAddress, space, pc, buffer, result>>
      /\ pc[c] = "queueEmpty"
      /\ Step(c)
  BY DEF LoadOperand, Load, queue, Step
<1>2. /\ Contents' = Contents
      /\ Stages[c] = Stage(c) /\ Stages' = [Stages EXCEPT ![c] = Stage(c)']
      /\ Answers[c] = AnswerOf(c) /\ Answers' = [Answers EXCEPT ![c] = AnswerOf(c)']
  BY <1>1, SeenMoves, SameRing
<1>3. Items' = Items
  BY <1>1 DEF Items, Whole
<1>4. ASSUME Stage(c)' = Stage(c), AnswerOf(c)' = AnswerOf(c)
      PROVE  UNCHANGED Fifo!vars
  <2>1. Stages' = Stages /\ Answers' = Answers
    BY <1>2, <1>4 DEF Stages, Answers
  <2>. QED
    BY <1>2, <1>3, <2>1 DEF Fifo!vars, Stages, Items, Answers
<1>5. loads[c] \in Loads /\ headAddress # QueueSize /\ tailAddress # QueueSize
  BY SizeAssumption DEF Offsets
<1>6. CASE Load(c, "head1", headAddress) \/ Load(c, "tail1", tailAddress)
  <2>1. loads'[c].tail2 = loads[c].tail2 /\ loads[c].tail2 = QueueSize
    BY <1>1, <1>5, <1>6 DEF Load, TestedBy, Compared, Loads
  <2>. QED
    BY <1>1, <1>4, <2>1 DEF Stage, AnswerOf, TailLoaded
<1>7. CASE Load(c, "head2", headAddress)
  <2>1. /\ loads'[c].tail2 = loads[c].tail2
        /\ loads'[c].tail1 = loads[c].tail1 /\ loads'[c].head1 = loads[c].head1
    BY <1>5, <1>7 DEF Load, Loads
  <2>. QED
    BY <1>1, <1>4, <2>1 DEF Stage, AnswerOf, TailLoaded
<1>8. CASE Compared(c) /\ Load(c, "tail2", tailAddress)
  <2>1. /\ loads'[c].tail2 = tailAddress /\ loads[c].tail2 = QueueSize
        /\ loads'[c].tail1 = loads[c].tail1 /\ loads'[c].head1 = loads[c].head1
    BY <1>5, <1>8 DEF Load, Loads
  <2>2. Stage(c) = "test" /\ Stage(c)' = "done"
    BY <1>1, <1>5, <2>1 DEF Stage, TailLoaded
  <2>3. AnswerOf(c)' = IF Contents = <<>> THEN "is_empty" ELSE "is_not_empty"
    <3>1. headAddress = tailAddress <=> Contents = <<>>
      BY CountSeen DEF FifoInv
    <3>2. loads[c].head1 = headAddress
          /\ (loads[c].tail1 # headAddress => headAddress # tailAddress)
      BY <1>1, <1>8 DEF TestedBy, Compared
    <3>3. headAddress <= headAddress
      BY SizeAssumption DEF Offsets
    <3>. QED
      BY <1>1, <1>5, <2>1, <3>1, <3>2, <3>3 DEF AnswerOf, TailLoaded
  <2>. QED
    BY <1>2, <1>3, <2>2, <2>3 DEF Fifo!Test, Fifo!Answered, Stages, Items, Answers
<1>. QED
  BY <1>6, <1>7, <1>8 DEF LoadOperand

LEMMA InitMaps == ASSUME NoExactFit, Init PROVE Fifo!Init
<1>1. Contents = <<>>
  BY AccountInit, CountSeen DEF Init
<1>2. /\ [c \in Cores |-> Stage(c)] = [c \in Cores |-> "idle"]
      /\ [c \in Cores |-> AnswerOf(c)] = [c \in Cores |-> "NONE"]
  BY DEF Init, Stage, AnswerOf
<1>3. [c \in Cores |-> Whole(buffer[c])] = [c \in Cores |-> Garbage]
  BY WholeCodelet DEF Init
<1>. QED
  BY <1>1, <1>2, <1>3 DEF Fifo!Init

LEMMA StepMaps ==
  ASSUME NoExactFit, SoleConsumer, FifoInv, [Next]_vars
  PROVE  [Fifo!Next]_(Fifo!vars)
<1>1. CASE UNCHANGED vars
  <2>1. Contents' = Contents
    BY <1>1, SameRing DEF vars
  <2>2. Stages' = Stages /\ Items' = Items /\ Answers' = Answers
    BY <1>1 DEF vars, Stages, Stage, TailLoaded, Items, Whole, Answers, AnswerOf
  <2>. QED
    BY <2>1, <2>2 DEF Fifo!vars, Stages, Items, Answers
<1>2. ASSUME NEW c \in Cores, Call(c) \/ Step(c)
      PROVE  [Fifo!Next]_(Fifo!vars)
  <2>. USE DEF Fifo!Next
  <2>1. CASE Call(c)
    BY <2>1, CallMaps
  <2>2. CASE LockToPush(c) \/ LockToPop(c) \/ PushRoom(c) \/ PopFound(c)
    BY <2>2, HiddenMaps
  <2>3. CASE PushNormal(c) \/ PushSplit(c) \/ PushFull(c)
    BY <2>3, PushMaps
  <2>4. CASE PopNormal(c) \/ PopSplit(c) \/ PopEmpty(c)
    BY <2>4, PopMaps
  <2>5. CASE Unlock(c) \/ ReturnQueueEmpty(c)
    BY <2>5, ReturnMaps
  <2>6. CASE LoadOperand(c)
    BY <2>6, LoadMaps
  <2>. QED
    BY <1>2, <2>1, <2>2, <2>3, <2>4, <2>5, <2>6 DEF Step, Push, Pop
<1>. QED
  BY <1>1, <1>2 DEF Next

\* For all rings that no number of codelets fills exactly, however many cores
\* push and pop: every pushCodeletQueue, popCodeletQueue and queueEmpty
\* answers what a bounded first-in first-out queue would have answered at one
\* instant of the call, if whoever asks queueEmpty, which takes no mutex, is
\* the only one that pops.
THEOREM ImplementsForEverySize ==
  NoExactFit /\ SoleConsumer => (Spec => ImplementsFifo)
<1>. SUFFICES ASSUME NoExactFit, SoleConsumer
              PROVE  Spec => ImplementsFifo
  OBVIOUS
<1>1. FifoInv /\ [Next]_vars => FifoInv'
  BY FifoStep
<1>2. Init => Fifo!Init
  BY InitMaps
<1>3. FifoInv /\ [Next]_vars => [Fifo!Next]_(Fifo!vars)
  BY StepMaps
<1>. QED
  BY FifoInit, <1>1, <1>2, <1>3, PTL DEF Spec, ImplementsFifo, Fifo!Spec
=============================================================================
