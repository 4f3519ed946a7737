# eDARTS in TLA+

TLA+ models of eDARTS (`src/eDARTS`), a codelet runtime for the 16-core
Epiphany chip of the Parallella board: the queues, the barrier and the
synchronization slots that the cores share through each other's memories, with
nothing but a `testset` mutex between them; the schedulers and the tests'
scheduling loop on top of these; and the service that prints for the cores on
the host.  The modules are checked by TLC on small instances; what holds for
every size is proved with TLAPS.

## 1. The system

The chip has no coherent caches and no operating system.  Each core runs one
thread from its own local memory, and reads and writes the memories of the
others through addresses that contain a coreid.  A *codelet* is a function that
runs to completion.  A *synchronization slot* counts the dependencies of a
codelet.  A *threaded procedure* (TP) groups slots and codelets; a *tpClosure*
is the recipe to build one.  A *computation unit* (CU) core executes codelets;
a *scheduling unit* (SU) core builds TPs and executes codelets as well.

| component | state | operations | made correct by |
|---|---|---|---|
| mutex (`multithreading/e_darts_mutex.c`) | a word: 0 or a coreid | `darts_mutex_lock` (spin on testset), `darts_mutex_unlock` | one core inside; always released |
| codelets queue (`assets/codeletsQueue.c`) | head, tail, mutex, a ring of bytes | init, push, pop, `queueEmpty` (no mutex) | a FIFO: nothing lost, torn or reordered; full is not empty |
| tpClosures queue (`assets/tpClosuresQueue.c`) | head, tail, padding, owner, mutex, memory | init, push, own, disown, peak, pop, pop and disown, is empty (half of them without the mutex) | a FIFO of contiguous closures; the owner's view is stable |
| barrier (`multithreading/e_darts_barrier.c`) | counter, mailboxes, mutex | init, `darts_barrier` | nobody leaves early, everybody leaves, phase after phase |
| synchronization slot (`assets/syncSlot.c`) | current count, reset count, codelet template, mutex | init, decrement, reset | no decrement lost; the codelets start once, when the count is 0 |
| schedulers (`runtime/device/e_darts_{cu,su}_scheduler.c`) | the queues of a core | round robin loops, `decDepAndPush`, `addCodelet`, `invokeTP` | codelets in the order of the graph; every ready one runs; no core spins for ever |
| life cycle (`runtime/device/e_darts_rt.c`) | `darts_rt_alive` | start, reset, run, termination codelet | the loops stop when told, and nothing is fired after that |
| print service (`runtime/device/e_darts_print.c`, `runtime/host/darts_print_server.c`) | a buffer and a flag in shared DRAM, a mutex | a core writes and raises the flag; the host polls, prints, clears; stop | every message printed once, whole |
| codelet model (`codeletModel/`) | the structures of TPs and closures | `_invoke`, `closureExec`, constructors | the arguments arrive, the slots are the ones defined |
| tests' scheduling loop (`test/assets/tpClosuresQueue`) | TP heap, slots, `finalSignal` | builds TPs, scans slots, fires, resets, goes from experiment to experiment | closures built once, slots fired once and in order, the test ends |
| software cache (`softcache/cachemanager.S`) | a table of overlays with reference counts | load, call, return, unload | third-party assembly |
| host set-up (`runtime/e_DARTS_init.c`, `src/apps/main.c`) | none | loads the chip | - |

How they interact: a core that satisfies a dependency decrements a slot in some
core's memory and, told that it was the last, pushes the slot's codelets to its
own codelets queue; a CU pops its queue and fires.  Firing may decrement slots,
push codelets and push closures to the SU's queue.  The SU owns its closures
queue, peaks at the oldest closure and disowns: it builds nothing yet.  Building
TPs from closures and firing the codelets of their slots is done by the loop of
the tests, one per consumer, with a barrier between the experiments.  The print
service serves all of them.

What is hard: everything shared is reached by 16 cores at once; several
functions read shared fields without the mutex by design; sizes decide whether
addresses meet; the owner of a closures queue works on memory in place while
others push; a thread released from the barrier may be back at it before the
others are released; the host and the cores hand a buffer to each other with one
flag.  Nothing is persistent and no message is lost: there are no crashes,
restarts or timeouts to model.  The hazards, each at its line, are in
`PROJECT.json`.

## 2. Modules

| module | what it is |
|---|---|
| `CodeletFifo` | abstract: a bounded FIFO, each call taking effect at one instant |
| `CodeletsQueue` | the ring of `codeletsQueue.c`; refines `CodeletFifo` |
| `CodeletsQueueProofs` | theorems about `CodeletsQueue`, the refinement included |
| `ClosureFifo` | abstract: a FIFO with an owner |
| `TpClosuresQueue` | `tpClosuresQueue.c`; refines `ClosureFifo` |
| `TpClosuresQueueProofs` | theorems about its ownership and its memory |
| `TpClosuresQueueRefinement` | the theorem that it implements `ClosureFifo` |
| `MCTpClosuresQueue` | its instance for TLC: closures of two sizes in a memory that they may fill exactly |
| `BarrierPhases` | abstract: all arrive, all are released, each leaves |
| `Barrier` | `e_darts_barrier.c`; refines `BarrierPhases` |
| `BarrierProofs` | theorems about it, the refinement included |
| `SyncSlot` | `syncSlotDecDep` under `decDepAndPush` |
| `SyncSlotProofs` | theorems about it |
| `Runtime` | both schedulers, the calls of a codelet and the life cycle, over abstract queues |
| `MCRuntime` | a program for it: a join on two CUs, an SU that invokes; its slots' codelets are queued by nothing else |
| `RuntimeProofs` | theorems about it |
| `TpClosure` | `tpClosure.h`: `_invoke` and `closureExec` for every number of arguments |
| `ThreadedProcedure` | `threadedProcedure.h`, `syncSlot.c` without sharing: from a closure to a TP |
| `TpScheduling` | the tests' loop, producers and consumers; composes the closures queue, the barrier, TPs and slots |
| `MCTpScheduling` | the tests' own procedures and experiments, and what the theorems ask of them |
| `TpSchedulingProofs` | theorems about it |
| `PrintPort` | abstract: a buffer that holds one message, printed once |
| `PrintFormat` | the copy of message and arguments on the device, the unpacking on the host |
| `PrintService` | the cores and the host's thread around it; refines `PrintPort` |
| `MCPrintService` | two messages for it, and the facts about them that its theorems take as hypotheses |
| `PrintServiceProofs` | theorems about it, the refinement included |

**State.** Fields of the C structures are variables of the same names.
Addresses are offsets from the first byte after the structure: the C code only
compares and subtracts addresses of one queue.  `pc` says where each core is in
the function it runs and the other per-core variables are the locals that
outlive a step (the caller's buffer, a loaded value, a loop index).

**Steps.** The compiler is called without an optimisation flag, so each load
and store of the source is made where it is written.  An action is the part of
a function that the other cores can see happen at once: the taking of the mutex
(`testset`, one atomic instruction), a test or an update under the mutex of
fields that nobody accesses without it, each load of a field read without it,
each store to a word that others spin on, and the releasing of the mutex.
Stores of one core to one memory arrive in the order they were made, as the
chip's write network guarantees.

**Composition.** `Runtime` and `TpScheduling` use a queue or a barrier as the
abstract module that the detailed one is shown to implement: a push, a pop or an
arrival is one step.  What a core does to memory that only it reaches (its own
TPs, in `TpScheduling`) is as coarse as what others can see of it: firing is
one step per codelet, and a slot that is passed over takes none, since nobody
else changes it meanwhile.  Where the addresses matter beyond the FIFO, as for
the size of the closures that still fit, they are kept.

**Data.** A byte of the codelets ring is a pair (codelet, position in it), or
`Garbage`: a codelet comes out whole when its bytes do.  A word of the closures
queue is the same for closures, and the size in a closure's header is
`ClosureSize`.  The contents that `TpClosuresQueue` shows to `ClosureFifo` are the
closures that begin between the head and the tail, over the wrap or not, in the
order in which the head comes to them.  In `TpScheduling` a closure carries its arguments, a word each.
A byte of a printed argument is (message, argument, byte), and a conversion is
its letter and the bytes it was given.  What a codelet computes is left out: it
is what it signals, invokes and ends.  Debug prints and the tests of a queue's
own address are left out but for one, `IsValid` in `Runtime`, where an address
computed by the code does fail.

**The closures' macros.** `tpClosure.h` writes out one text 26 times, for 0 to
25 arguments.  `TpClosure` has that text once with the number as a parameter,
and the exceptions as sets of numbers: `StrayBackslash` and `MisspeltInvoke` are
the numbers whose macros do not compile, `Forgotten` is the argument that the
macro for twenty does not store.  `map` names for each definition the macros in
which it was read; together they are part of the family only.

**Mutations.** Definitions whose comment starts with "Mutation" are what a
plausible mistake would make of the definition that follows.  No specification
uses them; `PROJECT.json` says which property each of them breaks.

## 3. What is checked

Runs that pass:

- `codelets_runtime`: two producers, one of which is also the consumer, as a
  core of the runtime is.  `ImplementsFifo`: every push, pop and unlocked
  `queueEmpty` is linearizable, whole codelets in order.  `CodeletInserted`: a
  successful push leaves one more codelet's bytes in use.  `LockReleased`: under
  fairness of the cores inside a function, the mutex is always released.  A ring
  of 7 bytes and codelets of 3: the straddling branch is taken at two different
  offsets, every offset of the ring is reached, the queue fills and drains.
- `closures`: two interchangeable cores push closures of 2 and 3 words to 7
  words, own, disown, peak and pop, in any order, owner or not, with or without
  having peaked; `queueOwner` starts with 0, with one of them, or with what the
  memory held.  Padding, both kinds of wrap, every refusal and closures that end
  at the end of the memory (3 + 2 + 2) occur.  `CheckedOwnerStays`: whoever
  passed the unlocked test of `queueOwner`, or holds a pointer to the oldest
  closure, still is the owner.  `MutexGivenBack`: only the pop of an empty queue
  returns with the mutex taken.  `FifoUnlessStranded`: every step is one of
  `ClosureFifo`, except for the pop of a last closure that ends at the end of the
  memory (`Stranded`; see `closures_end`).  The run allows deadlock: after the pop
  of an empty queue all may wait for the mutex.
- `barrier`: four threads, without end.  `ImplementsPhases`, `PendingSignals`
  (a mailbox about to be signalled is that of a thread of this phase, still
  waiting, and no two are the same), `EveryoneLeaves`.
- `sync_slot`: three cores, three dependencies, two codelets.  The run allows
  deadlock: it ends when every dependency is satisfied.
- `runtime`: two CUs and the SU run a program whose graph joins over two CUs,
  fills a queue to its three places, and invokes as often as closures fit; cores
  reset and run again whenever they are outside the loop.  One CU has the
  termination codelet in its queue: it may leave its loop with the slot's
  codelets still queued behind it, and finds them when it is run again.  `DependencyOrder`:
  wherever a codelet of a slot is queued, what it depends on was fired before,
  on whichever core.  `SlotsFire`: and it is fired in the end, but for the
  exceptions the property names (its core was stopped; the slot was decremented
  again before the late read).  `CallsReturn`: no codelet spins for ever in a
  push; that is only so because the program fits its queues.
  `NoneFiredAfterTheEnd` and `LeavesWhenTold`: after the termination codelet its
  core fires nothing, whatever its queue still holds, and leaves its loop.
- `tp_scheduling`: the three experiments of the tpClosures queue test in a row,
  four cores for the test's sixteen, a queue of ten words.  Neither in these ten
  words nor in the test's 25 does a row of an experiment's closures end where the
  memory ends, as `RowsEndBefore` in `MCTpScheduling` evaluates; otherwise the
  abstract queue would not be the one of the code.  `BuiltOnce`: closures
  accepted are the ones in the queue plus the ones built, whatever consumers
  take turns.  `FiredInOrder`: each slot once, after all the codelets that signal
  it, the reset behind it notwithstanding.  `CodeletsDone`: a consumer that has
  left has fired all it has built, wherever in a scan `finalSignal` came.
  `TestEnds`: the whole test ends, unless a producer is still pushing to a full
  queue when the last consumer leaves; the run shows that only that can happen,
  and reaches it.  A program that has ended stops: the run allows deadlock.
- `print`: two cores, two messages (text with an integer and a float; one cut
  off inside its last conversion by a buffer of six characters), buffer bytes
  left over from earlier messages, and in the `argTypes` entry that nobody sets a
  terminator, an integer, a float or a string letter.  `ImplementsPort`: one message at a time, each
  printed once.  `PrintedWhole`: it is printed with the bytes its caller passed,
  unless a write back met it; where a string letter lay behind `argTypes`, the
  first byte of the first argument is a zero, and that is all (`Printed`).  `PrintReturns`: a core that waits for the host
  gets its turn until the server is stopped.  When it is, cores may wait for
  ever, so the run allows deadlock.

Runs that find the code at odds with its documentation (`findings` in
`PROJECT.json` quotes both):

- `closures_end`: a producer fills the memory to its last word; when the owner
  pops the last closure, the head goes back to the beginning and the tail stays
  at the end.  The queue is empty and does not look so: closures that were
  removed are peaked at and popped once more (`PopRemoves` quotes
  `tpClosuresQueue.h:172-173`).
- `sync_slot_twice`: two cores are both told that the slot is ready.
- `print_torn`: the write back that clears the flag overwrites the message that
  a core has begun to put into the buffer, as the flag lies first.
- `cu_invoke`: an invoke of a CU computes an address without a coreid and spins.
- `tp_twenty_arguments`: the twentieth argument of a closure is never stored.

**Fairness.** `FairSpec` is weak fairness of every core's steps inside a
function or a loop: a core is a processor of its own that nothing preempts.  In
`PrintService` the host's thread is fair too; nobody has to print or to stop the
server.  In `Runtime` nobody has to start, reset or run a core.  In
`TpScheduling` every core goes through `main`.  Calls are fair only in `Barrier`
(every thread of the tests comes to the same barriers) and in `SyncSlot` (the
program satisfies its dependencies).  No fairness of the mutex is assumed:
`testset` may pass over the same core for ever, so no property says that a given
push of the detailed queues ends.  In `Barrier` none is needed, as the threads
that win the mutex end up waiting for the one that did not; in `PrintService`
the property is about the core that has it.  Where the abstract queue is used,
one step stands for a lock, an update and an unlock.

**Bounds.** The numbers of cores, sizes, closures, codelets of the program and
experiments are the only bounds: no model counts anything without limit.  Words
are small (`MaxWord` 3 or 7, addresses of 2 + 3 bits for 12 + 20): the arithmetic
that matters is the wrap below 0 and the shift of a coreid, which these have.
The queue of `tp_scheduling` has ten words, so that two closures of
the test's sizes fill it and padding occurs, and its producers push for several
of the test's each; ring sizes of the other runs are chosen so that both
branches, every wrap and the full queue occur.  The codelets ring of
`codelets_runtime` is not a multiple of the codelets, as the runtime's is not
(200 bytes and 12); the closures queue is filled exactly.

**Met while modelling**, without a run of their own:

- Codelets queue: where a whole number of codelets fills the ring, the push that
  fills it makes it look empty.  The runtime's 200 bytes are safe (12 does not
  divide 200), the test's 300 are not.  `pushCodeletQueue` returns 2 and
  `popCodeletQueue` returns 3 where `codeletsQueue.h:106,124` say 1, and
  `popedCodelet = 0` (`codeletsQueue.c:84`) sets the parameter and not the
  caller's codelet.
- tpClosures queue: a pop of the empty queue returns with the mutex taken;
  initialisation does not set `queueOwner`.  The closures of `closures_end` are
  not far off: the only queue that the repository pops has 100 bytes, 25 words,
  and closures of 3 and 5 words, of which 5 x 5 or 5 x 3 + 2 x 5 end there.  The
  test does not meet it because each experiment has a single closure of 5 words
  and starts with a new queue, and 3 n and 3 n + 5 are never 25.
- Barrier: the last thread also signals the mailbox that nobody registered, a
  store to address 0; a barrier of one thread never opens.
- Mutex: `darts_mutex_lock` tests the offset bits of the address, while its
  comment speaks of the coreid.
- Schedulers: `ADD_CODELET` names a field `add` that `scheduler_t` does not have,
  and `e_darts_rt.c:28` follows `dartsRtScheduler`, a structure, as a pointer;
  the SU peaks at closures and never pops
  them, so the queue fills once and for all; a core that pushes to its own full
  queue spins for ever; a slot decremented by two cores that were both told of an
  earlier one goes below 0.
- Life cycle: the termination codelet clears the flag of its own core only, where
  its comment says "Iterate over all the cores"; `e_darts_reset` leaves the
  queues, which `e_darts_rt.h:36-37` says it clears; `e_darts_run` ignores its
  closure.
- Closures: the macros for 7 to 10, 13 and 14 arguments do not compile.
- Print: a `%c` takes a byte of the buffer but a word of the arguments, so what
  follows it is misread; the copy starts at `argTypes[argCount]`, which nobody
  set, so that an `s` left there by an earlier `%s` zeroes a byte of the first
  argument (`PrintedWhole` allows for it: the code's own "TODO Fix %s" promises
  nothing); `myChar[2]` is not set and `myChar[3]` lies past the array; a float can be
  longer than `tempBuffer[80]`; the server's first write overwrites the pointer
  to the mutex, which lies where its own structure has padding; "Wait for the
  whole buffer to reach memory" (`e_darts_print.c:62`) has no code, and the models
  take the stores as arriving in order.
- Tests: the first experiment does not look at the answers of its pushes; every
  consumer hands out DRAM regions from the same address, and
  `myLocalMemHeap` adds the core's base address once for each TP; nothing bounds
  the TP heap; closures left in the queue at the end of an experiment are never
  built.

## 4. What is proved

In `CodeletsQueueProofs`, for any sets of cores and codelets, any ring size and
any codelet size up to it (`SizeAssumption`), coreids being different from the
free mutex's 0 (`CoreAssumption`):

- `TypeCorrect`: head and tail stay in the ring, bytes stay bytes.
  `TypeOK` is inductive by itself; the lemmas `WrapInside`, `StoredAtType` and
  `ReadAtType` are the geometry it rests on.
- `MutualExclusion`, from the inductive `MutexInv`: a core is between lock and
  unlock exactly when the mutex holds its coreid.
- `InsertedForEverySize`: under `NoExactFit` (no number of codelets fills the
  ring) `CodeletInserted` holds.  `CodeletInserted` is not inductive: the
  strengthening `AccountInv` adds that the bytes in use are a whole number of
  codelets, and that the room or the codelet a core found is still there when it
  uses it, which is where mutual exclusion comes in.  `NoExactFit` is needed:
  with a `QueueSize` of 6 and codelets of 3, TLC finds the property violated.
- `ImplementsForEverySize` (`ImplementsFifo`), under `NoExactFit` and
  `SoleConsumer`: whoever asks `queueEmpty` is the only core that pops, as is the
  consumer of the test, its only caller
  (`test/assets/codeletQueue/e_codQueue.c:85`).  The contents of the FIFO are read
  off the ring, codelet by codelet.  Every step is mapped to one of `CodeletFifo`
  or to a stutter: a push, straddling or not, appends its codelet and leaves the
  bytes of the others; a pop takes the bytes of the first; and `queueEmpty`
  takes effect at one of its four loads.  For this last, `FifoInv` adds
  `CallsInv` to `AccountInv`: what the only consumer has loaded of the head is
  still the head, and a ring found not empty at the first load of the tail is
  not empty at the second, as only pushes can have come between.  With a second
  consumer both are false, which is why the hypothesis is there.

In `TpClosuresQueueProofs`, with coreids different from 0 (`CoreAssumption`) and
nothing assumed of the sizes or of what `queueOwner` starts with:

- `OwnerStays` (`CheckedOwnerStays`).  The inductive `OwnerInv` adds which
  function a core can be in at which place.  The queue is only taken while it
  has no owner, and then no core is past the test; it is only given up by its
  owner, which drops its pointer.  The ring's contents play no part, so the
  theorem also covers sizes that break the FIFO.
- `TypeCorrect`.  `TypeOK` is far from inductive, since a pop advances the head by
  a number it reads from the memory.  The inductive `FullInv` has three more
  parts: `CallInv`, with the mutex and what its holder has found; `RingInv`, that
  the memory from the head to the tail, or to the padding and then from 0 to the
  tail, is tiled with whole closures (`Tiled`); and `FoundInv`, that what was
  found of the room or of the oldest closure is still so.  Where the tail stands
  at the end of the memory and the head is sent to 0, the head must be at a
  closure all the same: `RingInv` keeps that what the head has passed on its way
  is tiled as well.
- `OnlyAnEmptyPopKeepsTheMutex` (`MutexGivenBack`), from `OwnerInv` and `CallInv`.

In `TpClosuresQueueRefinement`, for the same cores and closures:

- `FifoForEverySize` (`FifoUnlessStranded`), for every size and every initial
  owner: each step is one of `ClosureFifo`, a stutter, or the pop of a last closure
  that ends at the end of the memory.  The contents are a set of addresses ordered
  by `Reach`, so the proof is about the rank of an address (`Cardinality` of those
  before it): `InsertAppends`, that an address that is reached after all the others
  is the last of the row, and `PopTakesFirst`, that without its first address the
  others move up by one, whether or not the head wraps.
- `ImplementsFifo`: hence a queue for which `Stranded` never holds implements
  `ClosureFifo`.  No condition on the sizes alone is given for that: the only
  queue the repository pops has sizes that can meet the end (see above), and it is
  the order of the pushes that keeps it from it.

In `BarrierProofs`, for two threads or more (`NotAlone`: a thread that is alone
waits for itself):

- `TypeCorrect` and `SignalsReachTheWaiting` (`PendingSignals`), from
  `BarrierInv`: the mutex is held between its lock and its unlock, a thread that
  has not begun to wait has its mailbox 0, what a thread found about the counter
  still holds, and the last slot is empty.
- `NobodyLeavesEarly` (`ImplementsPhases`): every step is one of `BarrierPhases`
  or changes no thread's phase.  The step that opens the barrier needs
  `OthersRegistered`, by counting: as many slots as other threads, no two slots
  naming the same thread, so every thread is named.

In `SyncSlotProofs`, for any number of cores, dependencies and codelets that
the words can hold (`CoreAssumption`, `DepAssumption`):

- `TypeCorrect`; `EveryDependencyCounted` (`DependenciesCounted`) and
  `NoCodeletTooEarly` (`NoneTooEarly`), from `CountInv`: the mutex is held from
  the load to the unlock, so what was loaded is still the count when the
  decrement is stored.

In `RuntimeProofs`, for any program, cores and rooms (`ProgramAssumption`,
`RoomAssumption`, `AddressAssumption`):

- `TypeCorrect`: no queue is pushed beyond its room and counts stay words.  The
  inductive `TypeInv` adds that what a core pushes is a codelet of the call it is
  making.
- `NothingAfterTheFinalCodelet` (`NoneFiredAfterTheEnd`): a core whose flag is 0
  is never at its queue: it is still in the call that cleared the flag, or before
  its next test, or outside.  A flag is cleared by its own core only, which is
  what the theorem rests on and what `e_darts_rt.c:4` says should change.
- `GraphOrder` (`DependencyOrder`), for programs with `TemplatesOfSlots`: a slot's
  codelet is the codelet of no other slot, and neither an `addCodelet` nor the
  queues' first contents bring it in (`TemplatesAssumption` in `MCRuntime`).  The
  property counts the calls that decrement a slot among the codelets fired, as a
  set (`Satisfying`).  Two inductive invariants carry it.  `CountInv`: what the
  slot counts, and the calls of the fired codelets, are together no less than the
  dependencies and the decrements that are still to be made (`Outstanding`, each
  decrement by its core and its place from the end of the core's calls, so that it
  keeps its name while the calls before it are made).  Firing adds as many to one
  side as to the other (`FireCount`); a decrement takes one from both, or wraps
  the count to the largest word, which keeps the inequality (`DecDepCount`).
  Hence a core that reads 0 knows that the calls have been made.  `OrderInv`:
  where a slot's codelet is queued, was fired or is being pushed, that was so,
  and it stays so.

In `PrintServiceProofs`, for any cores, messages and sizes of the buffer
(`CoreAssumption`, `NoMessageAssumption`, `SizesAssumption`):

- `PrintsInTurn` (`ImplementsPort`) and `OneCorePrints`, from the inductive
  `PortInv`: the mutex names the core inside, a core that fills the buffer has
  found the flag 0 and nobody else can raise it, a server that serves has found
  it 1 and nobody else can clear it, and the flag is 1 exactly while a message
  is requested.
- `TypeCorrect`, for messages with `ArgumentsFit` (the copying loop tests the end
  of the field before each argument and not behind it).
- `PrintedAsPassed` (`PrintedWhole`): from `HoldContents` and `FormatsAgree`, that
  the host's unpacking inverts the device's packing when nothing comes between
  them, every message is printed as it was passed (as `Printed` has it where a string
  type lay behind `argTypes`), unless a write back met it.
  `BufferInv` follows the contents through the interleavings: what a core has
  written stays until the flag is cleared again, and what the server has read is
  what lay there while the flag was up.  The hypotheses are about the functions
  of `PrintFormat`, which fold over texts and are beyond the prover;
  `MessagesAssumption` in `MCPrintService` has TLC evaluate them for the run's two
  messages, over every content the buffer can have held before and every letter
  behind `argTypes`, string types included.

In `TpSchedulingProofs`, for any procedures, experiments, cores and sizes of the
queue (`DefinitionAssumption`, `WordAssumption`, `ExperimentAssumption`):

- `ArgumentsForAllButTwenty` (`ArgumentsArrive`): if no procedure has twenty
  arguments.  From `TypeInv`, by which queue and heaps hold nothing but closures
  that `_invoke` has made and what was built from them.
- `EveryClosureIsBuiltOnce` (`BuiltOnce`).  Not inductive: it needs `OwnerInv`
  (a core about to build or to pop owns the queue, which is not empty) so that no
  two are, and `PhaseInv` (an experiment runs between an even number of barriers
  and the next) so that no core is inside the loop when the leader resets the
  queue.  `OfAppend` and `OfTail` are the counting.

- `TypeCorrect`.  The tail is only known to stay in the queue from where the
  closures lie: `LayInv` says that the entries are one row from the head to the
  tail, or two, the second before the first (`Rows`), and that none ends beyond
  the queue.  This is about the FIFO of `TpScheduling`, which is that of the code
  where `RowsEndBefore` holds of the experiments.
- `SlotsFireInOrder` (`FiredInOrder`), if every procedure's counts match
  (`CountsMatch`: a slot's number of dependencies is the number of codelets that
  signal it, with the constructor's own signal; nothing in the code compares
  them, and a count that does not match makes a procedure that stops or fires
  too soon).  `SlotInv`: a slot that was not fired counts the signals still to
  come (`Remaining`, a set of codelets by slot and number), so at 0 every codelet
  that signals it has fired; a slot that was fired and reset has none to come, so
  its new count stays.  In between, some of a slot's codelets have fired and
  some not, which `SlotInv` follows for the one slot that a consumer is at.
- `NothingLeftBehind` (`CodeletsDone`), if in addition no slots wait for each
  other in a circle (`Ordered`: every set of slots has one that no other of the
  set signals).  A consumer leaves after `stillExecuting` came out false, and
  `LoopInv` says what that means: a whole scan, from the first slot of the first
  procedure, in which none was ready, and nothing built since.  With `SlotInv`
  the slots that have not fired would each wait for one of them; `Ordered` says
  that there are none.  Where `finalSignal` came in between plays no part.

The two facts about procedures are evaluated by TLC for those of the tests
(`ProgramAssumption` in `MCTpScheduling`).

Model-checked only: the conversions of `PrintFormat` (they fold over texts, and
what a fold computes is an induction that takes the folded operator as a
parameter, which the provers cannot instantiate); and all liveness, which is out
of the prover's reach under fairness: `LockReleased`, `EveryoneLeaves`,
`SlotFires`, `PrintReturns`, `SlotsFire`, `CallsReturn`, `LeavesWhenTold`,
`TestEnds`.  Every safety property that a passing run checks has a theorem.

## 5. Not modelled, and what is left to prove

- The software cache is third-party assembly that nothing calls; the host set-up
  and the applications have no state (`e_DARTS_init.c` does nothing, and
  `src/apps/main.c` includes a header that the repository does not have).
- The memory regions of threaded procedures (DRAM, local, distributed): pointers
  that only codelets follow.
- The mutex's address check: no structure of the repository has such an address.

To prove next: that a fired slot's codelets carry the numbers 0 to `numExec` - 1
in `SyncSlot` when a single core is told of it; and, under a bound on how much a
program pushes, that a core's queue always has the room that `CallsReturn` needs.
