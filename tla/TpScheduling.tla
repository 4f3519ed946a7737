----------------------------- MODULE TpScheduling -----------------------------
(***************************************************************************)
(* From closures to codelets: the scheduling loop of                        *)
(* src/eDARTS/test/assets/tpClosuresQueue/e_tpClosuresQueue_test.c, the     *)
(* only code that builds threaded procedures from the closures of the queue *)
(* and fires the codelets of their slots.  Its main goes through three      *)
(* experiments (a producer and a consumer, many producers, many of both)    *)
(* with a barrier and a reset in between; Experiments says who consumes,    *)
(* what the others push, and how.                                           *)
(*                                                                          *)
(* The queue is the FIFO, and the barrier the phases, that their own        *)
(* modules are shown to implement: an operation on either is one step.  The *)
(* FIFO keeps where each closure lies, as that decides what is refused.  It *)
(* is the queue but for one case, TpClosuresQueue's Stranded: when the last *)
(* closure that is popped ends where the memory ends.  In the test it never *)
(* does: an experiment has one closure of 5 words and others of 3, a row of *)
(* them begins at 0, and no row ends at 25 (RowsEndBefore in                *)
(* MCTpScheduling).                                                         *)
(* Slots belong to the consumer that built them, so nobody comes between    *)
(* its steps on them.                                                       *)
(***************************************************************************)
EXTENDS ThreadedProcedure, Integers

CONSTANTS Cores,
          Leader,       \* core (0,0), which initialises and resets
          Experiments,  \* what main calls, in this order
          QueueWords    \* newSize of initTpClosuresQueue

\* An experiment: the cores with a scheduling loop; what each other core pushes;
\* whether a refused push is tried again; whether the only consumer owns the
\* queue all the time.
ExperimentType == [consumers : SUBSET Cores, work : [Cores -> Seq(TPnames)],
                   retries : BOOLEAN, keeps : BOOLEAN]

ASSUME ExperimentAssumption ==
    /\ Leader \in Cores
    /\ 0 \notin Cores
    /\ QueueWords \in Nat \ {0}
    /\ Experiments \in Seq(ExperimentType)
    /\ Experiments # <<>>

VARIABLES finalSignal,
          queue,          \* the closures in the queue and where they lie
          queueOwner,     \* 0 or a core
          unbuilt,        \* of each procedure, closures pushed minus procedures built
          heap,           \* the threaded procedures each core has built
          at,             \* the procedure and the slot that its scan has come to
          left,           \* codelets of that slot still to fire
          invoking,       \* what the fired codelet has still to invoke
          stillExecuting,
          work,           \* what each core has still to push
          barriers,       \* how often each core has come to the barrier
          pc

queueVars == <<queue, queueOwner, unbuilt>>
scanVars == <<at, left, invoking, stillExecuting>>
vars == <<finalSignal, queueVars, heap, scanVars, work, barriers, pc>>

Goto(c, from, to) == pc[c] = from /\ pc' = [pc EXCEPT ![c] = to]

\* The state after e_init_runtime; the host has cleared finalSignal.
Init == /\ finalSignal = 0
        /\ queue = <<>>
        /\ queueOwner = 0
        /\ unbuilt = [t \in TPnames |-> 0]
        /\ heap = [c \in Cores |-> <<>>]
        /\ at = [c \in Cores |-> <<1, 1>>]
        /\ left = [c \in Cores |-> 0]
        /\ invoking = [c \in Cores |-> {}]
        /\ stillExecuting = [c \in Cores |-> FALSE]
        /\ work = [c \in Cores |-> <<>>]
        /\ barriers = [c \in Cores |-> 0]
        /\ pc = [c \in Cores |-> "begin"]

\* Two barriers for each experiment: one that ends it, one after the reset.
Experiment(c) == Experiments[(barriers[c] \div 2) + 1]

-----------------------------------------------------------------------------
\* The queue of closures.

Words(closure) == ClosureWords(Len(closure.args))
HeadAddress == IF queue = <<>> THEN 0 ELSE Head(queue).address
TailAddress == IF queue = <<>> THEN 0
               ELSE queue[Len(queue)].address + Words(queue[Len(queue)].closure)

MaxFreeSpace ==
    IF TailAddress < HeadAddress THEN HeadAddress - TailAddress
    ELSE IF QueueWords - TailAddress >= HeadAddress THEN QueueWords - TailAddress
    ELSE HeadAddress

Fits(closure) == Words(closure) < MaxFreeSpace

\* Mutation: no padding, the closure runs over the end.
PositionAtTail(closure) == TailAddress

Position(closure) ==
    IF TailAddress <= HeadAddress \/ QueueWords - TailAddress >= Words(closure)
    THEN TailAddress ELSE 0

\* pushTpClosureQueue that answers SUCCESS_OP.
Push(closure) ==
    /\ Fits(closure)
    /\ queue' = Append(queue, [closure |-> closure, address |-> Position(closure)])
    /\ unbuilt' = [unbuilt EXCEPT ![closure.tp] = @ + 1]
    /\ UNCHANGED queueOwner

NewClosure(t) == Invoke(t, Program[t].args)

\* darts_barrier, from where a core is in its program.
Arrive(c, from) ==
    /\ Goto(c, from, "waiting")
    /\ barriers' = [barriers EXCEPT ![c] = @ + 1]

-----------------------------------------------------------------------------
\* The producers.

\* The consumer that keeps the queue owns it here, without a look at the answer.
Begin(c) ==
    /\ Goto(c, "begin", IF c \in Experiment(c).consumers THEN "test" ELSE "push")
    /\ work' = [work EXCEPT ![c] = Experiment(c).work[c]]
    /\ queueOwner' = (IF /\ c \in Experiment(c).consumers
                         /\ Experiment(c).keeps
                         /\ queueOwner = 0
                      THEN c ELSE queueOwner)
    /\ UNCHANGED <<finalSignal, queue, unbuilt, heap, scanVars, barriers>>

\* A refused push is tried again, or lost where the experiment does not look at
\* the answer.
PushNext(c) ==
    LET closure == NewClosure(Head(work[c]))
    IN  /\ pc[c] = "push"
        /\ work[c] # <<>>
        /\ Fits(closure) \/ ~Experiment(c).retries
        /\ IF Fits(closure) THEN Push(closure) ELSE UNCHANGED queueVars
        /\ work' = [work EXCEPT ![c] = Tail(@)]
        /\ UNCHANGED <<finalSignal, heap, scanVars, barriers, pc>>

PushedAll(c) ==
    /\ Arrive(c, "push")
    /\ work[c] = <<>>
    /\ UNCHANGED <<finalSignal, queueVars, heap, scanVars, work>>

-----------------------------------------------------------------------------
\* The consumers' loop.

Test(c) ==
    /\ Goto(c, "test", IF finalSignal = 1 /\ ~stillExecuting[c] THEN "leave"
                       ELSE IF Experiment(c).keeps THEN "look" ELSE "own")
    /\ stillExecuting' = [stillExecuting EXCEPT ![c] = FALSE]
    /\ UNCHANGED <<finalSignal, queueVars, heap, at, left, invoking, work, barriers>>

\* Mutation: the owner is not asked for.
OwnUntested(c) ==
    /\ Goto(c, "own", "look")
    /\ queueOwner' = c
    /\ UNCHANGED <<finalSignal, queue, unbuilt, heap, scanVars, work, barriers>>

\* Tried until it succeeds.
Own(c) ==
    /\ Goto(c, "own", "look")
    /\ queueOwner = 0
    /\ queueOwner' = c
    /\ UNCHANGED <<finalSignal, queue, unbuilt, heap, scanVars, work, barriers>>

AfterQueue(c) == IF Experiment(c).keeps THEN "scan" ELSE "disown"

\* isTpClosureQueueEmpty, and peakTopElement, which fails without ownership.
Look(c) ==
    /\ Goto(c, "look", IF queue # <<>> /\ queueOwner = c THEN "build" ELSE AfterQueue(c))
    /\ UNCHANGED <<finalSignal, queueVars, heap, scanVars, work, barriers>>

Build(c) ==
    /\ Goto(c, "build", "pop")
    /\ queue # <<>>
    /\ heap' = [heap EXCEPT ![c] = Append(@, Built(Len(@), Head(queue).closure))]
    /\ unbuilt' = [unbuilt EXCEPT ![Head(queue).closure.tp] = @ - 1]
    /\ UNCHANGED <<finalSignal, queue, queueOwner, scanVars, work, barriers>>

\* popTopElementQueue
Pop(c) ==
    /\ Goto(c, "pop", AfterQueue(c))
    /\ queue # <<>>
    /\ queue' = Tail(queue)
    /\ UNCHANGED <<finalSignal, queueOwner, unbuilt, heap, scanVars, work, barriers>>

Disown(c) ==
    /\ Goto(c, "disown", "scan")
    /\ queueOwner = c
    /\ queueOwner' = 0
    /\ UNCHANGED <<finalSignal, queue, unbuilt, heap, scanVars, work, barriers>>

-----------------------------------------------------------------------------
\* The scan over the slots of the procedures.

Slot(c) == heap[c][at[c][1]].slots[at[c][2]]

\* Mutation: a slot with one dependency left is ready.
IsReadyAtOne(slot) == slot.currentDep <= 1

IsReady(slot) == slot.currentDep = 0

\* The slots that the scan has still to come to and would find ready now.
NotBefore(p, q) == p[1] > q[1] \/ (p[1] = q[1] /\ p[2] >= q[2])
ReadyAhead(c) ==
    {p \in UNION {{i} \X DOMAIN heap[c][i].slots : i \in DOMAIN heap[c]} :
        NotBefore(p, at[c]) /\ IsReady(heap[c][p[1]].slots[p[2]])}

ScanEnd(c) ==
    /\ Goto(c, "scan", "test")
    /\ ReadyAhead(c) = {}
    /\ at' = [at EXCEPT ![c] = <<1, 1>>]
    /\ UNCHANGED <<finalSignal, queueVars, heap, left, invoking, stillExecuting, work, barriers>>

\* The first of them: the slots that are passed over do not change meanwhile.
Ready(c) ==
    /\ Goto(c, "scan", "fire")
    /\ \E p \in ReadyAhead(c) :
         /\ \A q \in ReadyAhead(c) : NotBefore(q, p)
         /\ at' = [at EXCEPT ![c] = p]
         /\ left' = [left EXCEPT ![c] = heap[c][p[1]].slots[p[2]].template.numExec]
    /\ UNCHANGED <<finalSignal, queueVars, heap, invoking, stillExecuting, work, barriers>>

\* A procedure when slot s of it has fired a codelet.
AfterFiring(procedure, s) ==
    [procedure EXCEPT !.slots = Signalled(@, procedure.slots[s].template.fire.signals),
                      !.fired[s] = @ + 1]

\* codeletToExec.fire(): it decrements slots of its procedure, ends the program,
\* and goes on to what it invokes.
Fire(c) ==
    LET codelet == Slot(c).template.fire
    IN  /\ Goto(c, "fire", IF codelet.invokes = {} THEN "fire" ELSE "invoke")
        /\ left[c] > 0
        /\ left' = [left EXCEPT ![c] = @ - 1]
        /\ heap' = [heap EXCEPT ![c][at[c][1]] = AfterFiring(@, at[c][2])]
        /\ finalSignal' = (IF codelet.finishes THEN 1 ELSE finalSignal)
        /\ invoking' = [invoking EXCEPT ![c] = codelet.invokes]
        /\ UNCHANGED <<queueVars, at, stillExecuting, work, barriers>>

InvokeNext(c) ==
    /\ pc[c] = "invoke"
    /\ \E t \in invoking[c] : /\ Push(NewClosure(t))
                              /\ invoking' = [invoking EXCEPT ![c] = @ \ {t}]
    /\ UNCHANGED <<finalSignal, heap, at, left, stillExecuting, work, barriers, pc>>

\* mult_c_and_d_to_c, refused: "otherwise execute codelet yourself".
InvokeRefused(c) ==
    /\ Goto(c, "invoke", "finish")
    /\ \E t \in invoking[c] : /\ ~Fits(NewClosure(t))
                              /\ invoking' = [invoking EXCEPT ![c] = @ \ {t}]
    /\ UNCHANGED <<finalSignal, queueVars, heap, at, left, stillExecuting, work, barriers>>

\* Mutation: a refused invocation is forgotten.
FinishForgotten(c) ==
    /\ Goto(c, "finish", "invoke")
    /\ UNCHANGED <<finalSignal, queueVars, heap, scanVars, work, barriers>>

\* finishExecution
FinishExecution(c) ==
    /\ Goto(c, "finish", "invoke")
    /\ finalSignal' = 1
    /\ UNCHANGED <<queueVars, heap, scanVars, work, barriers>>

EndOfCodelet(c) ==
    /\ Goto(c, "invoke", "fire")
    /\ invoking[c] = {}
    /\ UNCHANGED <<finalSignal, queueVars, heap, scanVars, work, barriers>>

\* Mutation: the loop does not learn that a codelet was fired.
EndOfSlotUnnoticed(c) ==
    /\ Goto(c, "fire", "scan")
    /\ left[c] = 0
    /\ heap' = [heap EXCEPT ![c][at[c][1]].slots[at[c][2]] = ResetDep(@)]
    /\ at' = [at EXCEPT ![c][2] = @ + 1]
    /\ UNCHANGED <<finalSignal, queueVars, left, invoking, stillExecuting, work, barriers>>

EndOfSlot(c) ==
    /\ Goto(c, "fire", "scan")
    /\ left[c] = 0
    /\ stillExecuting' = [stillExecuting EXCEPT ![c] = TRUE]
    /\ heap' = [heap EXCEPT ![c][at[c][1]].slots[at[c][2]] = ResetDep(@)]
    /\ at' = [at EXCEPT ![c][2] = @ + 1]
    /\ UNCHANGED <<finalSignal, queueVars, left, invoking, work, barriers>>

\* The end of the loop: the consumer that kept the queue gives it up.
Leave(c) ==
    /\ Arrive(c, "leave")
    /\ queueOwner' = (IF Experiment(c).keeps /\ queueOwner = c THEN 0 ELSE queueOwner)
    /\ UNCHANGED <<finalSignal, queue, unbuilt, heap, scanVars, work>>

-----------------------------------------------------------------------------
\* main, from one experiment to the next.

Ended(c) == barriers[c] = 2 * Len(Experiments)

\* An odd number of barriers ends an experiment, an even one a reset.
Pass(c) ==
    /\ Goto(c, "waiting",
            IF Ended(c) THEN "end" ELSE IF barriers[c] % 2 = 1 THEN "reset" ELSE "begin")
    /\ \A d \in Cores : barriers[d] >= barriers[c]
    /\ finalSignal' = (IF c = Leader /\ Ended(c) THEN 2 ELSE finalSignal)
    /\ UNCHANGED <<queueVars, heap, scanVars, work, barriers>>

\* e_reset_runtime_variables: initTpClosuresQueue leaves the owner.
Reset(c) ==
    /\ Arrive(c, "reset")
    /\ barriers[c] + 1 < 2 * Len(Experiments)
    /\ heap' = [heap EXCEPT ![c] = <<>>]
    /\ IF c = Leader
       THEN /\ queue' = <<>>
            /\ unbuilt' = [t \in TPnames |-> 0]
            /\ finalSignal' = 0
       ELSE UNCHANGED <<queue, unbuilt, finalSignal>>
    /\ UNCHANGED <<queueOwner, scanVars, work>>

\* After the last experiment there is only the barrier.
LastBarrier(c) ==
    /\ Arrive(c, "reset")
    /\ barriers[c] + 1 = 2 * Len(Experiments)
    /\ UNCHANGED <<finalSignal, queueVars, heap, scanVars, work>>

-----------------------------------------------------------------------------

Step(c) == \/ Begin(c) \/ PushNext(c) \/ PushedAll(c)
           \/ Test(c) \/ Own(c) \/ Look(c) \/ Build(c) \/ Pop(c) \/ Disown(c)
           \/ ScanEnd(c) \/ Ready(c) \/ Fire(c) \/ InvokeNext(c)
           \/ InvokeRefused(c) \/ FinishExecution(c) \/ EndOfCodelet(c) \/ EndOfSlot(c)
           \/ Leave(c) \/ Pass(c) \/ Reset(c) \/ LastBarrier(c)

Next == \E c \in Cores : Step(c)

Spec == Init /\ [][Next]_vars

\* Each core is a processor of its own.
FairSpec == Spec /\ \A c \in Cores : WF_vars(Step(c))

-----------------------------------------------------------------------------
\* Properties.

Locations == {"begin", "push", "test", "own", "look", "build", "pop", "disown", "scan",
              "fire", "invoke", "finish", "leave", "waiting", "reset", "end"}

\* The slots of every procedure are the ones its definition asks for, and no
\* closure runs over the end of the queue's memory.
TypeOK == /\ finalSignal \in 0..2
          /\ TailAddress <= QueueWords
          /\ queueOwner \in Cores \cup {0}
          /\ unbuilt \in [TPnames -> Int]
          /\ \A c \in Cores : \A i \in DOMAIN heap[c] :
               /\ heap[c][i].tp \in TPnames
               /\ DOMAIN heap[c][i].slots = DOMAIN Program[heap[c][i].tp].slots
               /\ \A s \in DOMAIN heap[c][i].slots :
                    heap[c][i].slots[s].currentDep \in 0..MaxWord
          /\ \A c \in Cores : left[c] \in Nat /\ invoking[c] \subseteq TPnames
          /\ stillExecuting \in [Cores -> BOOLEAN]
          /\ \A c \in Cores : barriers[c] \in 0..(2 * Len(Experiments))
          /\ pc \in [Cores -> Locations]

\* The arguments given to _invoke are those the constructor is called with, by
\* whichever core, through the packed bytes of the queue.
ArgumentsArrive ==
    \A c \in Cores : \A i \in DOMAIN heap[c] : heap[c][i].args = Program[heap[c][i].tp].args

\* A closure that the queue has accepted is built once: until then it is in the
\* queue, and two consumers never build the same one.
InQueue(t) == Cardinality({i \in DOMAIN queue : queue[i].closure.tp = t})
BeingRemoved(t) == Cardinality({c \in Cores : /\ pc[c] = "pop"
                                              /\ queue # <<>>
                                              /\ Head(queue).closure.tp = t})
BuiltOnce == \A t \in TPnames : unbuilt[t] = InQueue(t) - BeingRemoved(t)

\* The codelets of a slot are fired once, the reset after them notwithstanding,
\* and after all the codelets that signal the slot.
Done(p, s) == p.fired[s] = p.slots[s].template.numExec
FiredInOrder ==
    \A c \in Cores : \A i \in DOMAIN heap[c] : LET p == heap[c][i] IN
        \A s \in DOMAIN p.slots :
            /\ p.fired[s] <= p.slots[s].template.numExec
            /\ p.fired[s] > 0 =>
                 \A r \in DOMAIN p.slots : s \in p.slots[r].template.fire.signals => Done(p, r)

\* When a consumer has left its loop, no codelet of what it has built is left
\* behind, wherever in the scan finalSignal was set and whoever set it.
\* (Closures may be left behind in the queue: their procedures are never built.)
CodeletsDone ==
    \A c \in Cores : pc[c] \in {"leave", "waiting"} =>
        \A i \in DOMAIN heap[c] : \A s \in DOMAIN heap[c][i].slots : Done(heap[c][i], s)

\* Nobody removes closures any more: a push that is refused is refused for ever.
Stuck(c) ==
    /\ pc[c] = "push" /\ work[c] # <<>>
    /\ ~Fits(NewClosure(Head(work[c])))
    /\ \A d \in Experiment(c).consumers : barriers[d] > barriers[c]

\* The test ends, unless a producer is still pushing to a full queue when the
\* last consumer has left: it is stuck, and all the others wait at the barrier.
TestEnds ==
    <>\A c \in Cores : \/ pc[c] = "end"
                       \/ Stuck(c)
                       \/ pc[c] = "waiting" /\ \E d \in Cores : Stuck(d)
=============================================================================
