------------------------------- MODULE Runtime -------------------------------
(***************************************************************************)
(* The cores of the chip running a codelet program: the round robin loops   *)
(* of the computation units and the scheduling unit                         *)
(* (src/eDARTS/src/runtime/device/e_darts_{cu,su}_scheduler.c), the calls   *)
(* a codelet may make, and the runtime's life cycle (e_darts_rt.c).         *)
(*                                                                          *)
(* The queues are the FIFOs that CodeletsQueue and TpClosuresQueue are      *)
(* shown to implement, so a push or a pop is one step.  A synchronization   *)
(* slot is decremented in one step and read in another, as in SyncSlot,     *)
(* which also has the codeletIDs that are left out here.                    *)
(*                                                                          *)
(* A program is what its codelets call when they are fired: Calls[k] is a   *)
(* sequence of pairs <<what, on what>>.  Queued[c] is what was added on     *)
(* core c before its loop starts.                                           *)
(***************************************************************************)
EXTENDS Integers, Sequences, FiniteSets

CONSTANTS CoreBits,     \* bits of a coreid: 12 on the chip
          OffsetBits,   \* bits of an address inside a core: 20 on the chip
          SU, CUs,      \* the coreids of the cores
          Codelets, Calls, Queued,
          Slots, InitDep, NumCodelets, Template,  \* fields of a syncSlot_t
          MaxWord,      \* the largest unsigned
          Room,         \* codelets in a codelets queue
          ClosureRoom   \* closures in the tpClosures queue

Cores == CUs \cup {SU}

ASSUME AddressAssumption == /\ CoreBits \in Nat \ {0}
                            /\ OffsetBits \in Nat
                            /\ OffsetBits >= CoreBits
                            /\ Cores \subseteq 1..(2^CoreBits - 1)
                            /\ SU \notin CUs

\* The calls a codelet may make: what, on what.
CallSet == ({"decDep"} \X Slots) \cup ({"addCodelet"} \X Codelets)
           \cup ({"invokeTP", "terminate"} \X {""})

ASSUME ProgramAssumption ==
    /\ Calls \in [Codelets -> Seq(CallSet)]
    /\ InitDep \in [Slots -> 1..MaxWord]
    /\ NumCodelets \in [Slots -> Nat]
    /\ Template \in [Slots -> Codelets]

ASSUME RoomAssumption ==
    /\ MaxWord \in Nat /\ Room \in Nat /\ ClosureRoom \in Nat
    /\ Queued \in [Cores -> Seq(Codelets)]
    /\ \A c \in Cores : Len(Queued[c]) <= Room

VARIABLES alive,     \* darts_rt_alive, in each core's own memory
          queue,     \* darts_rt_codeletsQueue
          closures,  \* how many are in the SU's darts_rt_tpclosuresQueue
          owner,     \* its queueOwner
          currentDep,
          pc,
          todo,      \* the calls that the fired codelet has still to make
          pushing,   \* the codelet being pushed, and how many of it are left
          fired      \* how often each codelet was fired

vars == <<alive, queue, closures, owner, currentDep, pc, todo, pushing, fired>>

slots == <<currentDep>>
tpQueue == <<closures, owner>>

Init == /\ alive = [c \in Cores |-> 0]
        /\ queue = Queued
        /\ closures = 0
        /\ owner = 0
        /\ currentDep = InitDep
        /\ pc = [c \in Cores |-> "outside"]
        /\ todo = [c \in Cores |-> <<>>]
        /\ pushing = [c \in Cores |-> <<>>]
        /\ fired = [k \in Codelets |-> 0]

Goto(c, from, to) == pc[c] = from /\ pc' = [pc EXCEPT ![c] = to]

-----------------------------------------------------------------------------
\* Addresses.

\* DARTS_APPEND_COREID, in words of CoreBits + OffsetBits.
AppendCoreID(coreID, address) ==
    ((coreID * 2^OffsetBits) + (address % 2^OffsetBits)) % 2^(CoreBits + OffsetBits)

\* checkIfValidAddress
IsValid(address) == address \div 2^OffsetBits # 0

\* The full address of the SU's elements, at some offset, which the set-up
\* stores in mySUElements.
mySUElements == AppendCoreID(SU, 1)

\* Where invokeSelfQueue looks for the closures queue: on a CU it masks the
\* coreid of mySUElements in place, and then shifts it once more.
ClosuresQueueAddress(c) ==
    IF c = SU THEN AppendCoreID(c, mySUElements)
    ELSE AppendCoreID(mySUElements - (mySUElements % 2^OffsetBits), mySUElements)

-----------------------------------------------------------------------------
\* The life cycle, called by the program of each core.

\* e_darts_rt and e_darts_reset: the queues and the slots are left alone.
Reset(c) == /\ pc[c] = "outside"
            /\ alive' = [alive EXCEPT ![c] = 1]
            /\ UNCHANGED <<queue, tpQueue, slots, pc, todo, pushing, fired>>

\* e_darts_run: its closure goes nowhere.
Run(c) == /\ Goto(c, "outside", "test")
          /\ UNCHANGED <<alive, queue, tpQueue, slots, todo, pushing, fired>>

-----------------------------------------------------------------------------
\* The loops: cu_scheduler_round_robin and su_scheduler_round_robin.

\* Mutation: a loop without end.
TestAlways(c) == /\ Goto(c, "test", IF c = SU THEN "own" ELSE "pop")
                 /\ UNCHANGED <<alive, queue, tpQueue, slots, todo, pushing, fired>>

Test(c) == /\ Goto(c, "test", IF alive[c] = 0 THEN "outside" ELSE IF c = SU THEN "own" ELSE "pop")
           /\ UNCHANGED <<alive, queue, tpQueue, slots, todo, pushing, fired>>

Own == /\ Goto(SU, "own", IF owner = 0 THEN "peak" ELSE "pop")
       /\ owner' = (IF owner = 0 THEN SU ELSE owner)
       /\ UNCHANGED <<alive, queue, closures, slots, todo, pushing, fired>>

\* The closure is looked at and nothing is built from it.
Peak == /\ Goto(SU, "peak", "disown")
        /\ UNCHANGED <<alive, queue, tpQueue, slots, todo, pushing, fired>>

Disown == /\ Goto(SU, "disown", "pop")
          /\ owner' = 0
          /\ UNCHANGED <<alive, queue, closures, slots, todo, pushing, fired>>

PopEmpty(c) == /\ Goto(c, "pop", "test")
               /\ queue[c] = <<>>
               /\ UNCHANGED <<alive, queue, tpQueue, slots, todo, pushing, fired>>

Fire(c) == /\ Goto(c, "pop", "call")
           /\ queue[c] # <<>>
           /\ queue' = [queue EXCEPT ![c] = Tail(@)]
           /\ todo' = [todo EXCEPT ![c] = Calls[Head(queue[c])]]
           /\ fired' = [fired EXCEPT ![Head(queue[c])] = @ + 1]
           /\ UNCHANGED <<alive, tpQueue, slots, pushing>>

\* Mutation: the loop empties its queue before it tests the flag.
EndOfCodeletDrains(c) == /\ Goto(c, "call", IF queue[c] = <<>> THEN "test" ELSE "pop")
                         /\ todo[c] = <<>>
                         /\ UNCHANGED <<alive, queue, tpQueue, slots, todo, pushing, fired>>

EndOfCodelet(c) == /\ Goto(c, "call", "test")
                   /\ todo[c] = <<>>
                   /\ UNCHANGED <<alive, queue, tpQueue, slots, todo, pushing, fired>>

-----------------------------------------------------------------------------
\* The calls of a codelet.

Calling(c, what) == todo[c] # <<>> /\ Head(todo[c])[1] = what
Operand(c) == Head(todo[c])[2]
Called(c) == todo' = [todo EXCEPT ![c] = Tail(@)]

\* terminationCodelet: only the flag of the core that fires it.
Terminate(c) == /\ pc[c] = "call"
                /\ Calling(c, "terminate")
                /\ Called(c)
                /\ alive' = [alive EXCEPT ![c] = 0]
                /\ UNCHANGED <<queue, tpQueue, slots, pc, pushing, fired>>

\* Mutation: a signed count.
DecDepSigned(c) == /\ Goto(c, "call", "read")
                   /\ Calling(c, "decDep")
                   /\ currentDep' = [currentDep EXCEPT ![Operand(c)] = @ - 1]
                   /\ UNCHANGED <<alive, queue, tpQueue, todo, pushing, fired>>

\* decDepAndPush: the decrement, the late read, the loop of pushes.
DecDep(c) == /\ Goto(c, "call", "read")
             /\ Calling(c, "decDep")
             /\ currentDep' = [currentDep EXCEPT ![Operand(c)] = IF @ = 0 THEN MaxWord ELSE @ - 1]
             /\ UNCHANGED <<alive, queue, tpQueue, todo, pushing, fired>>

\* Mutation: the last but one decrement is enough.
ReadyAtOne(c) == /\ Goto(c, "read", "push")
                 /\ currentDep[Operand(c)] <= 1
                 /\ pushing' = [pushing EXCEPT ![c] = <<Template[Operand(c)], NumCodelets[Operand(c)]>>]
                 /\ UNCHANGED <<alive, queue, tpQueue, slots, todo, fired>>

\* Mutation: the loop of pushes one turn short.
ReadyOneLess(c) == /\ Goto(c, "read", "push")
                   /\ currentDep[Operand(c)] = 0
                   /\ pushing' = [pushing EXCEPT ![c] = <<Template[Operand(c)], NumCodelets[Operand(c)] - 1>>]
                   /\ UNCHANGED <<alive, queue, tpQueue, slots, todo, fired>>

ReadReady(c) == /\ Goto(c, "read", "push")
                /\ currentDep[Operand(c)] = 0
                /\ pushing' = [pushing EXCEPT ![c] = <<Template[Operand(c)], NumCodelets[Operand(c)]>>]
                /\ UNCHANGED <<alive, queue, tpQueue, slots, todo, fired>>

ReadNotReady(c) == /\ Goto(c, "read", "call")
                   /\ currentDep[Operand(c)] # 0
                   /\ Called(c)
                   /\ UNCHANGED <<alive, queue, tpQueue, slots, pushing, fired>>

\* addCodeletSelfQueue
AddCodelet(c) == /\ Goto(c, "call", "push")
                 /\ Calling(c, "addCodelet")
                 /\ pushing' = [pushing EXCEPT ![c] = <<Operand(c), 1>>]
                 /\ UNCHANGED <<alive, queue, tpQueue, slots, todo, fired>>

\* Mutation: a queue of one codelet less.
HasRoomForTwo(q) == Len(q) + 1 < Room

\* When pushCodeletQueue succeeds.  A core whose own queue is full calls it for
\* ever: it is the only one that pops that queue.
HasRoom(q) == Len(q) < Room

Push(c) == /\ pc[c] = "push"
           /\ pushing[c][2] > 0
           /\ HasRoom(queue[c])
           /\ queue' = [queue EXCEPT ![c] = Append(@, pushing[c][1])]
           /\ pushing' = [pushing EXCEPT ![c] = <<@[1], @[2] - 1>>]
           /\ UNCHANGED <<alive, tpQueue, slots, pc, todo, fired>>

EndOfPushes(c) == /\ Goto(c, "push", "call")
                  /\ pushing[c][2] = 0
                  /\ pushing' = [pushing EXCEPT ![c] = <<>>]
                  /\ Called(c)
                  /\ UNCHANGED <<alive, queue, tpQueue, slots, fired>>

\* invokeSelfQueue, called again for as long as it fails.
InvokeTP(c) == /\ pc[c] = "call"
               /\ Calling(c, "invokeTP")
               /\ IsValid(ClosuresQueueAddress(c))
               /\ closures < ClosureRoom
               /\ closures' = closures + 1
               /\ Called(c)
               /\ UNCHANGED <<alive, queue, owner, slots, pc, pushing, fired>>

-----------------------------------------------------------------------------

Step(c) == \/ Test(c) \/ PopEmpty(c) \/ Fire(c) \/ EndOfCodelet(c)
           \/ Terminate(c) \/ DecDep(c) \/ ReadReady(c) \/ ReadNotReady(c)
           \/ AddCodelet(c) \/ Push(c) \/ EndOfPushes(c) \/ InvokeTP(c)

SUStep == Own \/ Peak \/ Disown

Next == \/ \E c \in Cores : Reset(c) \/ Run(c) \/ Step(c)
        \/ SUStep

Spec == Init /\ [][Next]_vars

\* Each core is a processor of its own; its program starts the runtime and runs it.
FairSpec == /\ Spec
            /\ \A c \in CUs : WF_vars(Step(c))
            /\ WF_vars(Step(SU) \/ SUStep)

-----------------------------------------------------------------------------

Locations == {"outside", "test", "own", "peak", "disown", "pop", "call", "read", "push"}

\* No queue holds more than it has room for; a count below 0 is a large one.
TypeOK == /\ alive \in [Cores -> {0, 1}]
          /\ \A c \in Cores : queue[c] \in Seq(Codelets) /\ Len(queue[c]) <= Room
          /\ closures \in 0..ClosureRoom
          /\ owner \in {0, SU}
          /\ currentDep \in [Slots -> 0..MaxWord]
          /\ pc \in [Cores -> Locations]
          /\ fired \in [Codelets -> Nat]

\* With what the fired codelets satisfy slot s: the i-th call of the n-th k.
Satisfying(s) ==
    UNION {{k} \X (1..fired[k]) \X {i \in DOMAIN Calls[k] : Calls[k][i] = <<"decDep", s>>} :
             k \in Codelets}

\* A program whose slots have codelets of their own, that nothing else queues.
TemplatesOfSlots ==
    \A s \in Slots :
        /\ \A r \in Slots : Template[r] = Template[s] => r = s
        /\ \A k \in Codelets : \A i \in DOMAIN Calls[k] :
             Calls[k][i] # <<"addCodelet", Template[s]>>
        /\ \A c \in Cores : \A i \in DOMAIN Queued[c] : Queued[c][i] # Template[s]

\* The order of the program's graph: wherever a codelet of a slot is queued, in
\* the queue of whichever core was told, the codelets it depends on were fired,
\* also when they ran on other cores (in a program with TemplatesOfSlots).
WaitsAt(k, c) == \E i \in DOMAIN queue[c] : queue[c][i] = k
Waiting(k) == \E c \in Cores : WaitsAt(k, c)
DependencyOrder ==
    \A s \in Slots : Waiting(Template[s]) \/ fired[Template[s]] > 0
             => Cardinality(Satisfying(s)) >= InitDep[s]

\* Every codelet of a slot gets fired once the last dependency is satisfied: the
\* core that was told pushes all of them and gets to them, however full its queue
\* was - unless that core leaves its loop with them still in its queue, or the
\* slot is decremented beyond 0 before the late read, which takes two cores that
\* were told of a slot before.
SlotsFire ==
    \A s \in Slots : currentDep[s] = 0 ~>
        \/ fired[Template[s]] >= NumCodelets[s]
        \/ currentDep[s] > InitDep[s]
        \/ \E c \in Cores : pc[c] = "outside" /\ WaitsAt(Template[s], c)

\* A codelet never finds itself pushing for ever, to its own queue or to the SU's.
CallsReturn == \A c \in Cores : pc[c] \in {"call", "push"} ~> pc[c] \in {"test", "outside"}

\* After terminationCodelet its core fires nothing more until it is reset, although
\* there may be codelets left in its queue, and leaves the loop.
NoneFiredAfterTheEnd == [][\A c \in Cores : alive[c] = 0 => ~Fire(c)]_vars
LeavesWhenTold == \A c \in Cores : alive[c] = 0 ~> pc[c] = "outside"

\* The set-up hands a CU the address of the SU's elements for this: "SET THIS WITH
\* FULL ADDRESS WITH COREID" (e_darts_cu.h:46).  With it, an invoke of a CU ends.
InvokeReturns ==
    \A c \in CUs : pc[c] = "call" /\ Calling(c, "invokeTP") /\ closures < ClosureRoom
                   ~> ~(pc[c] = "call" /\ Calling(c, "invokeTP"))
=============================================================================
