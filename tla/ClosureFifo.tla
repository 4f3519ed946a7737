---------------------------- MODULE ClosureFifo ----------------------------
(***************************************************************************)
(* What a tpClosures queue promises its callers: a first-in first-out queue *)
(* of closures that anybody may push to, and whose oldest closure only the  *)
(* owner may look at and remove.  A closure that the owner looks at stays   *)
(* the oldest, whole, until the owner removes it or gives the queue up.     *)
(***************************************************************************)
EXTENDS Naturals, Sequences

CONSTANTS Cores,        \* the cores that share the queue
          Closures,     \* the closures they exchange
          Pushable,     \* those that are not too large for the queue
          NoClosure,    \* what a core holds when it holds no closure
          NoOwner,      \* the owner of a queue that nobody owns
          InitialOwners \* who may own it in the beginning

VARIABLES fifo,         \* the closures in the queue, oldest first
          owner,        \* who owns the queue
          stage,        \* what each core is doing
          item,         \* the closure each core pushes
          held,         \* the closure each core has peaked at
          answer        \* what the last operation of each core returned

vars == <<fifo, owner, stage, item, held, answer>>

Init == /\ fifo = <<>>
        /\ owner \in InitialOwners
        /\ stage = [c \in Cores |-> "idle"]
        /\ item = [c \in Cores |-> NoClosure]
        /\ held = [c \in Cores |-> NoClosure]
        /\ answer = [c \in Cores |-> "NONE"]

\* Core c asks for an operation; a push names a closure.
Ask(c, op, d) == /\ stage[c] = "idle"
                 /\ stage' = [stage EXCEPT ![c] = op]
                 /\ item' = [item EXCEPT ![c] = d]
                 /\ UNCHANGED <<fifo, owner, held, answer>>

AskPush(c) == \E d \in Closures : Ask(c, "push", d)

AskOther(c) == \E op \in {"own", "disown", "peak", "pop", "popAndDisown", "test"} :
                 Ask(c, op, NoClosure)

Answered(c, a) == /\ stage' = [stage EXCEPT ![c] = "done"]
                  /\ answer' = [answer EXCEPT ![c] = a]

Insert(c) == /\ stage[c] = "push"
             /\ item[c] \in Pushable
             /\ Answered(c, "SUCCESS_OP")
             /\ fifo' = Append(fifo, item[c])
             /\ UNCHANGED <<owner, item, held>>

\* The queue is a stretch of memory: what is refused depends on how it lies
\* there, but an empty queue refuses no closure that could ever fit.
Refuse(c) == /\ stage[c] = "push"
             /\ Answered(c, "NOT_ENOUGH_SPACE")
             /\ item[c] \notin Pushable \/ fifo # <<>>
             /\ UNCHANGED <<fifo, owner, item, held>>

Own(c) == /\ stage[c] = "own"
          /\ owner = NoOwner
          /\ owner' = c
          /\ Answered(c, "SUCCESS_OP")
          /\ UNCHANGED <<fifo, item, held>>

\* Only owning may find the queue owned by the core itself.
NotOwner(c) == /\ \/ stage[c] = "own" /\ owner # NoOwner
                  \/ stage[c] \in {"disown", "peak", "pop", "popAndDisown"} /\ owner # c
               /\ Answered(c, "NOT_OWNER")
               /\ UNCHANGED <<fifo, owner, item, held>>

Disown(c) == /\ stage[c] = "disown"
             /\ owner = c
             /\ owner' = NoOwner
             /\ held' = [held EXCEPT ![c] = NoClosure]
             /\ Answered(c, "SUCCESS_OP")
             /\ UNCHANGED <<fifo, item>>

Peak(c) == /\ stage[c] = "peak"
           /\ owner = c
           /\ Answered(c, "SUCCESS_OP")
           /\ fifo # <<>>
           /\ held' = [held EXCEPT ![c] = Head(fifo)]
           /\ UNCHANGED <<fifo, owner, item>>

FindEmpty(c) == /\ stage[c] \in {"peak", "pop", "popAndDisown"}
                /\ owner = c
                /\ Answered(c, "EMPTY_QUEUE")
                /\ fifo = <<>>
                /\ UNCHANGED <<fifo, owner, item, held>>

Remove(c) == /\ stage[c] \in {"pop", "popAndDisown"}
             /\ owner = c
             /\ answer' = [answer EXCEPT ![c] = "SUCCESS_OP"]
             /\ stage' = [stage EXCEPT ![c] =
                            IF stage[c] = "pop" THEN "done" ELSE "release"]
             /\ fifo # <<>>
             /\ fifo' = Tail(fifo)
             /\ held' = [held EXCEPT ![c] = NoClosure]
             /\ UNCHANGED <<owner, item>>

\* The second half of popTopElementAndDisownQueue: others may push in between.
Release(c) == /\ stage[c] = "release"
              /\ owner' = NoOwner
              /\ stage' = [stage EXCEPT ![c] = "done"]
              /\ UNCHANGED <<fifo, item, held, answer>>

Test(c) == /\ stage[c] = "test"
           /\ Answered(c, IF fifo = <<>> THEN "is_empty" ELSE "is_not_empty")
           /\ UNCHANGED <<fifo, owner, item, held>>

Return(c) == /\ stage[c] = "done"
             /\ stage' = [stage EXCEPT ![c] = "idle"]
             /\ item' = [item EXCEPT ![c] = NoClosure]
             /\ answer' = [answer EXCEPT ![c] = "NONE"]
             /\ UNCHANGED <<fifo, owner, held>>

Next == \E c \in Cores : \/ AskPush(c) \/ AskOther(c)
                         \/ Insert(c) \/ Refuse(c)
                         \/ Own(c) \/ NotOwner(c) \/ Disown(c)
                         \/ Peak(c) \/ FindEmpty(c) \/ Remove(c) \/ Release(c)
                         \/ Test(c) \/ Return(c)

Spec == Init /\ [][Next]_vars
=============================================================================
