---------------------------- MODULE CodeletFifo ----------------------------
(***************************************************************************)
(* What a codelets queue promises its callers: a bounded first-in first-out *)
(* queue.  Each core asks for an operation, the operation takes effect at   *)
(* one instant between the request and the return, and the answer tells     *)
(* what happened at that instant.  No mutex, no addresses, no bytes, and    *)
(* asking whether the queue is empty is as atomic as the rest.              *)
(***************************************************************************)
EXTENDS Naturals, Sequences

CONSTANTS Cores,      \* the cores that share the queue
          Codelets,   \* the codelets they exchange
          Capacity,   \* how many codelets fit
          NoCodelet   \* what a caller's buffer holds before it holds a codelet

VARIABLES fifo,       \* the codelets in the queue, oldest first
          stage,      \* what each core is doing
          item,       \* the codelet each core pushes, or has popped
          answer      \* what the last operation of each core returned

vars == <<fifo, stage, item, answer>>

Init == /\ fifo = <<>>
        /\ stage = [c \in Cores |-> "idle"]
        /\ item = [c \in Cores |-> NoCodelet]
        /\ answer = [c \in Cores |-> "NONE"]

Ask(c, op, d) == /\ stage[c] = "idle"
                 /\ stage' = [stage EXCEPT ![c] = op]
                 /\ item' = [item EXCEPT ![c] = d]
                 /\ answer' = [answer EXCEPT ![c] = "NONE"]
                 /\ UNCHANGED fifo

AskPush(c) == \E d \in Codelets : Ask(c, "push", d)

AskPop(c) == Ask(c, "pop", NoCodelet)

AskEmpty(c) == Ask(c, "test", item[c])

\* A core that has its answer, not yet returned to its caller.
Answered(c, a) == /\ stage' = [stage EXCEPT ![c] = "done"]
                  /\ answer' = [answer EXCEPT ![c] = a]

Insert(c) == /\ stage[c] = "push"
             /\ Len(fifo) < Capacity
             /\ fifo' = Append(fifo, item[c])
             /\ Answered(c, "SUCCESS_OP")
             /\ UNCHANGED item

Refuse(c) == /\ stage[c] = "push"
             /\ Len(fifo) >= Capacity
             /\ Answered(c, "NOT_ENOUGH_SPACE")
             /\ UNCHANGED <<fifo, item>>

Take(c) == /\ stage[c] = "pop"
           /\ fifo # <<>>
           /\ item' = [item EXCEPT ![c] = Head(fifo)]
           /\ fifo' = Tail(fifo)
           /\ Answered(c, "SUCCESS_OP")

FindEmpty(c) == /\ stage[c] = "pop"
                /\ fifo = <<>>
                /\ Answered(c, "EMPTY_QUEUE")
                /\ UNCHANGED <<fifo, item>>

Test(c) == /\ stage[c] = "test"
           /\ Answered(c, IF fifo = <<>> THEN "is_empty" ELSE "is_not_empty")
           /\ UNCHANGED <<fifo, item>>

Return(c) == /\ stage[c] = "done"
             /\ stage' = [stage EXCEPT ![c] = "idle"]
             /\ UNCHANGED <<fifo, item, answer>>

Next == \E c \in Cores : \/ AskPush(c) \/ AskPop(c) \/ AskEmpty(c)
                         \/ Insert(c) \/ Refuse(c)
                         \/ Take(c) \/ FindEmpty(c)
                         \/ Test(c) \/ Return(c)

Spec == Init /\ [][Next]_vars
=============================================================================
