-------------------------------- MODULE Fifo --------------------------------
(***************************************************************************)
(* What every queue of lobook promises its two users: the messages come    *)
(* out in the order they went in, each exactly once, and no more than      *)
(* Capacity of them are ever waiting, if the queue has a capacity.         *)
(***************************************************************************)
EXTENDS Integers, Sequences

CONSTANTS
    Messages,   \* what OrderMessage values a queue may carry
    Capacity    \* how many messages may wait at the same time

VARIABLES
    sent,       \* messages whose push() has taken effect, in order
    popped      \* messages pop() has returned, in order

fifoVars == <<sent, popped>>

\* The Capacity of a queue that grows as needed.
Unlimited == -1

Init ==
    /\ sent = <<>>
    /\ popped = <<>>

Put(m) ==
    /\ Capacity # Unlimited => Len(sent) - Len(popped) < Capacity
    /\ sent' = Append(sent, m)
    /\ UNCHANGED popped

Get ==
    /\ Len(popped) < Len(sent)
    /\ popped' = Append(popped, sent[Len(popped) + 1])
    /\ UNCHANGED sent

Next == Get \/ \E m \in Messages : Put(m)

Spec == Init /\ [][Next]_fifoVars
=============================================================================
