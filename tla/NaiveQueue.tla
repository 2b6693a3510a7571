----------------------------- MODULE NaiveQueue -----------------------------
(***************************************************************************)
(* The queue of src/engine/naive_queue.h: a std::queue under a mutex, and  *)
(* a condition variable on which pop() sleeps.  push() notifies after it   *)
(* has released the mutex; pop() looks at the queue again whenever it is   *)
(* woken, by a notification or spuriously.  Any number of threads.         *)
(*                                                                         *)
(* What a thread does while it owns the mutex is one action.               *)
(***************************************************************************)
EXTENDS Integers, FiniteSets, Sequences

CONSTANTS
    Producers,  \* threads that push
    Consumers,  \* threads that pop, for ever
    Messages,   \* OrderMessage values
    Pushes      \* bound: how many messages each producer pushes

ASSUME ThreadsAssumption == IsFiniteSet(Producers) /\ IsFiniteSet(Consumers)
ASSUME PushesAssumption  == Pushes \in Nat

VARIABLES
    queue_,
    ppc,            \* producers: before the mutex or before notify_one()
    pushed,         \* producers: how many messages are pushed
    cpc,            \* consumers: about to look at the queue, or asleep
    sent, popped    \* history: messages pushed, messages popped

vars == <<queue_, ppc, pushed, cpc, sent, popped>>

Init ==
    /\ queue_ = <<>>
    /\ ppc = [p \in Producers |-> "push"]
    /\ pushed = [p \in Producers |-> 0]
    /\ cpc = [c \in Consumers |-> "look"]
    /\ sent = <<>> /\ popped = <<>>
-----------------------------------------------------------------------------
\* push(), with the mutex: the message is appended.
PushLocked(p, m) ==
    /\ ppc[p] = "push" /\ pushed[p] < Pushes
    /\ queue_' = Append(queue_, m)
    /\ sent' = Append(sent, m)
    /\ pushed' = [pushed EXCEPT ![p] = @ + 1]
    /\ ppc' = [ppc EXCEPT ![p] = "notify"]
    /\ UNCHANGED <<cpc, popped>>

Sleeping == {c \in Consumers : cpc[c] = "asleep"}

\* Mutant: only the message that makes the queue non-empty is notified.
WakesFirstOnly == Sleeping # {} /\ Len(queue_) = 1

Wakes == Sleeping # {}

\* push(), without the mutex: notify_one() wakes one sleeper, if any.
Notify(p) ==
    /\ ppc[p] = "notify"
    /\ IF Wakes THEN \E c \in Sleeping : cpc' = [cpc EXCEPT ![c] = "look"]
       ELSE UNCHANGED cpc
    /\ ppc' = [ppc EXCEPT ![p] = "push"]
    /\ UNCHANGED <<queue_, pushed, sent, popped>>

\* pop(), with the mutex: the predicate of wait() is false, so the thread
\* releases the mutex and falls asleep in one step.
Wait(c) ==
    /\ cpc[c] = "look" /\ queue_ = <<>>
    /\ cpc' = [cpc EXCEPT ![c] = "asleep"]
    /\ UNCHANGED <<queue_, ppc, pushed, sent, popped>>

\* Mutant: the newest message is taken.
frontNewest == queue_[Len(queue_)]

front == Head(queue_)

Take ==
    /\ queue_ # <<>>
    /\ popped' = Append(popped, front)
    /\ queue_' = Tail(queue_)

\* pop(), with the mutex: the predicate is true.
PopLocked(c) ==
    /\ cpc[c] = "look" /\ Take
    /\ UNCHANGED <<ppc, pushed, cpc, sent>>

\* try_pop() of any thread returns a message; when it returns false it has
\* changed nothing.
try_pop == Take /\ UNCHANGED <<ppc, pushed, cpc, sent>>

\* wait() may return without a notification.
SpuriousWakeup(c) ==
    /\ cpc[c] = "asleep"
    /\ cpc' = [cpc EXCEPT ![c] = "look"]
    /\ UNCHANGED <<queue_, ppc, pushed, sent, popped>>

Push(p) == Notify(p) \/ \E m \in Messages : PushLocked(p, m)
Pop(c) == Wait(c) \/ PopLocked(c)

Next ==
    \/ \E p \in Producers : Push(p)
    \/ \E c \in Consumers : Pop(c) \/ SpuriousWakeup(c)
    \/ try_pop

Spec == Init /\ [][Next]_vars

\* Every thread that is not asleep gets the mutex in the end; nobody counts
\* on spurious wakeups or on try_pop().
FairSpec ==
    /\ Spec
    /\ \A p \in Producers : WF_vars(Push(p))
    /\ \A c \in Consumers : WF_vars(Pop(c))
-----------------------------------------------------------------------------
\* push() and pop() are the Put and Get of a queue without a capacity: under
\* any number of threads nothing is lost, duplicated or reordered.
F == INSTANCE Fifo WITH Capacity <- -1
FifoSpec == F!Spec

\* Releasing the mutex before notify_one() loses no wakeup: when a message
\* waits and a consumer sleeps, a notification is on its way or another
\* consumer is about to look.
NoLostWakeup ==
    (queue_ # <<>> /\ Sleeping # {}) =>
        \/ \E p \in Producers : ppc[p] = "notify"
        \/ Sleeping # Consumers

\* Every message is delivered, without the help of a spurious wakeup.
Delivered == <>(Len(popped) = Pushes * Cardinality(Producers))
=============================================================================
