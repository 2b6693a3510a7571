----------------------------- MODULE SPSCQueue ------------------------------
(***************************************************************************)
(* The lock-free single-producer, single-consumer ring of                  *)
(* src/engine/spsc_queue.h.  One action per shared-memory access of push() *)
(* and pop(): the load of the other side's index, the access to the slot,  *)
(* the store of the own index.                                             *)
(*                                                                         *)
(* The indices are compared the way the code compares them: the producer   *)
(* tests (tail_ + 1) & mask_ against head_, while both indices are stored  *)
(* without the mask and so keep growing past N.                            *)
(*                                                                         *)
(* Memory order.  An acquire load may return an older value of the other   *)
(* side's index than the newest one, but never one older than a value this *)
(* side has already loaded (head_seen, tail_seen).  The release store of   *)
(* an index publishes the slot accesses made before it, so slot accesses   *)
(* take effect in program order.                                           *)
(***************************************************************************)
EXTENDS Integers, Sequences

CONSTANTS
    N,          \* capacity parameter; a power of 2, so `& mask_' is `% N'
    Messages,   \* OrderMessage values
    NoMsg,      \* what an array element holds before it is first written
    Pushes      \* bound: how many messages the producer pushes in all

ASSUME NAssumption      == N \in Nat \ {0, 1}
ASSUME PushesAssumption == Pushes \in Nat
ASSUME NoMsgAssumption  == NoMsg \notin Messages

VARIABLES
    Cached,         \* template parameter: each side caches the other's index
    buffer_,        \* the slots
    head_, tail_,   \* next position to pop, next position to fill
    head_cached_,   \* producer-only copy of head_
    tail_cached_,   \* consumer-only copy of tail_
    head_seen,      \* newest value of head_ the producer has loaded
    tail_seen,      \* newest value of tail_ the consumer has loaded
    ppc, cpc,       \* where the producer is in push(), the consumer in pop()
    pushing,        \* the argument of the push() in progress
    popping,        \* the message the pop() in progress has read
    sent, popped    \* history: messages published, messages returned

ring == <<buffer_, head_, tail_>>
known_head == <<head_cached_, head_seen>>
known_tail == <<tail_cached_, tail_seen>>
producer == <<ppc, pushing, known_head>>
consumer == <<cpc, popping, known_tail>>
log == <<sent, popped>>
vars == <<Cached, ring, producer, consumer, log>>

Slot(i) == i % N

NextTailIdx == Slot(tail_ + 1)

\* Mutant: the test for a full ring is lost.
NotFullUntested(h) == TRUE

NotFull(h) == NextTailIdx # h

\* Mutant: a ring with one message counts as empty.
NotEmptyLeavesOne(t) == t > head_ + 1

NotEmpty(t) == head_ # t

\* Mutants: the slot is chosen after the index was advanced.
WriteSlotNext == NextTailIdx
ReadSlotNext == Slot(head_ + 1)

WriteSlot == Slot(tail_)
ReadSlot == Slot(head_)
-----------------------------------------------------------------------------
Init ==
    /\ Cached \in BOOLEAN
    /\ buffer_ = [i \in 0..N-1 |-> NoMsg]
    /\ head_ = 0 /\ tail_ = 0
    /\ head_cached_ = 0 /\ tail_cached_ = 0
    /\ head_seen = 0 /\ tail_seen = 0
    /\ ppc = "check" /\ cpc = "check"
    /\ pushing = NoMsg /\ popping = NoMsg
    /\ sent = <<>> /\ popped = <<>>

\* push(): the cached head_ says that the ring is not full.
PushFast(m) ==
    /\ ppc = "check" /\ tail_ < Pushes
    /\ Cached /\ NotFull(head_cached_)
    /\ ppc' = "write" /\ pushing' = m
    /\ UNCHANGED <<ring, known_head, consumer, log>>

\* push(): spin on head_ until a load returns something else than the next
\* index; the load that ends the loop is the step.
PushLoad(m) ==
    /\ ppc = "check" /\ tail_ < Pushes
    /\ Cached => ~NotFull(head_cached_)
    /\ \E h \in head_seen..head_ :
          /\ NotFull(h)
          /\ head_seen' = h
          /\ head_cached_' = IF Cached THEN h ELSE head_cached_
    /\ ppc' = "write" /\ pushing' = m
    /\ UNCHANGED <<ring, consumer, log>>

\* push(): the message goes into its slot.
PushWrite ==
    /\ ppc = "write"
    /\ buffer_' = [buffer_ EXCEPT ![WriteSlot] = pushing]
    /\ ppc' = "publish"
    /\ UNCHANGED <<head_, tail_, pushing, known_head, consumer, log>>

\* push(): the release store of tail_.
PushPublish ==
    /\ ppc = "publish"
    /\ tail_' = tail_ + 1
    /\ sent' = Append(sent, pushing)
    /\ ppc' = "check"
    /\ UNCHANGED <<buffer_, head_, pushing, known_head, consumer, popped>>
-----------------------------------------------------------------------------
\* pop(): the cached tail_ says that the ring is not empty.
PopFast ==
    /\ cpc = "check"
    /\ Cached /\ NotEmpty(tail_cached_)
    /\ cpc' = "read"
    /\ UNCHANGED <<ring, producer, popping, known_tail, log>>

\* pop(): spin on tail_ until a load differs from head_.
PopLoad ==
    /\ cpc = "check"
    /\ Cached => ~NotEmpty(tail_cached_)
    /\ \E t \in tail_seen..tail_ :
          /\ NotEmpty(t)
          /\ tail_seen' = t
          /\ tail_cached_' = IF Cached THEN t ELSE tail_cached_
    /\ cpc' = "read"
    /\ UNCHANGED <<ring, producer, popping, log>>

\* pop(): the message is copied out of its slot.
PopRead ==
    /\ cpc = "read"
    /\ popping' = buffer_[ReadSlot]
    /\ cpc' = "advance"
    /\ UNCHANGED <<ring, producer, known_tail, log>>

\* pop(): the release store of head_ gives the slot back.
PopAdvance ==
    /\ cpc = "advance"
    /\ head_' = head_ + 1
    /\ popped' = Append(popped, popping)
    /\ cpc' = "check"
    /\ UNCHANGED <<buffer_, tail_, producer, popping, known_tail, sent>>
-----------------------------------------------------------------------------
Push ==
    /\ \/ \E m \in Messages : PushFast(m) \/ PushLoad(m)
       \/ PushWrite
       \/ PushPublish
    /\ UNCHANGED Cached

Pop ==
    /\ PopFast \/ PopLoad \/ PopRead \/ PopAdvance
    /\ UNCHANGED Cached

Next == Push \/ Pop

Spec == Init /\ [][Next]_vars

\* Both threads spin on a core of their own and a release store becomes
\* visible in finite time, so neither thread stalls where it could go on.
FairSpec == Spec /\ WF_vars(Push) /\ WF_vars(Pop)
-----------------------------------------------------------------------------
\* Every index stays within the messages pushed, and no uninitialised slot is
\* ever popped.
TypeOK ==
    /\ Cached \in BOOLEAN
    /\ buffer_ \in [0..N-1 -> Messages \cup {NoMsg}]
    /\ head_ \in 0..Pushes /\ tail_ \in 0..Pushes
    /\ head_cached_ \in 0..Pushes /\ head_seen \in 0..Pushes
    /\ tail_cached_ \in 0..Pushes /\ tail_seen \in 0..Pushes
    /\ ppc \in {"check", "write", "publish"}
    /\ cpc \in {"check", "read", "advance"}
    /\ pushing \in Messages \cup {NoMsg}
    /\ popping \in Messages \cup {NoMsg}
    /\ sent \in Seq(Messages) /\ popped \in Seq(Messages)

\* The slot the producer is about to write is never the slot the consumer is
\* about to read or has read and not yet given back: the message that
\* `buffer_[tail_idx & mask_] = msg' overwrites has left the queue
\* (spsc_queue.h: "the buffer slot read by the consumer happens-before our
\* reuse of that slot").
NoSlotRace ==
    (ppc = "write" /\ cpc \in {"read", "advance"}) => Slot(tail_) # Slot(head_)

\* What the two sides know of each other's index.  A copy never runs ahead of
\* the index; as long as the head_ the producer knows is below N, the ring
\* holds at most N - 1 messages counted from it, and one less from the test
\* for a full ring to the publishing store.
IndexInv ==
    /\ head_seen <= head_ /\ tail_seen <= tail_
    /\ Cached => head_cached_ = head_seen /\ tail_cached_ = tail_seen
    /\ head_ <= tail_seen
    /\ cpc # "check" => head_ < tail_seen
    /\ head_seen < N => tail_ - head_seen <= N - 1
    /\ ppc # "check" => /\ tail_ < Pushes
                        /\ head_seen < N => tail_ - head_seen <= N - 2

\* What the slots hold: every position between head_ and tail_ has the message
\* published there, and what pop() returned is what push() was given.
ContentInv ==
    /\ Len(sent) = tail_ /\ Len(popped) = head_
    /\ \A i \in 1..head_ : popped[i] = sent[i]
    /\ \A i \in head_..(tail_ - 1) : buffer_[Slot(i)] = sent[i + 1]
    /\ ppc # "check" => pushing \in Messages
    /\ ppc = "publish" => buffer_[Slot(tail_)] = pushing
    /\ cpc = "advance" => popping = sent[head_ + 1]

\* The inductive invariant of the ring.
RingInv == IndexInv /\ ContentInv

\* push() and pop() are the Put and Get of a FIFO queue that holds at most N
\* messages: nothing is lost, duplicated, reordered or invented.
F == INSTANCE Fifo WITH Capacity <- N
FifoSpec == F!Spec

\* Every message of the workload is handed to the consumer: neither spin loop
\* waits for ever on the other.
Delivered == <>(Len(popped) = Pushes)
=============================================================================
