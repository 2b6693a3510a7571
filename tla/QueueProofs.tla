---------------------------- MODULE QueueProofs -----------------------------
(***************************************************************************)
(* Proofs about the two queues of lobook.                                  *)
(*                                                                         *)
(* SPSCQueue, for every ring size N and both template modes.  The          *)
(* producer's test is sound only while head_ is below N; beyond that it    *)
(* compares a masked index with one that no longer fits the mask and never *)
(* finds the ring full.  The theorems about the ring therefore carry the   *)
(* hypothesis Pushes <= 2 * N: a queue object that carries at most two     *)
(* laps of messages is safe, because when head_ >= N no more than N        *)
(* messages are left to push.                                              *)
(*                                                                         *)
(* NaiveQueue (Mutex), for every set of producers and consumers, any       *)
(* number of messages, and any mixture of pop(), try_pop() and spurious    *)
(* wakeups.  Its program counters and histories have the names that those  *)
(* of the ring have; its queue_ and pushed are declared here.              *)
(***************************************************************************)
EXTENDS SPSCQueue, TLAPS

CONSTANTS Producers, Consumers
VARIABLES queue_, pushed

Mutex == INSTANCE NaiveQueue

-----------------------------------------------------------------------------
(* The ring *)

\* Within two laps the slot of a position is the position, less N in lap two.
LEMMA SlotOfTwoLaps ==
    ASSUME NEW i \in 0..(2 * N - 1)
    PROVE  Slot(i) = IF i < N THEN i ELSE i - N
  BY NAssumption DEF Slot

\* Positions less than one lap apart never share a slot.
LEMMA SlotsDiffer ==
    ASSUME NEW i \in 0..(2 * N - 1), NEW j \in 0..(2 * N - 1),
           i < j, j - i < N
    PROVE  Slot(i) # Slot(j)
  BY SlotOfTwoLaps, NAssumption

\* The test of push(): if the loaded value h of head_ is below N, the ring
\* held at most N - 1 messages counted from h, and the next index is not h,
\* then it holds at most N - 2.
LEMMA FullTest ==
    ASSUME NEW t \in 0..(2 * N - 1), NEW h \in Nat,
           h < N => t - h <= N - 1,
           Slot(t + 1) # h
    PROVE  h < N => t - h <= N - 2
  <1> SUFFICES ASSUME h < N, t - h = N - 1
               PROVE  FALSE
    BY NAssumption
  <1>1. t + 1 = h + N /\ h + N \in 0..(2 * N - 1)
    BY NAssumption
  <1>2. Slot(t + 1) = h
    BY <1>1, SlotOfTwoLaps, NAssumption
  <1> QED
    BY <1>2

Inv == TypeOK /\ RingInv

\* The ring invariant is inductive: the producer's knowledge of head_ bounds
\* what it may write, and the slots between head_ and tail_ hold exactly the
\* published messages.
THEOREM RingSafe ==
    ASSUME Pushes <= 2 * N
    PROVE  Spec => [](TypeOK /\ RingInv)
  <1> USE NAssumption, PushesAssumption, NoMsgAssumption
  <1>1. Init => Inv
    BY DEF Init, Inv, TypeOK, RingInv, IndexInv, ContentInv
  <1>2. Inv /\ [Next]_vars => Inv'
    <2> SUFFICES ASSUME Inv, [Next]_vars
                 PROVE  Inv'
      OBVIOUS
    <2> USE DEF Inv, RingInv, ring, known_head, known_tail, producer, consumer, log
    <2>0. Cached' = Cached
      BY DEF Next, Push, Pop, vars
    <2> USE <2>0
    <2>1. ASSUME NEW m \in Messages, PushFast(m)
          PROVE  Inv'
      <3> USE <2>1 DEF PushFast, NotFull
      <3>1. TypeOK'
        BY DEF TypeOK
      <3>2. IndexInv'
        <4>1. head_seen < N => tail_ - head_seen <= N - 2
          BY FullTest DEF TypeOK, IndexInv, NextTailIdx
        <4> QED
          BY <4>1 DEF TypeOK, IndexInv
      <3>3. ContentInv'
        BY DEF TypeOK, ContentInv
      <3> QED
        BY <3>1, <3>2, <3>3
    <2>2. ASSUME NEW m \in Messages, PushLoad(m)
          PROVE  Inv'
      <3> USE <2>2 DEF PushLoad, NotFull
      <3>1. TypeOK'
        BY DEF TypeOK, IndexInv
      <3>2. IndexInv'
        <4>1. PICK h \in head_seen..head_ :
                 /\ NotFull(h)
                 /\ head_seen' = h
                 /\ head_cached_' = IF Cached THEN h ELSE head_cached_
          OBVIOUS
        <4>2. h < N => tail_ - h <= N - 1
          BY DEF TypeOK, IndexInv
        <4>3. h < N => tail_ - h <= N - 2
          BY <4>1, <4>2, FullTest DEF TypeOK, NextTailIdx
        <4> QED
          BY <4>1, <4>3 DEF TypeOK, IndexInv
      <3>3. ContentInv'
        BY DEF TypeOK, ContentInv
      <3> QED
        BY <3>1, <3>2, <3>3
    <2>3. CASE PushWrite
      <3> USE <2>3 DEF PushWrite, WriteSlot
      <3>0. tail_ \in 0..(2 * N - 1) /\ tail_ - head_ < N
        BY DEF TypeOK, IndexInv
      <3>1. Slot(tail_) \in 0..(N - 1)
        BY <3>0, SlotOfTwoLaps
      <3>2. TypeOK' /\ IndexInv'
        BY DEF TypeOK, IndexInv, ContentInv
      <3>3. \A i \in head_..(tail_ - 1) : Slot(i) # Slot(tail_)
        BY <3>0, SlotsDiffer DEF TypeOK
      <3>4. ContentInv'
        BY <3>1, <3>3 DEF TypeOK, ContentInv
      <3> QED
        BY <3>2, <3>4
    <2>4. CASE PushPublish
      <3> USE <2>4 DEF PushPublish
      <3>1. TypeOK' /\ IndexInv'
        BY DEF TypeOK, IndexInv, ContentInv
      <3>2. /\ Len(sent') = tail_ + 1 /\ sent'[tail_ + 1] = pushing
            /\ \A i \in 1..tail_ : sent'[i] = sent[i]
        BY DEF TypeOK, ContentInv
      <3>3. \A i \in 1..head_ : popped[i] = sent'[i]
        BY <3>2 DEF TypeOK, IndexInv, ContentInv
      <3>4. ASSUME NEW i \in head_..tail_
            PROVE  buffer_[Slot(i)] = sent'[i + 1]
        <4>1. CASE i = tail_
          BY <4>1, <3>2 DEF ContentInv
        <4>2. CASE i \in head_..(tail_ - 1)
          <5>1. buffer_[Slot(i)] = sent[i + 1]
            BY <4>2 DEF ContentInv
          <5>2. i + 1 \in 1..tail_
            BY <4>2 DEF TypeOK
          <5> QED
            BY <5>1, <5>2, <3>2
        <4>3. i = tail_ \/ i \in head_..(tail_ - 1)
          BY DEF TypeOK
        <4> QED
          BY <4>1, <4>2, <4>3
      <3>5. cpc = "advance" => popping = sent'[head_ + 1]
        BY <3>2 DEF TypeOK, IndexInv, ContentInv
      <3>6. ContentInv'
        <4>1. /\ tail_' = tail_ + 1 /\ head_' = head_ /\ buffer_' = buffer_
              /\ popped' = popped /\ popping' = popping /\ cpc' = cpc
              /\ ppc' = "check" /\ tail_ \in Int
          BY DEF TypeOK
        <4>2. \A i \in head_'..(tail_' - 1) : buffer_'[Slot(i)] = sent'[i + 1]
          <5>1. tail_' - 1 = tail_
            BY <4>1
          <5> QED
            BY <5>1, <4>1, <3>4, Zenon
        <4>3. Len(sent') = tail_' /\ Len(popped') = head_'
          BY <4>1, <3>2 DEF ContentInv
        <4>4. \A i \in 1..head_' : popped'[i] = sent'[i]
          BY <4>1, <3>3
        <4>5. cpc' = "advance" => popping' = sent'[head_' + 1]
          BY <4>1, <3>5
        <4>6. ~(ppc' # "check") /\ ppc' # "publish"
          BY <4>1
        <4> HIDE <2>4 DEF PushPublish
        <4> QED
          BY <4>2, <4>3, <4>4, <4>5, <4>6 DEF ContentInv
      <3> QED
        BY <3>1, <3>6
    <2>5. CASE PopFast
      BY <2>5 DEF PopFast, NotEmpty, TypeOK, IndexInv, ContentInv
    <2>6. CASE PopLoad
      BY <2>6 DEF PopLoad, NotEmpty, TypeOK, IndexInv, ContentInv
    <2>7. CASE PopRead
      <3> USE <2>7 DEF PopRead, ReadSlot
      <3>1. popping' = sent[head_ + 1]
        BY DEF TypeOK, IndexInv, ContentInv
      <3>2. popping' \in Messages
        BY <3>1 DEF TypeOK, IndexInv, ContentInv
      <3> QED
        BY <3>1, <3>2 DEF TypeOK, IndexInv, ContentInv
    <2>8. CASE PopAdvance
      <3> USE <2>8 DEF PopAdvance
      <3>1. head_ < tail_ /\ popping \in Messages
        BY DEF TypeOK, IndexInv, ContentInv
      <3>2. TypeOK' /\ IndexInv'
        BY <3>1 DEF TypeOK, IndexInv
      <3>3. /\ Len(popped') = head_ + 1 /\ popped'[head_ + 1] = popping
            /\ \A i \in 1..head_ : popped'[i] = popped[i]
        BY DEF TypeOK, ContentInv
      <3>4. \A i \in 1..(head_ + 1) : popped'[i] = sent[i]
        BY <3>3 DEF TypeOK, ContentInv
      <3>5. ContentInv'
        BY <3>1, <3>3, <3>4 DEF TypeOK, ContentInv
      <3> QED
        BY <3>2, <3>5
    <2>9. CASE UNCHANGED vars
      BY <2>9 DEF vars, TypeOK, IndexInv, ContentInv
    <2> QED
      BY <2>1, <2>2, <2>3, <2>4, <2>5, <2>6, <2>7, <2>8, <2>9
         DEF Next, Push, Pop
  <1> QED
    BY <1>1, <1>2, PTL DEF Spec, Inv

\* The producer never writes the slot the consumer is reading: from the test
\* to the publishing store at most N - 2 messages wait, so the two positions
\* are less than a lap apart.
THEOREM SlotRaceFree ==
    ASSUME Pushes <= 2 * N
    PROVE  Spec => []NoSlotRace
  <1> USE NAssumption, PushesAssumption
  <1>1. Inv => NoSlotRace
    <2> SUFFICES ASSUME Inv, ppc = "write", cpc \in {"read", "advance"}
                 PROVE  Slot(head_) # Slot(tail_)
      BY DEF NoSlotRace
    <2>1. /\ head_ \in 0..(2 * N - 1) /\ tail_ \in 0..(2 * N - 1)
          /\ head_ < tail_ /\ tail_ - head_ < N
      BY DEF Inv, TypeOK, RingInv, IndexInv
    <2> QED
      BY <2>1, SlotsDiffer
  <1> QED
    BY <1>1, RingSafe, PTL DEF Inv

\* The ring is a FIFO queue of capacity N: the publishing store of push() is
\* the Put, the store of head_ in pop() the Get, every other step of either
\* thread changes nothing the other side can tell.
THEOREM ImplementsFifo ==
    ASSUME Pushes <= 2 * N
    PROVE  Spec => FifoSpec
  <1> USE NAssumption, PushesAssumption
  <1>1. Init => F!Init
    BY DEF Init, F!Init
  <1>2. Inv /\ [Next]_vars => [F!Next]_F!fifoVars
    <2> SUFFICES ASSUME Inv, [Next]_vars
                 PROVE  F!Next \/ UNCHANGED <<sent, popped>>
      BY DEF F!fifoVars
    <2>1. CASE PushPublish
      <3>1. Len(sent) - Len(popped) < N /\ pushing \in Messages
        BY <2>1 DEF PushPublish, Inv, TypeOK, RingInv, IndexInv, ContentInv
      <3>2. F!Put(pushing)
        BY <2>1, <3>1 DEF PushPublish, F!Put, F!Unlimited
      <3> QED
        BY <3>1, <3>2 DEF F!Next
    <2>2. CASE PopAdvance
      <3>1. Len(popped) < Len(sent) /\ popping = sent[Len(popped) + 1]
        BY <2>2 DEF PopAdvance, Inv, TypeOK, RingInv, IndexInv, ContentInv
      <3>2. F!Get
        BY <2>2, <3>1 DEF PopAdvance, F!Get
      <3> QED
        BY <3>2 DEF F!Next
    <2>3. ASSUME NEW m \in Messages, PushFast(m) \/ PushLoad(m)
          PROVE  UNCHANGED <<sent, popped>>
      BY <2>3 DEF PushFast, PushLoad, log
    <2>4. CASE PushWrite \/ PopFast \/ PopLoad \/ PopRead \/ UNCHANGED vars
      BY <2>4 DEF PushWrite, PopFast, PopLoad, PopRead, vars, log
    <2> QED
      BY <2>1, <2>2, <2>3, <2>4 DEF Next, Push, Pop
  <1> QED
    BY <1>1, <1>2, RingSafe, PTL DEF Spec, Inv, FifoSpec, F!Spec

-----------------------------------------------------------------------------
(* The queue under the mutex *)

\* What the threads and the histories look like: queue_ holds the messages
\* that were sent and not yet popped, oldest first.
MutexTypes ==
    /\ queue_ \in Seq(Messages) /\ sent \in Seq(Messages) /\ popped \in Seq(Messages)
    /\ ppc \in [Producers -> {"push", "notify"}]
    /\ cpc \in [Consumers -> {"look", "asleep"}]

MutexContent ==
    /\ Len(sent) = Len(popped) + Len(queue_)
    /\ \A k \in 1..Len(queue_) : queue_[k] = sent[Len(popped) + k]

MutexInv == MutexTypes /\ MutexContent /\ Mutex!NoLostWakeup

LEMMA MutexInit == Mutex!Init => MutexInv
  BY DEF Mutex!Init, MutexInv, MutexTypes, MutexContent, Mutex!NoLostWakeup

\* A message that is taken is the oldest one, and what stays in the queue
\* moves up by one place.
LEMMA MutexTake ==
    ASSUME MutexTypes, MutexContent, Mutex!Take, UNCHANGED sent
    PROVE  /\ queue_' \in Seq(Messages) /\ popped' \in Seq(Messages)
           /\ MutexContent'
           /\ Mutex!F!Get
  <1>1. /\ Mutex!front \in Messages /\ Len(queue_) \in Nat \ {0}
        /\ Mutex!front = sent[Len(popped) + 1] /\ Len(popped) < Len(sent)
    BY DEF Mutex!Take, MutexTypes, MutexContent, Mutex!front
  <1>2. /\ Tail(queue_) \in Seq(Messages)
        /\ Len(Tail(queue_)) = Len(queue_) - 1
        /\ \A k \in 1..(Len(queue_) - 1) : Tail(queue_)[k] = queue_[k + 1]
    BY <1>1 DEF MutexTypes
  <1>3. popped' \in Seq(Messages) /\ Len(popped') = Len(popped) + 1
    BY <1>1 DEF Mutex!Take, MutexTypes
  <1>4. MutexContent'
    BY <1>1, <1>2, <1>3 DEF Mutex!Take, MutexTypes, MutexContent
  <1>5. Mutex!F!Get
    BY <1>1 DEF Mutex!F!Get, Mutex!Take
  <1> QED
    BY <1>2, <1>3, <1>4, <1>5 DEF Mutex!Take

\* A message that is pushed goes to the end of the queue.
LEMMA MutexPush ==
    ASSUME MutexTypes, MutexContent, NEW p \in Producers, NEW m \in Messages,
           Mutex!PushLocked(p, m)
    PROVE  /\ MutexTypes' /\ MutexContent'
           /\ Mutex!F!Put(m)
           /\ ppc'[p] = "notify"
  <1>1. /\ queue_' \in Seq(Messages) /\ Len(queue_') = Len(queue_) + 1
        /\ sent' \in Seq(Messages) /\ Len(sent') = Len(sent) + 1
        /\ \A k \in 1..Len(queue_) : queue_'[k] = queue_[k]
        /\ \A k \in 1..Len(sent) : sent'[k] = sent[k]
        /\ queue_'[Len(queue_) + 1] = m /\ sent'[Len(sent) + 1] = m
    BY DEF Mutex!PushLocked, MutexTypes
  <1>2. MutexTypes'
    BY <1>1 DEF Mutex!PushLocked, MutexTypes
  <1>3. MutexContent'
    <2>1. popped' = popped /\ Len(popped) \in Nat /\ Len(queue_) \in Nat
      BY DEF Mutex!PushLocked, MutexTypes
    <2>2. Len(sent') = Len(popped') + Len(queue_')
      BY <1>1, <2>1 DEF MutexContent
    <2>3. ASSUME NEW k \in 1..Len(queue_')
          PROVE  queue_'[k] = sent'[Len(popped') + k]
      <3>1. CASE k \in 1..Len(queue_)
        BY <3>1, <1>1, <2>1 DEF MutexContent
      <3>2. CASE k = Len(queue_) + 1
        BY <3>2, <1>1, <2>1 DEF MutexContent
      <3> QED
        BY <3>1, <3>2, <1>1, <2>1
    <2> QED
      BY <2>2, <2>3 DEF MutexContent
  <1>4. Mutex!F!Put(m)
    BY DEF Mutex!PushLocked, Mutex!F!Put, Mutex!F!Unlimited
  <1>5. ppc'[p] = "notify"
    BY DEF Mutex!PushLocked, MutexTypes
  <1> QED
    BY <1>2, <1>3, <1>4, <1>5

\* Every step preserves the invariant and is a step of the FIFO queue.
LEMMA MutexStep ==
    ASSUME MutexInv, [Mutex!Next]_Mutex!vars
    PROVE  MutexInv' /\ [Mutex!F!Next]_Mutex!F!fifoVars
  <1> USE DEF MutexInv
  <1>1. ASSUME NEW p \in Producers, NEW m \in Messages, Mutex!PushLocked(p, m)
        PROVE  MutexInv' /\ [Mutex!F!Next]_Mutex!F!fifoVars
    <2>1. MutexTypes' /\ MutexContent' /\ Mutex!F!Put(m) /\ ppc'[p] = "notify"
      BY <1>1, MutexPush
    <2>2. Mutex!NoLostWakeup'
      BY <2>1 DEF Mutex!NoLostWakeup
    <2> QED
      BY <2>1, <2>2 DEF Mutex!F!Next
  <1>2. ASSUME NEW p \in Producers, Mutex!Notify(p)
        PROVE  MutexInv' /\ [Mutex!F!Next]_Mutex!F!fifoVars
    <2>1. MutexTypes' /\ MutexContent' /\ UNCHANGED Mutex!F!fifoVars
      BY <1>2 DEF Mutex!Notify, MutexTypes, MutexContent, Mutex!Sleeping, Mutex!F!fifoVars
    <2>2. Mutex!NoLostWakeup'
      BY <1>2 DEF Mutex!Notify, Mutex!Wakes, Mutex!NoLostWakeup, Mutex!Sleeping, MutexTypes
    <2> QED
      BY <2>1, <2>2
  <1>3. ASSUME NEW c \in Consumers, Mutex!Wait(c) \/ Mutex!SpuriousWakeup(c)
        PROVE  MutexInv' /\ [Mutex!F!Next]_Mutex!F!fifoVars
    BY <1>3 DEF Mutex!Wait, Mutex!SpuriousWakeup, MutexTypes, MutexContent,
                Mutex!NoLostWakeup, Mutex!Sleeping, Mutex!F!fifoVars
  <1>4. ASSUME NEW c \in Consumers, Mutex!PopLocked(c)
        PROVE  MutexInv' /\ [Mutex!F!Next]_Mutex!F!fifoVars
    <2>1. /\ queue_' \in Seq(Messages) /\ popped' \in Seq(Messages)
          /\ MutexContent' /\ Mutex!F!Get
      BY <1>4, MutexTake DEF Mutex!PopLocked
    <2>2. Mutex!NoLostWakeup'
      BY <1>4 DEF Mutex!PopLocked, Mutex!NoLostWakeup, Mutex!Sleeping
    <2> QED
      BY <1>4, <2>1, <2>2 DEF Mutex!PopLocked, MutexTypes, Mutex!F!Next
  <1>5. CASE Mutex!try_pop
    <2>1. /\ queue_' \in Seq(Messages) /\ popped' \in Seq(Messages)
          /\ MutexContent' /\ Mutex!F!Get
      BY <1>5, MutexTake DEF Mutex!try_pop
    <2>2. Mutex!NoLostWakeup'
      BY <1>5 DEF Mutex!try_pop, Mutex!Take, Mutex!NoLostWakeup, Mutex!Sleeping
    <2> QED
      BY <1>5, <2>1, <2>2 DEF Mutex!try_pop, MutexTypes, Mutex!F!Next
  <1>6. CASE UNCHANGED Mutex!vars
    BY <1>6 DEF Mutex!vars, MutexTypes, MutexContent, Mutex!NoLostWakeup,
                Mutex!Sleeping, Mutex!F!fifoVars
  <1> QED
    BY <1>1, <1>2, <1>3, <1>4, <1>5, <1>6 DEF Mutex!Next, Mutex!Push, Mutex!Pop

\* Notifying after the mutex is released loses no wakeup, however many threads
\* push, pop, poll with try_pop() or wake up for no reason.
THEOREM NoWakeupLost == Mutex!Spec => []Mutex!NoLostWakeup
  <1>1. MutexInv /\ [Mutex!Next]_Mutex!vars => MutexInv'
    BY MutexStep
  <1>2. MutexInv => Mutex!NoLostWakeup
    BY DEF MutexInv
  <1> QED
    BY MutexInit, <1>1, <1>2, PTL DEF Mutex!Spec

\* The queue under the mutex is a FIFO queue without a capacity: PushLocked is
\* Put, a message taken by pop() or try_pop() is Get, all else is a stutter.
THEOREM MutexImplementsFifo == Mutex!Spec => Mutex!FifoSpec
  <1>1. Mutex!Init => Mutex!F!Init
    BY DEF Mutex!Init, Mutex!F!Init
  <1>2. MutexInv /\ [Mutex!Next]_Mutex!vars => MutexInv' /\ [Mutex!F!Next]_Mutex!F!fifoVars
    BY MutexStep
  <1> QED
    BY MutexInit, <1>1, <1>2, PTL DEF Mutex!Spec, Mutex!FifoSpec, Mutex!F!Spec
=============================================================================
