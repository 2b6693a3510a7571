------------------------ MODULE MatchingEngineProofs ------------------------
(***************************************************************************)
(* Proofs about MatchingEngine for every workload, every mixture of SUBMIT *)
(* and CANCEL messages and every capacity of the queue.                    *)
(***************************************************************************)
EXTENDS MatchingEngine, FiniteSetsExt, WellFoundedInduction, FiniteSetTheorems, TLAPS

-----------------------------------------------------------------------------
(* When the Min and Max of FiniteSetsExt are what their names say *)

\* A non-empty set of naturals has a least element: Min is not arbitrary.
LEMMA MinExists ==
    ASSUME NEW S, S \subseteq Nat, S # {}
    PROVE  Min(S) \in S /\ \A y \in S : Min(S) <= y
  <1>1. \E x \in S : \A y \in S : ~ (<<y, x>> \in OpToRel(<, Nat))
    BY WFMin, NatLessThanWellFounded
  <1>2. \A a, b \in Nat : a < b => <<a, b>> \in OpToRel(<, Nat)
    <2> DEFINE R == {ss \in Nat \X Nat : ss[1] < ss[2]}
    <2>1. OpToRel(<, Nat) = R
      BY Zenon DEF OpToRel
    <2>2. \A a, b \in Nat : a < b => <<a, b>> \in R
      OBVIOUS
    <2> QED
      BY <2>1, <2>2, Zenon
  <1>3. \A a, b \in Nat : ~(b < a) => a <= b
    OBVIOUS
  <1>4. \E x \in S : \A y \in S : x <= y
    BY <1>1, <1>2, <1>3, Zenon
  <1> QED
    BY <1>4 DEF Min

\* A bounded non-empty set of naturals has a greatest element.
LEMMA MaxExists ==
    ASSUME NEW n \in Nat, NEW S, S \subseteq 0..n, S # {}
    PROVE  Max(S) \in S /\ \A y \in S : Max(S) >= y
  <1> DEFINE T == {t \in 0..n : n - t \in S}
  <1>1. \A x \in S : n - x \in T
    OBVIOUS
  <1>0. T \subseteq Nat /\ T # {}
    <2>1. PICK x \in S : TRUE
      OBVIOUS
    <2>2. n - x \in T
      BY <1>1
    <2>3. T \subseteq Nat
      OBVIOUS
    <2> QED
      BY <2>2, <2>3, Zenon
  <1>2. Min(T) \in T /\ \A y \in T : Min(T) <= y
    BY <1>0, MinExists
  <1>3. PICK x \in S : x = n - Min(T)
    BY <1>2
  <1>4. \A y \in S : x >= y
    BY <1>1, <1>2, <1>3
  <1> QED
    BY <1>4 DEF Max


-----------------------------------------------------------------------------
(* Sorting *)

Below(s, v)  == {j \in 1..Len(s) : s[j] < v}
UpTo(s, v)   == {j \in 1..Len(s) : s[j] <= v}
Values(s)    == {s[j] : j \in 1..Len(s)}

\* Sets of places are finite, and a larger one has no fewer elements.
LEMMA Places ==
    ASSUME NEW S, NEW s \in Seq(S), NEW B \in SUBSET (1..Len(s)), NEW A \in SUBSET B
    PROVE  /\ Cardinality(A) \in Nat /\ Cardinality(B) \in Nat
           /\ Cardinality(A) <= Cardinality(B)
  <1>1. IsFiniteSet(1..Len(s))
    BY FS_Interval
  <1>2. IsFiniteSet(B)
    BY <1>1, FS_Subset
  <1>3. IsFiniteSet(A) /\ Cardinality(A) <= Cardinality(B)
    BY <1>2, FS_Subset
  <1> QED
    BY <1>2, <1>3, FS_CardinalityType

\* Every place has a value of its rank: the least one with enough values up
\* to it.
LEMMA RankExists ==
    ASSUME NEW n \in Nat, NEW s \in Seq(0..n), NEW k \in 1..Len(s)
    PROVE  \E v \in Values(s) : /\ Cardinality(Below(s, v)) < k
                                 /\ Cardinality(UpTo(s, v)) >= k
  <1> DEFINE V == Values(s)
             W == {v \in V : Cardinality(UpTo(s, v)) >= k}
  <1>1. Len(s) \in Nat /\ s \in [1..Len(s) -> 0..n]
    OBVIOUS
  <1>2. V \subseteq 0..n /\ s[k] \in V
    BY <1>1 DEF Values
  <1>3. W \subseteq Nat /\ W # {}
    <2>1. Max(V) \in V /\ \A y \in V : Max(V) >= y
      BY <1>2, MaxExists
    <2>2. UpTo(s, Max(V)) = 1..Len(s)
      BY <1>1, <1>2, <2>1 DEF UpTo, Values
    <2>3. Cardinality(UpTo(s, Max(V))) >= k
      BY <1>1, <2>2, FS_Interval
    <2> QED
      BY <1>2, <2>1, <2>3
  <1>4. Min(W) \in W /\ \A y \in W : Min(W) <= y
    BY <1>3, MinExists
  <1> DEFINE v == Min(W)
             U == {u \in V : u < v}
  <1>5. Cardinality(Below(s, v)) < k
    <2>1. CASE U = {}
      <3>1. Below(s, v) = {}
        BY <2>1, <1>1 DEF Below, Values
      <3> QED
        BY <3>1, FS_EmptySet
    <2>2. CASE U # {}
      <3>1. U \subseteq 0..n
        BY <1>2
      <3>2. Max(U) \in U /\ \A y \in U : Max(U) >= y
        BY <2>2, <3>1, MaxExists
      <3>3. Below(s, v) = UpTo(s, Max(U))
        <4> DEFINE u == Max(U)
        <4>1. u \in 0..n /\ v \in 0..n /\ u < v
          BY <3>2, <1>2, <1>4
        <4>2. ASSUME NEW j \in 1..Len(s)
              PROVE  s[j] < v <=> s[j] <= u
          <5>1. s[j] \in V /\ s[j] \in 0..n
            BY <1>1 DEF Values
          <5>2. s[j] < v => s[j] <= u
            BY <5>1, <3>2, <4>1
          <5> HIDE DEF u, v
          <5> QED
            BY <5>1, <5>2, <4>1
        <4> QED
          BY <4>2 DEF Below, UpTo
      <3>4. ~(Cardinality(UpTo(s, Max(U))) >= k)
        <4>1. Max(U) \in V /\ Max(U) < v /\ Max(U) \in Nat /\ v \in Nat
          BY <3>2, <1>2, <1>4
        <4>2. Max(U) \notin W
          <5> DEFINE u == Max(U)
          <5>1. u \in Nat /\ v \in Nat /\ u < v
            BY <4>1
          <5>2. \A y \in W : v <= y
            BY <1>4
          <5> HIDE DEF u, v, W
          <5>3. u \notin W
            BY <5>1, <5>2
          <5> QED
            BY <5>3 DEF u
        <4> QED
          BY <4>1, <4>2
      <3>5. Cardinality(UpTo(s, Max(U))) \in Nat
        <4> UpTo(s, Max(U)) \in SUBSET (1..Len(s))
          BY DEF UpTo
        <4> QED
          BY Places
      <3> QED
        BY <3>3, <3>4, <3>5
    <2> QED
      BY <2>1, <2>2
  <1> QED
    BY <1>4, <1>5

\* What std::sort returns: as many values, of the same set, each of its rank.
LEMMA SortedRanks ==
    ASSUME NEW n \in Nat, NEW s \in Seq(0..n)
    PROVE  /\ Sorted(s) \in Seq(0..n) /\ Len(Sorted(s)) = Len(s)
           /\ \A k \in 1..Len(s) :
                 /\ Cardinality(Below(s, Sorted(s)[k])) < k
                 /\ Cardinality(UpTo(s, Sorted(s)[k])) >= k
  <1>1. ASSUME NEW k \in 1..Len(s)
        PROVE  /\ Sorted(s)[k] \in Values(s)
               /\ Cardinality(Below(s, Sorted(s)[k])) < k
               /\ Cardinality(UpTo(s, Sorted(s)[k])) >= k
    <2>1. Sorted(s)[k] = CHOOSE v \in Values(s) : /\ Cardinality(Below(s, v)) < k
                                                  /\ Cardinality(UpTo(s, v)) >= k
      BY DEF Sorted, Values, Below, UpTo
    <2> QED
      BY <2>1, RankExists
  <1>2. Values(s) \subseteq 0..n
    BY DEF Values
  <1>3. Sorted(s) \in [1..Len(s) -> 0..n]
    <2> DEFINE rank(k) == CHOOSE v \in {s[j] : j \in 1..Len(s)} :
                             /\ Cardinality({j \in 1..Len(s) : s[j] < v}) < k
                             /\ Cardinality({j \in 1..Len(s) : s[j] <= v}) >= k
    <2>1. Sorted(s) = [k \in 1..Len(s) |-> rank(k)]
      BY Zenon DEF Sorted
    <2> HIDE DEF rank
    <2> QED
      BY <2>1, <1>1, <1>2
  <1>4. Sorted(s) \in Seq(0..n) /\ Len(Sorted(s)) = Len(s)
    BY <1>3
  <1> QED
    BY <1>1, <1>4

\* Sorting two vectors of which one is below the other place by place keeps
\* it so: too few values of the larger one could be up to the k-th.
LEMMA SortedBelow ==
    ASSUME NEW n \in Nat, NEW q \in Seq(0..n), NEW l \in Seq(0..n), Len(q) = Len(l),
           \A k \in 1..Len(l) : q[k] <= l[k]
    PROVE  \A k \in 1..Len(l) : Sorted(q)[k] <= Sorted(l)[k]
  <1> SUFFICES ASSUME NEW k \in 1..Len(l), ~(Sorted(q)[k] <= Sorted(l)[k])
               PROVE  FALSE
    OBVIOUS
  <1> DEFINE v == Sorted(q)[k]
             w == Sorted(l)[k]
  <1>1. /\ v \in 0..n /\ w \in 0..n
        /\ Cardinality(Below(q, v)) < k /\ Cardinality(UpTo(l, w)) >= k
    BY SortedRanks
  <1>2. w < v
    BY <1>1
  <1> HIDE DEF v, w
  <1>3. UpTo(l, w) \in SUBSET Below(q, v) /\ Below(q, v) \in SUBSET (1..Len(q))
    <2>1. ASSUME NEW j \in 1..Len(l), l[j] <= w
          PROVE  q[j] < v
      <3>1. q[j] \in 0..n /\ l[j] \in 0..n /\ q[j] <= l[j]
        OBVIOUS
      <3> QED
        BY <3>1, <2>1, <1>1, <1>2
    <2> QED
      BY <2>1 DEF UpTo, Below
  <1>4. /\ Cardinality(UpTo(l, w)) <= Cardinality(Below(q, v))
        /\ Cardinality(UpTo(l, w)) \in Nat /\ Cardinality(Below(q, v)) \in Nat
    BY <1>3, Places
  <1> QED
    BY <1>1, <1>4
-----------------------------------------------------------------------------
(* The inductive invariant *)

\* Where the threads can be together.
ControlInv ==
    /\ main \in {"parse", "start", "aborted"} => network = "off" /\ engine = "off"
    /\ main = "spawn" => network = "off"
    /\ main \in {"stop", "join_engine", "dump", "report"} => network = "done"
    /\ main \in {"dump", "report"} => engine = "done"
    /\ main \in {"exit_0", "exit_1"} => network = engine /\ engine \in {"off", "done"}
    /\ network \in {"stamp", "push", "done"} => ready_

\* How much of the workload is in the queue's history, and whether SHUTDOWN is.
Pushed == IF network = "push" THEN NextId - 1 ELSE NextId
Closed == \/ main \in {"join_engine", "dump", "report"}
          \/ main \in {"exit_0", "exit_1"} /\ engine = "done"

\* The history of the queue is a prefix of the workload, and SHUTDOWN at its
\* end once stop() has sent it.
SentInv ==
    /\ network \in {"off", "wait_until_ready"} => stamped = NoMsg
    /\ network = "push" => stamped # NoMsg
    /\ stamped # Shutdown
    /\ NextId <= Workload
    /\ network = "done" => NextId = Workload
    /\ IF Closed THEN Len(sent) = Pushed + 1 ELSE Len(sent) = Pushed
    /\ \A k \in 1..Pushed : sent[k].type \in Types /\ sent[k].id = k - 1
    /\ Closed => sent[Pushed + 1] = Shutdown

\* The engine pops that history, books what it pops and records what it books.
EngineInv ==
    /\ Len(popped) <= Len(sent)
    /\ \A k \in 1..Len(popped) : popped[k] = sent[k]
    /\ IF engine \in {"look", "done"} THEN Len(popped) = Len(booked) + 1
                                     ELSE Len(popped) = Len(booked)
    /\ \A k \in 1..Len(booked) : booked[k] = popped[k] /\ popped[k].type # "SHUTDOWN"
    /\ engine = "record" => Len(booked) > 0
    /\ engine = "done" => InHand.type = "SHUTDOWN"
    /\ IF engine = "record" THEN Len(booked) = Len(latencies_) + 1
                            ELSE Len(booked) = Len(latencies_)
    /\ Len(queue_latencies_) = Len(latencies_)

\* Times are read in order, once to stamp a message, once to book it and once
\* to record it.
TimesInv ==
    /\ clock <= NextId + Len(booked) + Len(latencies_)
    /\ popTime <= clock /\ stamped.timestamp <= clock
    /\ \A k \in 1..Len(sent) : sent[k].timestamp <= clock
    /\ engine = "record" => InHand.timestamp <= popTime

Inv == /\ TypeOK /\ ControlInv /\ SentInv /\ EngineInv /\ TimesInv
       /\ RowsPaired

\* Nothing but the workload is booked, and the counters have bounds.
LEMMA Bounds ==
    ASSUME Inv
    PROVE  /\ NextId \in 0..Workload /\ Pushed \in 0..Workload
           /\ Len(booked) \in 0..Pushed /\ Len(latencies_) \in 0..Len(booked)
           /\ Len(sent) \in Nat /\ Len(popped) \in Nat
  <1> USE WorkloadAssumption DEF Inv
  <1>1. NextId \in 0..Workload /\ Pushed \in 0..Workload
    <2>1. stamped # NoMsg => stamped.id \in Nat
      BY DEF TypeOK, Messages, Shutdown, Msg
    <2> QED
      BY <2>1 DEF SentInv, NextId, Pushed
  <1>2. /\ Len(sent) \in Nat /\ Len(popped) \in Nat
        /\ Len(booked) \in Nat /\ Len(latencies_) \in Nat
    BY DEF TypeOK
  <1>3. Len(booked) <= Pushed
    <2> SUFFICES ASSUME Len(booked) > Pushed
                 PROVE  FALSE
      BY <1>1, <1>2
    <2>1. Closed /\ Len(booked) = Pushed + 1
      BY <1>1, <1>2 DEF SentInv, EngineInv
    <2>2. Pushed + 1 \in 1..Len(booked) /\ Pushed + 1 \in 1..Len(popped)
      BY <1>1, <1>2, <2>1 DEF EngineInv
    <2>3. popped[Pushed + 1] = Shutdown /\ popped[Pushed + 1].type # "SHUTDOWN"
      BY <2>1, <2>2 DEF SentInv, EngineInv
    <2> QED
      BY <2>3 DEF Shutdown, Msg
  <1>4. Len(latencies_) <= Len(booked)
    BY <1>2 DEF EngineInv
  <1> QED
    BY <1>1, <1>2, <1>3, <1>4

LEMMA InitInv == Init => Inv
  <1> USE WorkloadAssumption DEF Init, Q!Init
  <1>0. 0 \in Times
    BY DEF Times
  <1>1. Init => TypeOK
    <2>1. Init => ready_ \in BOOLEAN
      BY Zenon
    <2> QED
      BY <1>0, <2>1 DEF TypeOK
  <1>4. Init => RowsPaired
    BY DEF RowsPaired
  <1>2. Init => ControlInv /\ SentInv
    BY DEF ControlInv, SentInv, NextId, Pushed, Closed, NoMsg, Shutdown, Msg
  <1>3. Init => EngineInv /\ TimesInv
    BY DEF EngineInv, TimesInv, NextId, NoMsg, Msg
  <1> QED
    BY <1>1, <1>2, <1>3, <1>4 DEF Inv

\* The main thread, but for stop() and report(), changes control only.
LEMMA MainInv ==
    ASSUME Inv, \/ parse_args \/ start \/ SpawnNetwork \/ JoinNetwork
                \/ JoinEngine \/ dump_latencies
    PROVE  Inv'
  <1> USE DEF Inv, parse_args, start, SpawnNetwork, JoinNetwork, JoinEngine,
              dump_latencies, NetworkDone, EngineDone, queue, work, rows
  <1>1. TypeOK' /\ RowsPaired'
    BY DEF TypeOK, RowsPaired
  <1>2. ControlInv'
    BY DEF TypeOK, ControlInv
  <1>3. SentInv'
    BY DEF TypeOK, ControlInv, SentInv, NextId, Pushed, Closed
  <1>4. EngineInv'
    BY DEF ControlInv, EngineInv, InHand
  <1>5. TimesInv'
    BY DEF ControlInv, TimesInv, NextId, InHand
  <1> QED
    BY <1>1, <1>2, <1>3, <1>4, <1>5

\* stop() puts SHUTDOWN behind the whole workload.
LEMMA StopInv ==
    ASSUME Inv, stop
    PROVE  Inv'
  <1> USE WorkloadAssumption DEF Inv, stop, SendShutdown, Q!Put, work, rows
  <1>0. Shutdown \in Messages /\ Shutdown.timestamp = 0 /\ clock \in Nat
    BY DEF Messages, Shutdown, Msg, TypeOK, Times
  <1>1. /\ sent' \in Seq(Messages) /\ Len(sent') = Len(sent) + 1
        /\ \A k \in 1..Len(sent) : sent'[k] = sent[k]
        /\ sent'[Len(sent) + 1] = Shutdown /\ Len(sent) \in Nat /\ Len(popped) \in Nat
    BY <1>0 DEF TypeOK
  <1>2. TypeOK' /\ RowsPaired' /\ ControlInv'
    BY <1>1 DEF TypeOK, RowsPaired, ControlInv
  <1>3. ~Closed /\ Closed' /\ Pushed' = Pushed /\ NextId' = NextId /\ Pushed \in Nat
    BY Bounds DEF Closed, Pushed, NextId
  <1>4. SentInv'
    BY <1>1, <1>3 DEF SentInv
  <1>5. EngineInv'
    BY <1>1 DEF EngineInv, InHand
  <1>6. TimesInv'
    <2>1. \A k \in 1..Len(sent') : sent'[k].timestamp <= clock
      BY <1>0, <1>1 DEF TimesInv
    <2> QED
      BY <2>1, <1>3 DEF TimesInv, InHand
  <1> QED
    BY <1>2, <1>4, <1>5, <1>6

\* report() sorts both vectors.
LEMMA ReportInv ==
    ASSUME Inv, report
    PROVE  Inv'
  <1> USE WorkloadAssumption DEF Inv, report, queue
  <1>0. 3 * Workload \in Nat /\ Times = 0..(3 * Workload)
    BY DEF Times
  <1>1. /\ latencies_' \in Seq(Times) /\ Len(latencies_') = Len(latencies_)
        /\ queue_latencies_' \in Seq(Times)
        /\ Len(queue_latencies_') = Len(queue_latencies_)
    BY <1>0, SortedRanks DEF TypeOK
  <1>2. TypeOK' /\ ControlInv'
    BY <1>1 DEF TypeOK, ControlInv
  <1>3. RowsPaired'
    <2>0. /\ Len(queue_latencies_) = Len(latencies_)
          /\ latencies_ \in Seq(Times) /\ DOMAIN latencies_ = 1..Len(latencies_)
      <3>1. Len(queue_latencies_) = Len(latencies_)
        BY Zenon DEF EngineInv
      <3>2. latencies_ \in Seq(Times)
        BY DEF TypeOK
      <3> QED
        BY <3>1, <3>2
    <2>1. /\ Len(queue_latencies_) = Len(latencies_)
          /\ \A k \in 1..Len(latencies_) : queue_latencies_[k] <= latencies_[k]
      BY <2>0 DEF RowsPaired
    <2>2. \A k \in 1..Len(latencies_) : queue_latencies_'[k] <= latencies_'[k]
      BY <1>0, <2>1, SortedBelow DEF TypeOK
    <2>3. \A k \in 1..Len(latencies_') : 0 <= queue_latencies_'[k]
      BY <1>0, <1>1, <2>1
    <2> QED
      BY <1>1, <2>2, <2>3 DEF RowsPaired
  <1>4. SentInv'
    BY DEF SentInv, ControlInv, NextId, Pushed, Closed
  <1>5. EngineInv' /\ TimesInv'
    BY <1>1 DEF ControlInv, EngineInv, TimesInv, NextId, InHand
  <1> QED
    BY <1>2, <1>3, <1>4, <1>5

LEMMA WaitInv ==
    ASSUME Inv, wait_until_ready
    PROVE  Inv'
  <1> USE DEF Inv, wait_until_ready, IsReady, queue, work, rows
  <1>1. TypeOK' /\ RowsPaired' /\ ControlInv'
    BY DEF TypeOK, RowsPaired, ControlInv
  <1>2. SentInv' /\ EngineInv' /\ TimesInv'
    BY DEF SentInv, EngineInv, TimesInv, ControlInv, NextId, Pushed, Closed, InHand
  <1> QED
    BY <1>1, <1>2

\* The network thread stamps the next message, or has sent them all.
LEMMA StampInv ==
    ASSUME Inv, Stamp
    PROVE  Inv'
  <1> USE WorkloadAssumption DEF Inv, Stamp, MoreToSend, queue, work, rows
  <1>0. /\ NextId \in 0..Workload /\ Len(booked) \in 0..Workload
        /\ Len(latencies_) \in 0..Workload /\ clock \in Nat
        /\ clock <= NextId + Len(booked) + Len(latencies_)
    BY Bounds DEF TypeOK, Times, TimesInv
  <1>1. CASE NextId < Workload
    <2>1. PICK type \in Types : stamped' = Msg(type, NextId, clock')
      BY <1>1
    <2>2. clock' \in {clock, clock + 1} /\ clock' \in Times
      BY <1>0, <1>1 DEF Tick, Times
    <2>3. /\ stamped' \in Messages /\ stamped' # NoMsg /\ stamped' # Shutdown
          /\ stamped'.id = NextId /\ stamped'.timestamp = clock'
      BY <1>0, <1>1, <2>1, <2>2, TypesAssumption DEF Messages, Msg, NoMsg, Shutdown
    <2>4. NextId' = NextId + 1 /\ network' = "push" /\ Pushed' = Pushed
      BY <1>0, <1>1, <2>3 DEF NextId, Pushed
    <2>5. TypeOK' /\ RowsPaired' /\ ControlInv'
      BY <1>1, <2>2, <2>3 DEF TypeOK, RowsPaired, ControlInv
    <2>6. SentInv'
      BY <1>0, <1>1, <2>3, <2>4 DEF SentInv, Closed
    <2>7. EngineInv'
      BY DEF EngineInv, InHand
    <2>8. TimesInv'
      <3>1. \A k \in 1..Len(sent) : sent[k].timestamp \in Nat
        BY DEF TypeOK, Messages, Times, Shutdown, Msg
      <3>2. /\ clock' <= NextId' + Len(booked) + Len(latencies_)
            /\ popTime <= clock' /\ stamped'.timestamp <= clock'
            /\ \A k \in 1..Len(sent) : sent[k].timestamp <= clock'
        BY <1>0, <2>2, <2>3, <2>4, <3>1 DEF TimesInv, TypeOK, Times
      <3> QED
        BY <3>2 DEF TimesInv, InHand
    <2> QED
      BY <2>5, <2>6, <2>7, <2>8
  <1>2. CASE ~(NextId < Workload)
    <2>1. TypeOK' /\ RowsPaired' /\ ControlInv'
      BY <1>2 DEF TypeOK, RowsPaired, ControlInv
    <2>2. SentInv'
      BY <1>0, <1>2 DEF SentInv, NextId, Pushed, Closed, ControlInv
    <2>3. EngineInv' /\ TimesInv'
      BY <1>2 DEF EngineInv, TimesInv, NextId, InHand
    <2> QED
      BY <2>1, <2>2, <2>3
  <1> QED
    BY <1>1, <1>2

\* The stamped message enters the queue.
LEMMA PushInv ==
    ASSUME Inv, push
    PROVE  Inv'
  <1> USE WorkloadAssumption DEF Inv, push, Q!Put, work, rows
  <1>0. /\ stamped \in Messages /\ stamped # NoMsg /\ stamped.id \in Nat
        /\ stamped.type \in Types
    BY DEF TypeOK, SentInv, Messages, Shutdown, Msg
  <1>1. /\ sent' \in Seq(Messages) /\ Len(sent') = Len(sent) + 1
        /\ \A k \in 1..Len(sent) : sent'[k] = sent[k]
        /\ sent'[Len(sent) + 1] = stamped /\ Len(sent) \in Nat /\ Len(popped) \in Nat
    BY <1>0 DEF TypeOK
  <1>2. TypeOK' /\ RowsPaired' /\ ControlInv'
    BY <1>1 DEF TypeOK, RowsPaired, ControlInv
  <1>3. /\ ~Closed /\ ~Closed' /\ NextId' = NextId /\ NextId = stamped.id + 1
        /\ Pushed = stamped.id /\ Pushed' = Pushed + 1
    BY <1>0 DEF Closed, Pushed, NextId, ControlInv
  <1>4. SentInv'
    <2>1. ASSUME NEW k \in 1..Pushed'
          PROVE  sent'[k].type \in Types /\ sent'[k].id = k - 1
      <3>1. CASE k \in 1..Pushed
        BY <3>1, <1>1, <1>3 DEF SentInv
      <3>2. CASE k = Pushed + 1
        <4>1. sent'[k] = stamped /\ k - 1 = stamped.id
          BY <3>2, <1>0, <1>1, <1>3 DEF SentInv
        <4> QED
          BY <4>1, <1>0
      <3>3. Pushed \in Nat /\ k \in 1..(Pushed + 1)
        BY <1>0, <1>3
      <3>4. k \in 1..Pushed \/ k = Pushed + 1
        BY <3>3
      <3> QED
        BY <3>1, <3>2, <3>4
    <2> QED
      BY <2>1, <1>0, <1>1, <1>3 DEF SentInv
  <1>5. EngineInv'
    BY <1>1 DEF EngineInv, InHand
  <1>6. TimesInv'
    <2>1. \A k \in 1..Len(sent') : sent'[k].timestamp <= clock
      BY <1>1 DEF TimesInv
    <2> QED
      BY <2>1, <1>3 DEF TimesInv, InHand
  <1> QED
    BY <1>2, <1>4, <1>5, <1>6

\* The engine sets up, or pops the next message of the queue's history.
LEMMA PopInv ==
    ASSUME Inv, EngineInit \/ pop
    PROVE  Inv'
  <1> USE DEF Inv, work, rows
  <1>1. CASE EngineInit
    <2>1. TypeOK' /\ RowsPaired' /\ ControlInv'
      BY <1>1 DEF EngineInit, queue, TypeOK, RowsPaired, ControlInv
    <2>2. SentInv' /\ EngineInv' /\ TimesInv'
      BY <1>1 DEF EngineInit, queue, SentInv, EngineInv, TimesInv, ControlInv,
                  NextId, Pushed, Closed, InHand
    <2> QED
      BY <2>1, <2>2
  <1>2. CASE pop
    <2> USE <1>2 DEF pop, Q!Get
    <2>1. sent \in Seq(Messages) /\ sent[Len(popped) + 1] \in Messages
      BY DEF TypeOK
    <2>2. /\ popped' \in Seq(Messages) /\ Len(popped') = Len(popped) + 1
          /\ \A k \in 1..Len(popped) : popped'[k] = popped[k]
          /\ popped'[Len(popped) + 1] = sent[Len(popped) + 1]
          /\ Len(popped) \in Nat /\ Len(sent) \in Nat
      BY <2>1 DEF TypeOK
    <2>3. TypeOK' /\ RowsPaired' /\ ControlInv'
      BY <2>2 DEF TypeOK, RowsPaired, ControlInv
    <2>4. SentInv' /\ TimesInv'
      BY DEF SentInv, TimesInv, ControlInv, NextId, Pushed, Closed
    <2>5. EngineInv'
      BY <2>2 DEF EngineInv
    <2> QED
      BY <2>3, <2>4, <2>5
  <1> QED
    BY <1>1, <1>2

\* The message in hand is the last one popped, of the history of the queue.
LEMMA InHandSent ==
    ASSUME Inv, engine \in {"look", "record"}
    PROVE  /\ Len(popped) \in 1..Len(sent) /\ Len(sent) \in Nat
           /\ InHand = sent[Len(popped)] /\ InHand \in Messages
           /\ InHand.timestamp \in Nat /\ InHand.timestamp <= clock
           /\ InHand.type # "SHUTDOWN" => Len(popped) <= Pushed
  <1>1. Len(popped) \in 1..Len(sent) /\ Len(sent) \in Nat
    BY DEF Inv, TypeOK, EngineInv
  <1>2. InHand = sent[Len(popped)]
    BY <1>1 DEF Inv, EngineInv, InHand
  <1>3. InHand \in Messages
    BY <1>1, <1>2 DEF Inv, TypeOK
  <1>4. InHand.timestamp \in Nat
    BY <1>3, WorkloadAssumption DEF Messages, Shutdown, Msg, Times
  <1>5. InHand.type # "SHUTDOWN" => Len(popped) <= Pushed
    <2>1. Pushed \in Nat
      BY Bounds
    <2> QED
      BY <1>1, <1>2, <2>1 DEF Inv, SentInv, Shutdown, Msg
  <1> QED
    BY <1>1, <1>2, <1>3, <1>4, <1>5 DEF Inv, TimesInv

\* The engine looks at the message in hand: it ends, or books the message.
LEMMA LookInv ==
    ASSUME Inv, BreakOnShutdown \/ Match
    PROVE  Inv'
  <1> USE WorkloadAssumption DEF Inv, queue
  <1>1. CASE BreakOnShutdown
    <2> USE <1>1 DEF BreakOnShutdown, work, rows
    <2>1. TypeOK' /\ RowsPaired' /\ ControlInv'
      BY DEF TypeOK, RowsPaired, ControlInv
    <2>2. SentInv' /\ EngineInv' /\ TimesInv'
      BY DEF SentInv, EngineInv, TimesInv, ControlInv, NextId, Pushed, Closed, InHand
    <2> QED
      BY <2>1, <2>2
  <1>2. CASE Match
    <2> USE <1>2 DEF Match, rows
    <2>0. /\ InHand \in Messages /\ InHand = popped[Len(popped)]
          /\ InHand.timestamp \in Nat /\ InHand.timestamp <= clock
      BY InHandSent DEF InHand
    <2>1. /\ booked' \in Seq(Messages) /\ Len(booked') = Len(booked) + 1
          /\ \A k \in 1..Len(booked) : booked'[k] = booked[k]
          /\ booked'[Len(booked) + 1] = InHand
          /\ Len(booked) \in Nat /\ Len(popped) = Len(booked) + 1
      BY <2>0 DEF TypeOK, EngineInv
    <2>2. EngineInv'
      <3>1. ASSUME NEW k \in 1..Len(booked')
            PROVE  booked'[k] = popped[k] /\ popped[k].type # "SHUTDOWN"
        <4>1. CASE k \in 1..Len(booked)
          BY <4>1, <2>1 DEF EngineInv
        <4>2. CASE k = Len(booked) + 1
          BY <4>2, <2>0, <2>1 DEF EngineInv
        <4> QED
          BY <4>1, <4>2, <2>1
      <3> QED
        BY <3>1, <2>1 DEF EngineInv, TypeOK
    <2>3. SentInv' /\ ControlInv'
      BY DEF SentInv, ControlInv, NextId, Pushed, Closed
    <2>4. clock \in Nat /\ clock' \in {clock, clock + 1} /\ popTime' = clock'
      BY DEF TypeOK, Times, Tick
    <2>5. TimesInv'
      <3>1. \A k \in 1..Len(sent) : sent[k].timestamp \in Nat
        BY DEF TypeOK, Messages, Times, Shutdown, Msg
      <3>2. /\ NextId \in Nat /\ NextId' = NextId /\ Len(latencies_) \in Nat
            /\ stamped.timestamp \in Nat
        BY Bounds DEF NextId, TypeOK, Messages, Times, Shutdown, NoMsg, Msg
      <3>3. /\ clock' <= NextId' + Len(booked') + Len(latencies_')
            /\ popTime' <= clock' /\ stamped'.timestamp <= clock'
        BY <2>1, <2>4, <3>2 DEF TimesInv
      <3>4. \A k \in 1..Len(sent') : sent'[k].timestamp <= clock'
        BY <2>4, <3>1 DEF TimesInv
      <3>5. InHand' = InHand /\ InHand.timestamp <= popTime'
        BY <2>0, <2>4 DEF InHand
      <3> QED
        BY <3>3, <3>4, <3>5 DEF TimesInv
    <2>6. clock' \in Times
      <3>1. Len(popped) <= Pushed
        BY InHandSent
      <3>2. /\ NextId \in 0..Workload /\ Pushed \in 0..Workload
            /\ Len(latencies_) \in 0..Len(booked)
        BY Bounds
      <3>3. clock' <= Workload + Workload + Workload
        BY <2>1, <2>4, <3>1, <3>2 DEF TimesInv
      <3> QED
        BY <2>4, <3>3 DEF Times
    <2>7. TypeOK' /\ RowsPaired'
      BY <2>1, <2>4, <2>6 DEF TypeOK, RowsPaired
    <2> QED
      BY <2>2, <2>3, <2>5, <2>7
  <1> QED
    BY <1>1, <1>2

\* The engine records both latencies of the message in hand.
LEMMA RecordInv ==
    ASSUME Inv, Record
    PROVE  Inv'
  <1> USE WorkloadAssumption DEF Inv, Record, queue
  <1>0. /\ InHand.timestamp \in Nat /\ InHand.timestamp <= popTime
        /\ popTime \in Nat /\ popTime <= clock /\ clock \in Nat
        /\ clock' \in {clock, clock + 1}
    BY InHandSent DEF TypeOK, Times, TimesInv, Tick
  <1>1. /\ NextId \in 0..Workload /\ Len(booked) \in 0..Workload
        /\ Len(latencies_) \in Nat /\ Len(booked) = Len(latencies_) + 1
        /\ Len(queue_latencies_) = Len(latencies_)
    BY Bounds DEF EngineInv
  <1>2. clock' \in Times
    <2>1. clock' <= Workload + Workload + Workload
      BY <1>0, <1>1 DEF TimesInv
    <2> QED
      BY <1>0, <2>1 DEF Times
  <1> DEFINE l == clock' - InHand.timestamp
             q == QueueLatency
  <1>3. l \in Times /\ q \in Times /\ 0 <= q /\ q <= l
    BY <1>0, <1>2 DEF QueueLatency, Times
  <1> HIDE DEF l, q
  <1>4. latencies_' = Append(latencies_, l) /\ queue_latencies_' = Append(queue_latencies_, q)
    BY DEF l, q
  <1>5. /\ latencies_' \in Seq(Times) /\ Len(latencies_') = Len(latencies_) + 1
        /\ queue_latencies_' \in Seq(Times)
        /\ Len(queue_latencies_') = Len(latencies_) + 1
    BY <1>1, <1>3, <1>4 DEF TypeOK
  <1>6. RowsPaired'
    <2> SUFFICES ASSUME NEW k \in 1..Len(latencies_')
                 PROVE  0 <= queue_latencies_'[k] /\ queue_latencies_'[k] <= latencies_'[k]
      BY <1>5 DEF RowsPaired
    <2>1. CASE k \in 1..Len(latencies_)
      BY <2>1, <1>1, <1>4 DEF TypeOK, RowsPaired
    <2>2. CASE k = Len(latencies_) + 1
      BY <2>2, <1>1, <1>3, <1>4 DEF TypeOK
    <2> QED
      BY <2>1, <2>2, <1>1, <1>5
  <1>7. TypeOK'
    BY <1>2, <1>5 DEF TypeOK
  <1>8. SentInv' /\ ControlInv'
    BY DEF SentInv, ControlInv, NextId, Pushed, Closed
  <1>9. EngineInv'
    BY <1>1, <1>5 DEF EngineInv
  <1>10. TimesInv'
    <2>1. \A k \in 1..Len(sent) : sent[k].timestamp \in Nat
      BY DEF TypeOK, Messages, Times, Shutdown, Msg
    <2>2. stamped.timestamp \in Nat /\ NextId' = NextId
      BY DEF NextId, TypeOK, Messages, Times, Shutdown, NoMsg, Msg
    <2>3. /\ clock' <= NextId' + Len(booked') + Len(latencies_')
          /\ popTime' <= clock' /\ stamped'.timestamp <= clock'
      BY <1>0, <1>1, <1>5, <2>2 DEF TimesInv
    <2>4. \A k \in 1..Len(sent') : sent'[k].timestamp <= clock'
      BY <1>0, <2>1 DEF TimesInv
    <2> QED
      BY <2>3, <2>4 DEF TimesInv
  <1> QED
    BY <1>6, <1>7, <1>8, <1>9, <1>10

LEMMA StepInv == Inv /\ [Next]_vars => Inv'
  <1>1. Inv /\ UNCHANGED vars => Inv'
    BY DEF Inv, vars, queue, work, rows, TypeOK, ControlInv, SentInv, EngineInv,
           TimesInv, RowsPaired, NextId, Pushed, Closed, InHand
  <1> QED
    BY <1>1, MainInv, StopInv, ReportInv, WaitInv, StampInv, PushInv, PopInv,
       LookInv, RecordInv
       DEF Next, Main, Network, Engine

LEMMA Invariance == Spec => []Inv
  BY InitInv, StepInv, PTL DEF Spec
-----------------------------------------------------------------------------
(* What follows for the harness *)

\* Threads, messages and times stay in their sets.
THEOREM TypeCorrect == Spec => []TypeOK
  <1>1. Inv => TypeOK
    BY DEF Inv
  <1> QED
    BY <1>1, Invariance, PTL

\* The handover of the queue from the network thread to stop() is clean.
THEOREM SingleProducer == Spec => []OneProducer
  <1>1. Inv => OneProducer
    BY DEF Inv, ControlInv, OneProducer
  <1> QED
    BY <1>1, Invariance, PTL

\* The latency vectors are read by main when nobody else uses them.
THEOREM ReportsAlone == Spec => []ReportAlone
  <1>1. Inv => ReportAlone
    BY DEF Inv, TypeOK, ControlInv, ReportAlone
  <1> QED
    BY <1>1, Invariance, PTL

\* The book is set up before the first message is in the queue.
THEOREM ReadyBeforeSent == Spec => []ReadyFirst
  <1>1. Inv => ReadyFirst
    <2> SUFFICES ASSUME Inv, ~ready_
                 PROVE  sent = <<>>
      BY DEF ReadyFirst
    <2>1. Len(sent) = 0
      BY DEF Inv, TypeOK, ControlInv, SentInv, Pushed, NextId, Closed
    <2> QED
      BY <2>1 DEF Inv, TypeOK
  <1> QED
    BY <1>1, Invariance, PTL

\* However long the workload, all of it is booked and recorded, in order, when
\* the engine thread has ended.
THEOREM AllDone == Spec => []WorkloadDone
  <1>1. Inv => WorkloadDone
    <2> SUFFICES ASSUME Inv, engine = "done"
                 PROVE  /\ [k \in DOMAIN booked |-> booked[k].id]
                              = [k \in 1..Workload |-> k - 1]
                        /\ Len(latencies_) = Workload
                        /\ Len(queue_latencies_) = Workload
      BY DEF WorkloadDone
    <2>1. /\ Len(popped) = Len(booked) + 1 /\ Len(popped) <= Len(sent)
          /\ popped[Len(popped)] = sent[Len(popped)]
          /\ sent[Len(popped)].type = "SHUTDOWN"
          /\ Len(booked) \in 0..Pushed /\ Pushed \in 0..Workload
      <3>1. Len(booked) \in 0..Pushed /\ Pushed \in 0..Workload
        BY Bounds
      <3>2. Len(popped) = Len(booked) + 1 /\ Len(popped) <= Len(sent)
        BY DEF Inv, EngineInv
      <3>3. Len(popped) \in 1..Len(popped)
        BY <3>1, <3>2
      <3> QED
        BY <3>1, <3>2, <3>3 DEF Inv, EngineInv, InHand
    <2>2. Closed /\ Len(booked) = Pushed
      <3>1. Len(popped) \notin 1..Pushed
        BY <2>1, TypesAssumption DEF Inv, SentInv
      <3> QED
        BY <2>1, <3>1 DEF Inv, SentInv
    <2>3. Pushed = Workload
      BY <2>2 DEF Inv, ControlInv, SentInv, Closed, Pushed
    <2>4. DOMAIN booked = 1..Workload
      BY <2>2, <2>3 DEF Inv, TypeOK
    <2>5. \A k \in 1..Workload : booked[k].id = k - 1
      BY <2>1, <2>2, <2>3 DEF Inv, EngineInv, SentInv
    <2>6. Len(latencies_) = Workload /\ Len(queue_latencies_) = Workload
      BY <2>2, <2>3 DEF Inv, EngineInv
    <2> QED
      BY <2>4, <2>5, <2>6
  <1> QED
    BY <1>1, Invariance, PTL

\* No message waits longer than it takes in all, in the rows that are dumped
\* and, place by place, in the vectors that report() has sorted separately.
THEOREM LatenciesPaired == Spec => []RowsPaired
  <1>1. Inv => RowsPaired
    BY DEF Inv
  <1> QED
    BY <1>1, Invariance, PTL
=============================================================================
