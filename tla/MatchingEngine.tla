--------------------------- MODULE MatchingEngine ---------------------------
(***************************************************************************)
(* The end-to-end harness: main() and run() of src/server.cpp with the     *)
(* MatchingEngine of src/engine/matching_engine.h.  Three threads: main,   *)
(* which starts and joins the others; network, which stamps and pushes the *)
(* workload; and the engine, which pops, matches and records latencies     *)
(* until it pops the SHUTDOWN message.  The queue between them is the Fifo *)
(* that SPSCQueue and NaiveQueue implement, with push() and pop() as the   *)
(* atomic steps Put and Get.                                               *)
(*                                                                         *)
(* clock is CLOCK_MONOTONIC_RAW: it never goes backwards, and two calls of *)
(* clock_gettime() return the same time or a later one.  The pacing loop   *)
(* only delays the network thread.                                         *)
(***************************************************************************)
EXTENDS Integers, Sequences, FiniteSets

CONSTANTS
    Workload,   \* args.workload: number of messages
    Types,      \* their types; the harness sends "SUBMIT" only
    Capacity    \* how many messages the queue holds

\* report() indexes the latency vectors, so a workload has a message.
ASSUME WorkloadAssumption == Workload \in Nat \ {0}
ASSUME TypesAssumption    == Types \subseteq {"SUBMIT", "CANCEL"}
ASSUME CapacityAssumption == Capacity \in Nat \ {0}

VARIABLES
    main, network, engine,  \* where each thread is
    ready_,                 \* the engine has set up its book
    sent, popped,           \* the queue: messages pushed, messages popped
    stamped,                \* network: the message about to be pushed
    popTime,                \* engine: now_ns_pop of the message in hand
    booked,                 \* messages the book has been given, in order
    latencies_, queue_latencies_,
    clock

queue == <<sent, popped>>
rows  == <<latencies_, queue_latencies_>>
work  == <<popTime, booked, rows>>
vars  == <<main, network, engine, ready_, queue, stamped, work, clock>>

Msg(type, id, timestamp) == [type |-> type, id |-> id, timestamp |-> timestamp]
Shutdown == Msg("SHUTDOWN", 0, 0)
NoMsg == Msg("NONE", 0, 0)

Times == 0..(3 * Workload)
Messages == {Shutdown} \cup
    [type : Types, id : 0..(Workload - 1), timestamp : Times]

Q == INSTANCE Fifo

\* clock_gettime(): time has passed since the last call, or too little.
Tick == clock' \in {clock, clock + 1}

Init ==
    /\ main = "parse" /\ network = "off" /\ engine = "off"
    /\ ready_ = FALSE
    /\ Q!Init
    /\ stamped = NoMsg /\ popTime = 0
    /\ booked = <<>> /\ latencies_ = <<>> /\ queue_latencies_ = <<>>
    /\ clock = 0
-----------------------------------------------------------------------------
(* The main thread: main() and run() of server.cpp *)

\* Help was asked for, an argument is wrong, std::stoull() throws, or the
\* harness runs.
parse_args ==
    /\ main = "parse" /\ main' \in {"exit_0", "exit_1", "aborted", "start"}
    /\ UNCHANGED <<network, engine, ready_, queue, stamped, work, clock>>

\* engine.start() creates the engine thread.
start ==
    /\ main = "start" /\ main' = "spawn"
    /\ engine' = "init"
    /\ UNCHANGED <<network, ready_, queue, stamped, work, clock>>

\* The workload is built and the network thread created.
SpawnNetwork ==
    /\ main = "spawn" /\ main' = "join_network"
    /\ network' = "wait_until_ready"
    /\ UNCHANGED <<engine, ready_, queue, stamped, work, clock>>

\* Mutants: a join does not wait.
NetworkAnywhere == TRUE
EngineAnywhere  == TRUE

NetworkDone == network = "done"
EngineDone  == engine = "done"

JoinNetwork ==
    /\ main = "join_network" /\ NetworkDone /\ main' = "stop"
    /\ UNCHANGED <<network, engine, ready_, queue, stamped, work, clock>>

\* Mutant: stop() joins without sending the sentinel.
SendNothing == UNCHANGED queue

SendShutdown == Q!Put(Shutdown)

\* engine.stop(): the sentinel goes through the queue.
stop ==
    /\ main = "stop" /\ main' = "join_engine"
    /\ SendShutdown
    /\ UNCHANGED <<network, engine, ready_, stamped, work, clock>>

\* engine.stop(): thread_.join().
JoinEngine ==
    /\ main = "join_engine" /\ EngineDone /\ main' = "dump"
    /\ UNCHANGED <<network, engine, ready_, queue, stamped, work, clock>>

\* dump_latencies() is not asked for or succeeds, or the file cannot be
\* written and run() returns false.
dump_latencies ==
    /\ main = "dump" /\ main' \in {"report", "exit_1"}
    /\ UNCHANGED <<network, engine, ready_, queue, stamped, work, clock>>

\* std::sort: the value at place k is the k-th smallest.
Sorted(s) ==
    [k \in 1..Len(s) |->
        CHOOSE v \in {s[j] : j \in 1..Len(s)} :
            /\ Cardinality({j \in 1..Len(s) : s[j] < v}) < k
            /\ Cardinality({j \in 1..Len(s) : s[j] <= v}) >= k]

\* report() sorts both vectors before it prints their percentiles.
report ==
    /\ main = "report" /\ main' = "exit_0"
    /\ latencies_' = Sorted(latencies_)
    /\ queue_latencies_' = Sorted(queue_latencies_)
    /\ UNCHANGED <<network, engine, ready_, queue, stamped, popTime, booked, clock>>
-----------------------------------------------------------------------------
(* The network thread *)

\* Mutant: the network thread does not look at ready_.
IsReadyUntested == TRUE

IsReady == ready_

wait_until_ready ==
    /\ network = "wait_until_ready" /\ IsReady /\ network' = "stamp"
    /\ UNCHANGED <<main, engine, ready_, queue, stamped, work, clock>>

\* The position of the network thread in the workload.
NextId == IF stamped = NoMsg THEN 0 ELSE stamped.id + 1

\* Mutant: one message too many.
MoreToSendOffByOne == NextId <= Workload

MoreToSend == NextId < Workload

\* The next message of the workload gets its timestamp; the loop ends when
\* there is none.
Stamp ==
    /\ network = "stamp"
    /\ IF MoreToSend
       THEN /\ network' = "push"
            /\ Tick
            /\ \E type \in Types : stamped' = Msg(type, NextId, clock')
       ELSE network' = "done" /\ UNCHANGED <<clock, stamped>>
    /\ UNCHANGED <<main, engine, ready_, queue, work>>

\* queue.push() blocks while the queue is full.
push ==
    /\ network = "push" /\ network' = "stamp"
    /\ Q!Put(stamped)
    /\ UNCHANGED <<main, engine, ready_, stamped, work, clock>>
-----------------------------------------------------------------------------
(* The engine thread: run() of MatchingEngine *)

\* The book and the latency vectors are set up before ready_ is stored.
EngineInit ==
    /\ engine = "init" /\ engine' = "pop"
    /\ ready_' = TRUE
    /\ UNCHANGED <<main, network, queue, stamped, work, clock>>

\* queue_.pop() blocks while the queue is empty.
pop ==
    /\ engine = "pop" /\ engine' = "look"
    /\ Q!Get
    /\ UNCHANGED <<main, network, ready_, stamped, work, clock>>

InHand == popped[Len(popped)]

BreakOnShutdown ==
    /\ engine = "look" /\ InHand.type = "SHUTDOWN" /\ engine' = "done"
    /\ UNCHANGED <<main, network, ready_, queue, stamped, work, clock>>

\* ts_pop is read, and submit_order() or cancel_order() of the book called.
Match ==
    /\ engine = "look" /\ InHand.type \in {"SUBMIT", "CANCEL"} /\ engine' = "record"
    /\ Tick /\ popTime' = clock'
    /\ booked' = Append(booked, InHand)
    /\ UNCHANGED <<main, network, ready_, queue, stamped, rows>>

\* Mutant: a time instead of a difference of times.
QueueLatencyAbsolute == popTime

QueueLatency == popTime - InHand.timestamp

\* ts is read and both latencies are recorded.
Record ==
    /\ engine = "record" /\ engine' = "pop"
    /\ Tick
    /\ latencies_' = Append(latencies_, clock' - InHand.timestamp)
    /\ queue_latencies_' = Append(queue_latencies_, QueueLatency)
    /\ UNCHANGED <<main, network, ready_, queue, stamped, popTime, booked>>
-----------------------------------------------------------------------------
Main == parse_args \/ start \/ SpawnNetwork \/ JoinNetwork \/ stop \/ JoinEngine
        \/ dump_latencies \/ report
Network == wait_until_ready \/ Stamp \/ push
Engine == EngineInit \/ pop \/ BreakOnShutdown \/ Match \/ Record

Next == Main \/ Network \/ Engine

Spec == Init /\ [][Next]_vars

\* The operating system runs all three threads: network and engine spin on
\* cores of their own and main blocks in join().
FairSpec == Spec /\ WF_vars(Main) /\ WF_vars(Network) /\ WF_vars(Engine)
-----------------------------------------------------------------------------
\* The threads are where they can be, and the network thread stamps and pushes
\* no message that is not of the workload.
TypeOK ==
    /\ main \in {"parse", "start", "spawn", "join_network", "stop", "join_engine",
                 "dump", "report", "exit_0", "exit_1", "aborted"}
    /\ network \in {"off", "wait_until_ready", "stamp", "push", "done"}
    /\ engine \in {"off", "init", "pop", "look", "record", "done"}
    /\ ready_ \in BOOLEAN
    /\ sent \in Seq(Messages) /\ popped \in Seq(Messages)
    /\ stamped \in Messages \cup {NoMsg}
    /\ popTime \in Times /\ clock \in Times
    /\ booked \in Seq(Messages)
    /\ latencies_ \in Seq(Times) /\ queue_latencies_ \in Seq(Times)

\* The network thread and stop() never push at the same time: SPSCQueue has
\* one producer although two threads call push().
OneProducer == ~(network = "push" /\ main = "stop")

\* The engine's vectors are dumped, sorted and printed when the engine thread
\* does not use them any more, and the program ends with both threads joined
\* (the destructor of a std::thread that is not would terminate it).
ReportAlone ==
    main \in {"dump", "report", "exit_0", "exit_1", "aborted"} =>
        {network, engine} \subseteq {"off", "done"}

\* No message is sent before the engine has set up its book.
ReadyFirst == sent # <<>> => ready_

\* When the main thread comes to report, the book was given every message of
\* the workload exactly once and in order, and "one row per message" was
\* recorded: the SHUTDOWN sentinel overtakes nothing.
WorkloadDone ==
    engine = "done" =>
        /\ [k \in DOMAIN booked |-> booked[k].id] = [k \in 1..Workload |-> k - 1]
        /\ Len(latencies_) = Workload /\ Len(queue_latencies_) = Workload

\* A message waits in the queue no longer than it takes in all, in the rows
\* that dump_latencies() writes and in the sorted vectors whose percentiles
\* report() prints side by side; no difference of times is negative.
RowsPaired ==
    \A k \in DOMAIN latencies_ :
        0 <= queue_latencies_[k] /\ queue_latencies_[k] <= latencies_[k]

\* The harness comes to its end: no thread waits for ever for another one.
Terminates == <>(main \in {"exit_0", "exit_1", "aborted"})
=============================================================================
