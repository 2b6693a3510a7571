----------------------------- MODULE Benchmarks -----------------------------
(***************************************************************************)
(* The programs src/benchmark_book.cpp and src/benchmark_replace.cpp as    *)
(* clients of FastBitsetBook: what they submit, cancel and replace, in     *)
(* which order, with init() of the same book between scenarios.            *)
(*                                                                         *)
(* A random number is any value of its distribution.  benchmark_replace    *)
(* draws its operations before it starts; here each is drawn when it is    *)
(* first used and kept for scenario B.                                     *)
(*                                                                         *)
(* main() of benchmark_book runs each scenario on FastOrderBook first and  *)
(* then on FastBitsetBook, on two books that share nothing.  This is the   *)
(* half with FastBitsetBook; whether the scans of the other half end is    *)
(* not said here.                                                          *)
(***************************************************************************)
EXTENDS FastBitsetBook

CONSTANTS
    Programs,                               \* "sparse" and "seed A": where main() starts
    SparseLevels, SparseOrdersPerLevel, SparseRounds,
    WideOrders, WideSpread,
    ChurnOps,
    LiveOrders, NumOps, Margin              \* benchmark_replace

\* The benchmarks size the pool for all the ids they use, and no order they
\* draw asks for nothing.
SparseOrders == SparseLevels * SparseOrdersPerLevel * SparseRounds
ASSUME SizesAssumption ==
    /\ Programs \subseteq {"sparse", "seed A"}
    /\ {SparseOrdersPerLevel, SparseRounds, WideOrders, LiveOrders} \subseteq Nat \ {0}
    /\ {SparseOrders + 1, 2 * WideOrders, ChurnOps, LiveOrders} \subseteq 1..MaxOrders
    /\ SparseLevels \in 1..(MAX_PRICES - 1) /\ WideSpread \in 1..MAX_PRICES
    /\ NumOps \in Nat /\ Margin \in 1..(MAX_PRICES \div 2 - 1)
    /\ 0 \notin Qtys

VARIABLES
    at,         \* the scenario the program has come to
    i,          \* loop counter
    next_id,    \* benchmark_book: the next order id
    live_ids,   \* scenario churn: ids to cancel
    seeds, ops, \* benchmark_replace: orders of seed_book(), operations
    left_A      \* what rests after scenario A

bench == <<at, i, next_id, live_ids, seeds, ops, left_A>>
program == <<next_id, live_ids>>
drawn == <<seeds, ops, left_A>>

\* The program is at a statement of scenario s; no submit_order() is running.
At(s) == at = s /\ call = Idle

Resting == {[id    |-> orders[s].id,    is_buy |-> orders[s].is_buy,
             price |-> orders[s].price, qty    |-> orders[s].qty] : s \in OnLevels}

BenchInit ==
    /\ Init
    /\ at \in Programs
    /\ i = 0 /\ next_id = 0 /\ live_ids = {}
    /\ seeds = <<>> /\ ops = <<>> /\ left_A = {}

\* A submit_order() of the program goes on.
Matching == (match \/ add_order) /\ UNCHANGED bench
-----------------------------------------------------------------------------
(* benchmark_book *)

SubmitNext(price, qty, is_buy) ==
    Submit(next_id, price, qty, is_buy) /\ next_id' = next_id + 1

\* Scenario 1: rounds over the levels.
SparsePrice(k) ==
    ((k \div SparseOrdersPerLevel) % SparseLevels) * (MAX_PRICES \div SparseLevels) + 1

SparseInsert ==
    /\ At("sparse") /\ next_id < SparseOrders
    /\ SubmitNext(SparsePrice(next_id), 1, FALSE)
    /\ UNCHANGED <<at, i, live_ids, drawn>>

Sweep ==
    /\ At("sparse") /\ next_id = SparseOrders /\ at' = "swept"
    /\ SubmitNext(MAX_PRICES - 1, SparseOrders, TRUE)
    /\ UNCHANGED <<i, live_ids, drawn>>

StartWide ==
    /\ At("swept") /\ at' = "wide"
    /\ init /\ next_id' = 0
    /\ UNCHANGED <<i, live_ids, drawn>>

\* Scenario 2: asks at the top of the ladder, then as many buys.
Wide ==
    /\ At("wide") /\ next_id < 2 * WideOrders
    /\ IF next_id < WideOrders
       THEN SubmitNext(MAX_PRICES - 1 - (next_id % WideSpread), 1, FALSE)
       ELSE SubmitNext(MAX_PRICES - 1, 1, TRUE)
    /\ UNCHANGED <<at, i, live_ids, drawn>>

StartChurn ==
    /\ At("wide") /\ next_id = 2 * WideOrders /\ at' = "churn"
    /\ init /\ next_id' = 0
    /\ UNCHANGED <<i, live_ids, drawn>>

\* Scenario 3: any mix of orders, cancels and orders that cross everything.
\* A cancelled id is not cancelled again, but may long be filled.
ChurnSubmit(price, qty, is_buy) ==
    SubmitNext(price, qty, is_buy) /\ live_ids' = live_ids \cup {next_id}

ChurnCancel(id) ==
    cancel_order(id) /\ live_ids' = live_ids \ {id} /\ UNCHANGED next_id

ChurnAggressive(is_buy) ==
    /\ SubmitNext(IF is_buy THEN MAX_PRICES - 1 ELSE 0, 1, is_buy)
    /\ UNCHANGED live_ids

Churn ==
    /\ At("churn") /\ i < ChurnOps /\ i' = i + 1
    /\ \/ \E price \in Prices, qty \in Qtys, is_buy \in BOOLEAN :
             ChurnSubmit(price, qty, is_buy)
       \/ \E id \in live_ids : ChurnCancel(id)
       \/ \E is_buy \in BOOLEAN : ChurnAggressive(is_buy)
    /\ UNCHANGED <<at, drawn>>
-----------------------------------------------------------------------------
(* benchmark_replace *)

is_bid(id) == id % 2 = 0

\* Mutant: the ranges of bids and asks share a price.
DistOverlap(id) == IF is_bid(id) THEN Margin..(MAX_PRICES \div 2)
                   ELSE (MAX_PRICES \div 2)..(MAX_PRICES - Margin)

\* bid_dist and ask_dist
dist(id) == IF is_bid(id) THEN Margin..(MAX_PRICES \div 2 - 1)
            ELSE (MAX_PRICES \div 2)..(MAX_PRICES - Margin)

Draws(id) == [id : {id}, new_price : dist(id), new_qty : Qtys]

SubmitDraw(op) == Submit(op.id, op.new_price, op.new_qty, is_bid(op.id))

\* seed_book(): the orders of scenario A are drawn, B draws them again from
\* the same seed.
SeedA ==
    /\ At("seed A") /\ i < LiveOrders
    /\ \E op \in Draws(i) : SubmitDraw(op) /\ seeds' = Append(seeds, op)
    /\ i' = i + 1
    /\ UNCHANGED <<at, program, ops, left_A>>

ReplaceA ==
    /\ At("seed A") /\ i \in LiveOrders..(LiveOrders + NumOps - 1)
    /\ \E op \in UNION {Draws(id) : id \in 0..(LiveOrders - 1)} :
          replace_order(op.id, op.new_price, op.new_qty) /\ ops' = Append(ops, op)
    /\ i' = i + 1
    /\ UNCHANGED <<at, program, seeds, left_A>>

StartB ==
    /\ At("seed A") /\ i = LiveOrders + NumOps /\ at' = "seed B"
    /\ left_A' = Resting
    /\ init /\ i' = 1
    /\ UNCHANGED <<program, seeds, ops>>

SeedB ==
    /\ At("seed B") /\ i <= LiveOrders
    /\ SubmitDraw(seeds[i])
    /\ i' = IF i = LiveOrders THEN 1 ELSE i + 1
    /\ at' = IF i = LiveOrders THEN "cancel" ELSE at
    /\ UNCHANGED <<program, drawn>>

CancelB ==
    /\ At("cancel") /\ i <= NumOps /\ at' = "submit"
    /\ cancel_order(ops[i].id)
    /\ UNCHANGED <<i, program, drawn>>

SubmitB ==
    /\ At("submit") /\ at' = "cancel"
    /\ SubmitDraw(ops[i])
    /\ i' = i + 1
    /\ UNCHANGED <<program, drawn>>
-----------------------------------------------------------------------------
BenchNext ==
    \/ Matching
    \/ SparseInsert \/ Sweep \/ StartWide \/ Wide \/ StartChurn \/ Churn
    \/ SeedA \/ ReplaceA \/ StartB \/ SeedB \/ CancelB \/ SubmitB

BenchSpec == BenchInit /\ [][BenchNext]_<<vars, bench>>

\* One thread, which nothing blocks.
BenchFairSpec == BenchSpec /\ WF_<<vars, bench>>(BenchNext)
-----------------------------------------------------------------------------
ReplaceDone == At("cancel") /\ i > NumOps

\* "Bid and ask price ranges are disjoint so cancel+submit cannot accidentally
\* cross and trigger matching" (src/benchmark_replace.cpp): no order trades.
NoTrade ==
    at \in {"seed A", "seed B", "cancel", "submit"} /\ call # Idle => ~Crosses

\* Scenario B of benchmark_replace does the work of scenario A: native replaces
\* and pairs of cancel and submit leave the same orders behind, although B runs
\* on the pool and the id table that A has used.
SameBook == ReplaceDone => Resting = left_A

\* "then 1 sweeping order" and "buys crossing 1-by-1" (src/benchmark_book.cpp):
\* the buys of scenarios 1 and 2 take every ask, and every slot is free again.
SweptEmpty ==
    At("swept") \/ (At("wide") /\ next_id = 2 * WideOrders) =>
        OnLevels = {} /\ Members(Chain(next_free_order_idx)) = Slots

\* Scenarios 1 and 2 of benchmark_book and both scenarios of benchmark_replace
\* come to their end: every submit_order() returns and no call leaves the
\* arrays of the book, where it would have no step.  Of churn this is not
\* claimed: its cancels corrupt the lists that later calls follow.
Finishes == <>(At("churn") \/ ReplaceDone)
=============================================================================
