# A TLA+ specification of lobook

lobook is a limit order book in C++ with three implementations of the book, two
queues, and a harness that measures latency from end to end. This directory
holds TLA+ modules that model its parts, TLC configurations that check them on
small instances, and TLAPS proofs of the central results for instances of any
size. Paths below are relative to the root of the repository (`src/engine/...`).

## The system

| Component | Source | State | Operations | Module |
|---|---|---|---|---|
| SPSC ring | `src/engine/spsc_queue.h` | slots, `head_`, `tail_`, each side's cached copy of the other's index | `push`, `pop` | `SPSCQueue` |
| Mutex queue | `src/engine/naive_queue.h` | `std::queue`, mutex, condition variable | `push`, `pop`, `try_pop` | `NaiveQueue` |
| Price bitset | `src/engine/price_bitset.h` | three levels of 64-bit words | `set`, `clear`, `clear_all`, `test`, `empty`, `find_highest`, `find_lowest` | `PriceBitset` |
| Bitset book | `src/engine/fast_bitset_book.h` | pool of orders, free list, a list per side and price, two price bitsets, `id_map` | `init`, `submit_order` (`match`, `add_order`), `cancel_order`, `replace_order`, `get_quantity` | `OrderPool`, `FastBitsetBook` |
| Ladder book | `src/engine/fast_book.h` | the same without bitsets | the same without `replace_order` | `OrderPool`, `FastOrderBook` |
| Naive book | `src/engine/simple_book.h` | two maps of lists, lookup of iterators, trade counter | `add_order` (`match`, `process_list`), `cancel_order`, `has_order` | `NaiveOrderBook` |
| Matching engine | `src/engine/matching_engine.h` | thread, `ready_`, book, two vectors of latencies | `start`, `wait_until_ready`, `run`, `stop`, `dump_latencies`, `report` | `MatchingEngine` |
| Harness | `src/server.cpp` | workload, network thread | `main`, `parse_args`, `run` | `MatchingEngine` |
| Book benchmarks | `src/benchmark_book.cpp`, `src/benchmark_replace.cpp`, `src/bench_runners/` | loop counters, ids to cancel, drawn operations, one book used by all scenarios | the scenarios sparse, wide, churn; native replace, cancel and submit | `Benchmarks` |
| Core pinning, clock benchmark, benchmark utilities, scripts | `src/engine/cpu_pinning.h`, `src/benchmark_clock.cpp`, `src/bench_common.h`, `scripts/` | none that matters to the above | measurement, printing | not modelled |

How they interact. The harness starts the engine thread, which sets up its
bitset book and stores `ready_`; then a network thread, which waits for
`ready_`, stamps the messages of the workload and pushes them into the queue.
The engine pops them, gives them to the book and records two latencies. After
the network thread is joined the main thread pushes a SHUTDOWN message and joins
the engine, then dumps and reports. The queue is the ring, cached or not, or
the mutex queue. A book is used by one thread only. The bitset book asks its
price bitsets for the best opposite price and follows the list of that level; the
ladder book scans the levels instead. The benchmarks are single-threaded clients
of these two books, which they set up again with `init` for every scenario.

What is hard. The ring synchronises two threads with two indices of which each
side holds old copies. The mutex queue notifies without its mutex. The single
producer of the ring is really two threads, one after the other. The books are
sequential, but their linked lists share one pool, so that one wrong link shows
many calls later and in another list. `PROJECT.json` lists these hazards at
their lines, with the properties that would catch them.

What makes each part correct:

- queues: every message comes out once, in order; no two threads in one slot;
  nobody waits for ever;
- bitset: a set of prices, whose extremes the three lookups find;
- books: price-time priority; every slot free or on one list; index, lists and
  id table agree; the matching loop ends;
- benchmarks: the scenarios leave the books they are meant to compare;
- engine: the whole workload is processed before the report, and no thread uses
  what another one still writes.

## Modules

Abstract specifications, each saying what a component promises its users:

- `Fifo`: a queue, bounded unless its capacity is `Unlimited`. `Put` and `Get`.
- `PriceSet`: a set of prices. `Insert`, `Remove`, `Clear`.
- `PriceTimeBook`: a queue of orders per side and price. `Submit` and then one
  `Trade` for every trade and one `Rest`; `Cancel`; `Replace`.

Detailed specifications:

**`SPSCQueue`** implements `Fifo`. One action per access to shared memory:
`PushFast` (the cached index suffices) or `PushLoad` (the load that ends the
spin loop), `PushWrite`, `PushPublish`, and the same for `pop`. A load may return
an old value of the other index, but none older than what this side has seen:
this is what acquire and release guarantee, and covers all that the caches hold.
`sent` and `popped` are history. `Cached`, the template parameter, is chosen by the
initial state and kept; `& mask_` is
`% N` because `N` is a power of 2. The masked `next_tail_idx` is compared with the
unmasked `head_` as in the code.

**`NaiveQueue`** implements the unlimited `Fifo`. What happens with the mutex held is one
action; `notify_one()` is another, because it comes after the unlock. A consumer
that finds the queue empty releases the mutex and sleeps in one step, as
`condition_variable::wait` does, and may wake up for no reason.

**`PriceBitset`** implements `PriceSet`. A word is the set of the positions of
its one bits. The word size (64) is a parameter.

**`OrderPool`** is what the two array-based books share line for line: pool, free
list, one doubly linked list per side and price, id table, and the operations on
them. Links are slot numbers as in the code, with all fields of a slot, stale ones
included. `submit_order` is a call in progress: one step per trade (`Trade`) with
everything it entails, and one that ends it (`Return`); `cancel_order` and
`replace_order` are one step each. `init` of a book in use (`PoolReset`) makes a new
free list and empty levels but, as in the code, keeps the id table and all other
fields.

**`FastBitsetBook`** extends it with the two indices and implements `PriceTimeBook`:
`queue` of the abstract book is what a walk along `next` finds. The two price
bitsets are sets of prices, which `PriceBitsetProofs` shows they implement.

**`FastOrderBook`** extends it with the scan of `match`, one step per price, and
implements `FastBitsetBook`, whose index is then the set of levels that are not
empty. `Continue` is the loop beyond the ends of the ladder.

The books do not defend themselves against every client, so `Rules` says what the
clients of a run refrain from, and a run with fewer rules shows why the rule is
there:

| Rule | Meaning | Without it |
|---|---|---|
| `unused_ids` | the id of a resting order is not submitted again | the older order loses its entry in the table |
| `known_ids` | only ids that have rested, or ids beyond the table, are cancelled or replaced | `book_invalid_id` |
| `no_promoted_head` | no cancel or replace of an order that became head when its predecessor was filled | `bench_churn` |
| `price_range` | submitted prices are on the ladder | `ladder`: such an order keeps its slot and its id (finding 5) |
| `lowest_id` | a new order takes the lowest id that does not rest; reduces the states only | `book_invalid_id` and the benchmarks do without it |

In all runs new prices of a replace are on the ladder, and an id beyond the table
(`MaxOrders`) is submitted only when it cannot be stored, which is what the harness
does when its workload exceeds the pool. Outside of this the code accesses memory
outside its arrays; such a call has no step in the model, and `InBounds` says that
under the rules there is none.

**`Benchmarks`** extends `FastBitsetBook` with the two programs that drive it, statement
by statement, without any rule: what they submit, cancel and replace is what the
code of the scenarios says. Random numbers are any value of their distribution.
`benchmark_replace` draws its orders and operations with a fixed seed, so that
scenario B repeats what A has drawn. `main` of `benchmark_book` runs each scenario on the
ladder book, too (lines 190, 192 and 194, `fast_ops`); the two books share nothing, and
that half is not modelled. Its trades are those of the bitset book wherever its scans end
(`Implementation`), which finding 4 puts in doubt for its churn.

**`NaiveOrderBook`** implements `PriceTimeBook` without a capacity. The maps keep
the empty lists that `cancel_order` leaves behind; `EraseEmpty` is the round of
the loop in `match` that meets one. An iterator is the id of its order. Submitting
an id that rests is left out: the code would leave an order without a lookup
entry and later erase the end iterator.

**`MatchingEngine`** is the harness with its three threads over a `Fifo`, from
`parse_args`, of which only the outcomes matter, to the exit code. `push` and `pop`
are atomic here; `SPSCQueue` and `NaiveQueue` justify that, the ring as long as the
workload and the SHUTDOWN make at most two laps. The clock returns the same or a
later time on each call. The pacing loop only delays. What the book does with a
message is the subject of `FastBitsetBook`; here the messages it was given are
recorded in order. The harness sends SUBMIT messages only; the engine handles
CANCEL, too, so a message has any of the two types. `report` sorts both vectors:
`Sorted` is the sequence of the k-th smallest values.

`QueueProofs` (both queues), `PriceBitsetProofs`, `MatchingEngineProofs`,
`FastBitsetBookProofs`, `FastOrderBookProofs`, `NaiveOrderBookProofs` and `BenchmarksProofs`
hold the theorems, `OrderPoolProofs` what the two array-based books have in common. Definitions whose
comment starts with `Mutant` are wrong variants of the definition that follows;
they are not part of the specifications and show that each property can fail.

## Runs

| Run | Checks | Bounds |
|---|---|---|
| `spsc` | `NoSlotRace`, `RingInv`, implements `Fifo`, `Delivered`, in both modes | N = 4, 8 pushes of 2 messages: the ring gets full, both indices wrap |
| `spsc_overrun` | violates `NoSlotRace` | N = 4, 9 pushes |
| `price_bitset` | `SummaryInv`, `FindExact`, implements `PriceSet` | words of 3 bits, 11 prices: several words on levels 2 and 1, last ones partial |
| `book` | `SlotPartition`, `LevelLists`, `IndexExact`, `IdMapExact`, `InBounds`, `SubmitReturns`, `OnlyReplaceCrosses`, implements `PriceTimeBook` | 3 slots, 2 prices, quantities 1 and 2, 4 submits, any number of cancels, replaces and `init`s; all rules |
| `book_invalid_id` | violates `InvalidIdIsNoop` | 3 submits, without `known_ids` |
| `ladder` | `ScanInv`, `LossExact`, implements `FastBitsetBook`, `InnerReturns` | 3 slots, 3 prices and one off the ladder, 3 submits |
| `ladder_scan` | violates `SubmitReturns` | the same with prices on the ladder |
| `benchmarks` | `NoTrade`, `SameBook`, `SweptEmpty`, `Finishes` | 5 slots, 6 prices; 2 levels and 2 rounds, 2 + 2 wide orders, 3 steps of churn; 3 live orders and 2 operations |
| `bench_churn` | violates `SlotPartition` | 4 prices, 4 steps of churn |
| `naive_book` | `LookupExact`, `TradesBounded`, implements `PriceTimeBook`, `AddReturns` | 3 prices, 3 ids, 4 submits |
| `naive_queue` | `NoLostWakeup`, implements `Fifo`, `Delivered` | 2 producers with 2 messages each, 2 consumers |
| `engine` | `OneProducer`, `ReportAlone`, `ReadyFirst`, `WorkloadDone`, `RowsPaired`, `Terminates` | 3 messages through a queue of 2 |

Three slots let a list have a first, a middle and a last order, two prices let a
replace move an order between lists and a submit sweep levels, and four submits
reuse slots and use the pool up. Three prices give a scan of the ladder a first,
an inner and a last level. Three live orders of `benchmark_replace` are two bids,
which may share a level, and an ask. The bounds are `Pushes`, `MaxSubmits` and
`Workload`, and for the benchmarks the numbers their sources declare; no other
counter grows.

`Finishes` is about scenarios 1 and 2 of `benchmark_book` and about `benchmark_replace`, on
the bitset book. It says nothing of churn, which `benchmarks` runs for three steps only:
once a cancel has followed a stale `prev` (`bench_churn`), a few more steps lead to
a level with a head and no tail, and the next submit there writes outside the pool,
for which the model has no step. On the ladder book its aggressive orders may also
not return (finding 4).

Deadlock is not checked where the program ends: the ring after the last push (the
consumer spins for ever), the harness and the benchmarks.

Fairness. Weak fairness of each thread in `SPSCQueue` and `MatchingEngine`: the
threads are pinned to cores of their own or block in `join()`, and a store
becomes visible in finite time. In `NaiveQueue`, weak fairness of every thread
that is not asleep; spurious wakeups and `try_pop` are not counted on. In the
books, the matching loop of the calling thread goes on, and nothing is assumed of
the clients; the benchmarks are one thread that nothing blocks.

## What the runs found

1. `push` compares `(tail_ + 1) & mask_` with a `head_` that is stored unmasked.
   From `head_ >= N` on the ring never counts as full, and a producer that is a lap
   ahead overwrites messages (`spsc_overrun`). Two laps are safe, because then no
   more than `N` messages are left. The harness has a ring of 131072 slots and a
   default workload of 100000, so only `--workload` above twice the ring gets there.
2. `id_map` starts with zeros, so an id that never rested, or was filled at once,
   leads to slot 0 (`book_invalid_id`).
3. `match` does not reset `prev` of the order that becomes head. Cancelling that
   order writes through the stale link into a free slot and cuts the free list:
   the book silently loses capacity. The churn scenario of `benchmark_book` gets
   there in four steps (`bench_churn`); the ladder book has the same lines.
4. The scan of the ladder book tests for prices off the ladder before it tests the
   limit price. A buy at `MAX_PRICES - 1` or above, or a sell at 0, with quantity left
   after the last level does not return (`ladder_scan`). The sweeps of
   `benchmark_book` have these limits, but are filled exactly; the aggressive orders
   of its churn scenario need not be.

5. `add_order` takes a slot and enters the id before it looks at the price. An order
   off the ladder therefore costs a slot until the next `init`, and `get_quantity`
   reports it, although `tests/test_match.cpp:65` asserts 0 ("Not successfully queued");
   the assertion fails unless it is compiled out. `ladder` checks `LossExact`, which
   states what the code does, to the slot: the opposite of the assertion. No other step
   loses a slot, and no trade, cancel or replace gets one back.

## Proofs

For every `N >= 2`, both modes and any set of messages, as long as
`Pushes <= 2 * N` (`QueueProofs`, the ring):

- `RingSafe`: `TypeOK /\ RingInv` always holds. `NoSlotRace` alone is not inductive:
  one must know what each side knows of the other's index (`IndexInv`) and what the
  slots between the indices hold (`ContentInv`). The key is that while the head the
  producer knows is below `N`, there are at most `N - 1` messages counted from it,
  and the masked comparison (lemma `FullTest`) makes it one less before a write;
  when it is `N` or more, `Pushes <= 2 * N` bounds the tail.
- `SlotRaceFree`: `NoSlotRace`. Positions less than a lap apart have different slots
  (lemma `SlotsDiffer`).
- `ImplementsFifo`: `PushPublish` is `Put`, `PopAdvance` is `Get`, all else a stutter.

For every word size and number of prices that three levels can hold
(`PriceBitsetProofs`):

- `SummaryExact`: `TypeOK /\ SummaryInv`, which is inductive. `set` and `clear` change
  one word per level, and positions with the same word and bit are the same.
- `LookupsExact`: `FindExact`. Every lookup sees a word that is not zero, and comparing
  word first and bit second is comparing positions (lemma `Lexicographic`).
- `ImplementsPriceSet`.

For all sets of producers and consumers and any number of messages
(`QueueProofs`, where `Mutex` is the instance of `NaiveQueue`):

- `NoWakeupLost`: `NoLostWakeup`, which is inductive together with the types and with
  `queue_` being the part of `sent` after `popped` (`MutexContent`). A push
  adds a message and the producer that will announce it; a notification wakes one
  sleeper if there is one; a consumer falls asleep only when the queue is empty.
- `MutexImplementsFifo`: `PushLocked` is `Put`, `PopLocked` and `try_pop` are `Get`.

For every workload of at least one message and every capacity of the queue
(`MatchingEngineProofs`): `TypeCorrect`, `SingleProducer`, `ReportsAlone`,
`ReadyBeforeSent`, `AllDone` and `LatenciesPaired`. None of them is inductive alone.
The inductive invariant has these parts: `ControlInv`, which states of the three
threads go together, since each `join` and `ready_` tell one thread about another;
`SentInv`, that what was sent is the workload up to the network thread's position,
followed by at most one SHUTDOWN; `EngineInv`, that what was popped is a prefix of
it and what was booked and recorded a prefix of that; `TimesInv`, that stamps,
`popTime` and rows are at most `clock`, which makes two steps per message and one
for its stamp; and `RowsPaired`. For the last step, `report`, lemmas on `Sorted` show
that sorting two vectors that are ordered place by place keeps them so: fewer than
k values of the larger vector are below the k-th smallest of the smaller one.

For every pool, ladder, set of quantities and number of submits, as long as the clients
keep to `SafeRules` (`FastBitsetBookProofs`): `Invariant`, `TypeCorrect`, `IndexCorrect`,
`ListsCorrect`, `IdsCorrect`, `LossCorrect`, `CrossedByReplace`; with `price_range` as well: `SlotsCorrect`,
`InBoundsCorrect` and `Refinement`, that is `PriceTime`. `SafeRules` are `unused_ids`,
`known_ids` and `no_promoted_head`. They are not a convenience of the proof: each excludes
calls after which the code really breaks these properties (see the table of rules), and
without `price_range` an order off the ladder keeps its slot. What that costs is
`LossExact` (`LossCorrect`, under `SafeRules` alone): the lemmas on `Shape` say of each operation
what becomes of `X`, and only `add_order` and `init` change it.

- The argument. `Shape(L, F, X)` says that the pool holds the lists `L`, one per side and
  price, the free list `F`, and the slots `X` that are on none of them. Its parts are
  `Rep` (the links: `next` leads from each slot of a list to the following one and from the
  last one to `NULL_IDX`, `prev` back again behind the head, no slot is on two lists, and an
  order is on the list of its side and price) and `GoodIds` (the id table leads to every
  listed slot, and an id that has rested leads to its order, to a slot of `X` or nowhere).
  The lists are given, not computed, so each operation needs one lemma about the one or two lists it changes:
  `TradeShape`, `ReturnShape`, `RemoveShape`, `MovedShape`. That these lists are what
  a walk along `next` finds (`Walk`) is lemma `WalkChain`: otherwise take the least
  number of steps after which the two differ. It needs no induction over lists, only
  that a set of numbers has a least element.
- `IInv`, the inductive invariant, is `Sound` and `InRange` (with `price_range`, no slot is
  lost). `Sound` is the type, `IndexExact`, `Intact` (the `Shape` of the lists the walks
  find) and `UnknownId` (an id beyond the table is submitted only while nothing can be
  stored or traded).
  `LevelLists`, `IdMapExact` and `SlotPartition` follow from it but are not inductive:
  none of them says that the slots of two lists stay apart when a link of one changes and
  that the free list ends. TLC has also checked `IInv` on the instance of `book`.
- `no_promoted_head` enters at one place only, lemma `TouchedSlot`: unlinking the head needs
  its `prev` to be `NULL_IDX`.
- `Refinement` shows that the queues of the abstract book (`Queue`) change as it
  says: the entry that a trade, cancel or replace touches is at the same place in the
  queue as its slot in the list, and no other list holds that slot. There is room in the
  abstract book exactly when the free list is not empty, because ids and listed slots
  are in bijection (`RoomIs`).

For every pool and ladder (`FastOrderBookProofs`):

- `TypeCorrect`, `ScanCorrect` and `Implementation` hold for every set of rules, so
  also for the calls that corrupt the lists: `ScanInv`, together with the types, makes the
  price of the scan the least or greatest active one, and each operation changes the
  active prices as the bitset book changes its index.
- `LossCorrect`: `LossExact` under `SafeRules`, as for the bitset book.
- `LadderPriceTime`: what `Refinement` proves of the bitset book holds of the ladder book,
  by way of `Implementation`.

For all prices, ids and quantities, 0 included, and any number of submits
(`NaiveOrderBookProofs`): `TypeCorrect`, `LookupCorrect`, `TradesCorrect` and `Refinement`,
that is `PriceTime`, without any rule for the clients.

- `IInv`, the inductive invariant: the maps are finite, so that `begin()` of the bids
  exists; every resting order has a quantity (a trade takes from both orders); lists and
  lookup are inverse to each other, place by place (`Indexed`); the order being added is in
  neither. `LookupExact` is not inductive alone: it lets an order be on its list twice, of
  which `cancel_order` would erase one. `TradesBounded` speaks of the time between calls
  only; inside of `match`, `TradesCounted` counts the order being added with the ones to
  come as long as it has a quantity left. TLC has also checked `IInv` on the instance of
  `naive_book`.
- `Refinement`: the list of `begin()`, if it has an order, is the best queue of the abstract
  book, since no list before it in the map has one; `EraseEmpty` is a stutter. The
  abstract book is never full, because at most as many orders rest as were submitted.

For all sizes of the benchmarks that their pool holds, all draws, and without any rule for
clients (`BenchmarksProofs`): `SweptCorrect`, `NoTradeCorrect` and `SameBookCorrect`. The churn
scenario does break the book (`bench_churn`), so there is no invariant of the book for the
whole program; each scenario has one of its own, which shows that its calls are among those
that keep the book `Sound`.

- Scenarios 1 and 2 (`SweepInv`): every resting order is an ask for one, and orders resting
  and quantity in progress add up. While asks are submitted, ids below `next_id` are in use,
  so an id is never reused; when a buy is in progress, as many asks rest as it asks for,
  besides those left for later buys, and its limit is the top of the ladder. So each buy
  ends exactly when it has taken what it is to take, and the last of them when nothing
  rests; then `SlotPartition`, which follows from `Sound`, makes all slots free.
- `benchmark_replace` (`DrawnInv`): every order that rests or is being submitted was drawn
  (`DrawnBook`), hence bids are below and asks at or above the middle of the ladder and nothing
  crosses. Since nothing trades, no head is ever promoted: every head has no predecessor
  (`HeadsReset`), which each operation keeps (`HeadsKept`), so that cancels and replaces are
  safe without `no_promoted_head`. `Written(D, m)` are the orders that the first `m` of the
  drawn operations `D` (seeds first) leave behind, one for the last operation of each
  id. `Progress` says that scenario A holds `Written` up to its counter, and so does B,
  less the one order between a cancel and its submit. At the end both hold `Written` of
  all operations. TLC has also checked `SweepInv` and `DrawnInv` on the instance of
  `benchmarks`.

Assumptions are those of the modules: sizes are positive, `NoMsg` is no message,
level 1 fits into the bits of level 0; the benchmarks size their pool for the ids they use,
and no order they draw has quantity 0.

Only model-checked: the liveness properties (fairness and `ENABLED` are out of the prover's
reach). `InvalidIdIsNoop`, and `SlotPartition` of the benchmarks, do not hold.

## Not modelled

- Accesses outside arrays, and what follows from them.
- A ring with `N = 1`, which the `static_assert` lets pass and whose `push` would spin for
  ever because the next index is always 0; 64-bit wrap-around of the ring's indices and
  of times.
- A workload of 0 messages, for which `report()` would index an empty vector.
- The half of `benchmark_book` that runs on the ladder book.
- The layout of memory and false sharing.
- The text of arguments, of the banner and of reports; which percentile is printed.
- `src/bench_common.h` (timers, hardware counters, printing), `src/benchmark_clock.cpp`
  (measures two ways to read the clock), `src/engine/cpu_pinning.h` (an affinity call)
  and `scripts/`: they keep no state that the rest reads.

## Plan

Done, most important behaviour first: `Fifo` and `SPSCQueue`; `PriceSet` and
`PriceBitset`; `PriceTimeBook`, `OrderPool`, `FastBitsetBook`; `NaiveOrderBook`;
`NaiveQueue`; `MatchingEngine`; `FastOrderBook`; `Benchmarks`; proofs about both
queues, the bitset, the engine, the three books and the benchmarks. Every safety property
that a passing run checks is also a theorem.
