----------------------------- MODULE OrderPool ------------------------------
(***************************************************************************)
(* What FastBitsetOrderBook (src/engine/fast_bitset_book.h) and            *)
(* FastOrderBook (src/engine/fast_book.h) have in common, line for line: a *)
(* pool of order nodes, a free list through the pool, one doubly linked    *)
(* list per price and side, and a table from order ids to pool slots.  All *)
(* links are slot numbers.  The books extend this module.                  *)
(*                                                                         *)
(* cancel_order() is one step; submit_order() is a call in progress, one   *)
(* step per trade and one to end it, and nothing else happens meanwhile.   *)
(*                                                                         *)
(* Memory outside an array is not modelled: an operation that would access *)
(* it has no step (the conjuncts marked "in bounds").                      *)
(***************************************************************************)
EXTENDS Integers, Sequences, FiniteSets, FiniteSetsExt

CONSTANTS
    MaxOrders,  \* init(max_orders): size of the pool and of the id table
    MAX_PRICES, \* levels per side
    Qtys,       \* quantities a client may ask for
    Ops,        \* which of the operations the clients use
    MaxSubmits, \* bound: how many orders are submitted in all
    Rules       \* what the clients refrain from, see SubmitIds and TouchIds

ASSUME PoolAssumption   == MaxOrders \in Nat \ {0}
ASSUME LadderAssumption == MAX_PRICES \in Nat \ {0}
ASSUME QtysAssumption   == Qtys \subseteq Nat
ASSUME ClientAssumption ==
    /\ Ops \subseteq {"submit", "cancel", "replace", "init"}
    /\ Rules \subseteq {"unused_ids", "known_ids", "no_promoted_head",
                        "price_range", "lowest_id"}

VARIABLES
    orders,                 \* the pool
    levels,                 \* bid levels (TRUE) and ask levels (FALSE)
    id_map,                 \* id -> slot
    next_free_order_idx,    \* head of the free list
    call,                   \* the submit_order() in progress, or Idle
    rested,                 \* history: ids that add_order() has put on a list
    submits                 \* history: number of orders submitted

pool    == <<orders, levels, id_map, next_free_order_idx>>
clients == <<rested, submits>>

Slots  == 0..(MaxOrders - 1)
Prices == 0..(MAX_PRICES - 1)
NULL_IDX == -1
Idle == [id |-> -1, price |-> 0, qty |-> 0, is_buy |-> TRUE]

\* The table has no entry for the id MaxOrders: a client's unknown id.
Ids == 0..MaxOrders
-----------------------------------------------------------------------------
(* Lists *)

\* The slots reached from slot i through next in the pool ord.  One element more
\* than there are slots means that the links run in a circle.
Walk(ord, i) ==
    LET from[n \in 0..(MaxOrders + 1)] ==
            [s \in Slots \cup {NULL_IDX} |->
                IF s = NULL_IDX \/ n = 0 THEN <<>>
                ELSE <<s>> \o from[n - 1][ord[s].next]]
    IN  from[MaxOrders + 1][i]

Chain(i) == Walk(orders, i)

LevelChain(b, p) == Chain(levels[b][p].head)
Members(chain) == {chain[k] : k \in DOMAIN chain}

OnLevels == UNION {Members(LevelChain(b, p)) : b \in BOOLEAN, p \in Prices}

\* Mutants: removing the last order leaves the tail behind; removing any order
\* drops the tail.
TailKept(lv, i, prev) == lv.tail
TailDropped(lv, i, prev) == NULL_IDX

TailWithout(lv, i, prev) == IF lv.tail = i THEN prev ELSE lv.tail

\* Slot i taken out of the list of level lv in the pool ord.
Unlink(ord, lv, i) ==
    LET prev == ord[i].prev
        next == ord[i].next
        ord1 == IF prev = NULL_IDX THEN ord
                ELSE [ord EXCEPT ![prev].next = next]
    IN  [level |-> [head |-> IF lv.head = i THEN next ELSE lv.head,
                    tail |-> TailWithout(lv, i, prev)],
         pool  |-> IF next = NULL_IDX THEN ord1
                   ELSE [ord1 EXCEPT ![next].prev = prev]]

\* Slot i put at the back of the list of level lv that is not empty.
LinkBack(ord, lv, i) ==
    [level |-> [lv EXCEPT !.tail = i],
     pool  |-> [ord EXCEPT ![lv.tail].next = i, ![i].prev = lv.tail]]

\* The same for any level.
Link(ord, lv, i) ==
    IF lv.head # NULL_IDX THEN LinkBack(ord, lv, i)
    ELSE [level |-> [head |-> i, tail |-> i],
          pool  |-> [ord EXCEPT ![i].prev = NULL_IDX]]

\* In bounds: a list with a first order has a last one.
Linkable(lv) == lv.head # NULL_IDX => lv.tail # NULL_IDX

\* Mutant: the freed slot cuts off the rest of the free list.
FreeCutsList(ord, i) == [ord EXCEPT ![i].next = NULL_IDX]

\* Slot i linked to the free list, whose head it becomes.
Free(ord, i) == [ord EXCEPT ![i].next = next_free_order_idx]

\* Mutant: the id of an order that is gone stays in the table.
ForgetNot(id) == id_map

Forget(id) == [id_map EXCEPT ![id] = NULL_IDX]

\* Other ids are ignored by a cancel or replace: those without an entry in the
\* table, and those of orders known to be gone.
HasEntry(id) == id \in DOMAIN id_map /\ id_map[id] # NULL_IDX
-----------------------------------------------------------------------------
(* Clients *)

\* The ids of the orders that rest (IdMapExact); one off the ladder does not.
LiveIds == {id \in rested : HasEntry(id) /\ orders[id_map[id]].price \in Prices}

\* An order whose predecessor was filled is the head of its level but keeps
\* the slot of the predecessor in prev.
PromotedHead(i) ==
    /\ levels[orders[i].is_buy][orders[i].price].head = i
    /\ orders[i].prev # NULL_IDX

\* The ids a client may submit, and the prices.
SubmitIds ==
    {id \in Ids :
        /\ "unused_ids" \in Rules => id \notin LiveIds
        /\ "lowest_id" \in Rules => 0..(id - 1) \subseteq LiveIds}
SubmitPrices == IF "price_range" \in Rules THEN Prices ELSE 0..MAX_PRICES

\* An id without an entry in the table is only submitted when the pool is
\* used up and nothing can trade, as the server does when its workload is
\* larger than the pool: in bounds.
MaySubmit(id, is_buy) ==
    /\ "submit" \in Ops
    /\ id \notin DOMAIN id_map =>
           /\ next_free_order_idx = NULL_IDX
           /\ \A p \in Prices : levels[~is_buy][p].head = NULL_IDX

\* A cancel or replace names an id that has rested before or one that is not
\* in the table, and not a promoted head.
TouchIds ==
    {id \in Ids :
        /\ "known_ids" \in Rules => id \in rested \/ id \notin DOMAIN id_map
        /\ ("no_promoted_head" \in Rules /\ id \in LiveIds) =>
               ~PromotedHead(id_map[id])}
-----------------------------------------------------------------------------
(* Operations *)

\* init() chains the slots; nothing else of an order is reset.
FreeChain(ord) ==
    [s \in Slots |-> [ord[s] EXCEPT
        !.next = IF s = MaxOrders - 1 THEN NULL_IDX ELSE s + 1]]

EmptyLevels ==
    [b \in BOOLEAN |-> [p \in Prices |-> [head |-> NULL_IDX, tail |-> NULL_IDX]]]

\* The first init(): resize() fills pool and id table with zeros.
PoolInit ==
    /\ orders = FreeChain([s \in Slots |->
          [id |-> 0, price |-> 0, qty |-> 0, is_buy |-> FALSE, next |-> 0,
           prev |-> 0]])
    /\ levels = EmptyLevels
    /\ id_map = [i \in Slots |-> 0]
    /\ next_free_order_idx = 0
    /\ call = Idle
    /\ rested = {} /\ submits = 0

\* init() of a book in use, with the same max_orders: id_map keeps its entries.
PoolReset ==
    /\ call = Idle /\ "init" \in Ops
    /\ orders' = FreeChain(orders)
    /\ levels' = EmptyLevels
    /\ next_free_order_idx' = 0
    /\ rested' = {}
    /\ UNCHANGED <<id_map, call, submits>>

submit_order(id, price, qty, is_buy) ==
    /\ call = Idle /\ submits < MaxSubmits
    /\ MaySubmit(id, is_buy)
    /\ submits' = submits + 1
    /\ call' = [id |-> id, price |-> price, qty |-> qty, is_buy |-> is_buy]
    /\ UNCHANGED <<orders, levels, id_map, next_free_order_idx, rested>>

\* Mutant: the incoming order pays for more than it asks for.
TradeQtyNoMin(resting) == resting.qty

TradeQty(resting) == Min({call.qty, resting.qty})

\* Mutant: the wrong order is tested for being filled.
FilledIncoming(resting) == TradeQty(resting) = call.qty

Filled(resting) == TradeQty(resting) = resting.qty

\* One trade of match() with the head of the level of price p, with
\* everything a filled resting order entails but the price index.
Trade(p) ==
    LET side        == ~call.is_buy
        resting_idx == levels[side][p].head
        resting     == orders[resting_idx]
        traded      == [orders EXCEPT ![resting_idx].qty = @ - TradeQty(resting)]
    IN  /\ call' = [call EXCEPT !.qty = @ - TradeQty(resting)]
        /\ IF Filled(resting)
           THEN /\ id_map' = Forget(resting.id)
                /\ levels' = [levels EXCEPT ![side][p] =
                      [head |-> resting.next,
                       tail |-> IF resting.next = NULL_IDX THEN NULL_IDX
                                ELSE @.tail]]
                /\ orders' = Free(traded, resting_idx)
                /\ next_free_order_idx' = resting_idx
           ELSE /\ orders' = traded
                /\ UNCHANGED <<levels, id_map, next_free_order_idx>>
        /\ UNCHANGED clients

\* add_order() finds a free slot for what is left of the incoming order.
CanStore == call.qty > 0 /\ next_free_order_idx # NULL_IDX

\* The slot and the id are taken before the price is looked at: an order off
\* the ladder keeps both but is put on no list.
Store ==
    LET idx  == next_free_order_idx
        node == [id |-> call.id, price |-> call.price, qty |-> call.qty,
                 is_buy |-> call.is_buy, next |-> NULL_IDX, prev |-> NULL_IDX]
        ord  == [orders EXCEPT ![idx] = node]
        lv   == levels[call.is_buy][call.price]
        l    == Link(ord, lv, idx)
    IN  /\ call.id \in DOMAIN id_map    \* in bounds
        /\ next_free_order_idx' = orders[idx].next
        /\ id_map' = [id_map EXCEPT ![call.id] = idx]
        /\ IF call.price \notin Prices
           THEN orders' = ord /\ UNCHANGED <<levels, rested>>
           ELSE /\ Linkable(lv)         \* in bounds
                /\ orders' = l.pool
                /\ levels' = [levels EXCEPT ![call.is_buy][call.price] = l.level]
                /\ rested' = rested \cup {call.id}

\* submit_order() returns; when the pool is used up the rest is dropped.
Return ==
    /\ call' = Idle
    /\ IF CanStore THEN Store ELSE UNCHANGED <<pool, rested>>
    /\ UNCHANGED submits

\* cancel_order() of an id with an entry, but for the price index.
Remove(id) ==
    LET i     == id_map[id]
        side  == orders[i].is_buy
        price == orders[i].price
        u     == Unlink(orders, levels[side][price], i)
    IN  /\ price \in Prices             \* in bounds
        /\ levels' = [levels EXCEPT ![side][price] = u.level]
        /\ orders' = Free([u.pool EXCEPT ![i].prev = NULL_IDX], i)
        /\ next_free_order_idx' = i
        /\ id_map' = Forget(id)

MayCancel == call = Idle /\ "cancel" \in Ops

get_quantity(id) == IF HasEntry(id) THEN orders[id_map[id]].qty ELSE 0
-----------------------------------------------------------------------------
(* Properties of both books *)

\* Every link, list end and table entry is a slot of the pool or NULL_IDX, and
\* no quantity falls below zero, which uint32_t could not hold.
PoolTypeOK ==
    /\ orders \in [Slots -> [id : Slots, price : 0..MAX_PRICES, qty : Nat,
                             is_buy : BOOLEAN, next : Slots \cup {NULL_IDX},
                             prev : Slots \cup {NULL_IDX}]]
    /\ levels \in [BOOLEAN -> [Prices -> [head : Slots \cup {NULL_IDX},
                                          tail : Slots \cup {NULL_IDX}]]]
    /\ id_map \in [Slots -> Slots \cup {NULL_IDX}]
    /\ next_free_order_idx \in Slots \cup {NULL_IDX}
    /\ call \in [id : Ids \cup {-1}, price : 0..MAX_PRICES, qty : Nat,
                 is_buy : BOOLEAN]
    /\ rested \subseteq Slots /\ submits \in Nat

\* No slot leaks and none is handed out twice: every slot of the pool is on
\* the free list or on the list of one level, once.
SlotPartition ==
    LET free  == Chain(next_free_order_idx)
        lists == [bp \in BOOLEAN \X Prices |-> LevelChain(bp[1], bp[2])]
    IN  /\ Members(free) \cup OnLevels = Slots
        /\ Members(free) \cap OnLevels = {}
        /\ IsInjective(free)
        /\ \A bp, cq \in DOMAIN lists :
              \A k \in DOMAIN lists[bp], j \in DOMAIN lists[cq] :
                 lists[bp][k] = lists[cq][j] => bp = cq /\ k = j

\* The list of a level: every order on it has the level's side and price, its
\* tail is its last order, and behind the head prev undoes next.
LevelLists ==
    \A b \in BOOLEAN, p \in Prices :
        LET chain == LevelChain(b, p)
        IN  /\ \A k \in DOMAIN chain : /\ orders[chain[k]].is_buy = b
                                       /\ orders[chain[k]].price = p
            /\ chain # <<>> => levels[b][p].tail = chain[Len(chain)]
            /\ \A k \in 2..Len(chain) : orders[chain[k]].prev = chain[k - 1]

\* id_map leads from the id of every resting order to its slot and forgets
\* the ids of filled and cancelled orders: an entry of an id that has rested
\* is the slot of an order that is still on a list.
IdMapExact ==
    /\ \A s \in OnLevels : id_map[orders[s].id] = s /\ orders[s].id \in rested
    /\ \A id \in LiveIds : id_map[id] \in OnLevels /\ orders[id_map[id]].id = id

\* The slots on no list: neither free nor on a level.
LostSlots == Slots \ (OnLevels \cup Members(Chain(next_free_order_idx)))

\* What an order off the ladder costs.  add_order() takes the slot and the id
\* before it looks at the price, so submit_order() returns with one slot less
\* and get_quantity() reports the order, of which tests/test_match.cpp says
\* "Not successfully queued".  No trade, cancel or replace gets the slot back,
\* only init() does, and no other step loses one.
LosesSlot == call # Idle /\ call' = Idle /\ CanStore /\ call.price \notin Prices

LossStep ==
    \/ PoolReset /\ LostSlots' = {}
    \/ /\ LosesSlot
       /\ LostSlots' = LostSlots \cup {next_free_order_idx}
       /\ \A id \in Slots : id = call.id => get_quantity(id)' = call.qty
    \/ ~LosesSlot /\ LostSlots' = LostSlots

LossExact == [][LossStep]_<<pool, call>>

\* The matching loop of submit_order() ends.
SubmitReturns == (call # Idle) ~> (call = Idle)
=============================================================================
