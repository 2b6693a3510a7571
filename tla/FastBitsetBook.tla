--------------------------- MODULE FastBitsetBook ---------------------------
(***************************************************************************)
(* FastBitsetOrderBook of src/engine/fast_bitset_book.h: the pool and the  *)
(* lists of OrderPool with an index of the prices that have orders, from   *)
(* which match() takes the best price.  The index is the set of prices     *)
(* that PriceBitset implements.                                            *)
(***************************************************************************)
EXTENDS OrderPool

VARIABLE index  \* bid_index (TRUE) and ask_index (FALSE)

vars == <<pool, index, call, clients>>

Init == PoolInit /\ index = [b \in BOOLEAN |-> {}]

init == PoolReset /\ index' = [b \in BOOLEAN |-> {}]

Submit(id, price, qty, is_buy) ==
    submit_order(id, price, qty, is_buy) /\ UNCHANGED index
-----------------------------------------------------------------------------
\* Mutant: the price of an emptied level stays in the index.
ClearNever(b, p) == index

\* index.clear(p) when the level of price p has lost its last order.
ClearIfEmpty(b, p) ==
    IF levels'[b][p].head = NULL_IDX THEN [index EXCEPT ![b] = @ \ {p}]
                                     ELSE index

\* find_lowest() of the asks for a buyer, find_highest() of the bids for a
\* seller.
best == IF call.is_buy THEN Min(index[FALSE]) ELSE Max(index[TRUE])

\* Mutant: equal prices do not trade.
InReachStrictly == IF call.is_buy THEN best < call.price ELSE best > call.price

InReach == IF call.is_buy THEN best <= call.price ELSE best >= call.price

\* Neither of the breaks of match() is taken.
Crosses == call.qty > 0 /\ index[~call.is_buy] # {} /\ InReach

\* One trade of match().  The code clears the index after the last trade of
\* a level; nothing reads it before.
match ==
    /\ call # Idle /\ Crosses
    /\ Trade(best)
    /\ index' = ClearIfEmpty(~call.is_buy, best)

\* submit_order() returns; add_order() stores what is left of the order.
add_order ==
    /\ call # Idle /\ ~Crosses
    /\ Return
    /\ index' = IF CanStore /\ call.price \in Prices
                   /\ levels[call.is_buy][call.price].head = NULL_IDX
                THEN [index EXCEPT ![call.is_buy] = @ \cup {call.price}]
                ELSE index

cancel_order(id) ==
    /\ MayCancel
    /\ IF HasEntry(id)
       THEN LET order == orders[id_map[id]]
            IN  Remove(id) /\ index' = ClearIfEmpty(order.is_buy, order.price)
       ELSE UNCHANGED <<pool, index>>
    /\ UNCHANGED <<call, clients>>

\* replace_order(): a new price moves the order to the back of that price's
\* list.
ReplacePrice(i, new_price, new_qty) ==
    LET side == orders[i].is_buy
        old  == orders[i].price
        new  == levels[side][new_price]
        u    == Unlink(orders, levels[side][old], i)
        l    == Link(u.pool, new, i)
    IN  /\ old # new_price
        /\ Linkable(new)                \* in bounds
        /\ levels' = [levels EXCEPT ![side][old] = u.level,
                                    ![side][new_price] = l.level]
        /\ index' = [ClearIfEmpty(side, old) EXCEPT ![side] = @ \cup {new_price}]
        /\ orders' = [l.pool EXCEPT ![i].qty = new_qty, ![i].price = new_price,
                                    ![i].next = NULL_IDX]

\* Mutant: a larger quantity keeps its place.
AloneAlways(lv, i) == TRUE

\* "no work to be done": the only order of its level stays where it is.
Alone(lv, i) == lv.head = i /\ lv.tail = i

\* replace_order(): a larger quantity at the same price moves the order to
\* the back of its list.
ReplaceQtyUp(i, new_qty) ==
    LET side  == orders[i].is_buy
        price == orders[i].price
        lv    == levels[side][price]
        u     == Unlink(orders, lv, i)
        l     == LinkBack(u.pool, u.level, i)
    IN  /\ new_qty > orders[i].qty
        /\ IF Alone(lv, i)
           THEN orders' = [orders EXCEPT ![i].qty = new_qty] /\ UNCHANGED levels
           ELSE /\ u.level.tail # NULL_IDX      \* in bounds
                /\ orders' = [l.pool EXCEPT ![i].qty = new_qty,
                                            ![i].next = NULL_IDX]
                /\ levels' = [levels EXCEPT ![side][price] = l.level]
        /\ UNCHANGED index

\* replace_order(): otherwise the order keeps its place.
ReplaceQtyDown(i, new_qty) ==
    /\ new_qty <= orders[i].qty
    /\ orders' = [orders EXCEPT ![i].qty = new_qty]
    /\ UNCHANGED <<levels, index>>

replace_order(id, new_price, new_qty) ==
    /\ call = Idle /\ "replace" \in Ops
    /\ LET i == id_map[id]
       IN  \/ ~HasEntry(id) /\ UNCHANGED <<orders, levels, index>>
           \/ /\ HasEntry(id) /\ orders[i].price \in Prices     \* in bounds
              /\ \/ ReplacePrice(i, new_price, new_qty)
                 \/ /\ orders[i].price = new_price
                    /\ \/ ReplaceQtyUp(i, new_qty)
                       \/ ReplaceQtyDown(i, new_qty)
    /\ UNCHANGED <<id_map, next_free_order_idx, call, clients>>

Next ==
    \/ init
    \/ match
    \/ add_order
    \/ \E id \in SubmitIds, price \in SubmitPrices, qty \in Qtys,
          is_buy \in BOOLEAN : Submit(id, price, qty, is_buy)
    \/ \E id \in TouchIds : cancel_order(id)
    \/ \E id \in TouchIds, price \in Prices, qty \in Qtys :
          replace_order(id, price, qty)

Spec == Init /\ [][Next]_vars

\* submit_order() is a loop of the calling thread: it goes on while it can.
FairSpec == Spec /\ WF_vars(match \/ add_order)
-----------------------------------------------------------------------------
(* Properties *)

\* The type of the pool, and indices of prices on the ladder.
TypeOK == PoolTypeOK /\ index \in [BOOLEAN -> SUBSET Prices]

\* A price is in the index exactly when its level has an order: match() takes
\* the head of the level the index returns without looking.
IndexExact ==
    \A b \in BOOLEAN : index[b] = {p \in Prices : levels[b][p].head # NULL_IDX}

\* No operation leaves its arrays: what add_order() will store has an entry in
\* the table, every list it or replace_order() appends to has a tail, and an
\* order that a client may cancel has a level.
InBounds ==
    /\ call # Idle /\ CanStore /\ ~Crosses => call.id \in DOMAIN id_map
    /\ \A b \in BOOLEAN, p \in Prices : Linkable(levels[b][p])
    /\ \A id \in TouchIds : HasEntry(id) =>
          orders[id_map[id]].price \in Prices

\* The book is a price-time priority book: every trade is with the oldest
\* order at the best price.  Besides trades and init() a queue changes only by
\* what is left of an order joining its back, by one order leaving it, or by
\* one order that is replaced keeping its place or moving to a queue's back.
Book == INSTANCE PriceTimeBook WITH
    Capacity <- MaxOrders,
    queue <- [b \in BOOLEAN |-> [p \in Prices |->
                LET chain == LevelChain(b, p)
                IN  [k \in DOMAIN chain |-> [id  |-> orders[chain[k]].id,
                                             qty |-> orders[chain[k]].qty]]]]
PriceTime == Book!Spec

\* "Invalid ID replace should not perturb book state or priority of live
\* orders" (tests/test_replace.cpp), and the same for "Cancel non-existent ID"
\* (tests/test_cancel.cpp): a step of cancel_order() or replace_order() that
\* names an order that does not rest leaves pool, lists and index alone.
InvalidIdIsNoop ==
    [][\A id \in Ids \ LiveIds :
          (\/ cancel_order(id)
           \/ \E p \in Prices, q \in Qtys : replace_order(id, p, q))
             => UNCHANGED <<orders, levels, index, next_free_order_idx>>]_vars

\* Only replace_order(), which moves an order to its new price without trading,
\* crosses the book: after any series of submits and cancels every bid is below
\* every ask, and while they go on a book that is not crossed stays so.
Uncrossed == \A bid \in index[TRUE], ask \in index[FALSE] : bid < ask

OnlyReplaceCrosses ==
    [][Uncrossed /\ ~Uncrossed' =>
          \E id \in Ids, p \in Prices, q \in Qtys : replace_order(id, p, q)]_vars
=============================================================================
