-------------------------- MODULE NaiveOrderBook ----------------------------
(***************************************************************************)
(* NaiveOrderBook of src/engine/simple_book.h: a sorted map from prices to *)
(* lists of orders for each side, and a hash map from ids to places.  An   *)
(* iterator into a list is modelled by the id of its order; cancel_order() *)
(* leaves the map entry of a list it empties, which match() must skip.     *)
(***************************************************************************)
EXTENDS Integers, FiniteSets, FiniteSetsExt, SequencesExt

CONSTANTS
    Prices,     \* prices a client may ask for
    Ids,        \* order ids
    Qtys,       \* quantities a client may ask for
    MaxSubmits  \* bound: how many orders are submitted in all

ASSUME InputAssumption ==
    /\ Prices \subseteq Nat /\ Ids \subseteq Nat /\ Qtys \subseteq Nat
    /\ MaxSubmits \in Nat

VARIABLES
    book,           \* bids (TRUE) and asks (FALSE): price -> list of orders
    order_lookup,   \* id -> [price, is_buy]
    total_trades,
    call,           \* the add_order() in progress, or Idle
    submits         \* history: number of orders submitted

vars == <<book, order_lookup, total_trades, call, submits>>

Idle == [id |-> -1, price |-> 0, qty |-> 0, is_buy |-> TRUE]

\* The list of a price; operator[] of the map makes an empty one.
ListAt(b, p) == IF p \in DOMAIN book[b] THEN book[b][p] ELSE <<>>

\* The map m with the list of price p set, and without price p.
WithList(m, p, list) == [r \in DOMAIN m \cup {p} |-> IF r = p THEN list ELSE m[r]]
Erase(m, p) == Restrict(m, DOMAIN m \ {p})

Init ==
    /\ book = [b \in BOOLEAN |-> <<>>]
    /\ order_lookup = <<>>
    /\ total_trades = 0
    /\ call = Idle
    /\ submits = 0
-----------------------------------------------------------------------------
add_order(id, price, qty, is_buy) ==
    /\ call = Idle /\ submits < MaxSubmits
    /\ id \notin DOMAIN order_lookup
    /\ call' = [id |-> id, price |-> price, qty |-> qty, is_buy |-> is_buy]
    /\ submits' = submits + 1
    /\ UNCHANGED <<book, order_lookup, total_trades>>

\* begin() of the opposite map: asks ascend, bids descend.
begin == IF call.is_buy THEN Min(DOMAIN book[FALSE]) ELSE Max(DOMAIN book[TRUE])

InReach == IF call.is_buy THEN begin <= call.price ELSE begin >= call.price

\* Mutant: a loop that stops at a list emptied by a cancel.
BreaksNotAtEmpty == InReach /\ book[~call.is_buy][begin] # <<>>

\* The break of match() is not taken.
BreaksNot == InReach

\* The loop of match() goes on with the list of begin().
Matches == call.qty > 0 /\ DOMAIN book[~call.is_buy] # {} /\ BreaksNot

\* Mutant: the list stays in the map, and begin() finds it again.
EraseBeginNot(m) == m

EraseBegin(m) == Erase(m, begin)

\* Mutant: the id of a filled order stays in the lookup.
LookupKeeps(id) == order_lookup

LookupErase(id) == Erase(order_lookup, id)

\* Mutant: both orders of a trade count it.
CountTwice == total_trades + 2

CountTrade == total_trades + 1

\* Mutant: the whole resting order is traded, whatever was asked for.
TradedNoMin(resting) == resting.qty

Traded(resting) == Min({call.qty, resting.qty})

\* One trade of process_list(), and the erasure of the list it empties.
process_list ==
    /\ call # Idle /\ Matches
    /\ ListAt(~call.is_buy, begin) # <<>>
    /\ LET list    == ListAt(~call.is_buy, begin)
           resting == Head(list)
           traded  == Traded(resting)
           left    == IF traded = resting.qty THEN Tail(list)
                      ELSE <<[resting EXCEPT !.qty = @ - traded]>> \o Tail(list)
       IN  /\ call' = [call EXCEPT !.qty = @ - traded]
           /\ total_trades' = CountTrade
           /\ order_lookup' = IF traded = resting.qty THEN LookupErase(resting.id)
                              ELSE order_lookup
           /\ book' = [book EXCEPT ![~call.is_buy] =
                 IF left = <<>> THEN EraseBegin(@) ELSE WithList(@, begin, left)]
    /\ UNCHANGED submits

\* match() meets a list that a cancel has emptied and erases it.
EraseEmpty ==
    /\ call # Idle /\ Matches
    /\ ListAt(~call.is_buy, begin) = <<>>
    /\ book' = [book EXCEPT ![~call.is_buy] = EraseBegin(@)]
    /\ UNCHANGED <<order_lookup, total_trades, call, submits>>

\* add_order() stores what is left of the order and returns.
Insert ==
    /\ call # Idle /\ ~Matches
    /\ call' = Idle
    /\ IF call.qty > 0
       THEN /\ book' = [book EXCEPT ![call.is_buy] =
                  WithList(@, call.price, Append(ListAt(call.is_buy, call.price),
                              [id |-> call.id, qty |-> call.qty]))]
            /\ order_lookup' = WithList(order_lookup, call.id,
                  [price |-> call.price, is_buy |-> call.is_buy])
       ELSE UNCHANGED <<book, order_lookup>>
    /\ UNCHANGED <<total_trades, submits>>

has_order(id) == id \in DOMAIN order_lookup

\* The place of the order with this id on a list: what its iterator is for.
itr(list, id) == CHOOSE k \in DOMAIN list : list[k].id = id

cancel_order(id) ==
    /\ call = Idle
    /\ IF has_order(id)
       THEN LET loc  == order_lookup[id]
                list == ListAt(loc.is_buy, loc.price)
            IN  /\ book' = [book EXCEPT ![loc.is_buy] =
                       WithList(@, loc.price, RemoveAt(list, itr(list, id)))]
                /\ order_lookup' = Erase(order_lookup, id)
       ELSE UNCHANGED <<book, order_lookup>>
    /\ UNCHANGED <<total_trades, call, submits>>

Next ==
    \/ process_list \/ EraseEmpty \/ Insert
    \/ \E id \in Ids, price \in Prices, qty \in Qtys, is_buy \in BOOLEAN :
          add_order(id, price, qty, is_buy)
    \/ \E id \in Ids : cancel_order(id)

Spec == Init /\ [][Next]_vars

\* add_order() is a loop of the calling thread: it goes on while it can.
FairSpec == Spec /\ WF_vars(process_list \/ EraseEmpty \/ Insert)
-----------------------------------------------------------------------------
\* The maps have prices of the client, and no quantity falls below zero.
TypeOK ==
    /\ \A b \in BOOLEAN :
          /\ DOMAIN book[b] \subseteq Prices
          /\ \A p \in DOMAIN book[b] : book[b][p] \in Seq([id : Ids, qty : Nat])
    /\ DOMAIN order_lookup \subseteq Ids
    /\ \A id \in DOMAIN order_lookup :
          order_lookup[id] \in [price : Prices, is_buy : BOOLEAN]
    /\ total_trades \in Nat
    /\ call = Idle \/ call \in [id : Ids, price : Prices, qty : Nat, is_buy : BOOLEAN]
    /\ submits \in 0..MaxSubmits

\* The lists and the lookup agree: every order on a list is found under its
\* id at its place, and every id in the lookup is on the list of its place.
LookupExact ==
    /\ \A b \in BOOLEAN : \A p \in DOMAIN book[b] : \A k \in DOMAIN book[b][p] :
          LET id == book[b][p][k].id
          IN  has_order(id) /\ order_lookup[id] = [price |-> p, is_buy |-> b]
    /\ \A id \in DOMAIN order_lookup :
          \E o \in ToSet(ListAt(order_lookup[id].is_buy, order_lookup[id].price)) :
             o.id = id

\* Every trade that process_list() counts retires an order: no more trades
\* are counted than orders were submitted and do not rest any more.
TradesBounded ==
    call = Idle => total_trades + Cardinality(DOMAIN order_lookup) <= submits

\* The naive book is a price-time priority book without a capacity, although
\* its maps keep empty lists.
Book == INSTANCE PriceTimeBook WITH
    Capacity <- MaxSubmits + 1,
    queue <- [b \in BOOLEAN |-> [p \in Prices |-> ListAt(b, p)]]
PriceTime == Book!Spec

\* The loops of add_order() end.
AddReturns == (call # Idle) ~> (call = Idle)
=============================================================================
