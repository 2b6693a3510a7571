--------------------------- MODULE FastOrderBook ----------------------------
(***************************************************************************)
(* FastOrderBook of src/engine/fast_book.h: the pool and the lists of      *)
(* OrderPool without an index.  match() scans the ladder of the other side *)
(* from its best end, one step per price, until the incoming order is      *)
(* filled or the scan has passed its limit price.                          *)
(***************************************************************************)
EXTENDS OrderPool

VARIABLE p  \* match(): the price the scan has come to

vars == <<pool, call, clients, p>>

Init == PoolInit /\ p = 0

init == PoolReset /\ UNCHANGED p

\* Mutant: both sides start at their worst price.
StartSwapped(is_buy) == IF is_buy THEN MAX_PRICES - 1 ELSE 0

start_price(is_buy) == IF is_buy THEN 0 ELSE MAX_PRICES - 1

Submit(id, price, qty, is_buy) ==
    /\ submit_order(id, price, qty, is_buy)
    /\ p' = start_price(is_buy)

Scanning == call # Idle /\ call.qty > 0

\* Mutant: the scan breaks at the limit price.
PastEndEarly ==
    p \in Prices /\ IF call.is_buy THEN p >= call.price ELSE p <= call.price

\* The scan breaks at a price beyond the limit, end_price.
PastEnd ==
    p \in Prices /\ IF call.is_buy THEN p > call.price ELSE p < call.price

\* One trade with the head of the level the scan has come to.
match ==
    /\ Scanning /\ p \in Prices /\ ~PastEnd
    /\ levels[~call.is_buy][p].head # NULL_IDX
    /\ Trade(p) /\ UNCHANGED p

\* Mutant: sellers scan upwards, too.
StepUp == 1

step == IF call.is_buy THEN 1 ELSE -1

\* The level is empty: p += step.
Advance ==
    /\ Scanning /\ p \in Prices /\ ~PastEnd
    /\ levels[~call.is_buy][p].head = NULL_IDX
    /\ p' = p + step
    /\ UNCHANGED <<pool, call, clients>>

\* Off the ladder the loop goes on with `continue', which comes before the
\* tests that end it: nothing but p changes any more, and p only moves away.
Continue == Scanning /\ p \notin Prices /\ UNCHANGED vars

\* submit_order() returns; add_order() stores what is left of the order.
add_order ==
    /\ call # Idle /\ (call.qty = 0 \/ PastEnd)
    /\ Return
    /\ p' = 0

cancel_order(id) ==
    /\ MayCancel
    /\ IF HasEntry(id) THEN Remove(id) ELSE UNCHANGED pool
    /\ UNCHANGED <<call, clients, p>>

Next ==
    \/ init
    \/ match
    \/ Advance
    \/ Continue
    \/ add_order
    \/ \E id \in SubmitIds, price \in SubmitPrices, qty \in Qtys,
          is_buy \in BOOLEAN : Submit(id, price, qty, is_buy)
    \/ \E id \in TouchIds : cancel_order(id)

Spec == Init /\ [][Next]_vars

\* submit_order() is a loop of the calling thread: it goes on while it can.
FairSpec == Spec /\ WF_vars(match \/ Advance \/ add_order)
-----------------------------------------------------------------------------
(* Properties *)

\* The type of the pool; the scan leaves the ladder by one step at most.
TypeOK == PoolTypeOK /\ p \in -1..MAX_PRICES

\* The scan has left no order behind: all levels between the end of the ladder
\* where it started and p are empty, so a trade at p is at the best price.
ScanInv ==
    Scanning => \A q \in Prices :
        (IF call.is_buy THEN q < p ELSE q > p) =>
            levels[~call.is_buy][q].head = NULL_IDX

\* "Both books expose the same generic interface" (src/benchmark_book.cpp): the
\* ladder book does what the bitset book does, trade by trade and link by link,
\* corrupted lists included, with the index the bitset book would have.
Bitset == INSTANCE FastBitsetBook WITH
    index <- [b \in BOOLEAN |-> {q \in Prices : levels[b][q].head # NULL_IDX}]
ImplementsBitsetBook == Bitset!Spec

\* An order whose limit price is not at the end of the ladder its scan runs to
\* is done with after finitely many steps.
InnerLimit == IF call.is_buy THEN call.price < MAX_PRICES - 1 ELSE call.price > 0
InnerReturns == (call # Idle /\ InnerLimit) ~> (call = Idle)
=============================================================================
