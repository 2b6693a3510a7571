--------------------------- MODULE PriceTimeBook ----------------------------
(***************************************************************************)
(* What every order book of lobook promises: price-time priority.  At each *)
(* price of each side the resting orders wait in a queue.  An incoming     *)
(* order trades with the head of the best opposite queue until it is       *)
(* filled or no longer crosses; what is left of it goes to the back of the *)
(* queue of its price, if there is room in the book.  A cancel removes one *)
(* order.  A replace keeps the place of the order when it only lowers the  *)
(* quantity and moves it to the back of the queue of its price otherwise.  *)
(*                                                                         *)
(* A submit is a series of steps, one per trade, so that an implementation *)
(* is compared with this module trade by trade.                            *)
(***************************************************************************)
EXTENDS Integers, FiniteSets, FiniteSetsExt, SequencesExt

CONSTANTS
    Prices,     \* the prices of the ladder
    Ids,        \* order ids
    Qtys,       \* quantities a client may ask for
    Capacity    \* how many orders may rest at the same time

VARIABLES
    queue,      \* queue[is_buy][price]: resting orders, oldest first
    call        \* the submit in progress, or Idle

bookVars == <<queue, call>>

Idle == [id |-> -1, price |-> 0, qty |-> 0, is_buy |-> TRUE]

\* The prices at which a side has resting orders.
Active(b) == {p \in Prices : queue[b][p] # <<>>}

\* The best opposite price for the incoming order, and whether it trades.
Best == IF call.is_buy THEN Min(Active(FALSE)) ELSE Max(Active(TRUE))

Crossing ==
    /\ call.qty > 0
    /\ Active(~call.is_buy) # {}
    /\ IF call.is_buy THEN Best <= call.price ELSE Best >= call.price

Places == BOOLEAN \X Prices
IdsAt(b, p) == {queue[b][p][k].id : k \in DOMAIN queue[b][p]}
RestingIds == UNION {IdsAt(bp[1], bp[2]) : bp \in Places}
-----------------------------------------------------------------------------
Empty == [b \in BOOLEAN |-> [p \in Prices |-> <<>>]]

Init == queue = Empty /\ call = Idle

\* All orders are forgotten.
Reset == call = Idle /\ queue' = Empty /\ UNCHANGED call

Submit(i, p, q, b) ==
    /\ call = Idle
    /\ call' = [id |-> i, price |-> p, qty |-> q, is_buy |-> b]
    /\ i \notin RestingIds
    /\ UNCHANGED queue

\* The incoming order trades with the oldest order at the best price.
Trade ==
    /\ call # Idle /\ Crossing
    /\ LET old  == Head(queue[~call.is_buy][Best])
           t    == Min({call.qty, old.qty})
           rest == Tail(queue[~call.is_buy][Best])
       IN  /\ call' = [call EXCEPT !.qty = @ - t]
           /\ queue' = [queue EXCEPT ![~call.is_buy][Best] =
                 IF t = old.qty THEN rest
                                ELSE <<[old EXCEPT !.qty = @ - t]>> \o rest]

\* The submit returns; what was not traded rests, if there is room.
Rest ==
    /\ call # Idle /\ ~Crossing
    /\ call' = Idle
    /\ queue' = IF call.qty > 0 /\ Cardinality(RestingIds) < Capacity
                THEN [queue EXCEPT ![call.is_buy][call.price] =
                         Append(@, [id |-> call.id, qty |-> call.qty])]
                ELSE queue

\* The k-th order at price p of side b is cancelled.
Cancel(b, p, k) ==
    /\ call = Idle
    /\ queue' = [queue EXCEPT ![b][p] = RemoveAt(@, k)]
    /\ UNCHANGED call

\* The k-th order at price p of side b gets a new price and quantity.
Replace(b, p, k, new_price, new_qty) ==
    LET o    == queue[b][p][k]
        left == [queue EXCEPT ![b][p] = RemoveAt(@, k)]
    IN  /\ call = Idle
        /\ queue' =
              IF p = new_price /\ new_qty <= o.qty
              THEN [queue EXCEPT ![b][p][k].qty = new_qty]
              ELSE [left EXCEPT ![b][new_price] =
                       Append(@, [o EXCEPT !.qty = new_qty])]
        /\ UNCHANGED call

Next ==
    \/ Reset
    \/ Trade
    \/ Rest
    \/ \E i \in Ids, p \in Prices, q \in Qtys, b \in BOOLEAN : Submit(i, p, q, b)
    \/ \E b \in BOOLEAN, p \in Prices : \E k \in DOMAIN queue[b][p] :
          \/ Cancel(b, p, k)
          \/ \E new_price \in Prices, new_qty \in Qtys :
                Replace(b, p, k, new_price, new_qty)

Spec == Init /\ [][Next]_bookVars
=============================================================================
