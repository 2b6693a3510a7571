------------------------------ MODULE PriceSet ------------------------------
(***************************************************************************)
(* What a price index promises the order book: it is a set of prices.      *)
(***************************************************************************)
CONSTANT Prices

VARIABLE prices

Init == prices = {}

Insert(p) == prices' = prices \cup {p}

Remove(p) == prices' = prices \ {p}

Clear == prices' = {}

Next == Clear \/ \E p \in Prices : Insert(p) \/ Remove(p)

Spec == Init /\ [][Next]_prices
=============================================================================
