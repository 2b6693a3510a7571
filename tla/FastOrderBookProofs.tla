------------------------- MODULE FastOrderBookProofs ------------------------
(***************************************************************************)
(* The scan of FastOrderBook finds the best price whatever the clients do, *)
(* and with it the book takes, step by step, the steps of FastBitsetBook.  *)
(* For clients that keep to SafeRules no slot is lost but those of orders  *)
(* off the ladder.                                                         *)
(***************************************************************************)
EXTENDS FastOrderBook, OrderPoolProofs

-----------------------------------------------------------------------------
(* The scan *)

LEMMA PriceNumbers ==
    /\ Prices \subseteq Int /\ MAX_PRICES \in Nat /\ MAX_PRICES > 0
    /\ Prices \subseteq -1..MAX_PRICES
    /\ \A q : q \in Prices <=> q \in Int /\ 0 <= q /\ q <= MAX_PRICES - 1
  BY LadderAssumption DEF Prices

\* What a trade of the scan is, in the terms of the pool's lemmas.
LEMMA MatchTrade ==
    ASSUME PoolTypeOK, match
    PROVE  \E side \in BOOLEAN : \E i, t :
              side = ~call.is_buy /\ IsHead(levels, side, p, i) /\ TradeOf(side, p, i, t)
  <1>1. (~call.is_buy) \in BOOLEAN
    OBVIOUS
  <1>2. IsHead(levels, ~call.is_buy, p, levels[~call.is_buy][p].head)
    BY DEF match, IsHead
  <1> QED
    BY <1>1, <1>2 DEF TradeOf

LEMMA SubmitRange ==
    /\ SubmitIds \subseteq Ids /\ SubmitPrices \subseteq 0..MAX_PRICES
  BY LadderAssumption DEF SubmitIds, SubmitPrices, Prices

LEMMA NextType ==
    ASSUME TypeOK, [Next]_vars
    PROVE  TypeOK'
  <1>0. PoolTypeOK /\ p \in -1..MAX_PRICES
    BY DEF TypeOK
  <1>1. CASE init
    BY <1>0, <1>1, ResetType DEF init, TypeOK
  <1>2. CASE match
    <2>0. PICK side \in BOOLEAN : \E i, t : TradeOf(side, p, i, t)
      BY <1>0, <1>2, MatchTrade
    <2>1. PICK i, t : TradeOf(side, p, i, t)
      BY <2>0
    <2>2. Trade(p) /\ p \in Prices /\ p' = p
      BY <1>2 DEF match
    <2>3. PoolTypeOK'
      BY <1>0, <2>1, <2>2, TradeFields
    <2> QED
      BY <1>0, <2>2, <2>3 DEF TypeOK
  <1>3. CASE Advance
    <2>1. p' = p + step /\ p \in Prices /\ step \in {-1, 1}
      BY <1>3 DEF Advance, step
    <2>2. p' \in -1..MAX_PRICES
      BY <2>1, PriceNumbers
    <2>3. UNCHANGED <<orders, levels, id_map, next_free_order_idx, call, rested, submits>>
      BY <1>3 DEF Advance, pool, clients
    <2>4. PoolTypeOK'
      BY <1>0, <2>3, PoolTypes, PoolTypesPrime
    <2> QED
      BY <2>2, <2>4 DEF TypeOK
  <1>4. CASE add_order
    <2>1. PoolTypeOK' /\ p' = 0
      BY <1>0, <1>4, ReturnType DEF add_order
    <2> QED
      BY <2>1, PriceNumbers DEF TypeOK
  <1>5. ASSUME NEW id \in SubmitIds, NEW price \in SubmitPrices, NEW qty \in Qtys,
               NEW is_buy \in BOOLEAN, Submit(id, price, qty, is_buy)
        PROVE  TypeOK'
    <2>1. PoolTypeOK'
      BY <1>0, <1>5, SubmitRange, SubmitType, QtysAssumption DEF Submit
    <2>2. p' \in -1..MAX_PRICES
      BY <1>5, PriceNumbers DEF Submit, start_price
    <2> QED
      BY <2>1, <2>2 DEF TypeOK
  <1>6. ASSUME NEW id \in TouchIds, cancel_order(id)
        PROVE  TypeOK'
    <2>1. p' = p /\ UNCHANGED <<call, clients>>
      BY <1>6 DEF cancel_order
    <2>2. CASE HasEntry(id)
      <3>1. PICK i, b, r : OrderAt(id, i, b, r)
        BY DEF OrderAt
      <3>2. PoolTypeOK'
        BY <1>0, <1>6, <2>1, <2>2, <3>1, RemoveFields DEF cancel_order
      <3> QED
        BY <1>0, <2>1, <3>2 DEF TypeOK
    <2>3. CASE ~HasEntry(id)
      <3>1. UNCHANGED <<orders, levels, id_map, next_free_order_idx, call, rested, submits>>
        BY <1>6, <2>1, <2>3 DEF cancel_order, pool, clients
      <3>2. PoolTypeOK'
        BY <1>0, <3>1, PoolTypes, PoolTypesPrime
      <3> QED
        BY <1>0, <2>1, <3>2 DEF TypeOK
    <2> QED
      BY <2>2, <2>3
  <1>7. CASE Continue \/ UNCHANGED vars
    <2>1. /\ UNCHANGED <<orders, levels, id_map, next_free_order_idx, call, rested, submits>>
          /\ p' = p
      BY <1>7 DEF Continue, vars, pool, clients
    <2>2. PoolTypeOK'
      BY <1>0, <2>1, PoolTypes, PoolTypesPrime
    <2> QED
      BY <1>0, <2>1, <2>2 DEF TypeOK
  <1> QED
    BY <1>1, <1>2, <1>3, <1>4, <1>5, <1>6, <1>7 DEF Next

LEMMA InitTypeOK == Init => TypeOK
  BY InitType, PriceNumbers DEF Init, TypeOK

\* TypeOK, whatever the clients do: no link, list end or table entry points
\* outside the pool, no quantity falls below zero, and the scan leaves the ladder
\* by at most one step.
THEOREM TypeCorrect == Spec => []TypeOK
  <1>1. TypeOK /\ [Next]_vars => TypeOK'
    BY NextType
  <1> QED
    BY <1>1, InitTypeOK, PTL DEF Spec

\* The levels the scan has passed.
Passed(q) == IF call.is_buy THEN q < p ELSE q > p

LEMMA NextScan ==
    ASSUME TypeOK, ScanInv, [Next]_vars
    PROVE  ScanInv'
  <1>0. PoolTypeOK /\ p \in -1..MAX_PRICES /\ call \in Calls /\ levels \in Ladders
    BY PoolTypes DEF TypeOK
  <1>1. ASSUME call' = Idle
        PROVE  ScanInv'
    BY <1>1 DEF ScanInv, Scanning
  <1>2. CASE match
    <2>0. PICK side \in BOOLEAN : \E i, t : side = ~call.is_buy /\ TradeOf(side, p, i, t)
      BY <1>0, <1>2, MatchTrade
    <2>1. PICK i, t : side = ~call.is_buy /\ TradeOf(side, p, i, t)
      BY <2>0
    <2>2. Trade(p) /\ p \in Prices /\ p' = p /\ Scanning
      BY <1>2 DEF match
    <2>3. Traded(side, p, i, t) /\ PoolTypeOK'
      BY <1>0, <2>1, <2>2, TradeFields
    <2>4. call'.is_buy = call.is_buy
      BY <1>0, <2>3 DEF Traded, Calls
    <2>5. ASSUME NEW q \in Prices, q # p
          PROVE  levels'[side][q] = levels[side][q]
      <3>1. CASE t = orders[i].qty
        <4>1. PICK lv : lv = PoppedLevel(orders, levels[side][p], i)
          OBVIOUS
        <4>2. levels' = Put(levels, side, p, lv)
          BY <2>3, <3>1, <4>1 DEF Traded
        <4> QED
          BY <1>0, <2>5, <4>2 DEF Put, Ladders
      <3>2. CASE t # orders[i].qty
        BY <2>3, <3>2 DEF Traded
      <3> QED
        BY <3>1, <3>2
    <2>6. ASSUME NEW q \in Prices, Passed(q)
          PROVE  levels[side][q].head = NULL_IDX /\ q # p
      BY <1>0, <2>1, <2>2, <2>6, PriceNumbers DEF ScanInv, Passed
    <2> QED
      BY <2>1, <2>2, <2>4, <2>5, <2>6 DEF ScanInv, Passed
  <1>3. CASE Advance
    <2>1. /\ p' = p + step /\ p \in Prices /\ call' = call /\ levels' = levels /\ Scanning
          /\ levels[~call.is_buy][p].head = NULL_IDX
      BY <1>3 DEF Advance, pool
    <2>2. ASSUME NEW q \in Prices, IF call.is_buy THEN q < p' ELSE q > p'
          PROVE  Passed(q) \/ q = p
      BY <2>1, <2>2, PriceNumbers DEF Passed, step
    <2> QED
      BY <2>1, <2>2 DEF ScanInv, Passed
  <1>4. ASSUME NEW id \in SubmitIds, NEW price \in SubmitPrices, NEW qty \in Qtys,
               NEW is_buy \in BOOLEAN, Submit(id, price, qty, is_buy)
        PROVE  ScanInv'
    <2>1. p' = start_price(is_buy) /\ call'.is_buy = is_buy
      BY <1>4 DEF Submit, submit_order
    <2>2. \A q \in Prices : ~IF is_buy THEN q < p' ELSE q > p'
      BY <2>1, PriceNumbers DEF start_price
    <2> QED
      BY <2>1, <2>2 DEF ScanInv
  <1>5. ASSUME Continue \/ UNCHANGED vars
        PROVE  ScanInv'
    BY <1>5 DEF Continue, vars, pool, ScanInv, Scanning
  <1>6. CASE init \/ add_order \/ \E id \in TouchIds : cancel_order(id)
    <2>1. call' = Idle
      BY <1>6 DEF init, PoolReset, add_order, Return, cancel_order, MayCancel
    <2> QED
      BY <1>1, <2>1
  <1> QED
    BY <1>2, <1>3, <1>4, <1>5, <1>6 DEF Next

LEMMA InitScan == Init => ScanInv
  BY DEF Init, PoolInit, ScanInv, Scanning

\* ScanInv, whatever the clients do: the scan of match() has left no order
\* behind, so its next trade is at the best price.
THEOREM ScanCorrect == Spec => []ScanInv
  <1>1. TypeOK /\ ScanInv /\ [Next]_vars => ScanInv'
    BY NextScan
  <1>2. Spec => []TypeOK
    BY TypeCorrect
  <1> QED
    BY <1>1, <1>2, InitScan, PTL DEF Spec

-----------------------------------------------------------------------------
(* The pool *)

LEMMA NextIntact ==
    ASSUME SafeRules \subseteq Rules, TypeOK, Intact, [Next]_vars
    PROVE  Intact'
  <1>0. PoolTypeOK
    BY DEF TypeOK
  <1>1. PICK L, F, X : Shape(L, F, X)
    BY DEF Intact
  <1> SUFFICES \E L2, F2, X2 : Shape(L2, F2, X2)'
    BY ShapeIntactPrime
  <1>2. CASE init
    <2>1. Shape(EmptyLists, AllFree, {})'
      BY <1>0, <1>2, ResetShape DEF init
    <2> QED
      BY <2>1
  <1>3. CASE match
    <2>0. PICK side \in BOOLEAN : \E i, t : TradeOf(side, p, i, t)
      BY <1>0, <1>3, MatchTrade
    <2>1. PICK i, t : TradeOf(side, p, i, t)
      BY <2>0
    <2>2. Trade(p) /\ p \in Prices
      BY <1>3 DEF match
    <2>3. \E L2, F2 : Shape(L2, F2, X)'
      BY <1>0, <1>1, <2>1, <2>2, TradeShape
    <2> QED
      BY <2>3
  <1>4. CASE add_order
    <2>1. Return
      BY <1>4 DEF add_order
    <2>2. PICK b, r, i : b = call.is_buy /\ r = call.price /\ i = next_free_order_idx
      OBVIOUS
    <2>3. /\ ~CanStore => Shape(L, F, X)'
          /\ CanStore /\ r \in Prices =>
                Shape(Put(L, b, r, Append(L[b][r], i)), Without(F, 1), X)'
          /\ CanStore /\ r \notin Prices => Shape(L, Without(F, 1), X \cup {i})'
      BY <1>0, <1>1, <2>1, <2>2, ReturnShape
    <2> QED
      BY <2>3
  <1>5. ASSUME NEW id \in SubmitIds, NEW price \in SubmitPrices, NEW qty \in Qtys,
               NEW is_buy \in BOOLEAN, Submit(id, price, qty, is_buy)
        PROVE  Shape(L, F, X)'
    <2>1. id \notin LiveIds
      BY DEF SubmitIds, SafeRules
    <2> QED
      BY <1>0, <1>1, <1>5, <2>1, SubmitShape DEF Submit
  <1>6. ASSUME NEW id \in TouchIds, cancel_order(id)
        PROVE  \E L2, F2, X2 : Shape(L2, F2, X2)'
    <2>1. UNCHANGED <<call, clients>>
      BY <1>6 DEF cancel_order
    <2>2. CASE ~HasEntry(id)
      <3>1. UNCHANGED <<orders, levels, id_map, next_free_order_idx, call, rested>>
        BY <1>6, <2>1, <2>2 DEF cancel_order, pool, clients
      <3>2. Shape(L, F, X)'
        BY <1>1, <3>1 DEF Shape
      <3> QED
        BY <3>2
    <2>3. CASE HasEntry(id)
      <3>1. PICK i, b, r : OrderAt(id, i, b, r)
        BY DEF OrderAt
      <3>2. Remove(id) /\ r \in Prices
        BY <1>6, <2>3, <3>1 DEF cancel_order, OrderAt, Remove
      <3>3. /\ orders[i].id = id /\ b \in BOOLEAN
            /\ \E k : IsAt(L, b, r, k, i) /\ HeadReset(orders, k, i)
        BY <1>0, <1>1, <2>3, <3>1, <3>2, RulesTouch, TouchedSlot DEF OrderAt
      <3>4. PICK k : IsAt(L, b, r, k, i) /\ HeadReset(orders, k, i)
        BY <3>3
      <3>5. Shape(Put(L, b, r, Without(L[b][r], k)), <<i>> \o F, X)'
        BY <1>0, <1>1, <2>1, <2>3, <3>1, <3>2, <3>3, <3>4, RemoveShape
      <3> QED
        BY <3>5
    <2> QED
      BY <2>2, <2>3
  <1>7. CASE Advance \/ Continue \/ UNCHANGED vars
    <2>1. UNCHANGED <<orders, levels, id_map, next_free_order_idx, call, rested>>
      BY <1>7 DEF Advance, Continue, vars, pool, clients
    <2>2. Shape(L, F, X)'
      BY <1>1, <2>1 DEF Shape
    <2> QED
      BY <2>2
  <1> QED
    BY <1>2, <1>3, <1>4, <1>5, <1>6, <1>7 DEF Next

LEMMA InitIntact == Init => Intact
  BY InitShape, ShapeIntact DEF Init

LEMMA NextLoss ==
    ASSUME SafeRules \subseteq Rules, TypeOK, Intact, [Next]_vars
    PROVE  [LossStep]_<<pool, call>>
  <1>0. PoolTypeOK
    BY DEF TypeOK
  <1>1. PICK L, F, X : Shape(L, F, X)
    BY DEF Intact
  <1>2. CASE init
    BY <1>0, <1>2, ResetLoss DEF init
  <1>3. CASE match
    <2>0. PICK side \in BOOLEAN : \E i, t : TradeOf(side, p, i, t)
      BY <1>0, <1>3, MatchTrade
    <2>1. PICK i, t : TradeOf(side, p, i, t)
      BY <2>0
    <2>2. Trade(p) /\ p \in Prices
      BY <1>3 DEF match
    <2>3. \E L2, F2 : Shape(L2, F2, X)'
      BY <1>0, <1>1, <2>1, <2>2, TradeShape
    <2>4. call'.price = call.price
      <3>1. call \in Calls
        BY <1>0, PoolTypes
      <3>2. \E n : call' = [call EXCEPT !.qty = n]
        BY <2>2 DEF Trade
      <3> QED
        BY <3>1, <3>2 DEF Calls
    <2> QED
      BY <1>1, <2>3, <2>4, OnlyReturnLoses, KeepsLoss
  <1>4. CASE add_order
    <2>1. Return /\ call # Idle
      BY <1>4 DEF add_order
    <2> QED
      BY <1>0, <1>1, <2>1, ReturnLoss
  <1>5. ASSUME NEW id \in SubmitIds, NEW price \in SubmitPrices, NEW qty \in Qtys,
               NEW is_buy \in BOOLEAN, Submit(id, price, qty, is_buy)
        PROVE  LossStep
    <2>1. submit_order(id, price, qty, is_buy) /\ id \notin LiveIds
      BY <1>5 DEF Submit, SubmitIds, SafeRules
    <2>2. Shape(L, F, X)' /\ call = Idle
      BY <1>0, <1>1, <2>1, SubmitShape DEF submit_order
    <2> QED
      BY <1>1, <2>2, OnlyReturnLoses, KeepsLoss
  <1>6. ASSUME NEW id \in TouchIds, cancel_order(id)
        PROVE  [LossStep]_<<pool, call>>
    <2>1. call = Idle /\ UNCHANGED <<call, clients>>
      BY <1>6 DEF cancel_order, MayCancel
    <2>2. CASE ~HasEntry(id)
      BY <1>6, <2>1, <2>2 DEF cancel_order
    <2>3. CASE HasEntry(id)
      <3>1. PICK i, b, r : OrderAt(id, i, b, r)
        BY DEF OrderAt
      <3>2. Remove(id) /\ r \in Prices
        BY <1>6, <2>3, <3>1 DEF cancel_order, OrderAt, Remove
      <3>3. /\ orders[i].id = id /\ b \in BOOLEAN
            /\ \E k : IsAt(L, b, r, k, i) /\ HeadReset(orders, k, i)
        BY <1>0, <1>1, <2>3, <3>1, <3>2, RulesTouch, TouchedSlot DEF OrderAt
      <3>4. PICK k : IsAt(L, b, r, k, i) /\ HeadReset(orders, k, i)
        BY <3>3
      <3>5. Shape(Put(L, b, r, Without(L[b][r], k)), <<i>> \o F, X)'
        BY <1>0, <1>1, <2>1, <2>3, <3>1, <3>2, <3>3, <3>4, RemoveShape
      <3> QED
        BY <1>1, <2>1, <3>5, OnlyReturnLoses, KeepsLoss
    <2> QED
      BY <2>2, <2>3
  <1>7. CASE Advance \/ Continue \/ UNCHANGED vars
    BY <1>7 DEF Advance, Continue, vars
  <1> QED
    BY <1>2, <1>3, <1>4, <1>5, <1>6, <1>7 DEF Next

\* LossExact of the ladder book, for clients that keep to SafeRules: an order
\* off the ladder costs one slot, which add_order() has taken and only init()
\* gives back, and no slot is lost otherwise, whatever is matched and cancelled.
THEOREM LossCorrect ==
    ASSUME SafeRules \subseteq Rules
    PROVE  Spec => LossExact
  <1>1. TypeOK /\ Intact /\ [Next]_vars => Intact'
    BY NextIntact
  <1>2. TypeOK /\ Intact /\ [Next]_vars => [LossStep]_<<pool, call>>
    BY NextLoss
  <1>3. Spec => []TypeOK
    BY TypeCorrect
  <1> QED
    BY <1>1, <1>2, <1>3, InitIntact, PTL DEF Spec, LossExact

\* The instance means the same pool.
LEMMA SamePool ==
    /\ Bitset!pool = pool /\ Bitset!clients = clients /\ Bitset!Idle = Idle
    /\ Bitset!Slots = Slots /\ Bitset!Prices = Prices /\ Bitset!Ids = Ids
    /\ Bitset!EmptyLevels = EmptyLevels /\ Bitset!NULL_IDX = NULL_IDX
  BY DEF Bitset!pool, pool, Bitset!clients, clients, Bitset!Idle, Idle, Bitset!Slots, Slots,
         Bitset!Prices, Prices, Bitset!Ids, Ids, Bitset!EmptyLevels, EmptyLevels,
         Bitset!NULL_IDX, NULL_IDX

LEMMA SamePoolPrime == (Bitset!pool)' = pool' /\ (Bitset!clients)' = clients'
  BY DEF Bitset!pool, pool, Bitset!clients, clients

LEMMA BitsetVars == Bitset!vars = <<pool, ActivePrices(levels), call, clients>>
  BY SamePool DEF Bitset!vars, ActivePrices

LEMMA BitsetVarsPrime == (Bitset!vars)' = <<pool', ActivePrices(levels'), call', clients'>>
  BY SamePoolPrime DEF Bitset!vars, ActivePrices

LEMMA SameInit == Bitset!PoolInit <=> PoolInit
  BY SamePool, Zenon DEF Bitset!PoolInit, PoolInit, Bitset!FreeChain, FreeChain, Bitset!Slots, Slots, Bitset!NULL_IDX, NULL_IDX

LEMMA SameReset == Bitset!PoolReset <=> PoolReset
  BY SamePool, Zenon DEF Bitset!PoolReset, PoolReset, Bitset!FreeChain, FreeChain, Bitset!Slots, Slots, Bitset!NULL_IDX, NULL_IDX

LEMMA SameHasEntry == \A id : Bitset!HasEntry(id) <=> HasEntry(id)
  BY DEF Bitset!HasEntry, HasEntry, Bitset!NULL_IDX, NULL_IDX

LEMMA SameLiveIds == Bitset!LiveIds = LiveIds
  BY SamePool, SameHasEntry DEF Bitset!LiveIds, LiveIds

LEMMA SameSubmit ==
    ASSUME NEW id, NEW price, NEW qty, NEW is_buy
    PROVE  Bitset!submit_order(id, price, qty, is_buy) <=> submit_order(id, price, qty, is_buy)
  BY SamePool, Zenon DEF Bitset!submit_order, submit_order, Bitset!MaySubmit, MaySubmit

LEMMA SameClients ==
    /\ Bitset!SubmitIds = SubmitIds /\ Bitset!SubmitPrices = SubmitPrices
    /\ Bitset!TouchIds = TouchIds
  BY SamePool, SameLiveIds, Zenon DEF Bitset!SubmitIds, SubmitIds, Bitset!SubmitPrices, SubmitPrices,
     Bitset!TouchIds, TouchIds, Bitset!PromotedHead, PromotedHead

LEMMA SameMin == \A S : Bitset!Min(S) = Min(S) /\ Bitset!Max(S) = Max(S)
  BY Zenon DEF Bitset!Min, Min, Bitset!Max, Max

LEMMA SameTrade ==
    ASSUME NEW r
    PROVE  Bitset!Trade(r) <=> Trade(r)
  BY SamePool, SamePoolPrime, SameMin, Zenon DEF Bitset!Trade, Trade, Bitset!TradeQty, TradeQty, Bitset!Filled, Filled,
     Bitset!Forget, Forget, Bitset!Free, Free

LEMMA SameLink ==
    ASSUME NEW ord, NEW lv, NEW i
    PROVE  Bitset!Link(ord, lv, i) = Link(ord, lv, i)
  BY SamePool, Zenon DEF Bitset!Link, Link, Bitset!LinkBack, LinkBack

LEMMA SameReturn == Bitset!Return <=> Return
  BY SamePool, SamePoolPrime, SameLink, Zenon DEF Bitset!Return, Return, Bitset!Store, Store,
     Bitset!CanStore, CanStore, Bitset!Linkable, Linkable

LEMMA SameUnlink ==
    ASSUME NEW ord, NEW lv, NEW i
    PROVE  Bitset!Unlink(ord, lv, i) = Unlink(ord, lv, i)
  BY SamePool, Zenon DEF Bitset!Unlink, Unlink, Bitset!TailWithout, TailWithout

LEMMA SameRemove ==
    ASSUME NEW id
    PROVE  Bitset!Remove(id) <=> Remove(id)
  BY SamePool, SameUnlink, Zenon DEF Bitset!Remove, Remove, Bitset!Free, Free, Bitset!Forget, Forget

LEMMA BitsetInit ==
    Bitset!Init <=> PoolInit /\ ActivePrices(levels) = [b \in BOOLEAN |-> {}]
  BY SameInit, Zenon DEF Bitset!Init, ActivePrices, Bitset!Prices, Prices, Bitset!NULL_IDX, NULL_IDX

LEMMA BitsetReset ==
    Bitset!init <=> PoolReset /\ ActivePrices(levels') = [b \in BOOLEAN |-> {}]
  BY SameReset, Zenon DEF Bitset!init, ActivePrices

LEMMA BitsetSubmit ==
    ASSUME NEW id, NEW price, NEW qty, NEW is_buy
    PROVE  Bitset!Submit(id, price, qty, is_buy) <=>
              /\ submit_order(id, price, qty, is_buy)
              /\ ActivePrices(levels') = ActivePrices(levels)
  BY SameSubmit, Zenon DEF Bitset!Submit, ActivePrices

\* The best price of the index the book would have.
Best == IF call.is_buy THEN Min(ActivePrices(levels)[FALSE])
                       ELSE Max(ActivePrices(levels)[TRUE])
Crosses ==
    /\ call.qty > 0 /\ ActivePrices(levels)[~call.is_buy] # {}
    /\ IF call.is_buy THEN Best <= call.price ELSE Best >= call.price

LEMMA BitsetBest == Bitset!best = Best
  BY SameMin, Zenon DEF Bitset!best, Best, ActivePrices

LEMMA BitsetCrosses == Bitset!Crosses <=> Crosses
  BY BitsetBest, Zenon DEF Bitset!Crosses, Crosses, Bitset!InReach, ActivePrices

Cleared(b, r) ==
    IF levels'[b][r].head = NULL_IDX THEN WithoutPrice(ActivePrices(levels), b, r)
                                     ELSE ActivePrices(levels)

LEMMA BitsetClear ==
    ASSUME NEW b, NEW r
    PROVE  Bitset!ClearIfEmpty(b, r) = Cleared(b, r)
  BY SamePool, Zenon DEF Bitset!ClearIfEmpty, Cleared, WithoutPrice, ActivePrices

LEMMA BitsetMatch ==
    Bitset!match <=>
        /\ call # Idle /\ Crosses /\ Trade(Best)
        /\ ActivePrices(levels') = Cleared(~call.is_buy, Best)
  BY SamePool, BitsetBest, BitsetCrosses, BitsetClear, SameTrade, Zenon
     DEF Bitset!match, ActivePrices

LEMMA BitsetRest ==
    Bitset!add_order <=>
        /\ call # Idle /\ ~Crosses /\ Return
        /\ ActivePrices(levels') =
              IF CanStore /\ call.price \in Prices
                 /\ levels[call.is_buy][call.price].head = NULL_IDX
              THEN WithPrice(ActivePrices(levels), call.is_buy, call.price)
              ELSE ActivePrices(levels)
  BY SamePool, BitsetCrosses, SameReturn, Zenon
     DEF Bitset!add_order, ActivePrices, WithPrice, Bitset!CanStore, CanStore

LEMMA BitsetCancel ==
    ASSUME NEW id
    PROVE  Bitset!cancel_order(id) <=>
              /\ MayCancel
              /\ IF HasEntry(id)
                 THEN /\ Remove(id)
                      /\ ActivePrices(levels') = Cleared(orders[id_map[id]].is_buy,
                                                         orders[id_map[id]].price)
                 ELSE UNCHANGED pool /\ ActivePrices(levels') = ActivePrices(levels)
              /\ UNCHANGED <<call, clients>>
  BY SamePool, SamePoolPrime, SameHasEntry, SameRemove, BitsetClear, Zenon
     DEF Bitset!cancel_order, ActivePrices, Bitset!MayCancel, MayCancel

LEMMA BitsetNext ==
    (\/ Bitset!init \/ Bitset!match \/ Bitset!add_order
     \/ \E id \in SubmitIds, price \in SubmitPrices, qty \in Qtys, is_buy \in BOOLEAN :
           Bitset!Submit(id, price, qty, is_buy)
     \/ \E id \in TouchIds : Bitset!cancel_order(id))
        => Bitset!Next
  BY SameClients, Zenon DEF Bitset!Next

LEMMA ActiveAt ==
    ASSUME NEW b \in BOOLEAN
    PROVE  /\ ActivePrices(levels)[b] = {q \in Prices : levels[b][q].head # NULL_IDX}
           /\ ActivePrices(levels)[b] \in SUBSET Prices
           /\ ActivePrices(levels)[b] \subseteq Nat
           /\ ActivePrices(levels)[b] \subseteq 0..(MAX_PRICES - 1)
  BY LadderAssumption DEF ActivePrices, Prices

\* A trade of the scan is at the best price of the index.
LEMMA ScanBest ==
    ASSUME TypeOK, ScanInv, match
    PROVE  Best = p /\ Crosses
  <1>1. call \in Calls /\ call.is_buy \in BOOLEAN /\ call.price \in Int
    BY PoolTypes DEF TypeOK, Calls
  <1>2. /\ p \in Prices /\ call.qty > 0 /\ ~PastEnd
        /\ levels[~call.is_buy][p].head # NULL_IDX
        /\ \A q \in Prices : Passed(q) => levels[~call.is_buy][q].head = NULL_IDX
    BY DEF match, Scanning, ScanInv, Passed
  <1>3. CASE call.is_buy
    <2> DEFINE A == ActivePrices(levels)[FALSE]
    <2>1. A = {q \in Prices : levels[FALSE][q].head # NULL_IDX} /\ A \subseteq Nat
      BY ActiveAt
    <2>2. p \in A /\ A # {}
      BY <1>2, <1>3, <2>1
    <2>0. \A q \in Prices : q < p => levels[FALSE][q].head = NULL_IDX
      BY <1>2, <1>3 DEF Passed
    <2> HIDE DEF A
    <2>3. \A q \in A : p <= q
      <3> SUFFICES ASSUME NEW q \in A PROVE p <= q
        OBVIOUS
      <3>1. q \in Prices /\ levels[FALSE][q].head # NULL_IDX
        BY <2>1
      <3>2. q \in Int /\ p \in Int
        BY <1>2, <3>1, PriceNumbers
      <3>3. ~(q < p)
        BY <2>0, <3>1
      <3> QED
        BY <3>2, <3>3
    <2>7. A \subseteq Int
      <3>1. Nat \subseteq Int
        OBVIOUS
      <3> QED
        BY <2>1, <3>1, Zenon
    <2>4. Min(A) = p
      BY <2>2, <2>3, <2>7, MinUnique
    <2>5. Best = p
      BY <1>3, <2>4 DEF Best, A
    <2>6. p <= call.price
      BY <1>1, <1>2, <1>3, PriceNumbers DEF PastEnd
    <2> QED
      BY <1>2, <1>3, <2>2, <2>5, <2>6 DEF Crosses, A
  <1>4. CASE ~call.is_buy
    <2> DEFINE A == ActivePrices(levels)[TRUE]
    <2>1. /\ A = {q \in Prices : levels[TRUE][q].head # NULL_IDX}
          /\ A \subseteq 0..(MAX_PRICES - 1) /\ A \subseteq Nat
      BY ActiveAt
    <2>2. p \in A /\ A # {}
      BY <1>2, <1>4, <2>1
    <2>0. \A q \in Prices : q > p => levels[TRUE][q].head = NULL_IDX
      BY <1>2, <1>4 DEF Passed
    <2> HIDE DEF A
    <2>3. \A q \in A : q <= p
      <3> SUFFICES ASSUME NEW q \in A PROVE q <= p
        OBVIOUS
      <3>1. q \in Prices /\ levels[TRUE][q].head # NULL_IDX
        BY <2>1
      <3>2. q \in Int /\ p \in Int
        BY <1>2, <3>1, PriceNumbers
      <3>3. ~(q > p)
        BY <2>0, <3>1
      <3> QED
        BY <3>2, <3>3
    <2>7. A \subseteq Int
      <3>1. Nat \subseteq Int
        OBVIOUS
      <3> QED
        BY <2>1, <3>1, Zenon
    <2>4. Max(A) = p
      BY <2>2, <2>3, <2>7, MaxUnique
    <2>5. Best = p
      BY <1>4, <2>4 DEF Best, A
    <2>6. p >= call.price
      BY <1>1, <1>2, <1>4, PriceNumbers DEF PastEnd
    <2> QED
      BY <1>1, <1>2, <1>4, <2>2, <2>5, <2>6 DEF Crosses, A
  <1> QED
    BY <1>1, <1>3, <1>4

\* A scan that has passed the limit price would find no order to trade with.
LEMMA ScanEnds ==
    ASSUME TypeOK, ScanInv, add_order
    PROVE  ~Crosses
  <1>1. call \in Calls /\ call.is_buy \in BOOLEAN /\ call.price \in Int /\ call.qty \in Nat
    BY PoolTypes DEF TypeOK, Calls
  <1> SUFFICES ASSUME Crosses PROVE FALSE
    OBVIOUS
  <1>2. /\ PastEnd /\ p \in Prices /\ Scanning
        /\ ActivePrices(levels)[~call.is_buy] # {}
        /\ IF call.is_buy THEN Best <= call.price ELSE Best >= call.price
    BY <1>1 DEF add_order, Crosses, Scanning, PastEnd
  <1>3. \A q \in Prices : Passed(q) => levels[~call.is_buy][q].head = NULL_IDX
    BY <1>2 DEF ScanInv, Passed
  <1>4. CASE call.is_buy
    <2> DEFINE A == ActivePrices(levels)[FALSE]
    <2>1. A = {q \in Prices : levels[FALSE][q].head # NULL_IDX} /\ A \subseteq Nat
      BY ActiveAt
    <2>2. A # {}
      BY <1>2, <1>4
    <2>3. Min(A) \in A /\ Best = Min(A)
      BY <1>4, <2>1, <2>2, MinExists DEF Best
    <2>4. ~Passed(Best) /\ Best \in Int
      BY <1>3, <1>4, <2>1, <2>3, PriceNumbers
    <2> QED
      BY <1>1, <1>2, <1>4, <2>4, PriceNumbers DEF PastEnd, Passed
  <1>5. CASE ~call.is_buy
    <2> DEFINE A == ActivePrices(levels)[TRUE]
    <2>0. MAX_PRICES - 1 \in Nat
      BY LadderAssumption
    <2>1. /\ A = {q \in Prices : levels[TRUE][q].head # NULL_IDX}
          /\ A \subseteq 0..(MAX_PRICES - 1)
      BY ActiveAt
    <2>2. A # {}
      BY <1>1, <1>2, <1>5
    <2>3. Max(A) \in A /\ Best = Max(A)
      BY <1>5, <2>0, <2>1, <2>2, MaxExists DEF Best
    <2>4. ~Passed(Best) /\ Best \in Int
      BY <1>1, <1>3, <1>5, <2>1, <2>3, PriceNumbers
    <2> QED
      BY <1>1, <1>2, <1>5, <2>4, PriceNumbers DEF PastEnd, Passed
  <1> QED
    BY <1>1, <1>4, <1>5

LEMMA MatchImplements ==
    ASSUME TypeOK, ScanInv, match
    PROVE  Bitset!match
  <1>1. Best = p /\ Crosses /\ call # Idle /\ Trade(p) /\ p \in Prices /\ PoolTypeOK
    BY ScanBest DEF match, Scanning, TypeOK
  <1>0. PICK side \in BOOLEAN : \E i, t :
            side = ~call.is_buy /\ IsHead(levels, side, p, i) /\ TradeOf(side, p, i, t)
    BY <1>1, MatchTrade
  <1>2. PICK i, t :
            side = ~call.is_buy /\ IsHead(levels, side, p, i) /\ TradeOf(side, p, i, t)
    BY <1>0
  <1>3. PoolTypeOK' /\ Traded(side, p, i, t)
    BY <1>1, <1>2, TradeFields
  <1>4. levels \in Ladders /\ orders \in Pools
    BY <1>1, PoolTypes
  <1>5. levels[side][p].head # NULL_IDX
    BY <1>2 DEF IsHead
  <1>6. ActivePrices(levels') = Cleared(side, p)
    <2>1. CASE t = orders[i].qty
      <3>1. PICK lv : lv = PoppedLevel(orders, levels[side][p], i)
        OBVIOUS
      <3>2. levels' = Put(levels, side, p, lv)
        BY <1>3, <2>1, <3>1 DEF Traded
      <3>3. lv \in Levels
        <4>1. i \in Slots /\ levels[side][p] \in Levels
          BY <1>1, <1>3, <1>4 DEF Traded, Ladders
        <4> QED
          BY <1>4, <3>1, <4>1 DEF PoppedLevel, Pools, Nodes, Levels, Links
      <3>4. levels'[side][p] = lv
        BY <1>1, <1>4, <3>2, <3>3, PutType
      <3>5. ActivePrices(Put(levels, side, p, lv)) =
               IF lv.head = NULL_IDX THEN WithoutPrice(ActivePrices(levels), side, p)
               ELSE ActivePrices(levels)
        BY <1>1, <1>4, <1>5, <3>3, ActiveCleared
      <3> QED
        BY <3>2, <3>4, <3>5 DEF Cleared
    <2>2. CASE t # orders[i].qty
      <3>1. levels' = levels
        BY <1>3, <2>2 DEF Traded
      <3> QED
        BY <1>5, <3>1 DEF Cleared
    <2> QED
      BY <2>1, <2>2
  <1> QED
    BY <1>1, <1>2, <1>6, BitsetMatch

LEMMA RestImplements ==
    ASSUME TypeOK, ScanInv, add_order
    PROVE  Bitset!add_order
  <1>1. ~Crosses /\ call # Idle /\ Return /\ PoolTypeOK
    BY ScanEnds DEF add_order, TypeOK
  <1>2. PICK b, r, i : b = call.is_buy /\ r = call.price /\ i = next_free_order_idx
    OBVIOUS
  <1>3. ActivePrices(levels') =
           IF CanStore /\ r \in Prices /\ levels[b][r].head = NULL_IDX
           THEN WithPrice(ActivePrices(levels), b, r)
           ELSE ActivePrices(levels)
    <2>1. CASE ~(CanStore /\ r \in Prices)
      <3>1. levels' = levels
        BY <1>1, <1>2, <2>1 DEF Return, Store, pool
      <3> QED
        BY <2>1, <3>1
    <2>2. CASE CanStore /\ r \in Prices
      <3>1. PICK lv, t : lv = levels[b][r] /\ t = Link(Stored, lv, i)
        OBVIOUS
      <3>2. /\ call.id \in Slots /\ b \in BOOLEAN /\ lv \in Levels /\ Linkable(lv)
            /\ levels' = Put(levels, b, r, t.level)
        <4>1. Store
          BY <1>1, <2>2 DEF Return
        <4> QED
          BY <1>1, <1>2, <2>2, <3>1, <4>1, StoreSteps
      <3>3. i \in Slots /\ Stored \in Pools /\ levels \in Ladders
        BY <1>1, <1>2, <2>2, <3>2, StoredFields, PoolTypes
      <3>4. t.level \in Levels
        BY <3>1, <3>2, <3>3, LinkType
      <3>5. t.level.head # NULL_IDX
        BY <3>1, <3>2, <3>3, SlotsNotNull DEF Link, LinkBack, Levels
      <3>6. ActivePrices(levels') = WithPrice(ActivePrices(levels), b, r)
        BY <2>2, <3>2, <3>3, <3>4, <3>5, ActiveAdded
      <3>7. lv.head # NULL_IDX =>
               WithPrice(ActivePrices(levels), b, r) = ActivePrices(levels)
        <4>1. ActivePrices(levels) \in [BOOLEAN -> SUBSET Prices]
          BY ActiveType
        <4>2. lv.head # NULL_IDX => r \in ActivePrices(levels)[b]
          BY <2>2, <3>1, <3>2 DEF ActivePrices
        <4> QED
          BY <3>2, <4>1, <4>2 DEF WithPrice
      <3> QED
        BY <2>2, <3>1, <3>6, <3>7
    <2> QED
      BY <2>1, <2>2
  <1> QED
    BY <1>1, <1>2, <1>3, BitsetRest

LEMMA CancelImplements ==
    ASSUME TypeOK, NEW id, cancel_order(id)
    PROVE  Bitset!cancel_order(id)
  <1>1. PoolTypeOK /\ MayCancel /\ UNCHANGED <<call, clients>>
    BY DEF cancel_order, TypeOK
  <1>2. CASE ~HasEntry(id)
    <2>1. UNCHANGED pool /\ levels' = levels
      BY <1>2 DEF cancel_order, pool
    <2> QED
      BY <1>1, <1>2, <2>1, BitsetCancel
  <1>3. CASE HasEntry(id)
    <2>1. PICK i, b, r : OrderAt(id, i, b, r)
      BY DEF OrderAt
    <2>2. Remove(id)
      BY <1>3 DEF cancel_order
    <2>3. Removed(id, i, b, r)
      BY <1>1, <1>3, <2>1, <2>2, RemoveFields
    <2>4. i \in Slots /\ b \in BOOLEAN /\ r \in Prices
      BY <2>3 DEF Removed
    <2>5. PICK lv : lv = Unlink(orders, levels[b][r], i).level
      OBVIOUS
    <2>6. levels' = Put(levels, b, r, lv)
      BY <2>3, <2>5 DEF Removed
    <2>7. orders \in Pools /\ levels \in Ladders /\ levels[b][r] \in Levels
      BY <1>1, <2>4, PoolTypes DEF Ladders
    <2>8. /\ lv \in Levels
          /\ lv.head = IF levels[b][r].head = i THEN orders[i].next ELSE levels[b][r].head
      BY <2>4, <2>5, <2>7, UnlinkFields
    <2>9. lv.head # NULL_IDX => levels[b][r].head # NULL_IDX
      BY <2>4, <2>8, SlotsNotNull
    <2>10. levels'[b][r] = lv
      BY <2>4, <2>6, <2>7, <2>8, PutType
    <2>11. ActivePrices(Put(levels, b, r, lv)) =
              IF lv.head = NULL_IDX THEN WithoutPrice(ActivePrices(levels), b, r)
              ELSE ActivePrices(levels)
      BY <2>4, <2>7, <2>8, <2>9, ActiveCleared
    <2>12. ActivePrices(levels') = Cleared(b, r)
      BY <2>6, <2>10, <2>11 DEF Cleared
    <2> QED
      BY <1>1, <1>3, <2>1, <2>2, <2>12, BitsetCancel DEF OrderAt
  <1> QED
    BY <1>2, <1>3

LEMMA NoneActive == ActivePrices(EmptyLevels) = [b \in BOOLEAN |-> {}]
  BY DEF ActivePrices, EmptyLevels

LEMMA NextImplements ==
    ASSUME TypeOK, ScanInv, [Next]_vars
    PROVE  [Bitset!Next]_(Bitset!vars)
  <1>1. CASE init
    <2>1. PoolReset /\ levels' = EmptyLevels
      BY <1>1 DEF init, PoolReset
    <2> QED
      BY <2>1, NoneActive, BitsetReset, BitsetNext
  <1>2. CASE match
    BY <1>2, MatchImplements, BitsetNext
  <1>3. CASE add_order
    BY <1>3, RestImplements, BitsetNext
  <1>4. ASSUME NEW id \in SubmitIds, NEW price \in SubmitPrices, NEW qty \in Qtys,
               NEW is_buy \in BOOLEAN, Submit(id, price, qty, is_buy)
        PROVE  Bitset!Next
    <2>1. submit_order(id, price, qty, is_buy) /\ levels' = levels
      BY <1>4 DEF Submit, submit_order
    <2>2. Bitset!Submit(id, price, qty, is_buy)
      BY <2>1, BitsetSubmit
    <2> QED
      BY <2>2, BitsetNext
  <1>5. ASSUME NEW id \in TouchIds, cancel_order(id)
        PROVE  Bitset!Next
    BY <1>5, CancelImplements, BitsetNext
  <1>6. CASE Advance \/ Continue \/ UNCHANGED vars
    <2>1. UNCHANGED <<pool, call, clients>> /\ levels' = levels
      BY <1>6 DEF Advance, Continue, vars, pool
    <2> QED
      BY <2>1, BitsetVars, BitsetVarsPrime
  <1> QED
    BY <1>1, <1>2, <1>3, <1>4, <1>5, <1>6 DEF Next

LEMMA InitImplements == Init => Bitset!Init
  <1> SUFFICES ASSUME Init PROVE Bitset!Init
    OBVIOUS
  <1>1. PoolInit /\ levels = EmptyLevels
    BY DEF Init, PoolInit
  <1> QED
    BY <1>1, NoneActive, BitsetInit

\* ImplementsBitsetBook, whatever the clients do: every trade, rest and cancel of
\* the ladder book is the one the bitset book makes in the same state, and its
\* other steps move nothing but the scan.
THEOREM Implementation == Spec => ImplementsBitsetBook
  <1>1. TypeOK /\ ScanInv /\ [Next]_vars => [Bitset!Next]_(Bitset!vars)
    BY NextImplements
  <1>2. Spec => []TypeOK /\ []ScanInv
    BY TypeCorrect, ScanCorrect, PTL
  <1> QED
    BY <1>1, <1>2, InitImplements, PTL DEF Spec, ImplementsBitsetBook, Bitset!Spec

-----------------------------------------------------------------------------
(* What is proved of the bitset book holds of the ladder book *)

Proved == INSTANCE FastBitsetBookProofs WITH
    index <- [b \in BOOLEAN |-> {q \in Prices : levels[b][q].head # NULL_IDX}]

LEMMA SameVars ==
    Bitset!vars = Proved!vars /\ (UNCHANGED Bitset!vars <=> UNCHANGED Proved!vars)
  BY Zenon DEF Bitset!vars, Proved!vars, Bitset!pool, Proved!pool,
               Bitset!clients, Proved!clients

LEMMA SameBitsetInit == Bitset!Init => Proved!Init
  BY Zenon DEF Bitset!Init, Proved!Init, Bitset!PoolInit, Proved!PoolInit,
      Bitset!FreeChain, Proved!FreeChain, Bitset!EmptyLevels, Proved!EmptyLevels,
      Bitset!Idle, Proved!Idle, Bitset!Slots, Proved!Slots,
      Bitset!Prices, Proved!Prices, Bitset!NULL_IDX, Proved!NULL_IDX

\* The two instances name the same formulas: unfolding every definition of the
\* next-state relation leaves no difference.
LEMMA SameNext == Bitset!Next => Proved!Next
  BY ZenonT(60) DEF
      Bitset!Next, Proved!Next, Bitset!init, Proved!init, Bitset!PoolReset,
      Proved!PoolReset, Bitset!match, Proved!match, Bitset!add_order,
      Proved!add_order, Bitset!Submit, Proved!Submit, Bitset!submit_order,
      Proved!submit_order, Bitset!cancel_order, Proved!cancel_order,
      Bitset!replace_order, Proved!replace_order, Bitset!SubmitIds,
      Proved!SubmitIds, Bitset!SubmitPrices, Proved!SubmitPrices,
      Bitset!TouchIds, Proved!TouchIds, Bitset!Idle, Proved!Idle, Bitset!Slots,
      Proved!Slots, Bitset!Prices, Proved!Prices, Bitset!NULL_IDX,
      Proved!NULL_IDX, Bitset!Ids, Proved!Ids, Bitset!FreeChain,
      Proved!FreeChain, Bitset!EmptyLevels, Proved!EmptyLevels,
      Bitset!MaySubmit, Proved!MaySubmit, Bitset!LiveIds, Proved!LiveIds,
      Bitset!PromotedHead, Proved!PromotedHead, Bitset!HasEntry,
      Proved!HasEntry, Bitset!Crosses, Proved!Crosses, Bitset!InReach,
      Proved!InReach, Bitset!best, Proved!best, Bitset!Trade, Proved!Trade,
      Bitset!TradeQty, Proved!TradeQty, Bitset!Filled, Proved!Filled,
      Bitset!Free, Proved!Free, Bitset!Forget, Proved!Forget,
      Bitset!ClearIfEmpty, Proved!ClearIfEmpty, Bitset!Min, Proved!Min,
      Bitset!Max, Proved!Max, Bitset!Return, Proved!Return, Bitset!CanStore,
      Proved!CanStore, Bitset!Store, Proved!Store, Bitset!Link, Proved!Link,
      Bitset!LinkBack, Proved!LinkBack, Bitset!Linkable, Proved!Linkable,
      Bitset!MayCancel, Proved!MayCancel, Bitset!Remove, Proved!Remove,
      Bitset!Unlink, Proved!Unlink, Bitset!TailWithout, Proved!TailWithout,
      Bitset!ReplacePrice, Proved!ReplacePrice, Bitset!ReplaceQtyUp,
      Proved!ReplaceQtyUp, Bitset!ReplaceQtyDown, Proved!ReplaceQtyDown,
      Bitset!Alone, Proved!Alone, Bitset!pool, Proved!pool, Bitset!clients,
      Proved!clients

\* The ladder book, too, is a price-time priority book: for clients that keep
\* to SafeRules and to the prices of the ladder every trade of the scan is with
\* the oldest order at the best price, and the rest of an order and a cancel
\* change the queues as the client asked.
THEOREM LadderPriceTime ==
    ASSUME SafeRules \subseteq Rules, "price_range" \in Rules
    PROVE  Spec => Proved!PriceTime
  <1>1. Proved!SafeRules \subseteq Rules
    BY DEF SafeRules, Proved!SafeRules
  <1>2. Proved!Spec => Proved!PriceTime
    BY <1>1, Proved!Refinement, PoolAssumption, LadderAssumption,
       QtysAssumption, ClientAssumption, PTL
  <1>3. [Bitset!Next]_(Bitset!vars) => [Proved!Next]_(Proved!vars)
    BY SameNext, SameVars
  <1>4. Bitset!Spec => Proved!Spec
    BY <1>3, SameBitsetInit, PTL DEF Bitset!Spec, Proved!Spec
  <1>5. Spec => Bitset!Spec
    BY Implementation, PTL DEF ImplementsBitsetBook
  <1> QED
    BY <1>2, <1>4, <1>5, PTL
=============================================================================
