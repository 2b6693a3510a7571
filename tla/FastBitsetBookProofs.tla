------------------------ MODULE FastBitsetBookProofs ------------------------
(***************************************************************************)
(* FastBitsetBook keeps its lists, its id table and its price index intact *)
(* for every size of the pool and of the ladder, as long as the clients    *)
(* keep to SafeRules.                                                      *)
(***************************************************************************)
EXTENDS FastBitsetBook, OrderPoolProofs

-----------------------------------------------------------------------------
(* The inductive invariant *)

\* An id without an entry in the table is only being submitted while the pool
\* is used up and there is nothing to trade with.
UnknownId ==
    call # Idle /\ call.id \notin Slots =>
        /\ next_free_order_idx = NULL_IDX
        /\ \A p \in Prices : levels[~call.is_buy][p].head = NULL_IDX

Sound == TypeOK /\ IndexExact /\ Intact /\ UnknownId

\* Where clients keep to prices on the ladder no slot is lost.
OnLadder == call.price \in Prices /\ Lost = {}
InRange == "price_range" \in Rules => OnLadder

IInv == Sound /\ InRange

LEMMA IndexIs ==
    TypeOK /\ IndexExact <=> PoolTypeOK /\ index = ActivePrices(levels)
  <1>1. index = ActivePrices(levels) => index \in [BOOLEAN -> SUBSET Prices]
    BY ActiveType
  <1>2. ASSUME index \in [BOOLEAN -> SUBSET Prices]
        PROVE  IndexExact <=> index = ActivePrices(levels)
    BY <1>2 DEF IndexExact, ActivePrices
  <1> QED
    BY <1>1, <1>2 DEF TypeOK

LEMMA IndexIsPrime ==
    (TypeOK /\ IndexExact)' <=> PoolTypeOK' /\ index' = ActivePrices(levels')
  <1>1. index' = ActivePrices(levels') => index' \in [BOOLEAN -> SUBSET Prices]
    BY ActiveType
  <1>2. ASSUME index' \in [BOOLEAN -> SUBSET Prices]
        PROVE  IndexExact' <=> index' = ActivePrices(levels')
    BY <1>2 DEF IndexExact, ActivePrices
  <1> QED
    BY <1>1, <1>2 DEF TypeOK

\* What a step has to show.
LEMMA InvFrom ==
    ASSUME PoolTypeOK', index' = ActivePrices(levels'),
           NEW L, NEW F, NEW X, Shape(L, F, X)', UnknownId',
           OnLadder => call'.price \in Prices /\ X = {}
    PROVE  Sound' /\ (OnLadder => OnLadder')
  <1>1. Intact' /\ X = Lost'
    BY ShapeIntactPrime
  <1> QED
    BY <1>1, IndexIsPrime DEF Sound, OnLadder

LEMMA SoundTo ==
    ASSUME Sound
    PROVE  /\ PoolTypeOK /\ index = ActivePrices(levels) /\ UnknownId
           /\ \E L, F, X : Shape(L, F, X) /\ (OnLadder => call.price \in Prices /\ X = {})
  BY IndexIs DEF Sound, Intact, OnLadder

LEMMA InvTo ==
    ASSUME IInv
    PROVE  /\ PoolTypeOK /\ index = ActivePrices(levels) /\ UnknownId
           /\ \E L, F, X : /\ Shape(L, F, X)
                           /\ "price_range" \in Rules => call.price \in Prices /\ X = {}
  BY IndexIs DEF IInv, Sound, Intact, InRange, OnLadder

LEMMA IdleInRange == Idle.price \in Prices /\ Idle.id \notin Slots
  BY LadderAssumption DEF Idle, Prices, Slots

LEMMA ActiveNone == ActivePrices(EmptyLevels) = [b \in BOOLEAN |-> {}]
  BY DEF ActivePrices, EmptyLevels

LEMMA InitInv == Init => IInv
  <1> SUFFICES ASSUME Init PROVE IInv
    OBVIOUS
  <1>1. PoolTypeOK /\ Shape(EmptyLists, AllFree, {})
    BY InitType, InitShape DEF Init
  <1>2. call = Idle /\ levels = EmptyLevels /\ index = [b \in BOOLEAN |-> {}]
    BY DEF Init, PoolInit
  <1>3. Intact /\ Lost = {}
    BY <1>1, ShapeIntact
  <1>4. TypeOK /\ IndexExact
    BY <1>1, <1>2, IndexIs, ActiveNone
  <1> QED
    BY <1>2, <1>3, <1>4, IdleInRange DEF IInv, Sound, UnknownId, InRange, OnLadder
-----------------------------------------------------------------------------
(* Its steps *)

LEMMA ResetInv ==
    ASSUME Sound, init
    PROVE  Sound' /\ (OnLadder => OnLadder')
  <1>1. PoolTypeOK
    BY SoundTo
  <1>2. PoolTypeOK' /\ Shape(EmptyLists, AllFree, {})'
    BY <1>1, ResetType, ResetShape DEF init
  <1>3. call' = Idle /\ levels' = EmptyLevels /\ index' = [b \in BOOLEAN |-> {}]
    BY DEF init, PoolReset
  <1>4. UnknownId'
    BY <1>3 DEF UnknownId
  <1>5. index' = ActivePrices(levels')
    BY <1>3, ActiveNone
  <1> QED
    BY <1>2, <1>3, <1>4, <1>5, InvFrom, IdleInRange

LEMMA SubmitInv ==
    ASSUME Sound, NEW id \in Ids, id \notin LiveIds, NEW price \in 0..MAX_PRICES,
           NEW qty \in Nat, NEW is_buy \in BOOLEAN, Submit(id, price, qty, is_buy)
    PROVE  Sound' /\ (OnLadder /\ price \in Prices => OnLadder')
  <1>1. PoolTypeOK /\ index = ActivePrices(levels)
    BY SoundTo
  <1>2. PICK L, F, X : Shape(L, F, X) /\ (OnLadder => call.price \in Prices /\ X = {})
    BY SoundTo
  <1>3. submit_order(id, price, qty, is_buy) /\ index' = index
    BY DEF Submit
  <1>5. PoolTypeOK'
    BY <1>1, <1>3, SubmitType
  <1>6. Shape(L, F, X)'
    BY <1>1, <1>2, <1>3, SubmitShape
  <1>7. /\ levels' = levels /\ next_free_order_idx' = next_free_order_idx
        /\ call'.id = id /\ call'.price = price /\ call'.is_buy = is_buy
        /\ MaySubmit(id, is_buy)
    BY <1>3 DEF submit_order
  <1>8. UnknownId'
    <2>1. DOMAIN id_map = Slots
      BY <1>1, PoolTypes
    <2> QED
      BY <1>7, <2>1 DEF UnknownId, MaySubmit
  <1>9. Intact' /\ X = Lost'
    BY <1>6, ShapeIntactPrime
  <1> QED
    BY <1>1, <1>2, <1>3, <1>5, <1>7, <1>8, <1>9, IndexIsPrime DEF Sound, OnLadder

\* The index returns a price of the ladder, the level of which has an order.
LEMMA BestHasOrder ==
    ASSUME PoolTypeOK, index = ActivePrices(levels), Crosses
    PROVE  /\ call.is_buy \in BOOLEAN /\ (~call.is_buy) \in BOOLEAN
           /\ best \in Prices /\ best \in index[~call.is_buy]
           /\ IsHead(levels, ~call.is_buy, best, levels[~call.is_buy][best].head)
  <1>1. call.is_buy \in BOOLEAN
    BY PoolTypes DEF Calls
  <1>2. index[~call.is_buy] # {} /\ index \in [BOOLEAN -> SUBSET Prices]
    BY ActiveType DEF Crosses
  <1>3. best \in index[~call.is_buy]
    <2>1. CASE call.is_buy
      <3>0. index[FALSE] # {}
        BY <1>2, <2>1
      <3>1. index[FALSE] \subseteq Nat
        <4>1. index[FALSE] \in SUBSET Prices
          BY <1>2
        <4>2. Prices \subseteq Nat
          BY LadderAssumption DEF Prices
        <4> QED
          BY <4>1, <4>2
      <3>2. Min(index[FALSE]) \in index[FALSE]
        BY <3>0, <3>1, MinExists
      <3> QED
        BY <2>1, <3>0, <3>2 DEF best
    <2>2. CASE ~call.is_buy
      <3>0. MAX_PRICES - 1 \in Nat
        BY LadderAssumption
      <3>1. index[TRUE] # {} /\ index[TRUE] \subseteq 0..(MAX_PRICES - 1)
        BY <1>2, <2>2 DEF Prices
      <3>2. Max(index[TRUE]) \in index[TRUE]
        BY <3>0, <3>1, MaxExists
      <3> QED
        BY <2>2, <3>2 DEF best
    <2> QED
      BY <1>1, <2>1, <2>2
  <1>4. best \in Prices /\ levels[~call.is_buy][best].head # NULL_IDX
    BY <1>1, <1>3 DEF ActivePrices
  <1> QED
    BY <1>1, <1>3, <1>4 DEF IsHead

LEMMA MatchInv ==
    ASSUME Sound, match
    PROVE  Sound' /\ (OnLadder => OnLadder')
  <1>1. PoolTypeOK /\ index = ActivePrices(levels) /\ UnknownId
    BY SoundTo
  <1>2. PICK L, F, X : Shape(L, F, X) /\ (OnLadder => call.price \in Prices /\ X = {})
    BY SoundTo
  <1>0. PICK side \in BOOLEAN, p \in Prices : side = ~call.is_buy /\ p = best
    BY <1>1, BestHasOrder DEF match
  <1>3. PICK i, t : /\ side = ~call.is_buy /\ p = best
                    /\ IsHead(levels, side, p, i) /\ TradeOf(side, p, i, t)
    <2>1. IsHead(levels, side, p, levels[side][p].head)
      BY <1>0, <1>1, BestHasOrder DEF match
    <2> QED
      BY <1>0, <2>1 DEF TradeOf
  <1>4. Trade(p) /\ index' = ClearIfEmpty(side, p)
    BY <1>3 DEF match
  <1>5. PoolTypeOK' /\ Traded(side, p, i, t)
    BY <1>1, <1>3, <1>4, TradeFields
  <1>6. PICK L2, F2 : Shape(L2, F2, X)'
    BY <1>1, <1>2, <1>3, <1>4, TradeShape
  <1>7. /\ call'.id = call.id /\ call'.price = call.price /\ call'.is_buy = call.is_buy
    <2>1. call \in Calls /\ call' = [call EXCEPT !.qty = @ - t]
      BY <1>1, <1>5, PoolTypes DEF Traded
    <2> QED
      BY <2>1 DEF Calls
  <1>8. UnknownId'
    <2>1. call # Idle /\ ~ \A q \in Prices : levels[~call.is_buy][q].head = NULL_IDX
      BY <1>3 DEF match, IsHead
    <2>2. call.id \in Slots
      BY <1>1, <2>1 DEF UnknownId
    <2> QED
      BY <1>7, <2>2 DEF UnknownId
  <1>9. index' = ActivePrices(levels')
    <2>0. levels \in Ladders /\ levels' \in Ladders
      BY <1>1, <1>5, PoolTypes, PoolTypesPrime
    <2>1. CASE t = orders[i].qty
      <3> DEFINE lv == PoppedLevel(orders, levels[side][p], i)
      <3>1. levels' = Put(levels, side, p, lv)
        BY <1>5, <2>1 DEF Traded
      <3>2. lv \in Levels
        <4>1. orders \in Pools /\ i \in Slots /\ levels[side][p] \in Levels
          BY <1>1, <1>5, <2>0, PoolTypes DEF Traded, Ladders
        <4> QED
          BY <4>1 DEF PoppedLevel, Pools, Nodes, Levels, Links
      <3>3. levels[side][p].head # NULL_IDX
        BY <1>3 DEF IsHead
      <3> HIDE DEF lv
      <3>4. levels'[side][p] = lv
        BY <2>0, <3>1, <3>2, PutType
      <3>5. index' = IF lv.head = NULL_IDX THEN WithoutPrice(index, side, p)
                     ELSE index
        BY <1>4, <3>4 DEF ClearIfEmpty, WithoutPrice
      <3> QED
        BY <1>1, <2>0, <3>1, <3>2, <3>3, <3>5, ActiveCleared
    <2>2. CASE t # orders[i].qty
      <3>1. levels' = levels
        BY <1>5, <2>2 DEF Traded
      <3> QED
        BY <1>1, <1>3, <1>4, <3>1 DEF ClearIfEmpty, IsHead
    <2> QED
      BY <2>1, <2>2
  <1> QED
    BY <1>2, <1>5, <1>6, <1>7, <1>8, <1>9, InvFrom

LEMMA RestInv ==
    ASSUME Sound, add_order
    PROVE  Sound' /\ (OnLadder => OnLadder')
  <1>1. PoolTypeOK /\ index = ActivePrices(levels)
    BY SoundTo
  <1>2. PICK L, F, X : Shape(L, F, X) /\ (OnLadder => call.price \in Prices /\ X = {})
    BY SoundTo
  <1>3. PICK b, p, i : b = call.is_buy /\ p = call.price /\ i = next_free_order_idx
    OBVIOUS
  <1>4. Return /\ call' = Idle
    BY DEF add_order, Return
  <1>5. PoolTypeOK'
    BY <1>1, <1>4, ReturnType
  <1>6. \E L2, F2, X2 : Shape(L2, F2, X2)' /\ (OnLadder => X2 = {})
    <2>1. /\ ~CanStore => Shape(L, F, X)'
          /\ CanStore /\ p \in Prices =>
                Shape(Put(L, b, p, Append(L[b][p], i)), Without(F, 1), X)'
          /\ CanStore /\ p \notin Prices => Shape(L, Without(F, 1), X \cup {i})'
      BY <1>1, <1>2, <1>3, <1>4, ReturnShape
    <2> QED
      BY <1>2, <1>3, <2>1
  <1>7. UnknownId'
    BY <1>4 DEF UnknownId
  <1>8. index' = ActivePrices(levels')
    <2>1. CASE ~(CanStore /\ p \in Prices)
      <3>1. levels' = levels
        BY <1>3, <1>4, <2>1 DEF Return, Store, pool
      <3> QED
        BY <1>1, <1>3, <2>1, <3>1 DEF add_order
    <2>2. CASE CanStore /\ p \in Prices
      <3>1. PICK lv, t : /\ lv = levels[b][p] /\ t = Link(Stored, lv, i)
        OBVIOUS
      <3>2. /\ call.id \in Slots /\ b \in BOOLEAN /\ lv \in Levels /\ Linkable(lv)
            /\ levels' = Put(levels, b, p, t.level)
        <4>1. Store
          BY <1>4, <2>2 DEF Return
        <4> QED
          BY <1>1, <1>3, <2>2, <3>1, <4>1, StoreSteps
      <3>3. i \in Slots /\ Stored \in Pools /\ levels \in Ladders
        BY <1>1, <1>3, <2>2, <3>2, StoredFields, PoolTypes
      <3>4. t.level \in Levels
        BY <3>1, <3>2, <3>3, LinkType
      <3>5. t.level.head # NULL_IDX
        BY <3>1, <3>2, <3>3, SlotsNotNull DEF Link, LinkBack, Levels
      <3>6. ActivePrices(levels') = WithPrice(index, b, p)
        BY <1>1, <2>2, <3>2, <3>3, <3>4, <3>5, ActiveAdded
      <3>7. index' = IF lv.head = NULL_IDX THEN WithPrice(index, b, p)
                     ELSE index
        BY <1>3, <2>2, <3>1 DEF add_order, WithPrice
      <3>8. lv.head # NULL_IDX => WithPrice(index, b, p) = index
        <4>1. index \in [BOOLEAN -> SUBSET Prices]
          BY <1>1, ActiveType
        <4>2. lv.head # NULL_IDX => p \in index[b]
          BY <1>1, <2>2, <3>1, <3>2 DEF ActivePrices
        <4> QED
          BY <3>2, <4>1, <4>2 DEF WithPrice
      <3> QED
        BY <3>6, <3>7, <3>8
    <2> QED
      BY <2>1, <2>2
  <1> QED
    BY <1>4, <1>5, <1>6, <1>7, <1>8, InvFrom, IdleInRange

LEMMA CancelInv ==
    ASSUME Sound, NEW id, MayTouch(id), cancel_order(id)
    PROVE  Sound' /\ (OnLadder => OnLadder')
  <1>1. PoolTypeOK /\ index = ActivePrices(levels) /\ UnknownId
    BY SoundTo
  <1>2. PICK L, F, X : Shape(L, F, X) /\ (OnLadder => call.price \in Prices /\ X = {})
    BY SoundTo
  <1>3. call = Idle /\ call' = call /\ UNCHANGED <<call, clients>>
    BY DEF cancel_order, MayCancel
  <1>4. UnknownId'
    BY <1>3 DEF UnknownId
  <1>5. CASE ~HasEntry(id)
    <2>1. UNCHANGED <<orders, levels, id_map, next_free_order_idx, index, call, rested, submits>>
      BY <1>5 DEF cancel_order, pool, clients
    <2>2. PoolTypeOK'
      BY <1>1, <2>1, PoolTypes, PoolTypesPrime
    <2>3. Shape(L, F, X)'
      BY <1>2, <2>1 DEF Shape
    <2> QED
      BY <1>1, <1>2, <1>3, <1>4, <2>1, <2>2, <2>3, InvFrom
  <1>6. CASE HasEntry(id)
    <2>1. PICK i, b, p : OrderAt(id, i, b, p)
      BY DEF OrderAt
    <2>2. Remove(id) /\ index' = ClearIfEmpty(b, p) /\ p \in Prices
      BY <1>6, <2>1 DEF cancel_order, OrderAt, Remove
    <2>3. PoolTypeOK' /\ Removed(id, i, b, p)
      BY <1>1, <1>3, <1>6, <2>1, <2>2, RemoveFields
    <2>4. /\ i \in Slots /\ orders[i].id = id /\ b \in BOOLEAN
          /\ \E k : IsAt(L, b, p, k, i) /\ HeadReset(orders, k, i)
      BY <1>1, <1>2, <1>6, <2>1, <2>2, TouchedSlot DEF OrderAt
    <2>5. PICK k : IsAt(L, b, p, k, i) /\ HeadReset(orders, k, i)
      BY <2>4
    <2>6. Shape(Put(L, b, p, Without(L[b][p], k)), <<i>> \o F, X)'
      BY <1>1, <1>2, <1>3, <1>6, <2>1, <2>2, <2>4, <2>5, RemoveShape
    <2>7. index' = ActivePrices(levels')
      <3>1. PICK lv : lv = Unlink(orders, levels[b][p], i).level
        OBVIOUS
      <3>2. levels' = Put(levels, b, p, lv)
        BY <2>3, <3>1 DEF Removed
      <3>3. /\ orders \in Pools /\ levels \in Ladders /\ levels[b][p] \in Levels
        BY <1>1, <2>2, <2>4, PoolTypes DEF Ladders
      <3>4. /\ lv \in Levels
            /\ lv.head = IF levels[b][p].head = i THEN orders[i].next ELSE levels[b][p].head
        BY <2>4, <3>1, <3>3, UnlinkFields
      <3>5. lv.head # NULL_IDX => levels[b][p].head # NULL_IDX
        BY <2>4, <3>4, SlotsNotNull
      <3>6. levels'[b][p] = lv
        BY <2>2, <2>4, <3>2, <3>3, <3>4, PutType
      <3>7. index' = IF lv.head = NULL_IDX THEN WithoutPrice(index, b, p) ELSE index
        BY <2>2, <3>6 DEF ClearIfEmpty, WithoutPrice
      <3> QED
        BY <1>1, <2>2, <2>4, <3>2, <3>3, <3>4, <3>5, <3>7, ActiveCleared
    <2> QED
      BY <1>2, <1>3, <1>4, <2>3, <2>6, <2>7, InvFrom
  <1> QED
    BY <1>5, <1>6

-----------------------------------------------------------------------------
(* replace_order() *)

\* Slot i holds the k-th order of side b and price p, which may be touched.
Touched(L, b, p, k, i) ==
    /\ i \in Slots /\ b \in BOOLEAN /\ p \in Prices
    /\ b = orders[i].is_buy /\ p = orders[i].price
    /\ IsAt(L, b, p, k, i) /\ HeadReset(orders, k, i)

\* Only slot i gets another quantity, n, and no order another id.
OnlyQty(i, n) ==
    \A s \in Slots : /\ orders'[s].id = orders[s].id
                     /\ orders'[s].qty = IF s = i THEN n ELSE orders[s].qty

\* If no head has a predecessor, the step leaves it so.
HeadsKept == HeadsReset(orders, levels) => HeadsReset(orders', levels')

LEMMA QtyStep ==
    ASSUME PoolTypeOK, NEW L, NEW F, NEW X, Shape(L, F, X), NEW i \in Slots, NEW n \in Nat,
           orders' = WithQty(orders, i, n),
           UNCHANGED <<levels, id_map, next_free_order_idx, call, rested>>
    PROVE  Shape(L, F, X)' /\ OnlyQty(i, n) /\ HeadsKept /\ orders' \in Pools
  <1>0. orders \in Pools /\ id_map \in Tables /\ rested \in SUBSET Slots
    BY PoolTypes DEF Tables
  <1>1. /\ orders' \in Pools /\ SameLinks(orders', orders)
        /\ \A s \in Slots : orders'[s].qty = IF s = i THEN n ELSE orders[s].qty
    BY <1>0, SetQty
  <1>2. ASSUME NEW o2, SameLinks(o2, orders)
        PROVE  /\ Rep(o2, levels, next_free_order_idx, L, F, X)
               /\ GoodIds(o2, id_map, L, X, rested, call.id)
    <2>1. \A s \in Slots : /\ o2[s].next = orders[s].next
                           /\ o2[s].prev = orders[s].prev
                           /\ o2[s].is_buy = orders[s].is_buy
                           /\ o2[s].price = orders[s].price
                           /\ o2[s].id = orders[s].id
      BY <1>2 DEF SameLinks
    <2>2. Rep(orders, levels, next_free_order_idx, L, F, X)
      BY DEF Shape
    <2>3. Rep(o2, levels, next_free_order_idx, L, F, X)
      BY <2>1, <2>2, RepFrame
    <2>4. GoodIds(orders, id_map, L, X, rested, call.id) /\ X \in SUBSET Slots
      BY <2>2 DEF Shape, Rep
    <2>5. \A s \in X : o2[s].price = orders[s].price
      BY <2>1, <2>4
    <2>6. GoodIds(o2, id_map, L, X, rested, call.id)
      BY <1>0, <2>1, <2>4, <2>5, IdsFrame
    <2> QED
      BY <2>3, <2>6
  <1>3. Shape(L, F, X)'
    <2>1. /\ Rep(orders', levels, next_free_order_idx, L, F, X)
          /\ GoodIds(orders', id_map, L, X, rested, call.id)
      BY <1>1, <1>2
    <2> QED
      BY <2>1 DEF Shape
  <1>4. HeadsKept
    <2>1. \A b \in BOOLEAN, p \in Prices : levels[b][p].head \in Slots \cup {NULL_IDX}
      BY PoolTypes DEF Ladders, Levels, Links
    <2>2. \A s \in Slots : orders'[s].prev = orders[s].prev
      BY <1>1 DEF SameLinks
    <2> QED
      BY <2>1, <2>2 DEF HeadsKept, HeadsReset
  <1> QED
    BY <1>1, <1>3, <1>4 DEF OnlyQty, SameLinks

\* The order goes to the back of the list of price q.
LEMMA MoveStep ==
    ASSUME PoolTypeOK, NEW L, NEW F, NEW X, Shape(L, F, X),
           NEW b, NEW p, NEW k, NEW i, Touched(L, b, p, k, i), NEW q \in Prices, NEW n \in Nat,
           orders' = Renewed(OnLink(orders, levels, b, p, q, i).pool, i, n, q),
           levels' = MovedLevels(orders, levels, b, p, q, i),
           UNCHANGED <<id_map, next_free_order_idx, call, rested>>
    PROVE  /\ Shape(MovedLists(L, b, p, q, k, i), F, X)' /\ OnlyQty(i, n) /\ HeadsKept
           /\ orders' \in Pools /\ levels' \in Ladders
           /\ OffLevels(orders, levels, b, p, i) \in Ladders
           /\ OnLink(orders, levels, b, p, q, i).level \in Levels
           /\ OnLink(orders, levels, b, p, q, i).level.head # NULL_IDX
  <1> DEFINE nf == next_free_order_idx
             lev2 == MovedLevels(orders, levels, b, p, q, i)
             L2 == MovedLists(L, b, p, q, k, i)
  <1>1. BookOf(orders, levels, nf, id_map, rested, call.id, L, F, X)
    BY BookShape
  <1> HIDE DEF nf
  <1>2. Replaced(orders, levels, L, orders', b, p, q, k, i, n)
    BY DEF Touched, Replaced
  <1>3. /\ Moved(orders, levels, L, orders', b, p, q, k, i)
        /\ orders' \in Pools /\ lev2 \in Ladders
        /\ OffLevels(orders, levels, b, p, i) \in Ladders
        /\ OnLink(orders, levels, b, p, q, i).level \in Levels
        /\ OnLink(orders, levels, b, p, q, i).level.head # NULL_IDX
        /\ \A s \in Slots : orders'[s].qty = IF s = i THEN n ELSE orders[s].qty
    BY <1>1, <1>2, ReplacedMoved
  <1>4. /\ Rep(orders', lev2, nf, L2, F, X)
        /\ GoodIds(orders', id_map, L2, X, rested, call.id)
    BY <1>1, <1>3, MovedShape
  <1>5. Shape(L2, F, X)'
    BY <1>4 DEF Shape, nf
  <1>6. OnlyQty(i, n)
    BY <1>3 DEF OnlyQty, Moved
  <1>7. HeadsKept
    BY <1>1, <1>2, MovedHeads DEF HeadsKept
  <1> QED
    BY <1>3, <1>5, <1>6, <1>7

\* What a replace shows: the lists, the quantities, the heads and the index.
ReplaceResult(L, F, X, i, n) ==
    /\ Shape(L, F, X)' /\ OnlyQty(i, n) /\ HeadsKept
    /\ orders' \in Pools /\ levels' \in Ladders
    /\ index' = ActivePrices(levels')

LEMMA UnlinkedLevel ==
    ASSUME PoolTypeOK, NEW b \in BOOLEAN, NEW p \in Prices, NEW i \in Slots
    PROVE  /\ Unlink(orders, levels[b][p], i).level \in Levels
           /\ Unlink(orders, levels[b][p], i).level.head # NULL_IDX =>
                 levels[b][p].head # NULL_IDX
           /\ levels \in Ladders /\ levels[b][p] \in Levels /\ orders \in Pools
  <1>1. orders \in Pools /\ levels \in Ladders /\ levels[b][p] \in Levels
    BY PoolTypes DEF Ladders
  <1>2. /\ Unlink(orders, levels[b][p], i).level \in Levels
        /\ Unlink(orders, levels[b][p], i).level.head =
              IF levels[b][p].head = i THEN orders[i].next ELSE levels[b][p].head
    BY <1>1, UnlinkFields
  <1> QED
    BY <1>1, <1>2, SlotsNotNull

LEMMA ReplacePriceStep ==
    ASSUME PoolTypeOK, index = ActivePrices(levels),
           NEW L, NEW F, NEW X, Shape(L, F, X),
           NEW b, NEW p, NEW k, NEW i, Touched(L, b, p, k, i), NEW q \in Prices, NEW n \in Nat,
           ReplacePrice(i, q, n), UNCHANGED <<id_map, next_free_order_idx, call, rested>>
    PROVE  p # q /\ ReplaceResult(MovedLists(L, b, p, q, k, i), F, X, i, n)
  <1> DEFINE u == Unlink(orders, levels[b][p], i)
             off == OffLevels(orders, levels, b, p, i)
             t == OnLink(orders, levels, b, p, q, i)
  <1>0. i \in Slots /\ b \in BOOLEAN /\ p \in Prices
        /\ b = orders[i].is_buy /\ p = orders[i].price
    BY DEF Touched
  <1>1. /\ u.level \in Levels /\ levels \in Ladders
        /\ u.level.head # NULL_IDX => levels[b][p].head # NULL_IDX
    BY <1>0, UnlinkedLevel
  <1>2. /\ p # q
        /\ levels' = [levels EXCEPT ![b][p] = u.level,
                                    ![b][q] = Link(u.pool, levels[b][q], i).level]
        /\ orders' = [Link(u.pool, levels[b][q], i).pool EXCEPT
                          ![i].qty = n, ![i].price = q, ![i].next = NULL_IDX]
        /\ index' = [ClearIfEmpty(b, p) EXCEPT ![b] = @ \cup {q}]
    BY <1>0 DEF ReplacePrice
  <1>3. off = Put(levels, b, p, u.level) /\ off[b][p] = u.level /\ off[b][q] = levels[b][q]
        /\ off \in Ladders
    <2>1. <<b, q>> # <<b, p>>
      BY <1>2
    <2>2. off = Put(levels, b, p, u.level)
      BY DEF OffLevels
    <2> HIDE DEF off, u
    <2> QED
      BY <1>0, <1>1, <2>1, <2>2, PutType
  <1>4. t = Link(u.pool, levels[b][q], i)
    BY <1>3 DEF OnLink, OffPool
  <1>5. orders' = Renewed(t.pool, i, n, q)
    BY <1>2, <1>4 DEF Renewed
  <1>6. levels' = Put(off, b, q, t.level) /\ levels' = MovedLevels(orders, levels, b, p, q, i)
    <2>1. levels' = Put(Put(levels, b, p, u.level), b, q, t.level)
      BY <1>2, <1>4, Zenon DEF Put
    <2> QED
      BY <1>3, <2>1 DEF MovedLevels
  <1>7. /\ Shape(MovedLists(L, b, p, q, k, i), F, X)' /\ OnlyQty(i, n) /\ HeadsKept
        /\ orders' \in Pools /\ levels' \in Ladders
        /\ t.level \in Levels /\ t.level.head # NULL_IDX
    BY <1>5, <1>6, MoveStep
  <1> HIDE DEF u, off, t
  <1>8. levels'[b][p] = u.level
    <2>1. <<b, p>> # <<b, q>>
      BY <1>2
    <2>2. Put(off, b, q, t.level)[b][p] = off[b][p]
      BY <1>0, <1>3, <1>7, <2>1, PutType
    <2> QED
      BY <1>3, <1>6, <2>2
  <1>9. ClearIfEmpty(b, p) = ActivePrices(off)
    <2>1. ClearIfEmpty(b, p) = IF u.level.head = NULL_IDX THEN WithoutPrice(index, b, p)
                               ELSE index
      BY <1>8 DEF ClearIfEmpty, WithoutPrice
    <2> QED
      BY <1>0, <1>1, <1>3, <2>1, ActiveCleared
  <1>10. index' = WithPrice(ActivePrices(off), b, q)
    BY <1>2, <1>9 DEF WithPrice
  <1>11. ActivePrices(levels') = WithPrice(ActivePrices(off), b, q)
    <2>1. ActivePrices(Put(off, b, q, t.level)) = WithPrice(ActivePrices(off), b, q)
      BY <1>0, <1>3, <1>7, ActiveAdded
    <2> QED
      BY <1>6, <2>1
  <1> QED
    BY <1>2, <1>7, <1>10, <1>11 DEF ReplaceResult

LEMMA ReplaceDownStep ==
    ASSUME PoolTypeOK, index = ActivePrices(levels),
           NEW L, NEW F, NEW X, Shape(L, F, X),
           NEW i \in Slots, NEW n \in Nat, ReplaceQtyDown(i, n),
           UNCHANGED <<id_map, next_free_order_idx, call, rested>>
    PROVE  n <= orders[i].qty /\ ReplaceResult(L, F, X, i, n)
  <1>1. /\ n <= orders[i].qty /\ levels' = levels /\ index' = index
        /\ orders' = WithQty(orders, i, n)
    BY DEF ReplaceQtyDown, WithQty
  <1>2. Shape(L, F, X)' /\ OnlyQty(i, n) /\ HeadsKept /\ orders' \in Pools
    BY <1>1, QtyStep
  <1>3. levels' \in Ladders
    BY <1>1, PoolTypes
  <1> QED
    BY <1>1, <1>2, <1>3 DEF ReplaceResult

LEMMA PutPut ==
    ASSUME NEW lev \in Ladders, NEW b \in BOOLEAN, NEW p \in Prices, NEW v, NEW w
    PROVE  Put(Put(lev, b, p, v), b, p, w) = Put(lev, b, p, w)
  BY DEF Put, Ladders

\* The only order of a level that goes to the back of it stays where it is.
LEMMA MovedAlone ==
    ASSUME NEW L \in [BOOLEAN -> [Prices -> Seq(Slots)]],
           NEW b \in BOOLEAN, NEW p \in Prices, NEW i \in Slots,
           IsAt(L, b, p, 1, i), Len(L[b][p]) = 1
    PROVE  MovedLists(L, b, p, p, 1, i) = L
  <1> DEFINE l == L[b][p]
             o == OffLists(L, b, p, 1)
  <1>1. l \in Seq(Slots) /\ l[1] = i
    BY DEF IsAt
  <1>2. o[b][p] = Without(l, 1)
    BY DEF OffLists, Put
  <1>3. Append(Without(l, 1), i) = l
    <2> HIDE DEF l
    <2>0. Len(l) = 1
      BY DEF l
    <2>1. Without(l, 1) = <<>>
      BY <2>0 DEF Without
    <2>2. Append(<<>>, i) = <<i>> /\ l = <<i>>
      BY <1>1, <2>0
    <2> QED
      BY <2>1, <2>2
  <1>4. MovedLists(L, b, p, p, 1, i) = Put(Put(L, b, p, Without(l, 1)), b, p, l)
    BY <1>2, <1>3 DEF MovedLists, OffLists
  <1>5. \A v : Put(Put(L, b, p, v), b, p, l) = L
    BY DEF Put
  <1> QED
    BY <1>4, <1>5

LEMMA ReplaceUpStep ==
    ASSUME PoolTypeOK, index = ActivePrices(levels),
           NEW L, NEW F, NEW X, Shape(L, F, X),
           NEW b, NEW p, NEW k, NEW i, Touched(L, b, p, k, i), NEW n \in Nat,
           ReplaceQtyUp(i, n), UNCHANGED <<id_map, next_free_order_idx, call, rested>>
    PROVE  n > orders[i].qty /\ ReplaceResult(MovedLists(L, b, p, p, k, i), F, X, i, n)
  <1> DEFINE lv == levels[b][p]
             u == Unlink(orders, lv, i)
             off == OffLevels(orders, levels, b, p, i)
             t == OnLink(orders, levels, b, p, p, i)
             l == L[b][p]
  <1>0. i \in Slots /\ b \in BOOLEAN /\ p \in Prices
        /\ b = orders[i].is_buy /\ p = orders[i].price
        /\ IsAt(L, b, p, k, i) /\ HeadReset(orders, k, i)
    BY DEF Touched
  <1>1. /\ u.level \in Levels /\ levels \in Ladders /\ orders \in Pools
        /\ u.level.head # NULL_IDX => lv.head # NULL_IDX
    BY <1>0, UnlinkedLevel
  <1>2. Rep(orders, levels, next_free_order_idx, L, F, X)
    BY DEF Shape
  <1>3. /\ IsLevel(orders, lv, l) /\ l \in Seq(Slots)
        /\ k \in 1..Len(l) /\ l[k] = i /\ Len(l) \in Nat
        /\ L \in [BOOLEAN -> [Prices -> Seq(Slots)]]
    BY <1>0, <1>2 DEF Rep, IsAt
  <1>4. n > orders[i].qty /\ index' = index
    BY DEF ReplaceQtyUp
  <1>7. \A j, m \in 1..Len(l) : l[j] = l[m] => j = m
    BY <1>3 DEF IsLevel, IsChain
  <1>8. /\ IsLevel(u.pool, u.level, Without(l, k))
        /\ Without(l, k) \in Seq(Slots) /\ Len(Without(l, k)) = Len(l) - 1
        /\ \A s : In(Without(l, k), s) <=> In(l, s) /\ s # l[k]
    <2>1. lv \in Levels /\ (k = 1 => orders[l[k]].prev = NULL_IDX)
      BY <1>0, <1>3, UnlinkedLevel DEF HeadReset
    <2>2. IsChain(orders, lv.head, l)
      BY <1>3 DEF IsLevel
    <2>3. u = Unlink(orders, lv, l[k])
      BY <1>3
    <2> HIDE DEF lv, l, u
    <2>4. IsLevel(u.pool, u.level, Without(l, k))
      BY <1>1, <1>3, <2>1, <2>3, UnlinkLevel
    <2> QED
      BY <1>3, <2>2, <2>4, WithoutIn
  <1>5. CASE Alone(lv, i)
    <2>1. orders' = WithQty(orders, i, n) /\ levels' = levels
      BY <1>0, <1>5 DEF ReplaceQtyUp, WithQty
    <2>2. Shape(L, F, X)' /\ OnlyQty(i, n) /\ HeadsKept /\ orders' \in Pools
      BY <1>0, <2>1, QtyStep
    <2>3. Len(l) = 1 /\ k = 1
      <3>1. l[1] = i /\ l[Len(l)] = i /\ Len(l) # 0
        BY <1>3, <1>5 DEF Alone, IsLevel, IsChain
      <3>2. 1 \in 1..Len(l) /\ Len(l) \in 1..Len(l)
        BY <1>3
      <3> HIDE DEF l
      <3> QED
        BY <1>3, <1>7, <3>1, <3>2
    <2>4. MovedLists(L, b, p, p, k, i) = L
      BY <1>0, <1>3, <2>3, MovedAlone
    <2> QED
      BY <1>1, <1>4, <2>1, <2>2, <2>4 DEF ReplaceResult
  <1>6. CASE ~Alone(lv, i)
    <2>1. /\ levels' = [levels EXCEPT ![b][p] = LinkBack(u.pool, u.level, i).level]
          /\ orders' = [LinkBack(u.pool, u.level, i).pool EXCEPT
                          ![i].qty = n, ![i].next = NULL_IDX]
      BY <1>0, <1>6 DEF ReplaceQtyUp
    <2>2. u.level.head # NULL_IDX
      <3>2. Len(l) # 1
        <4>1. ASSUME Len(l) = 1
              PROVE  lv.head = i /\ lv.tail = i
          BY <1>3, <4>1 DEF IsLevel, IsChain
        <4> QED
          BY <1>6, <4>1 DEF Alone
      <3> DEFINE w == Without(l, k)
      <3>3. w \in Seq(Slots) /\ Len(w) = Len(l) - 1 /\ IsLevel(u.pool, u.level, w)
        BY <1>8
      <3> HIDE DEF w, l, u
      <3>4. Len(w) # 0 /\ w[1] \in Slots
        BY <1>3, <3>2, <3>3
      <3> QED
        BY <3>3, <3>4, SlotsNotNull DEF IsLevel, IsChain
    <2>3. off = Put(levels, b, p, u.level) /\ off[b][p] = u.level
      <3>1. off = Put(levels, b, p, u.level)
        BY DEF OffLevels
      <3> HIDE DEF off, u
      <3> QED
        BY <1>0, <1>1, <3>1, PutType
    <2>4. t = LinkBack(u.pool, u.level, i)
      BY <2>2, <2>3 DEF OnLink, OffPool, Link
    <2>5. levels' = Put(levels, b, p, t.level)
      BY <2>1, <2>4 DEF Put
    <2>6. levels' = Put(off, b, p, t.level) /\ levels' = MovedLevels(orders, levels, b, p, p, i)
      <3>1. Put(off, b, p, t.level) = Put(levels, b, p, t.level)
        BY <1>0, <1>1, <2>3, PutPut
      <3> QED
        BY <2>5, <3>1 DEF MovedLevels
    <2>7. orders' = Renewed(t.pool, i, n, p)
      <3>1. t.pool \in Pools /\ t.pool[i].price = p
        <4>1. u.pool \in Pools /\ SameData(u.pool, orders)
          BY <1>0, <1>1, UnlinkFields, UnlinkedLevel
        <4>2. u.level.tail \in Slots /\ u.level.tail # i
          <5>1. IsLevel(u.pool, u.level, Without(l, k))
            BY <1>8
          <5>2. /\ Without(l, k) \in Seq(Slots)
                /\ \A s : In(Without(l, k), s) <=> In(l, s) /\ s # l[k]
            BY <1>8
          <5>3. Len(Without(l, k)) # 0
            BY <2>2, <5>1 DEF IsLevel, IsChain
          <5>4. u.level.tail = Without(l, k)[Len(Without(l, k))]
            BY <5>1, <5>3 DEF IsLevel
          <5>5. Len(Without(l, k)) \in 1..Len(Without(l, k))
            BY <5>2, <5>3
          <5>6. In(Without(l, k), u.level.tail)
            BY <5>4, <5>5 DEF In
          <5> QED
            BY <1>3, <5>2, <5>4, <5>5, <5>6
        <4>3. Linkable(u.level)
          BY <4>2, SlotsNotNull DEF Linkable
        <4>4. t = Link(u.pool, u.level, i)
          BY <2>3 DEF OnLink, OffPool
        <4> HIDE DEF t, u
        <4>5. t.pool \in Pools /\ SameData(t.pool, u.pool)
          BY <1>0, <1>1, <4>1, <4>2, <4>3, <4>4, LinkFields
        <4> QED
          BY <1>0, <4>1, <4>5 DEF SameData
      <3>2. orders' = [t.pool EXCEPT ![i].qty = n, ![i].next = NULL_IDX]
        BY <2>1, <2>4
      <3> HIDE DEF t
      <3>3. [t.pool EXCEPT ![i].qty = n, ![i].next = NULL_IDX] =
               Renewed(t.pool, i, n, t.pool[i].price)
        BY <1>0, <3>1, RenewedSame, Zenon
      <3> QED
        BY <3>1, <3>2, <3>3, Zenon
    <2>8. /\ Shape(MovedLists(L, b, p, p, k, i), F, X)' /\ OnlyQty(i, n) /\ HeadsKept
          /\ orders' \in Pools /\ levels' \in Ladders
          /\ t.level \in Levels /\ t.level.head # NULL_IDX
      BY <1>0, <2>6, <2>7, MoveStep
    <2>9. index' = ActivePrices(levels')
      <3> HIDE DEF u, t
      <3>1. ActivePrices(Put(levels, b, p, t.level)) = WithPrice(index, b, p)
        BY <1>0, <1>1, <2>8, ActiveAdded
      <3>2. p \in index[b] /\ index \in [BOOLEAN -> SUBSET Prices]
        BY <1>0, <1>1, <2>2, ActiveType DEF ActivePrices
      <3>3. WithPrice(index, b, p) = index
        BY <1>0, <3>2 DEF WithPrice
      <3> QED
        BY <1>4, <2>5, <3>1, <3>3
    <2> QED
      BY <1>4, <2>8, <2>9 DEF ReplaceResult
  <1> QED
    BY <1>5, <1>6

\* A replace keeps the place of an order whose quantity does not grow at the
\* same price and moves the order to the back of a list otherwise.
ReplaceKeeps(q, n, L, F, X, p, i) ==
    p = q /\ n <= orders[i].qty /\ ReplaceResult(L, F, X, i, n)
ReplaceMoves(q, n, L, F, X, b, p, k, i) ==
    /\ ~(p = q /\ n <= orders[i].qty)
    /\ ReplaceResult(MovedLists(L, b, p, q, k, i), F, X, i, n)

LEMMA ReplaceStep ==
    ASSUME PoolTypeOK, index = ActivePrices(levels),
           NEW L, NEW F, NEW X, Shape(L, F, X),
           NEW id, MayTouch(id), NEW q \in Prices, NEW n \in Nat,
           replace_order(id, q, n), HasEntry(id)
    PROVE  \E b, p, k, i : /\ i = id_map[id] /\ Touched(L, b, p, k, i)
                           /\ \/ ReplaceKeeps(q, n, L, F, X, p, i)
                              \/ ReplaceMoves(q, n, L, F, X, b, p, k, i)
  <1>1. PICK i : i = id_map[id]
    OBVIOUS
  <1>2. /\ orders[i].price \in Prices
        /\ \/ ReplacePrice(i, q, n)
           \/ orders[i].price = q /\ (ReplaceQtyUp(i, n) \/ ReplaceQtyDown(i, n))
        /\ UNCHANGED <<id_map, next_free_order_idx, call, rested>>
    BY <1>1 DEF replace_order, clients
  <1>3. /\ i \in Slots /\ orders[i].is_buy \in BOOLEAN
        /\ \E k : /\ IsAt(L, orders[i].is_buy, orders[i].price, k, i)
                  /\ HeadReset(orders, k, i)
    BY <1>1, <1>2, TouchedSlot
  <1>4. PICK b, p, k : b = orders[i].is_buy /\ p = orders[i].price
                       /\ IsAt(L, b, p, k, i) /\ HeadReset(orders, k, i)
    BY <1>3
  <1>5. Touched(L, b, p, k, i)
    BY <1>2, <1>3, <1>4 DEF Touched
  <1>6. n \in Nat /\ orders[i].qty \in Nat
    BY <1>3, PoolTypes DEF Pools, Nodes
  <1>7. CASE ReplacePrice(i, q, n)
    <2>1. p # q /\ ReplaceResult(MovedLists(L, b, p, q, k, i), F, X, i, n)
      BY <1>2, <1>5, <1>6, <1>7, ReplacePriceStep
    <2> QED
      BY <1>1, <1>5, <2>1 DEF ReplaceMoves
  <1>8. CASE p = q /\ ReplaceQtyUp(i, n)
    <2>1. n > orders[i].qty /\ ReplaceResult(MovedLists(L, b, p, p, k, i), F, X, i, n)
      BY <1>2, <1>5, <1>6, <1>8, ReplaceUpStep
    <2> QED
      BY <1>1, <1>5, <1>6, <1>8, <2>1 DEF ReplaceMoves
  <1>9. CASE p = q /\ ReplaceQtyDown(i, n)
    <2>1. n <= orders[i].qty /\ ReplaceResult(L, F, X, i, n)
      BY <1>2, <1>3, <1>6, <1>9, ReplaceDownStep
    <2> QED
      BY <1>1, <1>5, <1>9, <2>1 DEF ReplaceKeeps
  <1> QED
    BY <1>1, <1>2, <1>4, <1>7, <1>8, <1>9

LEMMA ReplaceInv ==
    ASSUME Sound, NEW id, MayTouch(id), NEW q \in Prices,
           NEW n \in Nat, replace_order(id, q, n)
    PROVE  Sound' /\ (OnLadder => OnLadder')
  <1>1. PoolTypeOK /\ index = ActivePrices(levels)
    BY SoundTo
  <1>2. PICK L, F, X : Shape(L, F, X) /\ (OnLadder => call.price \in Prices /\ X = {})
    BY SoundTo
  <1>3. call = Idle /\ UNCHANGED <<id_map, next_free_order_idx, call, rested, submits>>
    BY DEF replace_order, clients
  <1>4. UnknownId'
    BY <1>3 DEF UnknownId
  <1>5. \E L2 : /\ Shape(L2, F, X)' /\ orders' \in Pools /\ levels' \in Ladders
                /\ index' = ActivePrices(levels')
    <2>1. CASE HasEntry(id)
      BY <1>1, <1>2, <2>1, ReplaceStep DEF ReplaceKeeps, ReplaceMoves, ReplaceResult
    <2>2. CASE ~HasEntry(id)
      <3>1. UNCHANGED <<orders, levels, index>>
        BY <2>2 DEF replace_order
      <3>2. Shape(L, F, X)'
        BY <1>2, <1>3, <3>1 DEF Shape
      <3> QED
        BY <1>1, <3>1, <3>2, PoolTypes
    <2> QED
      BY <2>1, <2>2
  <1>6. PoolTypeOK'
    BY <1>1, <1>3, <1>5, PoolTypes, PoolTypesPrime
  <1> QED
    BY <1>2, <1>3, <1>4, <1>5, <1>6, InvFrom

LEMMA StutterInv ==
    ASSUME Sound, UNCHANGED vars
    PROVE  Sound' /\ (OnLadder => OnLadder')
  <1>1. /\ UNCHANGED <<orders, levels, id_map, next_free_order_idx, index, call, rested>>
        /\ submits' = submits
    BY DEF vars, pool, clients
  <1>2. PoolTypeOK /\ index = ActivePrices(levels) /\ UnknownId
    BY SoundTo
  <1>3. PICK L, F, X : Shape(L, F, X) /\ (OnLadder => call.price \in Prices /\ X = {})
    BY SoundTo
  <1>4. Shape(L, F, X)'
    BY <1>1, <1>3 DEF Shape
  <1>5. PoolTypeOK' /\ UnknownId'
    BY <1>1, <1>2, PoolTypes, PoolTypesPrime DEF UnknownId
  <1> QED
    BY <1>1, <1>2, <1>3, <1>4, <1>5, InvFrom

LEMMA NextInv ==
    ASSUME SafeRules \subseteq Rules, IInv, [Next]_vars
    PROVE  IInv'
  <1>0. Sound /\ InRange /\ PoolTypeOK
    BY InvTo DEF IInv
  <1> SUFFICES Sound' /\ ("price_range" \in Rules => OnLadder')
    BY DEF IInv, InRange
  <1>1. CASE init
    BY <1>0, <1>1, ResetInv DEF InRange
  <1>2. CASE match
    BY <1>0, <1>2, MatchInv DEF InRange
  <1>3. CASE add_order
    BY <1>0, <1>3, RestInv DEF InRange
  <1>4. ASSUME NEW id \in SubmitIds, NEW price \in SubmitPrices, NEW qty \in Qtys,
               NEW is_buy \in BOOLEAN, Submit(id, price, qty, is_buy)
        PROVE  Sound' /\ ("price_range" \in Rules => OnLadder')
    <2>1. id \in Ids /\ id \notin LiveIds /\ qty \in Nat
      BY QtysAssumption DEF SubmitIds, SafeRules
    <2>2. price \in 0..MAX_PRICES /\ ("price_range" \in Rules => price \in Prices)
      BY LadderAssumption DEF SubmitPrices, Prices
    <2> QED
      BY <1>0, <1>4, <2>1, <2>2, SubmitInv DEF InRange
  <1>5. ASSUME NEW id \in TouchIds, cancel_order(id)
        PROVE  Sound' /\ (OnLadder => OnLadder')
    BY <1>0, <1>5, RulesTouch, CancelInv
  <1>6. ASSUME NEW id \in TouchIds, NEW price \in Prices, NEW qty \in Qtys,
               replace_order(id, price, qty)
        PROVE  Sound' /\ (OnLadder => OnLadder')
    <2>1. MayTouch(id) /\ qty \in Nat
      BY <1>0, RulesTouch, QtysAssumption
    <2> QED
      BY <1>0, <1>6, <2>1, ReplaceInv
  <1>7. CASE UNCHANGED vars
    BY <1>0, <1>7, StutterInv DEF InRange
  <1> QED
    BY <1>0, <1>1, <1>2, <1>3, <1>4, <1>5, <1>6, <1>7 DEF Next, InRange
-----------------------------------------------------------------------------
(* The theorems *)

\* The inductive invariant: in every reachable state the lists that walks find
\* are doubly linked, disjoint, sorted by side and price, and fit id_map and the
\* price index, if no id is submitted while it rests, no id is touched before it
\* has rested, and no order is touched that became the head of its level when
\* its predecessor was filled.
THEOREM Invariant ==
    ASSUME SafeRules \subseteq Rules
    PROVE  Spec => []IInv
  <1>1. Init => IInv
    BY InitInv
  <1>2. IInv /\ [Next]_vars => IInv'
    BY NextInv
  <1> QED
    BY <1>1, <1>2, PTL DEF Spec

\* No link, list end or table entry leaves the pool, no quantity falls below
\* zero, and the index holds prices of the ladder only.
THEOREM TypeCorrect ==
    ASSUME SafeRules \subseteq Rules
    PROVE  Spec => []TypeOK
  <1>1. IInv => TypeOK
    BY DEF IInv, Sound
  <1> QED
    BY <1>1, Invariant, PTL

\* match() finds an order at the head of the level the index returns, and misses
\* no price: bid_index and ask_index name exactly the levels that have orders.
THEOREM IndexCorrect ==
    ASSUME SafeRules \subseteq Rules
    PROVE  Spec => []IndexExact
  <1>1. IInv => IndexExact
    BY DEF IInv, Sound
  <1> QED
    BY <1>1, Invariant, PTL

\* match(), add_order(), cancel_order() and replace_order() keep every list of a
\* level doubly linked, up to its tail, and of one side and price.
THEOREM ListsCorrect ==
    ASSUME SafeRules \subseteq Rules
    PROVE  Spec => []LevelLists
  <1>1. IInv => LevelLists
    BY ShapeLevelLists DEF IInv, Sound, Intact
  <1> QED
    BY <1>1, Invariant, PTL

\* id_map leads to the slot of every resting order and to no slot of an order
\* that was filled or cancelled: a cancel never hits a reused slot.
THEOREM IdsCorrect ==
    ASSUME SafeRules \subseteq Rules
    PROVE  Spec => []IdMapExact
  <1>1. IInv => IdMapExact
    BY ShapeIdMap DEF IInv, Sound, Intact, TypeOK
  <1> QED
    BY <1>1, Invariant, PTL

\* No slot of the pool leaks and none is handed out twice, if the clients keep to
\* prices on the ladder.
THEOREM SlotsCorrect ==
    ASSUME SafeRules \subseteq Rules, "price_range" \in Rules
    PROVE  Spec => []SlotPartition
  <1>1. IInv => SlotPartition
    <2> SUFFICES ASSUME IInv PROVE SlotPartition
      OBVIOUS
    <2>1. Shape(Lists, FreeList, {})
      BY DEF IInv, Sound, Intact, InRange, OnLadder
    <2> QED
      BY <2>1, ShapePartition
  <1> QED
    BY <1>1, Invariant, PTL

LEMMA TradeLoss ==
    ASSUME Sound, match
    PROVE  LossStep
  <1>1. PoolTypeOK /\ index = ActivePrices(levels)
    BY SoundTo
  <1>2. PICK L, F, X : Shape(L, F, X)
    BY SoundTo
  <1>3. PICK side \in BOOLEAN, p \in Prices : side = ~call.is_buy /\ p = best
    BY <1>1, BestHasOrder DEF match
  <1>4. PICK i, t : IsHead(levels, side, p, i) /\ TradeOf(side, p, i, t)
    <2>1. IsHead(levels, side, p, levels[side][p].head)
      BY <1>1, <1>3, BestHasOrder DEF match
    <2> QED
      BY <1>3, <2>1 DEF TradeOf
  <1>5. Trade(p)
    BY <1>3 DEF match
  <1>6. PICK L2, F2 : Shape(L2, F2, X)'
    BY <1>1, <1>2, <1>4, <1>5, TradeShape
  <1>7. call'.price = call.price
    <2>1. call \in Calls
      BY <1>1, PoolTypes
    <2>2. \E n : call' = [call EXCEPT !.qty = n]
      BY <1>5 DEF Trade
    <2> QED
      BY <2>1, <2>2 DEF Calls
  <1> QED
    BY <1>2, <1>6, <1>7, OnlyReturnLoses, KeepsLoss

LEMMA CancelLoss ==
    ASSUME Sound, NEW id, MayTouch(id), cancel_order(id)
    PROVE  [LossStep]_<<pool, call>>
  <1>1. PoolTypeOK
    BY SoundTo
  <1>2. PICK L, F, X : Shape(L, F, X)
    BY SoundTo
  <1>3. call = Idle /\ UNCHANGED <<call, clients>>
    BY DEF cancel_order, MayCancel
  <1>4. CASE ~HasEntry(id)
    BY <1>3, <1>4 DEF cancel_order
  <1>5. CASE HasEntry(id)
    <2>1. PICK i, b, p : OrderAt(id, i, b, p)
      BY DEF OrderAt
    <2>2. Remove(id) /\ p \in Prices
      BY <1>5, <2>1 DEF cancel_order, OrderAt, Remove
    <2>3. /\ orders[i].id = id /\ b \in BOOLEAN
          /\ \E k : IsAt(L, b, p, k, i) /\ HeadReset(orders, k, i)
      BY <1>1, <1>2, <1>5, <2>1, <2>2, TouchedSlot DEF OrderAt
    <2>4. PICK k : IsAt(L, b, p, k, i) /\ HeadReset(orders, k, i)
      BY <2>3
    <2>5. Shape(Put(L, b, p, Without(L[b][p], k)), <<i>> \o F, X)'
      BY <1>1, <1>2, <1>3, <1>5, <2>1, <2>2, <2>3, <2>4, RemoveShape
    <2> QED
      BY <1>2, <1>3, <2>5, OnlyReturnLoses, KeepsLoss
  <1> QED
    BY <1>4, <1>5

LEMMA ReplaceLoss ==
    ASSUME Sound, NEW id, MayTouch(id), NEW q \in Prices, NEW n \in Nat,
           replace_order(id, q, n)
    PROVE  [LossStep]_<<pool, call>>
  <1>1. PoolTypeOK /\ index = ActivePrices(levels)
    BY SoundTo
  <1>2. PICK L, F, X : Shape(L, F, X)
    BY SoundTo
  <1>3. call = Idle /\ UNCHANGED <<id_map, next_free_order_idx, call>>
    BY DEF replace_order
  <1>4. CASE HasEntry(id)
    <2>1. \E L2 : Shape(L2, F, X)'
      BY <1>1, <1>2, <1>4, ReplaceStep DEF ReplaceKeeps, ReplaceMoves, ReplaceResult
    <2> QED
      BY <1>2, <1>3, <2>1, OnlyReturnLoses, KeepsLoss
  <1>5. CASE ~HasEntry(id)
    BY <1>3, <1>5 DEF replace_order, pool
  <1> QED
    BY <1>4, <1>5

\* LossExact of the bitset book, for clients that keep to SafeRules: an order
\* off the ladder costs one slot, which add_order() has taken and only init()
\* gives back; no trade, cancel or replace loses or regains one.
THEOREM LossCorrect ==
    ASSUME SafeRules \subseteq Rules
    PROVE  Spec => LossExact
  <1>1. ASSUME IInv, [Next]_vars
        PROVE  [LossStep]_<<pool, call>>
    <2>0. Sound /\ PoolTypeOK
      BY <1>1, InvTo DEF IInv
    <2>1. PICK L, F, X : Shape(L, F, X)
      BY <2>0, SoundTo
    <2>2. CASE init
      BY <2>0, <2>2, ResetLoss DEF init
    <2>3. CASE match
      BY <2>0, <2>3, TradeLoss
    <2>4. CASE add_order
      BY <2>0, <2>1, <2>4, ReturnLoss DEF add_order
    <2>5. ASSUME NEW id \in SubmitIds, NEW price \in SubmitPrices, NEW qty \in Qtys,
                 NEW is_buy \in BOOLEAN, Submit(id, price, qty, is_buy)
          PROVE  LossStep
      <3>1. submit_order(id, price, qty, is_buy) /\ id \notin LiveIds
        BY <2>5 DEF Submit, SubmitIds, SafeRules
      <3>2. Shape(L, F, X)' /\ call = Idle
        BY <2>0, <2>1, <3>1, SubmitShape DEF submit_order
      <3> QED
        BY <2>1, <3>2, OnlyReturnLoses, KeepsLoss
    <2>6. ASSUME NEW id \in TouchIds, cancel_order(id)
          PROVE  [LossStep]_<<pool, call>>
      BY <2>0, <2>6, RulesTouch, CancelLoss
    <2>7. ASSUME NEW id \in TouchIds, NEW price \in Prices, NEW qty \in Qtys,
                 replace_order(id, price, qty)
          PROVE  [LossStep]_<<pool, call>>
      <3>1. MayTouch(id) /\ qty \in Nat
        BY <2>0, RulesTouch, QtysAssumption
      <3> QED
        BY <2>0, <2>7, <3>1, ReplaceLoss
    <2>8. CASE UNCHANGED vars
      BY <2>8 DEF vars
    <2> QED
      BY <1>1, <2>2, <2>3, <2>4, <2>5, <2>6, <2>7, <2>8 DEF Next
  <1> QED
    BY <1>1, Invariant, PTL DEF Spec, LossExact

\* No operation leaves its arrays, if the clients keep to prices on the ladder:
\* add_order() stores no id without an entry in the table and appends to no list
\* without a tail, and cancel_order() finds the level of its order.
THEOREM InBoundsCorrect ==
    ASSUME SafeRules \subseteq Rules, "price_range" \in Rules
    PROVE  Spec => []InBounds
  <1>1. IInv => InBounds
    <2> SUFFICES ASSUME IInv PROVE InBounds
      OBVIOUS
    <2>1. PoolTypeOK /\ UnknownId
      BY InvTo
    <2>2. PICK L, F, X : Shape(L, F, X) /\ X = {}
      BY InvTo
    <2>3. DOMAIN id_map = Slots /\ id_map \in [Slots -> Links] /\ rested \subseteq Slots
      BY <2>1, PoolTypes
    <2>4. call # Idle /\ CanStore => call.id \in DOMAIN id_map
      BY <2>1, <2>3 DEF UnknownId, CanStore
    <2>5. \A b \in BOOLEAN, p \in Prices : Linkable(levels[b][p])
      BY <2>2, ShapeLinkable
    <2>6. ASSUME NEW id \in TouchIds, HasEntry(id)
          PROVE  orders[id_map[id]].price \in Prices
      <3>1. id \in Slots /\ id_map[id] # NULL_IDX /\ id_map[id] \in Slots
        BY <2>3, <2>6 DEF HasEntry, Links
      <3>2. id \in rested
        BY <2>3, <3>1 DEF TouchIds, SafeRules
      <3>3. Listed(L, id_map[id])
        BY <2>2, <3>1, <3>2 DEF Shape, GoodIds
      <3> QED
        BY <2>2, <3>1, <3>3 DEF Shape, Rep, Listed
    <2> QED
      BY <2>4, <2>5, <2>6 DEF InBounds
  <1> QED
    BY <1>1, Invariant, PTL

-----------------------------------------------------------------------------
(* Crossed books *)

\* Fewer prices do not cross.
LEMMA FewerUncrossed ==
    ASSUME Uncrossed, index'[TRUE] \subseteq index[TRUE], index'[FALSE] \subseteq index[FALSE]
    PROVE  Uncrossed'
  BY DEF Uncrossed

LEMMA ClearedFewer ==
    ASSUME index \in [BOOLEAN -> SUBSET Prices], NEW b \in BOOLEAN, NEW p,
           index' = ClearIfEmpty(b, p)
    PROVE  index'[TRUE] \subseteq index[TRUE] /\ index'[FALSE] \subseteq index[FALSE]
  <1>1. index' = index \/ index' = [index EXCEPT ![b] = @ \ {p}]
    BY DEF ClearIfEmpty
  <1>2. \A c \in BOOLEAN : index'[c] \subseteq index[c]
    BY <1>1
  <1> QED
    BY <1>2

LEMMA BelowMin ==
    ASSUME NEW S, S \subseteq Prices, NEW x \in S, NEW y \in Prices, ~(Min(S) <= y)
    PROVE  y < x
  <1>1. S \subseteq Nat /\ y \in Nat /\ S # {}
    BY LadderAssumption DEF Prices
  <1>2. PICK m : m = Min(S) /\ m \in S /\ m <= x
    BY <1>1, MinExists
  <1>3. m \in Int /\ x \in Int /\ y \in Int /\ ~(m <= y)
    BY <1>1, <1>2
  <1> QED
    BY <1>2, <1>3

LEMMA AboveMax ==
    ASSUME NEW S, S \subseteq Prices, NEW x \in S, NEW y \in Prices, ~(Max(S) >= y)
    PROVE  x < y
  <1>1. S \subseteq 0..(MAX_PRICES - 1) /\ y \in Nat /\ S # {} /\ MAX_PRICES - 1 \in Nat
    BY LadderAssumption DEF Prices
  <1>2. PICK m : m = Max(S) /\ m \in S /\ m >= x
    BY <1>1, MaxExists
  <1>3. m \in Int /\ x \in Int /\ y \in Int /\ ~(m >= y)
    BY <1>1, <1>2
  <1> QED
    BY <1>2, <1>3

LEMMA RestUncrossed ==
    ASSUME TypeOK, add_order, Uncrossed
    PROVE  Uncrossed'
  <1> DEFINE b == call.is_buy
             p == call.price
  <1>1. /\ index \in [BOOLEAN -> SUBSET Prices] /\ b \in BOOLEAN
        /\ index[TRUE] \subseteq Prices /\ index[FALSE] \subseteq Prices
    BY PoolTypes DEF TypeOK, Calls
  <1>2. CASE index' = index
    BY <1>2, FewerUncrossed
  <1>3. CASE index' # index
    <2>1. CanStore /\ p \in Prices /\ index' = [index EXCEPT ![b] = @ \cup {p}] /\ ~Crosses
      BY <1>3 DEF add_order
    <2>2. index[~b] = {} \/ ~InReach
      BY <2>1 DEF Crosses, CanStore
    <2>3. CASE b
      <3>1. index'[TRUE] = index[TRUE] \cup {p} /\ index'[FALSE] = index[FALSE]
        BY <1>1, <2>1, <2>3
      <3>2. ASSUME NEW ask \in index[FALSE] PROVE p < ask
        <4>1. ~InReach
          BY <2>2, <2>3
        <4>2. ~(Min(index[FALSE]) <= p)
          BY <2>3, <4>1 DEF InReach, best
        <4> QED
          BY <1>1, <2>1, <4>2, BelowMin
      <3> QED
        BY <3>1, <3>2 DEF Uncrossed
    <2>4. CASE ~b
      <3>1. index'[FALSE] = index[FALSE] \cup {p} /\ index'[TRUE] = index[TRUE]
        BY <1>1, <2>1, <2>4
      <3>2. ASSUME NEW bid \in index[TRUE] PROVE bid < p
        <4>1. ~InReach
          BY <2>2, <2>4
        <4>2. ~(Max(index[TRUE]) >= p)
          BY <2>4, <4>1 DEF InReach, best
        <4> QED
          BY <1>1, <2>1, <4>2, AboveMax
      <3> QED
        BY <3>1, <3>2 DEF Uncrossed
    <2> QED
      BY <1>1, <2>3, <2>4
  <1> QED
    BY <1>2, <1>3

LEMMA StepUncrossed ==
    ASSUME IInv, Uncrossed, ~Uncrossed', Next
    PROVE  \E id \in Ids, p \in Prices, q \in Qtys : replace_order(id, p, q)
  <1>0. TypeOK /\ index \in [BOOLEAN -> SUBSET Prices] /\ call.is_buy \in BOOLEAN
    BY PoolTypes DEF IInv, Sound, TypeOK, Calls
  <1>1. ~init
    <2>1. ASSUME init PROVE index'[TRUE] = {}
      BY <2>1 DEF init
    <2> QED
      BY <2>1 DEF Uncrossed
  <1>2. ~match
    <2>1. (~call.is_buy) \in BOOLEAN
      BY <1>0
    <2>2. ASSUME match
          PROVE  index'[TRUE] \subseteq index[TRUE] /\ index'[FALSE] \subseteq index[FALSE]
      BY <1>0, <2>1, <2>2, ClearedFewer DEF match
    <2> QED
      BY <2>2, FewerUncrossed
  <1>3. ~add_order
    BY <1>0, RestUncrossed
  <1>4. ASSUME NEW id, NEW price, NEW qty, NEW is_buy, Submit(id, price, qty, is_buy)
        PROVE  FALSE
    BY <1>4, FewerUncrossed DEF Submit
  <1>5. ASSUME NEW id \in TouchIds, cancel_order(id)
        PROVE  FALSE
    <2>1. index' = index \/ \E b \in BOOLEAN : \E p : index' = ClearIfEmpty(b, p)
      <3>1. CASE ~HasEntry(id)
        BY <1>5, <3>1 DEF cancel_order
      <3>2. CASE HasEntry(id)
        <4>1. orders[id_map[id]].is_buy \in BOOLEAN
          <5>1. id_map \in [Slots -> Links] /\ orders \in Pools
            BY <1>0, PoolTypes DEF TypeOK
          <5>2. id_map[id] \in Slots
            BY <3>2, <5>1 DEF HasEntry, Links
          <5> QED
            BY <5>1, <5>2 DEF Pools, Nodes
        <4>2. index' = ClearIfEmpty(orders[id_map[id]].is_buy, orders[id_map[id]].price)
          BY <1>5, <3>2 DEF cancel_order
        <4> QED
          BY <4>1, <4>2
      <3> QED
        BY <3>1, <3>2
    <2>2. index'[TRUE] \subseteq index[TRUE] /\ index'[FALSE] \subseteq index[FALSE]
      BY <1>0, <2>1, ClearedFewer
    <2> QED
      BY <2>2, FewerUncrossed
  <1>6. TouchIds \subseteq Ids
    BY DEF TouchIds
  <1> QED
    BY <1>1, <1>2, <1>3, <1>4, <1>5, <1>6 DEF Next

\* A book that is not crossed is crossed by no step of init(), submit_order() or
\* cancel_order(): only replace_order(), which does not trade, does it.
THEOREM CrossedByReplace ==
    ASSUME SafeRules \subseteq Rules
    PROVE  Spec => OnlyReplaceCrosses
  <1>1. IInv /\ [Next]_vars =>
           [Uncrossed /\ ~Uncrossed' =>
              \E id \in Ids, p \in Prices, q \in Qtys : replace_order(id, p, q)]_vars
    BY StepUncrossed
  <1> QED
    BY <1>1, Invariant, PTL DEF Spec, OnlyReplaceCrosses

-----------------------------------------------------------------------------
(* Price-time priority: the queues that the lists stand for *)

\* The orders in the slots of list l.
OrdersOf(ord, l) == [k \in DOMAIN l |-> [id |-> ord[l[k]].id, qty |-> ord[l[k]].qty]]

QueuesOf(ord, L) == [b \in BOOLEAN |-> [p \in Prices |-> OrdersOf(ord, L[b][p])]]

\* The queues of PriceTimeBook under the refinement mapping.
Queue == [b \in BOOLEAN |-> [p \in Prices |->
            LET chain == LevelChain(b, p)
            IN  [k \in DOMAIN chain |-> [id  |-> orders[chain[k]].id,
                                         qty |-> orders[chain[k]].qty]]]]

LEMMA BookVars == Book!bookVars = <<Queue, call>>
  BY Zenon DEF Book!bookVars, Queue

LEMMA BookVarsPrime == (Book!bookVars)' = <<Queue', call'>>
  BY Zenon DEF Book!bookVars, Queue

LEMMA BookActive == \A b : Book!Active(b) = {p \in Prices : Queue[b][p] # <<>>}
  BY Zenon DEF Book!Active, Queue

LEMMA BookTrade ==
    Book!Trade <=>
        /\ call # Idle /\ Book!Crossing
        /\ LET old  == Head(Queue[~call.is_buy][Book!Best])
               t    == Min({call.qty, old.qty})
               rest == Tail(Queue[~call.is_buy][Book!Best])
           IN  /\ call' = [call EXCEPT !.qty = @ - t]
               /\ Queue' = [Queue EXCEPT ![~call.is_buy][Book!Best] =
                     IF t = old.qty THEN rest
                                    ELSE <<[old EXCEPT !.qty = @ - t]>> \o rest]
  BY Zenon DEF Book!Trade, Queue, Idle, Book!Idle, Book!Min, Min

LEMMA ShapeQueue ==
    ASSUME NEW L, NEW F, NEW X, Shape(L, F, X)
    PROVE  Queue = QueuesOf(orders, L)
  <1>1. ASSUME NEW b \in BOOLEAN, NEW p \in Prices
        PROVE  LevelChain(b, p) = L[b][p]
    BY ShapeChains
  <1> QED
    BY <1>1 DEF Queue, QueuesOf, OrdersOf

LEMMA ShapeQueuePrime ==
    ASSUME NEW L, NEW F, NEW X, Shape(L, F, X)'
    PROVE  Queue' = QueuesOf(orders', L)
  <1>1. Rep(orders', levels', next_free_order_idx', L, F, X)
    BY DEF Shape
  <1>2. ASSUME NEW b \in BOOLEAN, NEW p \in Prices
        PROVE  LevelChain(b, p)' = L[b][p]
    BY <1>1, RepUnique DEF Chain, LevelChain
  <1> QED
    BY <1>2 DEF Queue, QueuesOf, OrdersOf

LEMMA BookRestingIds ==
    /\ Book!RestingIds = UNION {Book!IdsAt(bp[1], bp[2]) : bp \in BOOLEAN \X Prices}
    /\ \A b, p : Book!IdsAt(b, p) = {Queue[b][p][k].id : k \in DOMAIN Queue[b][p]}
  BY Zenon DEF Book!RestingIds, Book!IdsAt, Queue, Book!Places

LEMMA BookCardinality == \A S : Book!Cardinality(S) = Cardinality(S)
  BY Zenon DEF Book!Cardinality, Cardinality

LEMMA BookRest ==
    Book!Rest <=>
        /\ call # Idle /\ ~Book!Crossing
        /\ call' = Idle
        /\ Queue' = IF call.qty > 0 /\ Cardinality(Book!RestingIds) < MaxOrders
                    THEN [Queue EXCEPT ![call.is_buy][call.price] =
                             Append(@, [id |-> call.id, qty |-> call.qty])]
                    ELSE Queue
  BY BookCardinality, Zenon DEF Book!Rest, Queue, Idle, Book!Idle

LEMMA BookCancel ==
    ASSUME NEW b, NEW p, NEW k
    PROVE  Book!Cancel(b, p, k) <=>
              /\ call = Idle
              /\ Queue' = [Queue EXCEPT ![b][p] = Book!RemoveAt(@, k)]
              /\ call' = call
  BY Zenon DEF Book!Cancel, Queue, Idle, Book!Idle

\* The k-th entry of a queue goes to the back of the queue of price r.
QueueMoved(q, b, p, k, r, n) ==
    LET left == [q EXCEPT ![b][p] = Book!RemoveAt(@, k)]
    IN  [left EXCEPT ![b][r] = Append(@, [q[b][p][k] EXCEPT !.qty = n])]

LEMMA BookReplace ==
    ASSUME NEW b, NEW p, NEW k, NEW new_price, NEW new_qty
    PROVE  Book!Replace(b, p, k, new_price, new_qty) <=>
             /\ call = Idle
             /\ Queue' =
                  IF p = new_price /\ new_qty <= Queue[b][p][k].qty
                  THEN [Queue EXCEPT ![b][p][k].qty = new_qty]
                  ELSE QueueMoved(Queue, b, p, k, new_price, new_qty)
             /\ call' = call
  BY Zenon DEF Book!Replace, Queue, Idle, Book!Idle, QueueMoved

LEMMA BookNext ==
    Book!Next <=>
        \/ Book!Reset \/ Book!Trade \/ Book!Rest
        \/ \E i \in Ids, p \in Prices, q \in Qtys, b \in BOOLEAN : Book!Submit(i, p, q, b)
        \/ \E b \in BOOLEAN, p \in Prices : \E k \in DOMAIN Queue[b][p] :
              \/ Book!Cancel(b, p, k)
              \/ \E new_price \in Prices, new_qty \in Qtys :
                    Book!Replace(b, p, k, new_price, new_qty)
  BY Zenon DEF Book!Next, Queue

\* Queues are sequences of entries.
Entries == [id : Slots, qty : Nat]

LEMMA OrdersAt ==
    ASSUME NEW ord \in Pools, NEW l \in Seq(Slots)
    PROVE  /\ OrdersOf(ord, l) \in Seq(Entries) /\ Len(OrdersOf(ord, l)) = Len(l)
           /\ DOMAIN OrdersOf(ord, l) = 1..Len(l)
           /\ \A k \in 1..Len(l) :
                 OrdersOf(ord, l)[k] = [id |-> ord[l[k]].id, qty |-> ord[l[k]].qty]
  <1> DEFINE e(k) == [id |-> ord[l[k]].id, qty |-> ord[l[k]].qty]
  <1>1. DOMAIN l = 1..Len(l) /\ Len(l) \in Nat
    OBVIOUS
  <1>2. OrdersOf(ord, l) = [k \in 1..Len(l) |-> e(k)]
    BY <1>1 DEF OrdersOf
  <1>3. ASSUME NEW k \in 1..Len(l)
        PROVE  e(k) \in Entries
    <2>1. ord[l[k]] \in Nodes
      BY DEF Pools
    <2> QED
      BY <2>1 DEF Nodes, Entries
  <1> HIDE DEF e
  <1>4. OrdersOf(ord, l) \in Seq(Entries) /\ Len(OrdersOf(ord, l)) = Len(l)
    BY <1>1, <1>2, <1>3
  <1> QED
    BY <1>2, <1>4 DEF e

\* Orders that have not changed.
SameOrder(ord, ord2, s) == ord2[s].id = ord[s].id /\ ord2[s].qty = ord[s].qty

LEMMA OrdersSame ==
    ASSUME NEW ord \in Pools, NEW ord2 \in Pools, NEW l \in Seq(Slots),
           \A k \in 1..Len(l) : SameOrder(ord, ord2, l[k])
    PROVE  OrdersOf(ord2, l) = OrdersOf(ord, l)
  <1>1. DOMAIN l = 1..Len(l)
    OBVIOUS
  <1> QED
    BY <1>1 DEF OrdersOf, SameOrder

LEMMA OrdersAppend ==
    ASSUME NEW ord \in Pools, NEW ord2 \in Pools, NEW l \in Seq(Slots), NEW i \in Slots,
           \A k \in 1..Len(l) : SameOrder(ord, ord2, l[k])
    PROVE  OrdersOf(ord2, Append(l, i)) =
              Append(OrdersOf(ord, l), [id |-> ord2[i].id, qty |-> ord2[i].qty])
  <1> DEFINE e == [id |-> ord2[i].id, qty |-> ord2[i].qty]
             l2 == Append(l, i)
             q == OrdersOf(ord, l)
             q2 == OrdersOf(ord2, l2)
  <1>1. l2 \in Seq(Slots) /\ Len(l2) = Len(l) + 1 /\ l2[Len(l) + 1] = i
        /\ Len(l) \in Nat /\ \A k \in 1..Len(l) : l2[k] = l[k]
    OBVIOUS
  <1>2. /\ q2 \in Seq(Entries) /\ Len(q2) = Len(l) + 1
        /\ \A k \in 1..Len(l2) : q2[k] = [id |-> ord2[l2[k]].id, qty |-> ord2[l2[k]].qty]
    BY <1>1, OrdersAt
  <1>3. /\ q \in Seq(Entries) /\ Len(q) = Len(l)
        /\ \A k \in 1..Len(l) : q[k] = [id |-> ord[l[k]].id, qty |-> ord[l[k]].qty]
    BY OrdersAt
  <1>4. e \in Entries
    <2>1. ord2[i] \in Nodes
      BY DEF Pools
    <2> QED
      BY <2>1 DEF Nodes, Entries
  <1>5. q2[Len(l) + 1] = e
    BY <1>1, <1>2
  <1>6. \A k \in 1..Len(l) : q2[k] = q[k]
    BY <1>1, <1>2, <1>3 DEF SameOrder
  <1> HIDE DEF e, q, q2, l2
  <1>7. q2 = Append(q, e)
    <2>1. Append(q, e) \in Seq(Entries) /\ Len(Append(q, e)) = Len(q) + 1
          /\ Append(q, e)[Len(q) + 1] = e
          /\ \A k \in 1..Len(q) : Append(q, e)[k] = q[k]
      BY <1>3, <1>4
    <2>2. \A k \in 1..(Len(l) + 1) : k = Len(l) + 1 \/ k \in 1..Len(l)
      BY <1>1
    <2>3. \A k \in 1..Len(q2) : q2[k] = Append(q, e)[k]
      BY <1>2, <1>3, <1>5, <1>6, <2>1, <2>2
    <2> QED
      BY <1>2, <1>3, <2>1, <2>3, SeqEqual
  <1> QED
    BY <1>7 DEF e, q, q2, l2

\* An order leaves its queue.
LEMMA OrdersWithout ==
    ASSUME NEW ord \in Pools, NEW ord2 \in Pools, NEW l \in Seq(Slots), NEW k \in 1..Len(l),
           \A j \in 1..Len(l) : j # k => SameOrder(ord, ord2, l[j])
    PROVE  /\ OrdersOf(ord2, Without(l, k)) = Book!RemoveAt(OrdersOf(ord, l), k)
           /\ k = 1 => OrdersOf(ord2, Without(l, k)) = Tail(OrdersOf(ord, l))
  <1> DEFINE w == Without(l, k)
             q == OrdersOf(ord, l)
             q2 == OrdersOf(ord2, w)
             n == Len(l)
             r == Book!RemoveAt(q, k)
  <1>1. n \in Nat /\ n # 0 /\ k \in Nat /\ n - 1 \in Nat
    OBVIOUS
  <1>2. \A j \in 1..(n - 1) : w[j] = IF j < k THEN l[j] ELSE l[j + 1]
    BY DEF Without
  <1>3. w \in Seq(Slots) /\ Len(w) = n - 1
    <2>1. \A j \in 1..(n - 1) : (IF j < k THEN l[j] ELSE l[j + 1]) \in Slots
      BY <1>1
    <2> QED
      BY <1>1, <2>1 DEF Without
  <1>4. /\ q \in Seq(Entries) /\ Len(q) = n
        /\ \A j \in 1..n : q[j] = [id |-> ord[l[j]].id, qty |-> ord[l[j]].qty]
    BY OrdersAt
  <1>5. /\ q2 \in Seq(Entries) /\ Len(q2) = n - 1
        /\ \A j \in 1..(n - 1) : q2[j] = [id |-> ord2[w[j]].id, qty |-> ord2[w[j]].qty]
    BY <1>3, OrdersAt
  <1>6. ASSUME NEW j \in 1..(n - 1)
        PROVE  q2[j] = IF j < k THEN q[j] ELSE q[j + 1]
    <2>0. j \in 1..n /\ j + 1 \in 1..n /\ j \in Nat
      BY <1>1
    <2>1. q2[j] = [id |-> ord2[w[j]].id, qty |-> ord2[w[j]].qty]
      BY <1>5
    <2>2. CASE j < k
      <3>1. w[j] = l[j] /\ SameOrder(ord, ord2, l[j])
        BY <1>1, <1>2, <2>0, <2>2
      <3> QED
        BY <1>4, <2>0, <2>1, <2>2, <3>1 DEF SameOrder
    <2>3. CASE ~(j < k)
      <3>1. w[j] = l[j + 1] /\ SameOrder(ord, ord2, l[j + 1])
        BY <1>1, <1>2, <2>0, <2>3
      <3> QED
        BY <1>4, <2>0, <2>1, <2>3, <3>1 DEF SameOrder
    <2> QED
      BY <2>2, <2>3
  <1> HIDE DEF q, q2, n, w
  <1>7. r \in Seq(Entries) /\ Len(r) = n - 1
        /\ \A j \in 1..(n - 1) : r[j] = IF j < k THEN q[j] ELSE q[j + 1]
    <2> DEFINE u == SubSeq(q, 1, k - 1)
               v == SubSeq(q, k + 1, Len(q))
    <2>0. k \in 1..n
      BY DEF n
    <2>1. /\ u \in Seq(Entries) /\ Len(u) = k - 1
          /\ \A j \in 1..(k - 1) : u[j] = q[j]
      BY <1>1, <1>4, <2>0
    <2>2. /\ v \in Seq(Entries) /\ Len(v) = n - k
          /\ \A j \in 1..(n - k) : v[j] = q[k + j]
      BY <1>1, <1>4, <2>0
    <2>3. r = u \o v
      BY DEF Book!RemoveAt
    <2> HIDE DEF u, v, r
    <2>4. r \in Seq(Entries) /\ Len(r) = n - 1
      <3>1. r \in Seq(Entries) /\ Len(r) = Len(u) + Len(v)
        BY <2>1, <2>2, <2>3, ConcatProperties
      <3> QED
        BY <1>1, <2>0, <2>1, <2>2, <3>1
    <2>5. ASSUME NEW j \in 1..(n - 1)
          PROVE  r[j] = IF j < k THEN q[j] ELSE q[j + 1]
      <3>1. CASE j < k
        BY <1>1, <2>0, <2>1, <2>2, <2>3, <3>1
      <3>2. CASE ~(j < k)
        <4>1. j - (k - 1) \in 1..(n - k) /\ k + (j - (k - 1)) = j + 1
          BY <1>1, <2>0, <3>2
        <4>2. r[j] = v[j - (k - 1)]
          BY <1>1, <2>0, <2>1, <2>2, <2>3, <3>2
        <4> QED
          BY <2>2, <3>2, <4>1, <4>2
      <3> QED
        BY <3>1, <3>2
    <2> QED
      BY <2>4, <2>5
  <1>8. q2 = r
    BY <1>5, <1>6, <1>7, SeqEqual
  <1>9. ASSUME k = 1 PROVE q2 = Tail(q)
    <2>1. /\ Tail(q) \in Seq(Entries) /\ Len(Tail(q)) = n - 1
          /\ \A j \in 1..(n - 1) : Tail(q)[j] = q[j + 1]
      BY <1>1, <1>4
    <2>2. \A j \in 1..(n - 1) : q2[j] = q[j + 1]
      BY <1>1, <1>6, <1>9
    <2> QED
      BY <1>5, <2>1, <2>2, SeqEqual
  <1> QED
    BY <1>8, <1>9 DEF q, q2, w

\* An order gets another quantity.
LEMMA OrdersQty ==
    ASSUME NEW ord \in Pools, NEW ord2 \in Pools, NEW l \in Seq(Slots), NEW k \in 1..Len(l),
           NEW n \in Nat, ord2[l[k]].id = ord[l[k]].id, ord2[l[k]].qty = n,
           \A j \in 1..Len(l) : j # k => SameOrder(ord, ord2, l[j])
    PROVE  OrdersOf(ord2, l) = [OrdersOf(ord, l) EXCEPT ![k].qty = n]
  <1> DEFINE q == OrdersOf(ord, l)
             q2 == OrdersOf(ord2, l)
             e == [q[k] EXCEPT !.qty = n]
  <1>1. /\ q \in Seq(Entries) /\ Len(q) = Len(l) /\ DOMAIN q = 1..Len(l)
        /\ \A j \in 1..Len(l) : q[j] = [id |-> ord[l[j]].id, qty |-> ord[l[j]].qty]
    BY OrdersAt
  <1>2. /\ q2 \in Seq(Entries) /\ Len(q2) = Len(l) /\ DOMAIN q2 = 1..Len(l)
        /\ \A j \in 1..Len(l) : q2[j] = [id |-> ord2[l[j]].id, qty |-> ord2[l[j]].qty]
    BY OrdersAt
  <1>3. q2[k] = e
    BY <1>1, <1>2
  <1>4. \A j \in 1..Len(l) : j # k => q2[j] = q[j]
    BY <1>1, <1>2 DEF SameOrder
  <1> HIDE DEF q, q2
  <1>5. q2 = [q EXCEPT ![k] = e]
    <2> HIDE DEF e
    <2>1. q2 = [j \in 1..Len(l) |-> q2[j]] /\ q = [j \in 1..Len(l) |-> q[j]]
      BY <1>1, <1>2
    <2> QED
      BY <1>1, <1>2, <1>3, <1>4, <2>1
  <1> QED
    BY <1>5 DEF q, q2

ListTables == [BOOLEAN -> [Prices -> Seq(Slots)]]

\* Slot i is on no list, or on that of side b and price p.
OnlyAt(L, b, p, i) ==
    \A c \in BOOLEAN, q \in Prices : <<c, q>> # <<b, p>> => ~In(L[c][q], i)

\* All orders but that of slot i have kept ids and quantities.
SameOrders(ord, ord2, i) == \A s \in Slots : s # i => SameOrder(ord, ord2, s)

\* A change of one list and one slot changes one queue.
LEMMA QueuesPut ==
    ASSUME NEW ord \in Pools, NEW ord2 \in Pools, NEW L \in ListTables,
           NEW b \in BOOLEAN, NEW p \in Prices, NEW i, NEW l2 \in Seq(Slots),
           OnlyAt(L, b, p, i), SameOrders(ord, ord2, i)
    PROVE  QueuesOf(ord2, Put(L, b, p, l2)) = Put(QueuesOf(ord, L), b, p, OrdersOf(ord2, l2))
  <1> DEFINE L2 == Put(L, b, p, l2)
             q == QueuesOf(ord, L)
             q2 == QueuesOf(ord2, L2)
             v == OrdersOf(ord2, l2)
  <1>1. /\ L2[b][p] = l2
        /\ \A c \in BOOLEAN, r \in Prices : <<c, r>> # <<b, p>> => L2[c][r] = L[c][r]
    BY DEF Put, ListTables
  <1>2. ASSUME NEW c \in BOOLEAN, NEW r \in Prices, <<c, r>> # <<b, p>>
        PROVE  OrdersOf(ord2, L2[c][r]) = OrdersOf(ord, L[c][r])
    <2>1. L[c][r] \in Seq(Slots) /\ L2[c][r] = L[c][r]
      BY <1>1, <1>2 DEF ListTables
    <2>2. \A k \in 1..Len(L[c][r]) : L[c][r][k] \in Slots /\ L[c][r][k] # i
      BY <1>2, <2>1 DEF OnlyAt, In
    <2>3. \A k \in 1..Len(L[c][r]) : SameOrder(ord, ord2, L[c][r][k])
      BY <2>2 DEF SameOrders
    <2> QED
      BY <2>1, <2>3, OrdersSame
  <1>3. \A c \in BOOLEAN, r \in Prices :
           q[c][r] = OrdersOf(ord, L[c][r]) /\ q2[c][r] = OrdersOf(ord2, L2[c][r])
    BY DEF QueuesOf
  <1>4. /\ q = [c \in BOOLEAN |-> [r \in Prices |-> q[c][r]]]
        /\ q2 = [c \in BOOLEAN |-> [r \in Prices |-> q2[c][r]]]
    BY DEF QueuesOf
  <1>5. /\ q2[b][p] = v
        /\ \A c \in BOOLEAN, r \in Prices : <<c, r>> # <<b, p>> => q2[c][r] = q[c][r]
    BY <1>1, <1>2, <1>3
  <1> HIDE DEF q, q2, v
  <1>6. /\ Put(q, b, p, v)[b][p] = v
        /\ \A c \in BOOLEAN, r \in Prices : <<c, r>> # <<b, p>> =>
              Put(q, b, p, v)[c][r] = q[c][r]
        /\ Put(q, b, p, v) = [c \in BOOLEAN |-> [r \in Prices |-> Put(q, b, p, v)[c][r]]]
    BY <1>4 DEF Put
  <1>7. \A c \in BOOLEAN, r \in Prices : q2[c][r] = Put(q, b, p, v)[c][r]
    BY <1>5, <1>6
  <1>8. q2 = Put(q, b, p, v)
    BY <1>4, <1>6, <1>7
  <1> QED
    BY <1>8 DEF q, q2, v

\* A list that is put where it is.
LEMMA PutSame ==
    ASSUME NEW L \in ListTables, NEW b \in BOOLEAN, NEW p \in Prices
    PROVE  Put(L, b, p, L[b][p]) = L
  BY DEF Put, ListTables

\* A listed slot is on one list.
LEMMA ListedOnlyAt ==
    ASSUME NEW ord, NEW lev, NEW nf, NEW L, NEW F, NEW X, Rep(ord, lev, nf, L, F, X),
           NEW b \in BOOLEAN, NEW p \in Prices, NEW i \in Slots,
           Listed(L, i) => In(L[b][p], i)
    PROVE  OnlyAt(L, b, p, i) /\ L \in ListTables
  <1>0. L \in ListTables
    BY DEF Rep, ListTables
  <1> SUFFICES ASSUME NEW c \in BOOLEAN, NEW q \in Prices, <<c, q>> # <<b, p>>, In(L[c][q], i)
               PROVE  FALSE
    BY <1>0 DEF OnlyAt
  <1>1. Listed(L, i) /\ In(L[b][p], i)
    BY DEF Listed
  <1>2. ord[i].is_buy = b /\ ord[i].price = p
    BY <1>1 DEF Rep
  <1>3. ord[i].is_buy = c /\ ord[i].price = q
    BY DEF Rep
  <1> QED
    BY <1>2, <1>3, Zenon

-----------------------------------------------------------------------------
(* The state of the abstract book *)

LEMMA QueueAt ==
    ASSUME PoolTypeOK, NEW L, NEW F, NEW X, Shape(L, F, X),
           NEW b \in BOOLEAN, NEW p \in Prices
    PROVE  /\ Queue[b][p] = OrdersOf(orders, L[b][p]) /\ L[b][p] \in Seq(Slots)
           /\ Queue[b][p] \in Seq(Entries) /\ Len(Queue[b][p]) = Len(L[b][p])
           /\ DOMAIN Queue[b][p] = 1..Len(L[b][p])
           /\ \A k \in 1..Len(L[b][p]) :
                 Queue[b][p][k] = [id  |-> orders[L[b][p][k]].id,
                                   qty |-> orders[L[b][p][k]].qty]
  <1>1. Queue = QueuesOf(orders, L) /\ L[b][p] \in Seq(Slots)
    BY ShapeQueue, ShapeChains
  <1>2. Queue[b][p] = OrdersOf(orders, L[b][p])
    BY <1>1 DEF QueuesOf
  <1>3. orders \in Pools
    BY PoolTypes
  <1> QED
    BY <1>1, <1>2, <1>3, OrdersAt

LEMMA QueueEntry ==
    ASSUME PoolTypeOK, NEW L, NEW F, NEW X, Shape(L, F, X),
           NEW b \in BOOLEAN, NEW p \in Prices, NEW k \in 1..Len(L[b][p])
    PROVE  /\ Queue[b][p][k].id = orders[L[b][p][k]].id
           /\ Queue[b][p][k].qty = orders[L[b][p][k]].qty
  <1>1. Queue[b][p][k] = [id  |-> orders[L[b][p][k]].id, qty |-> orders[L[b][p][k]].qty]
    BY QueueAt
  <1> QED
    BY <1>1

\* The abstract book sees the prices in the index.
LEMMA ActiveIs ==
    ASSUME PoolTypeOK, index = ActivePrices(levels), NEW L, NEW F, NEW X, Shape(L, F, X),
           NEW b \in BOOLEAN
    PROVE  Book!Active(b) = index[b]
  <1>1. ASSUME NEW p \in Prices
        PROVE  Queue[b][p] # <<>> <=> levels[b][p].head # NULL_IDX
    <2>1. L[b][p] \in Seq(Slots) /\ Queue[b][p] \in Seq(Entries)
          /\ Len(Queue[b][p]) = Len(L[b][p])
      BY QueueAt
    <2>2. IsChain(orders, levels[b][p].head, L[b][p])
      BY DEF Shape, Rep, IsLevel
    <2>3. levels[b][p].head # NULL_IDX <=> Len(L[b][p]) # 0
      BY <2>1, <2>2, SlotsNotNull DEF IsChain
    <2> QED
      BY <2>1, <2>3, EmptySeq
  <1> QED
    BY <1>1, BookActive DEF ActivePrices

LEMMA BookMinMax == \A S : Book!Min(S) = Min(S) /\ Book!Max(S) = Max(S)
  BY Zenon DEF Book!Min, Min, Book!Max, Max

LEMMA BestIs ==
    ASSUME PoolTypeOK, index = ActivePrices(levels), NEW L, NEW F, NEW X, Shape(L, F, X)
    PROVE  Book!Best = best /\ (Book!Crossing <=> Crosses)
  <1>1. Book!Active(TRUE) = index[TRUE] /\ Book!Active(FALSE) = index[FALSE]
    BY ActiveIs
  <1>2. call.is_buy \in BOOLEAN
    BY PoolTypes DEF Calls
  <1>3. Book!Active(~call.is_buy) = index[~call.is_buy]
    BY <1>1, <1>2
  <1>4. Book!Best = best
    <2>1. Book!Best = IF call.is_buy THEN Book!Min(Book!Active(FALSE))
                                     ELSE Book!Max(Book!Active(TRUE))
      BY DEF Book!Best
    <2> QED
      BY <1>1, <2>1, BookMinMax DEF best
  <1> QED
    BY <1>3, <1>4 DEF Book!Crossing, Crosses, InReach

\* The ids of the abstract book are those of the listed slots.
LEMMA RestingAre ==
    ASSUME PoolTypeOK, NEW L, NEW F, NEW X, Shape(L, F, X)
    PROVE  \A id : id \in Book!RestingIds <=>
              \E s \in Slots : Listed(L, s) /\ orders[s].id = id
  <1>1. ASSUME NEW b \in BOOLEAN, NEW p \in Prices, NEW id
        PROVE  id \in Book!IdsAt(b, p) <=> \E s \in Slots : In(L[b][p], s) /\ orders[s].id = id
    <2>1. /\ L[b][p] \in Seq(Slots) /\ DOMAIN Queue[b][p] = 1..Len(L[b][p])
          /\ \A k \in 1..Len(L[b][p]) : Queue[b][p][k].id = orders[L[b][p][k]].id
      <3>1. L[b][p] \in Seq(Slots) /\ DOMAIN Queue[b][p] = 1..Len(L[b][p])
        BY QueueAt
      <3>2. ASSUME NEW k \in 1..Len(L[b][p])
            PROVE  Queue[b][p][k].id = orders[L[b][p][k]].id
        BY QueueEntry
      <3> QED
        BY <3>1, <3>2
    <2>2. id \in Book!IdsAt(b, p) <=>
             \E k \in 1..Len(L[b][p]) : orders[L[b][p][k]].id = id
      BY <2>1, BookRestingIds
    <2>3. \A k \in 1..Len(L[b][p]) : L[b][p][k] \in Slots
      BY <2>1
    <2> QED
      BY <2>2, <2>3 DEF In
  <1> SUFFICES ASSUME NEW id
               PROVE  id \in Book!RestingIds <=>
                        \E s \in Slots : Listed(L, s) /\ orders[s].id = id
    OBVIOUS
  <1>2. id \in Book!RestingIds <=>
           \E b \in BOOLEAN, p \in Prices : id \in Book!IdsAt(b, p)
    <2>1. Book!RestingIds = UNION {Book!IdsAt(bp[1], bp[2]) : bp \in BOOLEAN \X Prices}
      BY BookRestingIds, Zenon
    <2>2. ASSUME NEW bp \in BOOLEAN \X Prices, id \in Book!IdsAt(bp[1], bp[2])
          PROVE  \E b \in BOOLEAN, p \in Prices : id \in Book!IdsAt(b, p)
      <3>1. bp[1] \in BOOLEAN /\ bp[2] \in Prices
        OBVIOUS
      <3> QED
        BY <2>2, <3>1, Zenon
    <2>3. ASSUME NEW b \in BOOLEAN, NEW p \in Prices, id \in Book!IdsAt(b, p)
          PROVE  \E bp \in BOOLEAN \X Prices : id \in Book!IdsAt(bp[1], bp[2])
      <3>1. <<b, p>> \in BOOLEAN \X Prices /\ <<b, p>>[1] = b /\ <<b, p>>[2] = p
        OBVIOUS
      <3> QED
        BY <2>3, <3>1, Zenon
    <2>4. id \in UNION {Book!IdsAt(bp[1], bp[2]) : bp \in BOOLEAN \X Prices} <=>
             \E bp \in BOOLEAN \X Prices : id \in Book!IdsAt(bp[1], bp[2])
      BY Zenon
    <2> QED
      BY <2>1, <2>2, <2>3, <2>4, Zenon
  <1> QED
    BY <1>1, <1>2 DEF Listed

\* There is room in the abstract book when there is a free slot.
LEMMA RoomIs ==
    ASSUME PoolTypeOK, NEW L, NEW F, Shape(L, F, {})
    PROVE  Cardinality(Book!RestingIds) < MaxOrders <=> next_free_order_idx # NULL_IDX
  <1> DEFINE D == {s \in Slots : Listed(L, s)}
             R == Book!RestingIds
             f == [s \in D |-> orders[s].id]
  <1>1. IsFiniteSet(Slots) /\ Cardinality(Slots) = MaxOrders
    <2>1. 0 \in Int /\ MaxOrders - 1 \in Int
      BY PoolAssumption
    <2>2. /\ IsFiniteSet(0..(MaxOrders - 1))
          /\ Cardinality(0..(MaxOrders - 1)) =
                IF 0 > MaxOrders - 1 THEN 0 ELSE (MaxOrders - 1) - 0 + 1
      BY <2>1, FS_Interval
    <2> QED
      BY <2>2, PoolAssumption DEF Slots
  <1>2. /\ IsFiniteSet(D) /\ Cardinality(D) <= MaxOrders
        /\ Cardinality(D) = MaxOrders <=> D = Slots
    BY <1>1, FS_Subset
  <1>3. \A s \in D : id_map[orders[s].id] = s
    BY DEF Shape, GoodIds
  <1>4. \A id : id \in R <=> \E s \in D : orders[s].id = id
    BY RestingAre
  <1> HIDE DEF D, R
  <1>5. f \in Bijection(D, R)
    <2>1. f \in [D -> R]
      BY <1>4
    <2>2. \A s, t \in D : f[s] = f[t] => s = t
      BY <1>3
    <2>3. \A id \in R : \E s \in D : f[s] = id
      BY <1>4
    <2>4. DOMAIN f = D
      OBVIOUS
    <2> HIDE DEF f
    <2> QED
      BY <2>1, <2>2, <2>3, <2>4 DEF Bijection, Injection, Surjection, IsInjective
  <1>6. Cardinality(R) = Cardinality(D)
    BY <1>2, <1>5, FS_Bijection DEF ExistsBijection
  <1>7. D = Slots <=> next_free_order_idx = NULL_IDX
    <2>1. Rep(orders, levels, next_free_order_idx, L, F, {})
      BY DEF Shape
    <2>2. \A s \in Slots : s \in D <=> ~In(F, s)
      BY <2>1 DEF D, Rep, Listed
    <2>3. IsChain(orders, next_free_order_idx, F)
      BY <2>1 DEF Rep
    <2>4. next_free_order_idx = NULL_IDX <=> Len(F) = 0
      BY <2>3, SlotsNotNull DEF IsChain
    <2>5. Len(F) = 0 <=> \A s \in Slots : ~In(F, s)
      <3>1. F \in Seq(Slots) /\ Len(F) \in Nat
        BY <2>3 DEF IsChain
      <3>2. ASSUME Len(F) # 0 PROVE F[1] \in Slots /\ In(F, F[1])
        BY <3>1, <3>2 DEF In
      <3> QED
        BY <3>1, <3>2 DEF In
    <2>6. D \subseteq Slots
      BY DEF D
    <2> QED
      BY <2>2, <2>4, <2>5, <2>6
  <1>8. Cardinality(D) \in Nat
    BY <1>2, FS_CardinalityType
  <1> QED
    BY <1>2, <1>6, <1>7, <1>8, PoolAssumption DEF R

-----------------------------------------------------------------------------
(* Every step of the book is a step of the abstract book *)

LEMMA BookInit == Book!Init <=> Queue = EmptyLists /\ call = Idle
  BY Zenon DEF Book!Init, Book!Empty, Book!Idle, Idle, Queue, EmptyLists

LEMMA BookReset ==
    Book!Reset <=> call = Idle /\ Queue' = EmptyLists /\ call' = call
  BY Zenon DEF Book!Reset, Book!Empty, Book!Idle, Idle, Queue, EmptyLists

LEMMA BookSubmit ==
    ASSUME NEW i, NEW p, NEW q, NEW b
    PROVE  Book!Submit(i, p, q, b) <=>
              /\ call = Idle
              /\ call' = [id |-> i, price |-> p, qty |-> q, is_buy |-> b]
              /\ i \notin Book!RestingIds
              /\ Queue' = Queue
  BY Zenon DEF Book!Submit, Book!Idle, Idle, Queue

LEMMA EmptyQueues ==
    ASSUME NEW ord
    PROVE  QueuesOf(ord, EmptyLists) = EmptyLists
  <1>1. OrdersOf(ord, <<>>) = <<>>
    BY DEF OrdersOf
  <1> QED
    BY <1>1 DEF QueuesOf, EmptyLists

LEMMA RefineInit == Init => Book!Init
  <1> SUFFICES ASSUME Init PROVE Book!Init
    OBVIOUS
  <1>1. Shape(EmptyLists, AllFree, {}) /\ call = Idle
    BY InitShape DEF Init, PoolInit
  <1>2. Queue = QueuesOf(orders, EmptyLists)
    BY <1>1, ShapeQueue
  <1> QED
    BY <1>1, <1>2, EmptyQueues, BookInit

LEMMA RefineReset ==
    ASSUME IInv, init
    PROVE  Book!Reset
  <1>1. PoolTypeOK /\ PoolReset
    BY InvTo DEF init
  <1>2. Shape(EmptyLists, AllFree, {})' /\ call = Idle /\ call' = call
    BY <1>1, ResetShape DEF PoolReset
  <1>3. Queue' = QueuesOf(orders', EmptyLists)
    BY <1>2, ShapeQueuePrime
  <1> QED
    BY <1>2, <1>3, EmptyQueues, BookReset

LEMMA RefineSubmit ==
    ASSUME SafeRules \subseteq Rules, IInv,
           NEW id \in SubmitIds, NEW price, NEW qty, NEW is_buy,
           Submit(id, price, qty, is_buy)
    PROVE  Book!Submit(id, price, qty, is_buy)
  <1>1. PoolTypeOK
    BY InvTo
  <1>2. PICK L, F, X : Shape(L, F, X)
    BY InvTo
  <1>3. /\ call = Idle /\ UNCHANGED <<orders, levels, id_map, next_free_order_idx>>
        /\ call' = [id |-> id, price |-> price, qty |-> qty, is_buy |-> is_buy]
    BY DEF Submit, submit_order
  <1>4. id \notin Book!RestingIds
    <2>1. id \notin LiveIds
      BY DEF SubmitIds, SafeRules
    <2> QED
      BY <1>1, <1>2, <2>1, RestingAre, LiveListed
  <1>5. Queue' = Queue
    BY <1>3 DEF Queue, LevelChain, Chain
  <1> QED
    BY <1>3, <1>4, <1>5, BookSubmit

\* A changed head of a queue.
LEMMA HeadChanged ==
    ASSUME NEW q \in Seq(Entries), Len(q) # 0, NEW n \in Nat
    PROVE  [q EXCEPT ![1].qty = n] = <<[Head(q) EXCEPT !.qty = n]>> \o Tail(q)
  <1> DEFINE e == [q[1] EXCEPT !.qty = n]
             a == [q EXCEPT ![1].qty = n]
             c == <<e>> \o Tail(q)
  <1>1. Head(q) = q[1] /\ q[1] \in Entries /\ Len(q) \in Nat /\ 1 \in 1..Len(q)
    OBVIOUS
  <1>2. e \in Entries
    BY <1>1 DEF Entries
  <1>3. a = [q EXCEPT ![1] = e]
    OBVIOUS
  <1> HIDE DEF e, a
  <1>4. a \in Seq(Entries) /\ Len(a) = Len(q) /\ a[1] = e
        /\ \A j \in 2..Len(q) : a[j] = q[j]
    BY <1>1, <1>2, <1>3
  <1>5. /\ Tail(q) \in Seq(Entries) /\ Len(Tail(q)) = Len(q) - 1
        /\ \A j \in 1..(Len(q) - 1) : Tail(q)[j] = q[j + 1]
    BY <1>1
  <1>6. <<e>> \in Seq(Entries) /\ Len(<<e>>) = 1 /\ <<e>>[1] = e
    BY <1>2
  <1>7. c \in Seq(Entries) /\ Len(c) = Len(q)
        /\ \A j \in 1..Len(q) : c[j] = IF j <= 1 THEN <<e>>[j] ELSE Tail(q)[j - 1]
    BY <1>1, <1>5, <1>6, ConcatProperties
  <1>8. \A j \in 1..Len(q) : a[j] = c[j]
    <2> SUFFICES ASSUME NEW j \in 1..Len(q) PROVE a[j] = c[j]
      OBVIOUS
    <2>1. CASE j = 1
      BY <1>4, <1>6, <1>7, <2>1
    <2>2. CASE j # 1
      <3>1. j \in 2..Len(q) /\ j - 1 \in 1..(Len(q) - 1) /\ (j - 1) + 1 = j
        BY <1>1, <2>2
      <3>2. a[j] = q[j]
        BY <1>4, <3>1
      <3>3. c[j] = Tail(q)[j - 1]
        BY <1>1, <1>7, <3>1
      <3>4. Tail(q)[j - 1] = q[j]
        BY <1>5, <3>1
      <3> QED
        BY <3>2, <3>3, <3>4
    <2> QED
      BY <2>1, <2>2
  <1> HIDE DEF c
  <1>9. a = c
    BY <1>4, <1>7, <1>8, SeqEqual
  <1> QED
    BY <1>1, <1>9 DEF a, c, e

\* What a trade with slot i, the head of its level, does to the queues.
QueueTraded(side, p, i, t, q) ==
    /\ t = Min({call.qty, Head(q).qty}) /\ Head(q).qty = orders[i].qty
    /\ call' = [call EXCEPT !.qty = @ - t]
    /\ Queue' = Put(Queue, side, p,
          IF t = Head(q).qty THEN Tail(q)
          ELSE <<[Head(q) EXCEPT !.qty = @ - t]>> \o Tail(q))

LEMMA TradeQueue ==
    ASSUME PoolTypeOK, NEW L, NEW F, NEW X, Shape(L, F, X), NEW p \in Prices, Trade(p),
           NEW side \in BOOLEAN, NEW i, NEW t, TradeOf(side, p, i, t),
           NEW q, q = Queue[side][p]
    PROVE  QueueTraded(side, p, i, t, q)
  <1> DEFINE l == L[side][p]
  <1>1. PoolTypeOK' /\ Traded(side, p, i, t)
    BY TradeFields
  <1>2. /\ IsAt(L, side, p, 1, i)
        /\ t = orders[i].qty => Shape(Put(L, side, p, Without(l, 1)), <<i>> \o F, X)'
        /\ t # orders[i].qty => Shape(L, F, X)'
    BY TradeShape
  <1>3. orders \in Pools /\ orders' \in Pools
    BY <1>1, PoolTypes, PoolTypesPrime
  <1>4. /\ i \in Slots /\ t \in Nat /\ t <= orders[i].qty
        /\ t = Min({call.qty, orders[i].qty})
        /\ call' = [call EXCEPT !.qty = @ - t]
        /\ \A s \in Slots : /\ orders'[s].id = orders[s].id
                            /\ orders'[s].qty =
                                  IF s = i THEN orders[i].qty - t ELSE orders[s].qty
    BY <1>1 DEF Traded, TradedPool
  <1>5. /\ l \in Seq(Slots) /\ q = OrdersOf(orders, l) /\ q \in Seq(Entries)
        /\ Len(q) = Len(l)
    BY QueueAt
  <1>6. 1 \in 1..Len(l) /\ l[1] = i
    BY <1>2 DEF IsAt
  <1>7. Head(q) = q[1] /\ q[1].qty = orders[i].qty
    <2>1. q[1].qty = orders[i].qty
      BY <1>6, QueueEntry
    <2>2. Len(q) # 0
      BY <1>5, <1>6
    <2> QED
      BY <1>5, <2>1, <2>2
  <1>8. Rep(orders, levels, next_free_order_idx, L, F, X)
    BY DEF Shape
  <1>9. OnlyAt(L, side, p, i) /\ L \in ListTables
    <2>1. In(L[side][p], i)
      BY <1>6 DEF In
    <2> QED
      BY <1>4, <1>8, <2>1, ListedOnlyAt
  <1>10. SameOrders(orders, orders', i)
    BY <1>4 DEF SameOrders, SameOrder
  <1>11. \A j \in 1..Len(l) : j # 1 => l[j] # i /\ l[j] \in Slots
    <2>1. IsChain(orders, levels[side][p].head, l)
      BY <1>8 DEF Rep, IsLevel
    <2> QED
      BY <1>5, <1>6, <2>1 DEF IsChain
  <1>12. \A j \in 1..Len(l) : j # 1 => SameOrder(orders, orders', l[j])
    BY <1>10, <1>11 DEF SameOrders
  <1>13. Queue = QueuesOf(orders, L)
    BY ShapeQueue
  <1> HIDE DEF l
  <1>14. CASE t = orders[i].qty
    <2> DEFINE w == Without(l, 1)
    <2>1. Queue' = QueuesOf(orders', Put(L, side, p, w))
      BY <1>2, <1>14, ShapeQueuePrime
    <2>2. w \in Seq(Slots)
      <3>1. Shape(Put(L, side, p, w), <<i>> \o F, X)'
        BY <1>2, <1>14
      <3>2. IsChain(orders, levels[side][p].head, l)
        BY <1>8 DEF Rep, IsLevel, l
      <3> QED
        BY <1>6, <3>2, WithoutIn
    <2>3. OrdersOf(orders', w) = Tail(q)
      BY <1>3, <1>5, <1>6, <1>12, OrdersWithout
    <2> HIDE DEF w
    <2>4. QueuesOf(orders', Put(L, side, p, w)) =
             Put(QueuesOf(orders, L), side, p, OrdersOf(orders', w))
      BY <1>3, <1>9, <1>10, <2>2, QueuesPut
    <2>5. Queue' = Put(Queue, side, p, Tail(q))
      BY <1>13, <2>1, <2>3, <2>4
    <2> QED
      BY <1>4, <1>7, <1>14, <2>5 DEF QueueTraded
  <1>15. CASE t # orders[i].qty
    <2> DEFINE n == orders[i].qty - t
    <2>0. n \in Nat
      <3>1. orders[i].qty \in Nat
        BY <1>3, <1>4 DEF Pools, Nodes
      <3> QED
        BY <1>4, <3>1
    <2>1. Queue' = QueuesOf(orders', L)
      BY <1>2, <1>15, ShapeQueuePrime
    <2>2. Put(L, side, p, l) = L
      BY <1>9, PutSame DEF l
    <2>3. QueuesOf(orders', Put(L, side, p, l)) =
             Put(QueuesOf(orders, L), side, p, OrdersOf(orders', l))
      BY <1>3, <1>5, <1>9, <1>10, QueuesPut
    <2>4. OrdersOf(orders', l) = [OrdersOf(orders, l) EXCEPT ![1].qty = n]
      <3>1. orders'[l[1]].id = orders[l[1]].id /\ orders'[l[1]].qty = n
        BY <1>4, <1>6
      <3> HIDE DEF n
      <3> QED
        BY <1>3, <1>5, <1>6, <1>12, <2>0, <3>1, OrdersQty
    <2>5. [q EXCEPT ![1].qty = n] = <<[Head(q) EXCEPT !.qty = n]>> \o Tail(q)
      <3>1. Len(q) # 0
        BY <1>5, <1>6
      <3> HIDE DEF n
      <3> QED
        BY <1>5, <2>0, <3>1, HeadChanged
    <2>6. Queue' = Put(Queue, side, p, <<[Head(q) EXCEPT !.qty = n]>> \o Tail(q))
      BY <1>5, <1>13, <2>1, <2>2, <2>3, <2>4, <2>5
    <2>7. [Head(q) EXCEPT !.qty = n] = [Head(q) EXCEPT !.qty = @ - t]
      BY <1>7
    <2> QED
      BY <1>4, <1>7, <1>15, <2>6, <2>7 DEF QueueTraded
  <1> QED
    BY <1>14, <1>15

LEMMA RefineTrade ==
    ASSUME IInv, match
    PROVE  Book!Trade
  <1>1. PoolTypeOK /\ index = ActivePrices(levels)
    BY InvTo
  <1>2. PICK L, F, X : Shape(L, F, X)
    BY InvTo
  <1>0. PICK side \in BOOLEAN, p \in Prices : side = ~call.is_buy /\ p = best
    BY <1>1, BestHasOrder DEF match
  <1>3. PICK i, t : /\ side = ~call.is_buy /\ p = best
                    /\ IsHead(levels, side, p, i) /\ TradeOf(side, p, i, t)
    <2>1. IsHead(levels, side, p, levels[side][p].head)
      BY <1>0, <1>1, BestHasOrder DEF match
    <2> QED
      BY <1>0, <2>1 DEF TradeOf
  <1>4. Trade(p) /\ call # Idle /\ Crosses
    BY <1>3 DEF match
  <1>5. p = Book!Best /\ Book!Crossing
    BY <1>1, <1>2, <1>3, <1>4, BestIs
  <1>6. PICK q : q = Queue[side][p]
    OBVIOUS
  <1>7. QueueTraded(side, p, i, t, q)
    BY <1>1, <1>2, <1>3, <1>4, <1>6, TradeQueue
  <1>8. /\ call # Idle /\ Book!Crossing
        /\ LET old  == Head(Queue[side][p])
               tt   == Min({call.qty, old.qty})
               rest == Tail(Queue[side][p])
           IN  /\ call' = [call EXCEPT !.qty = @ - tt]
               /\ Queue' = [Queue EXCEPT ![side][p] =
                     IF tt = old.qty THEN rest
                                    ELSE <<[old EXCEPT !.qty = @ - tt]>> \o rest]
    BY <1>4, <1>5, <1>6, <1>7, Zenon DEF Put, QueueTraded
  <1> QED
    BY <1>3, <1>5, <1>8, BookTrade, Zenon

\* The order that add_order() stores is the only one that changes.
LEMMA RestOrders ==
    ASSUME PoolTypeOK, NEW L, NEW F, NEW X, Shape(L, F, X), Return, CanStore,
           NEW b, b = call.is_buy, NEW p \in Prices, p = call.price,
           NEW i, i = next_free_order_idx
    PROVE  /\ i \in Slots /\ ~Listed(L, i) /\ b \in BOOLEAN
           /\ orders'[i].id = call.id /\ orders'[i].qty = call.qty
           /\ SameOrders(orders, orders', i)
  <1>1. Store
    BY DEF Return
  <1>2. PICK lv, t : lv = levels[b][p] /\ t = Link(Stored, lv, i)
    OBVIOUS
  <1>3. call.id \in Slots /\ call.is_buy \in BOOLEAN /\ orders' = t.pool
    BY <1>1, <1>2, StoreSteps
  <1>4. /\ i \in Slots /\ Stored[i] = NewNode
        /\ \A s \in Slots : s # i => Stored[s] = orders[s]
    BY <1>3, StoredFields
  <1>5. SameData(t.pool, Stored)
    <2>1. BookOf(orders, levels, i, id_map, rested, call.id, L, F, X)
      BY BookShape
    <2>2. TakenBy(orders, i, Stored, call.id, b, p)
      BY <1>3, StoredTaken
    <2>3. -1 \notin Slots
      BY SlotsNotNull DEF NULL_IDX
    <2> QED
      BY <1>2, <2>1, <2>2, <2>3, RestedShape
  <1>6. Rep(orders, levels, i, L, F, X) /\ i # NULL_IDX
    BY DEF Shape, CanStore
  <1>7. ~Listed(L, i)
    <2>1. IsChain(orders, i, F)
      BY <1>6 DEF Rep
    <2>2. In(F, i)
      BY <1>6, <2>1, PopFree
    <2> QED
      BY <1>4, <1>6, <2>2 DEF Rep, Listed
  <1>8. NewNode.id = call.id /\ NewNode.qty = call.qty
    BY DEF NewNode
  <1>9. orders'[i].id = call.id /\ orders'[i].qty = call.qty
    BY <1>3, <1>4, <1>5, <1>8 DEF SameData
  <1>10. SameOrders(orders, orders', i)
    BY <1>3, <1>4, <1>5 DEF SameData, SameOrders, SameOrder
  <1> QED
    BY <1>3, <1>4, <1>7, <1>9, <1>10

LEMMA RefineRest ==
    ASSUME "price_range" \in Rules, IInv, add_order
    PROVE  Book!Rest
  <1>1. PoolTypeOK /\ index = ActivePrices(levels)
    BY InvTo
  <1>2. PICK L, F, X : Shape(L, F, X) /\ call.price \in Prices /\ X = {}
    BY InvTo
  <1>0. PICK p \in Prices : p = call.price
    BY <1>2
  <1>3. PICK b, i : b = call.is_buy /\ p = call.price /\ i = next_free_order_idx
    BY <1>0
  <1>4. Return /\ call # Idle /\ ~Crosses /\ call' = Idle
    BY DEF add_order, Return
  <1>5. ~Book!Crossing
    BY <1>1, <1>2, <1>4, BestIs
  <1>6. CanStore <=> call.qty > 0 /\ Cardinality(Book!RestingIds) < MaxOrders
    <2>1. Shape(L, F, {})
      BY <1>2
    <2>2. Cardinality(Book!RestingIds) < MaxOrders <=> next_free_order_idx # NULL_IDX
      BY <1>1, <2>1, RoomIs
    <2> QED
      BY <2>2 DEF CanStore
  <1> DEFINE e == [id |-> call.id, qty |-> call.qty]
  <1>7. CASE ~CanStore
    <2>1. UNCHANGED <<orders, levels>>
      BY <1>4, <1>7 DEF Return, pool
    <2>2. Queue' = Queue
      BY <2>1 DEF Queue, LevelChain, Chain
    <2> QED
      BY <1>4, <1>5, <1>6, <1>7, <2>2, BookRest
  <1>8. CASE CanStore
    <2> DEFINE l2 == Append(L[b][p], i)
    <2>1. /\ i \in Slots /\ ~Listed(L, i) /\ b \in BOOLEAN
          /\ orders'[i].id = call.id /\ orders'[i].qty = call.qty
          /\ SameOrders(orders, orders', i)
      BY <1>1, <1>2, <1>3, <1>4, <1>8, RestOrders
    <2>2. Shape(Put(L, b, p, l2), Without(F, 1), X)'
      BY <1>1, <1>2, <1>3, <1>4, <1>8, ReturnShape
    <2>3. Queue' = QueuesOf(orders', Put(L, b, p, l2))
      BY <2>2, ShapeQueuePrime
    <2>4. L[b][p] \in Seq(Slots) /\ Queue[b][p] = OrdersOf(orders, L[b][p])
      BY <1>1, <1>2, <2>1, QueueAt
    <2>5. l2 \in Seq(Slots)
      BY <2>1, <2>4
    <2>6. orders \in Pools /\ orders' \in Pools
      <3>1. PoolTypeOK'
        BY <1>1, <1>4, ReturnType
      <3> QED
        BY <1>1, <3>1, PoolTypes, PoolTypesPrime
    <2>7. OnlyAt(L, b, p, i) /\ L \in ListTables
      BY <1>2, <2>1, ListedOnlyAt DEF Shape
    <2>8. OrdersOf(orders', l2) = Append(Queue[b][p], e)
      <3>1. \A k \in 1..Len(L[b][p]) : L[b][p][k] \in Slots /\ L[b][p][k] # i
        BY <2>1, <2>4 DEF Listed, In
      <3>2. \A k \in 1..Len(L[b][p]) : SameOrder(orders, orders', L[b][p][k])
        BY <2>1, <3>1 DEF SameOrders
      <3>3. OrdersOf(orders', l2) =
               Append(OrdersOf(orders, L[b][p]),
                      [id |-> orders'[i].id, qty |-> orders'[i].qty])
        BY <2>1, <2>4, <2>6, <3>2, OrdersAppend
      <3> QED
        BY <2>1, <2>4, <3>3
    <2> HIDE DEF l2, e
    <2>9. QueuesOf(orders', Put(L, b, p, l2)) =
             Put(QueuesOf(orders, L), b, p, OrdersOf(orders', l2))
      BY <2>1, <2>5, <2>6, <2>7, QueuesPut
    <2>10. Queue = QueuesOf(orders, L)
      BY <1>2, ShapeQueue
    <2>11. Queue' = Put(Queue, b, p, Append(Queue[b][p], e))
      BY <2>3, <2>8, <2>9, <2>10
    <2>12. Queue' = [Queue EXCEPT ![call.is_buy][call.price] = Append(@, e)]
      BY <1>3, <2>11, Zenon DEF Put
    <2> QED
      BY <1>4, <1>5, <1>6, <1>8, <2>12, BookRest DEF e
  <1> QED
    BY <1>7, <1>8

\* The places of the slots of a list are distinct, and the slot at place k is
\* on no other list.
LEMMA PlaceOnly ==
    ASSUME NEW ord, NEW lev, NEW nf, NEW L, NEW F, NEW X, Rep(ord, lev, nf, L, F, X),
           NEW b \in BOOLEAN, NEW p \in Prices, NEW k, NEW i, IsAt(L, b, p, k, i)
    PROVE  /\ L \in ListTables /\ L[b][p] \in Seq(Slots) /\ i \in Slots
           /\ k \in 1..Len(L[b][p]) /\ L[b][p][k] = i
           /\ OnlyAt(L, b, p, i)
           /\ \A j \in 1..Len(L[b][p]) : j # k => L[b][p][j] # i
           /\ Without(L[b][p], k) \in Seq(Slots)
           /\ \A s : In(Without(L[b][p], k), s) <=> In(L[b][p], s) /\ s # i
  <1>1. L[b][p] \in Seq(Slots) /\ k \in 1..Len(L[b][p]) /\ L[b][p][k] = i
    BY DEF Rep, IsAt
  <1>2. i \in Slots
    BY <1>1
  <1>3. In(L[b][p], i)
    BY <1>1 DEF In
  <1>4. OnlyAt(L, b, p, i) /\ L \in ListTables
    BY <1>2, <1>3, ListedOnlyAt
  <1>5. IsChain(ord, lev[b][p].head, L[b][p])
    BY DEF Rep, IsLevel
  <1>6. \A j \in 1..Len(L[b][p]) : j # k => L[b][p][j] # i
    BY <1>1, <1>5 DEF IsChain
  <1>7. /\ Without(L[b][p], k) \in Seq(Slots)
        /\ \A s : In(Without(L[b][p], k), s) <=> In(L[b][p], s) /\ s # i
    BY <1>1, <1>5, WithoutIn
  <1> QED
    BY <1>1, <1>2, <1>4, <1>6, <1>7

\* A queue loses the entry of the order that leaves the list.
LEMMA QueueWithout ==
    ASSUME NEW ord \in Pools, NEW ord2 \in Pools, NEW lev, NEW nf, NEW L, NEW F, NEW X,
           Rep(ord, lev, nf, L, F, X),
           NEW b \in BOOLEAN, NEW p \in Prices, NEW k, NEW i, IsAt(L, b, p, k, i),
           SameOrders(ord, ord2, i)
    PROVE  /\ QueuesOf(ord2, OffLists(L, b, p, k)) =
                 Put(QueuesOf(ord, L), b, p, Book!RemoveAt(QueuesOf(ord, L)[b][p], k))
           /\ OffLists(L, b, p, k) \in ListTables
           /\ \A c \in BOOLEAN, r \in Prices : ~In(OffLists(L, b, p, k)[c][r], i)
  <1>1. /\ L \in ListTables /\ L[b][p] \in Seq(Slots) /\ i \in Slots
        /\ k \in 1..Len(L[b][p]) /\ L[b][p][k] = i
        /\ OnlyAt(L, b, p, i)
        /\ \A j \in 1..Len(L[b][p]) : j # k => L[b][p][j] # i
        /\ Without(L[b][p], k) \in Seq(Slots)
        /\ \A s : In(Without(L[b][p], k), s) <=> In(L[b][p], s) /\ s # i
    BY PlaceOnly
  <1>2. OrdersOf(ord2, Without(L[b][p], k)) = Book!RemoveAt(OrdersOf(ord, L[b][p]), k)
    <2>1. ASSUME NEW j \in 1..Len(L[b][p]), j # k
          PROVE  SameOrder(ord, ord2, L[b][p][j])
      <3>1. L[b][p][j] \in Slots /\ L[b][p][j] # i
        BY <1>1, <2>1
      <3> QED
        BY <3>1 DEF SameOrders
    <2> QED
      BY <1>1, <2>1, OrdersWithout
  <1>3. QueuesOf(ord2, Put(L, b, p, Without(L[b][p], k))) =
           Put(QueuesOf(ord, L), b, p, OrdersOf(ord2, Without(L[b][p], k)))
    BY <1>1, QueuesPut
  <1>4. QueuesOf(ord, L)[b][p] = OrdersOf(ord, L[b][p])
    BY DEF QueuesOf
  <1>5. PICK w : w = Without(L[b][p], k)
    OBVIOUS
  <1>6. OffLists(L, b, p, k) = Put(L, b, p, w)
    BY <1>5 DEF OffLists
  <1>7. Put(L, b, p, w) \in ListTables
    BY <1>1, <1>5 DEF Put, ListTables
  <1>8. ASSUME NEW c \in BOOLEAN, NEW r \in Prices
        PROVE  ~In(Put(L, b, p, w)[c][r], i)
    <2>1. CASE <<c, r>> = <<b, p>>
      <3>1. Put(L, b, p, w)[c][r] = w
        BY <1>1, <2>1 DEF Put, ListTables
      <3> QED
        BY <1>1, <1>5, <3>1
    <2>2. CASE <<c, r>> # <<b, p>>
      <3>1. Put(L, b, p, w)[c][r] = L[c][r]
        BY <1>1, <2>2 DEF Put, ListTables
      <3> QED
        BY <1>1, <2>2, <3>1 DEF OnlyAt
    <2> QED
      BY <2>1, <2>2
  <1> QED
    BY <1>2, <1>3, <1>4, <1>5, <1>6, <1>7, <1>8

\* The steps of a client that names an order: a cancel or replace of the
\* abstract book, or nothing.
BookTouch ==
    \E b \in BOOLEAN, p \in Prices : \E k \in DOMAIN Queue[b][p] :
       \/ Book!Cancel(b, p, k)
       \/ \E new_price \in Prices, new_qty \in Qtys : Book!Replace(b, p, k, new_price, new_qty)

LEMMA RefineCancel ==
    ASSUME SafeRules \subseteq Rules, IInv, NEW id \in TouchIds, cancel_order(id)
    PROVE  BookTouch \/ (Queue' = Queue /\ call' = call)
  <1>1. PoolTypeOK
    BY InvTo
  <1>2. PICK L, F, X : Shape(L, F, X)
    BY InvTo
  <1>3. call = Idle /\ call' = call /\ UNCHANGED <<call, clients>>
    BY DEF cancel_order, MayCancel
  <1>5. CASE ~HasEntry(id)
    <2>1. UNCHANGED <<orders, levels>>
      BY <1>5 DEF cancel_order, pool
    <2>2. Queue' = Queue
      BY <2>1 DEF Queue, LevelChain, Chain
    <2> QED
      BY <1>3, <2>2
  <1>6. CASE HasEntry(id)
    <2>1. PICK i, b, p : OrderAt(id, i, b, p)
      BY DEF OrderAt
    <2>2. Remove(id) /\ p \in Prices
      BY <1>6, <2>1 DEF cancel_order, OrderAt, Remove
    <2>3. PoolTypeOK' /\ Removed(id, i, b, p)
      BY <1>1, <1>3, <1>6, <2>1, <2>2, RemoveFields
    <2>4. /\ i \in Slots /\ orders[i].id = id /\ b \in BOOLEAN
          /\ \E k : IsAt(L, b, p, k, i) /\ HeadReset(orders, k, i)
      BY <1>1, <1>2, <1>6, <2>1, <2>2, RulesTouch, TouchedSlot DEF OrderAt
    <2>5. PICK k : IsAt(L, b, p, k, i) /\ HeadReset(orders, k, i)
      BY <2>4
    <2>6. Shape(OffLists(L, b, p, k), <<i>> \o F, X)'
      <3>1. Shape(Put(L, b, p, Without(L[b][p], k)), <<i>> \o F, X)'
        BY <1>1, <1>2, <1>3, <1>6, <2>1, <2>2, <2>4, <2>5, RemoveShape
      <3> QED
        BY <3>1 DEF OffLists
    <2>7. orders \in Pools /\ orders' \in Pools /\ SameOrders(orders, orders', i)
      <3>1. PICK u : u = Unlink(orders, levels[b][p], i)
        OBVIOUS
      <3>2. orders \in Pools /\ levels[b][p] \in Levels
        BY <1>1, <2>2, <2>4, PoolTypes DEF Ladders
      <3>3. SameData(u.pool, orders)
        BY <2>4, <3>1, <3>2, UnlinkFields
      <3>4. orders' \in Pools /\ SameData(orders', u.pool)
        BY <2>3, <3>1 DEF Removed, IsFreed
      <3> QED
        BY <3>2, <3>3, <3>4 DEF SameData, SameOrders, SameOrder
    <2>8. Queue = QueuesOf(orders, L) /\ Queue' = QueuesOf(orders', OffLists(L, b, p, k))
      BY <1>2, <2>6, ShapeQueue, ShapeQueuePrime
    <2>9. Queue' = Put(Queue, b, p, Book!RemoveAt(Queue[b][p], k))
      <3>1. Rep(orders, levels, next_free_order_idx, L, F, X)
        BY <1>2 DEF Shape
      <3>2. QueuesOf(orders', OffLists(L, b, p, k)) =
               Put(QueuesOf(orders, L), b, p, Book!RemoveAt(QueuesOf(orders, L)[b][p], k))
        BY <2>2, <2>4, <2>5, <2>7, <3>1, QueueWithout
      <3> QED
        BY <2>8, <3>2
    <2>10. Queue' = [Queue EXCEPT ![b][p] = Book!RemoveAt(@, k)]
      BY <2>9, Zenon DEF Put
    <2>11. k \in DOMAIN Queue[b][p]
      BY <1>1, <1>2, <2>2, <2>4, <2>5, QueueAt DEF IsAt
    <2>12. Book!Cancel(b, p, k)
      BY <1>3, <2>10, BookCancel
    <2> QED
      BY <2>2, <2>4, <2>11, <2>12 DEF BookTouch
  <1> QED
    BY <1>5, <1>6

\* The k-th entry of a queue gets the quantity n and stays where it is.
LEMMA KeptQueue ==
    ASSUME PoolTypeOK, NEW L, NEW F, NEW X, Shape(L, F, X), Shape(L, F, X)', orders' \in Pools,
           NEW b, NEW p, NEW k, NEW i, Touched(L, b, p, k, i), NEW n \in Nat, OnlyQty(i, n)
    PROVE  Queue' = [Queue EXCEPT ![b][p][k].qty = n]
  <1>0. /\ i \in Slots /\ b \in BOOLEAN /\ p \in Prices /\ IsAt(L, b, p, k, i)
        /\ orders \in Pools
    BY PoolTypes DEF Touched
  <1>1. Rep(orders, levels, next_free_order_idx, L, F, X)
    BY DEF Shape
  <1>2. /\ L \in ListTables /\ L[b][p] \in Seq(Slots)
        /\ k \in 1..Len(L[b][p]) /\ L[b][p][k] = i /\ OnlyAt(L, b, p, i)
        /\ \A j \in 1..Len(L[b][p]) : j # k => L[b][p][j] # i
    BY <1>0, <1>1, PlaceOnly
  <1>3. SameOrders(orders, orders', i)
    BY DEF OnlyQty, SameOrders, SameOrder
  <1>4. PICK l : l = L[b][p]
    OBVIOUS
  <1>5. Queue = QueuesOf(orders, L) /\ Queue' = QueuesOf(orders', L)
    BY ShapeQueue, ShapeQueuePrime
  <1>6. Put(L, b, p, l) = L
    BY <1>0, <1>2, <1>4, PutSame
  <1>7. QueuesOf(orders', Put(L, b, p, l)) = Put(QueuesOf(orders, L), b, p, OrdersOf(orders', l))
    BY <1>0, <1>2, <1>3, <1>4, QueuesPut
  <1>8. OrdersOf(orders', l) = [OrdersOf(orders, l) EXCEPT ![k].qty = n]
    <2>1. orders'[l[k]].id = orders[l[k]].id /\ orders'[l[k]].qty = n
      BY <1>0, <1>2, <1>4 DEF OnlyQty
    <2>2. ASSUME NEW j \in 1..Len(l), j # k
          PROVE  SameOrder(orders, orders', l[j])
      <3>1. l[j] \in Slots /\ l[j] # i
        BY <1>2, <1>4, <2>2
      <3> QED
        BY <1>3, <3>1 DEF SameOrders
    <2>3. l \in Seq(Slots) /\ k \in 1..Len(l)
      BY <1>2, <1>4
    <2> QED
      BY <1>0, <2>1, <2>2, <2>3, OrdersQty
  <1>9. Queue[b][p] = OrdersOf(orders, l)
    BY <1>0, <1>4, QueueAt
  <1>10. Queue' = Put(Queue, b, p, [Queue[b][p] EXCEPT ![k].qty = n])
    BY <1>5, <1>6, <1>7, <1>8, <1>9
  <1> QED
    BY <1>10, Zenon DEF Put

\* The k-th entry of a queue leaves it and goes to the back of the queue of q.
LEMMA MovedQueue ==
    ASSUME PoolTypeOK, NEW L, NEW F, NEW X, Shape(L, F, X), orders' \in Pools,
           NEW b, NEW p, NEW k, NEW i, Touched(L, b, p, k, i),
           NEW q \in Prices, NEW n \in Nat, OnlyQty(i, n),
           Shape(MovedLists(L, b, p, q, k, i), F, X)'
    PROVE  Queue' = QueueMoved(Queue, b, p, k, q, n)
  <1>0. /\ i \in Slots /\ b \in BOOLEAN /\ p \in Prices /\ IsAt(L, b, p, k, i)
        /\ orders \in Pools
    BY PoolTypes DEF Touched
  <1>1. Rep(orders, levels, next_free_order_idx, L, F, X)
    BY DEF Shape
  <1>2. k \in 1..Len(L[b][p]) /\ L[b][p][k] = i
    BY <1>0, <1>1, PlaceOnly
  <1>3. SameOrders(orders, orders', i)
    BY DEF OnlyQty, SameOrders, SameOrder
  <1>4. PICK L1 : L1 = OffLists(L, b, p, k)
    OBVIOUS
  <1>5. /\ QueuesOf(orders', L1) =
              Put(QueuesOf(orders, L), b, p, Book!RemoveAt(QueuesOf(orders, L)[b][p], k))
        /\ L1 \in ListTables
        /\ \A c \in BOOLEAN, r \in Prices : ~In(L1[c][r], i)
    BY <1>0, <1>1, <1>3, <1>4, QueueWithout
  <1>6. PICK l, l2 : l = L1[b][q] /\ l2 = Append(l, i)
    OBVIOUS
  <1>7. l \in Seq(Slots) /\ l2 \in Seq(Slots) /\ ~In(l, i)
    BY <1>0, <1>5, <1>6 DEF ListTables
  <1>8. Queue = QueuesOf(orders, L) /\ Queue' = QueuesOf(orders', Put(L1, b, q, l2))
    BY <1>4, <1>6, ShapeQueue, ShapeQueuePrime DEF MovedLists
  <1>9. PICK Q1 : Q1 = QueuesOf(orders', L1)
    OBVIOUS
  <1>10. Q1 = Put(Queue, b, p, Book!RemoveAt(Queue[b][p], k))
    BY <1>5, <1>8, <1>9
  <1>11. Queue' = Put(Q1, b, q, OrdersOf(orders', l2))
    <2>1. OnlyAt(L1, b, q, i)
      BY <1>5 DEF OnlyAt
    <2>2. SameOrders(orders', orders', i)
      BY DEF SameOrders, SameOrder
    <2>3. QueuesOf(orders', Put(L1, b, q, l2)) =
             Put(QueuesOf(orders', L1), b, q, OrdersOf(orders', l2))
      BY <1>0, <1>5, <1>7, <2>1, <2>2, QueuesPut
    <2> QED
      BY <1>8, <1>9, <2>3
  <1>12. PICK e : e = [Queue[b][p][k] EXCEPT !.qty = n]
    OBVIOUS
  <1>13. OrdersOf(orders', l2) = Append(Q1[b][q], e)
    <2>1. OrdersOf(orders', l2) =
             Append(OrdersOf(orders', l), [id |-> orders'[i].id, qty |-> orders'[i].qty])
      <3>1. \A j \in 1..Len(l) : SameOrder(orders', orders', l[j])
        BY DEF SameOrder
      <3> QED
        BY <1>0, <1>6, <1>7, <3>1, OrdersAppend
    <2>2. Q1[b][q] = OrdersOf(orders', l)
      BY <1>0, <1>6, <1>9 DEF QueuesOf
    <2>3. orders'[i].id = orders[i].id /\ orders'[i].qty = n
      BY <1>0 DEF OnlyQty
    <2>4. Queue[b][p][k] = [id |-> orders[i].id, qty |-> orders[i].qty]
      BY <1>0, <1>2, QueueAt
    <2>5. e = [id |-> orders'[i].id, qty |-> orders'[i].qty]
      BY <1>12, <2>3, <2>4
    <2> QED
      BY <2>1, <2>2, <2>5
  <1>14. Queue' = Put(Q1, b, q, Append(Q1[b][q], e))
    BY <1>11, <1>13
  <1> QED
    BY <1>10, <1>12, <1>14, Zenon DEF Put, QueueMoved

LEMMA RefineReplace ==
    ASSUME SafeRules \subseteq Rules, IInv, NEW id \in TouchIds,
           NEW q \in Prices, NEW n \in Qtys, replace_order(id, q, n)
    PROVE  BookTouch \/ (Queue' = Queue /\ call' = call)
  <1>1. PoolTypeOK /\ index = ActivePrices(levels)
    BY InvTo
  <1>2. PICK L, F, X : Shape(L, F, X)
    BY InvTo
  <1>3. call = Idle /\ call' = call /\ n \in Nat
    BY QtysAssumption DEF replace_order
  <1>4. CASE ~HasEntry(id)
    <2>1. UNCHANGED <<orders, levels>>
      BY <1>4 DEF replace_order
    <2>2. Queue' = Queue
      BY <2>1 DEF Queue, LevelChain, Chain
    <2> QED
      BY <1>3, <2>2
  <1>5. CASE HasEntry(id)
    <2>1. PICK b, p, k, i : /\ Touched(L, b, p, k, i)
                            /\ \/ ReplaceKeeps(q, n, L, F, X, p, i)
                               \/ ReplaceMoves(q, n, L, F, X, b, p, k, i)
      BY <1>1, <1>2, <1>3, <1>5, RulesTouch, ReplaceStep
    <2>2. /\ b \in BOOLEAN /\ p \in Prices /\ k \in 1..Len(L[b][p]) /\ L[b][p][k] = i
      BY <2>1 DEF Touched, IsAt
    <2>3. k \in DOMAIN Queue[b][p] /\ Queue[b][p][k].qty = orders[i].qty
      BY <1>1, <1>2, <2>2, QueueAt, QueueEntry
    <2>4. CASE ReplaceKeeps(q, n, L, F, X, p, i)
      <3>1. /\ p = q /\ n <= orders[i].qty
            /\ Shape(L, F, X)' /\ OnlyQty(i, n) /\ orders' \in Pools
        BY <2>4 DEF ReplaceKeeps, ReplaceResult
      <3>2. Queue' = [Queue EXCEPT ![b][p][k].qty = n]
        BY <1>1, <1>2, <1>3, <2>1, <3>1, KeptQueue
      <3>3. Book!Replace(b, p, k, q, n)
        BY <1>3, <2>3, <3>1, <3>2, BookReplace, Zenon
      <3> QED
        BY <2>2, <2>3, <3>3 DEF BookTouch
    <2>5. CASE ReplaceMoves(q, n, L, F, X, b, p, k, i)
      <3>1. /\ ~(p = q /\ n <= orders[i].qty)
            /\ Shape(MovedLists(L, b, p, q, k, i), F, X)' /\ OnlyQty(i, n) /\ orders' \in Pools
        BY <2>5 DEF ReplaceMoves, ReplaceResult
      <3>2. Queue' = QueueMoved(Queue, b, p, k, q, n)
        BY <1>1, <1>2, <1>3, <2>1, <3>1, MovedQueue
      <3>3. Book!Replace(b, p, k, q, n)
        BY <1>3, <2>3, <3>1, <3>2, BookReplace, Zenon
      <3> QED
        BY <2>2, <2>3, <3>3 DEF BookTouch
    <2> QED
      BY <2>1, <2>4, <2>5
  <1> QED
    BY <1>4, <1>5

\* Every step of the book is a step of the abstract book or changes nothing
\* that it shows.
LEMMA RefineNext ==
    ASSUME SafeRules \subseteq Rules, "price_range" \in Rules, IInv, [Next]_vars
    PROVE  [Book!Next]_(Book!bookVars)
  <1>0. SUFFICES Book!Next \/ (Queue' = Queue /\ call' = call)
    BY BookVars, BookVarsPrime
  <1>1. CASE init
    BY <1>1, RefineReset, BookNext
  <1>2. CASE match
    BY <1>2, RefineTrade, BookNext
  <1>3. CASE add_order
    BY <1>3, RefineRest, BookNext
  <1>4. ASSUME NEW id \in SubmitIds, NEW price \in SubmitPrices, NEW qty \in Qtys,
               NEW is_buy \in BOOLEAN, Submit(id, price, qty, is_buy)
        PROVE  Book!Next
    <2>1. id \in Ids /\ price \in Prices
      BY DEF SubmitIds, SubmitPrices
    <2>2. Book!Submit(id, price, qty, is_buy)
      BY <1>4, RefineSubmit
    <2> QED
      BY <2>1, <2>2, BookNext
  <1>5. ASSUME NEW id \in TouchIds,
               \/ cancel_order(id)
               \/ \E q \in Prices, n \in Qtys : replace_order(id, q, n)
        PROVE  Book!Next \/ (Queue' = Queue /\ call' = call)
    <2>1. BookTouch \/ (Queue' = Queue /\ call' = call)
      BY <1>5, RefineCancel, RefineReplace
    <2>2. BookTouch => Book!Next
      BY BookNext DEF BookTouch
    <2> QED
      BY <2>1, <2>2
  <1>6. CASE UNCHANGED vars
    <2>1. UNCHANGED <<orders, levels, call>>
      BY <1>6 DEF vars, pool
    <2> QED
      BY <2>1 DEF Queue, LevelChain, Chain
  <1> QED
    BY <1>1, <1>2, <1>3, <1>4, <1>5, <1>6 DEF Next

\* PriceTime: for clients that keep to SafeRules and to the prices of the
\* ladder, match(), add_order(), cancel_order() and replace_order() implement
\* the price-time priority book, step by step: every trade is with the oldest
\* order at the best price, and every list changes as the client asked.
THEOREM Refinement ==
    ASSUME SafeRules \subseteq Rules, "price_range" \in Rules
    PROVE  Spec => PriceTime
  <1>1. Init => Book!Init
    BY RefineInit
  <1>2. IInv /\ [Next]_vars => [Book!Next]_(Book!bookVars)
    BY RefineNext
  <1>3. Spec => []IInv
    BY Invariant
  <1> QED
    BY <1>1, <1>2, <1>3, PTL DEF Spec, PriceTime, Book!Spec
=============================================================================
