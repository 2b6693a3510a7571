-------------------------- MODULE BenchmarksProofs --------------------------
(***************************************************************************)
(* Proofs about Benchmarks.  The benchmarks follow no rules, so each       *)
(* scenario is shown to keep to what FastBitsetBookProofs asks of clients: *)
(* the book stays Sound as long as the scenario's own invariant holds.     *)
(***************************************************************************)
EXTENDS Benchmarks, FastBitsetBookProofs

-----------------------------------------------------------------------------
(* The orders that rest *)

\* The order in slot s of the list of side b and price p.
Entry(ord, b, p, s) == [id |-> ord[s].id, is_buy |-> b, price |-> p, qty |-> ord[s].qty]

Rests(ord, L, r) ==
    \E b \in BOOLEAN, p \in Prices, s \in Slots : In(L[b][p], s) /\ r = Entry(ord, b, p, s)

SlotOrder(ord, s) == [id    |-> ord[s].id,    is_buy |-> ord[s].is_buy,
                      price |-> ord[s].price, qty    |-> ord[s].qty]

\* OnLevels of the pool ord and the levels lev.
LevelSlots(ord, lev) ==
    UNION {Members(Walk(ord, lev[b][p].head)) : b \in BOOLEAN, p \in Prices}

LEMMA RestingOf ==
    ASSUME NEW ord, NEW lev, NEW nf, NEW L, NEW F, NEW X, Rep(ord, lev, nf, L, F, X)
    PROVE  \A r : r \in {SlotOrder(ord, s) : s \in LevelSlots(ord, lev)} <=> Rests(ord, L, r)
  <1>0. L \in [BOOLEAN -> [Prices -> Seq(Slots)]]
    BY DEF Rep
  <1>1. ASSUME NEW b \in BOOLEAN, NEW p \in Prices
        PROVE  Walk(ord, lev[b][p].head) = L[b][p]
    BY RepUnique
  <1>2. ASSUME NEW b \in BOOLEAN, NEW p \in Prices
        PROVE  Members(Walk(ord, lev[b][p].head)) = {s \in Slots : In(L[b][p], s)}
    <2>1. PICK l : l = L[b][p]
      OBVIOUS
    <2>2. l \in Seq(Slots)
      BY <1>0, <2>1
    <2>3. DOMAIN l = 1..Len(l) /\ \A k \in 1..Len(l) : l[k] \in Slots
      BY <2>2
    <2>4. Members(l) = {s \in Slots : In(l, s)}
      BY <2>3 DEF Members, In
    <2> QED
      BY <1>1, <2>1, <2>4
  <1>3. \A s : s \in LevelSlots(ord, lev) <=> s \in Slots /\ \E b \in BOOLEAN, p \in Prices : In(L[b][p], s)
    BY <1>2 DEF LevelSlots
  <1>4. ASSUME NEW b \in BOOLEAN, NEW p \in Prices, NEW s \in Slots, In(L[b][p], s)
        PROVE  SlotOrder(ord, s) = Entry(ord, b, p, s)
    <2>1. ord[s].is_buy = b /\ ord[s].price = p
      BY <1>4 DEF Rep
    <2> QED
      BY <2>1 DEF SlotOrder, Entry
  <1> QED
    BY <1>3, <1>4 DEF Rests

LEMMA RestingIs ==
    ASSUME NEW L, NEW F, NEW X, Shape(L, F, X)
    PROVE  \A r : r \in Resting <=> Rests(orders, L, r)
  <1>1. Rep(orders, levels, next_free_order_idx, L, F, X)
    BY DEF Shape
  <1>2. Resting = {SlotOrder(orders, s) : s \in LevelSlots(orders, levels)}
    <2>1. OnLevels = LevelSlots(orders, levels)
      BY DEF OnLevels, LevelChain, Chain, LevelSlots
    <2>2. Resting = {SlotOrder(orders, s) : s \in OnLevels}
      BY DEF Resting, SlotOrder
    <2> QED
      BY <2>1, <2>2
  <1> QED
    BY <1>1, <1>2, RestingOf

LEMMA RestingIsPrime ==
    ASSUME NEW L, NEW F, NEW X, Shape(L, F, X)'
    PROVE  \A r : r \in Resting' <=> Rests(orders', L, r)
  <1>1. Rep(orders', levels', next_free_order_idx', L, F, X)
    BY DEF Shape
  <1>2. Resting' = {SlotOrder(orders', s) : s \in LevelSlots(orders', levels')}
    <2>1. OnLevels' = LevelSlots(orders', levels')
      BY DEF OnLevels, LevelChain, Chain, LevelSlots
    <2>2. Resting' = {SlotOrder(orders', s) : s \in OnLevels'}
      BY DEF Resting, SlotOrder
    <2> QED
      BY <2>1, <2>2
  <1> QED
    BY <1>1, <1>2, RestingOf

\* Slot x leaves its list; or it comes to the list of side b and price p.
Leaves(L, L2, x) ==
    \A c \in BOOLEAN, q \in Prices, s \in Slots :
        In(L2[c][q], s) <=> In(L[c][q], s) /\ s # x
Comes(L, L2, b, p, x) ==
    \A c \in BOOLEAN, q \in Prices, s \in Slots :
        In(L2[c][q], s) <=> \/ In(L[c][q], s) /\ s # x
                            \/ c = b /\ q = p /\ s = x

LEMMA OffLeaves ==
    ASSUME NEW ord, NEW lev, NEW nf, NEW L, NEW F, NEW X, Rep(ord, lev, nf, L, F, X),
           NEW b \in BOOLEAN, NEW p \in Prices, NEW k, NEW x, IsAt(L, b, p, k, x)
    PROVE  Leaves(L, OffLists(L, b, p, k), x) /\ OffLists(L, b, p, k) \in ListTables
  <1> DEFINE m == Without(L[b][p], k)
             L2 == Put(L, b, p, m)
  <1>1. /\ L \in ListTables /\ OnlyAt(L, b, p, x) /\ m \in Seq(Slots)
        /\ \A s : In(m, s) <=> In(L[b][p], s) /\ s # x
    BY PlaceOnly
  <1>2. /\ L2 \in ListTables /\ L2[b][p] = m
        /\ \A c \in BOOLEAN, q \in Prices : <<c, q>> # <<b, p>> => L2[c][q] = L[c][q]
    <2> HIDE DEF m
    <2> QED
      BY <1>1 DEF Put, ListTables
  <1> HIDE DEF m, L2
  <1>3. ASSUME NEW c \in BOOLEAN, NEW q \in Prices, NEW s \in Slots
        PROVE  In(L2[c][q], s) <=> In(L[c][q], s) /\ s # x
    <2>1. CASE <<c, q>> = <<b, p>>
      BY <1>1, <1>2, <2>1
    <2>2. CASE <<c, q>> # <<b, p>>
      BY <1>1, <1>2, <2>2 DEF OnlyAt
    <2> QED
      BY <2>1, <2>2
  <1> QED
    BY <1>2, <1>3 DEF Leaves, OffLists, L2, m

LEMMA AppendComes ==
    ASSUME NEW L \in ListTables, NEW b \in BOOLEAN, NEW p \in Prices, NEW x \in Slots,
           ~Listed(L, x)
    PROVE  Comes(L, Put(L, b, p, Append(L[b][p], x)), b, p, x)
  <1> DEFINE m == Append(L[b][p], x)
             L2 == Put(L, b, p, m)
  <1>1. L[b][p] \in Seq(Slots)
    BY DEF ListTables
  <1>2. \A s : In(m, s) <=> In(L[b][p], s) \/ s = x
    BY <1>1, AppendIn
  <1>3. /\ L2[b][p] = m
        /\ \A c \in BOOLEAN, q \in Prices : <<c, q>> # <<b, p>> => L2[c][q] = L[c][q]
    BY DEF Put, ListTables
  <1>4. \A c \in BOOLEAN, q \in Prices : ~In(L[c][q], x)
    BY DEF Listed
  <1> HIDE DEF m, L2
  <1>5. ASSUME NEW c \in BOOLEAN, NEW q \in Prices, NEW s \in Slots
        PROVE  In(L2[c][q], s) <=> \/ In(L[c][q], s) /\ s # x
                                   \/ c = b /\ q = p /\ s = x
    <2>1. CASE <<c, q>> = <<b, p>>
      BY <1>2, <1>3, <1>4, <2>1
    <2>2. CASE <<c, q>> # <<b, p>>
      BY <1>3, <1>4, <2>2
    <2> QED
      BY <2>1, <2>2
  <1> QED
    BY <1>5 DEF Comes, L2, m

\* Every listed order has an id of its own.
OwnIds(ord, L) ==
    \A s, t \in Slots : Listed(L, s) /\ Listed(L, t) /\ ord[s].id = ord[t].id => s = t

LEMMA LeavesRests ==
    ASSUME NEW ord, NEW ord2, NEW L, NEW L2, NEW x \in Slots,
           Leaves(L, L2, x), Listed(L, x), OwnIds(ord, L), SameOrders(ord, ord2, x)
    PROVE  \A r : Rests(ord2, L2, r) <=> Rests(ord, L, r) /\ r.id # ord[x].id
  <1>1. ASSUME NEW s \in Slots, s # x, NEW b, NEW p
        PROVE  Entry(ord2, b, p, s) = Entry(ord, b, p, s)
    BY <1>1 DEF Entry, SameOrders, SameOrder
  <1>2. ASSUME NEW b \in BOOLEAN, NEW p \in Prices, NEW s \in Slots, In(L[b][p], s)
        PROVE  s # x <=> ord[s].id # ord[x].id
    BY <1>2 DEF OwnIds, Listed
  <1>3. \A b, p, s : Entry(ord, b, p, s).id = ord[s].id
    BY DEF Entry
  <1> SUFFICES ASSUME NEW r
               PROVE  Rests(ord2, L2, r) <=> Rests(ord, L, r) /\ r.id # ord[x].id
    OBVIOUS
  <1>4. ASSUME Rests(ord2, L2, r)
        PROVE  Rests(ord, L, r) /\ r.id # ord[x].id
    <2>1. PICK b \in BOOLEAN, p \in Prices, s \in Slots : In(L2[b][p], s) /\ r = Entry(ord2, b, p, s)
      BY <1>4 DEF Rests
    <2>2. In(L[b][p], s) /\ s # x
      BY <2>1 DEF Leaves
    <2>3. r = Entry(ord, b, p, s)
      BY <1>1, <2>1, <2>2
    <2> QED
      BY <1>2, <1>3, <2>2, <2>3 DEF Rests
  <1>5. ASSUME Rests(ord, L, r), r.id # ord[x].id
        PROVE  Rests(ord2, L2, r)
    <2>1. PICK b \in BOOLEAN, p \in Prices, s \in Slots : In(L[b][p], s) /\ r = Entry(ord, b, p, s)
      BY <1>5 DEF Rests
    <2>2. s # x
      BY <1>3, <1>5, <2>1
    <2>3. In(L2[b][p], s) /\ r = Entry(ord2, b, p, s)
      BY <1>1, <2>1, <2>2 DEF Leaves
    <2> QED
      BY <2>3 DEF Rests
  <1> QED
    BY <1>4, <1>5

\* Slot x alone may be listed with the given id, and is if it is listed.
IdAt(ord, L, x, id) == \A s \in Slots : Listed(L, s) => (s # x <=> ord[s].id # id)

RestsToo(ord, L, ord2, L2, b, p, x) ==
    \A r : Rests(ord2, L2, r) <=> \/ Rests(ord, L, r) /\ r.id # ord2[x].id
                                  \/ r = Entry(ord2, b, p, x)

LEMMA ComesRests ==
    ASSUME NEW ord, NEW ord2, NEW L, NEW L2, NEW x \in Slots, NEW b \in BOOLEAN, NEW p \in Prices,
           Comes(L, L2, b, p, x), SameOrders(ord, ord2, x),
           IdAt(ord, L, x, ord2[x].id)
    PROVE  RestsToo(ord, L, ord2, L2, b, p, x)
  <1>1. ASSUME NEW s \in Slots, s # x, NEW c, NEW q
        PROVE  Entry(ord2, c, q, s) = Entry(ord, c, q, s)
    BY <1>1 DEF Entry, SameOrders, SameOrder
  <1>2. ASSUME NEW c \in BOOLEAN, NEW q \in Prices, NEW s \in Slots, In(L[c][q], s)
        PROVE  s # x <=> ord[s].id # ord2[x].id
    BY <1>2 DEF Listed, IdAt
  <1>3. \A c, q, s : Entry(ord, c, q, s).id = ord[s].id
    BY DEF Entry
  <1> SUFFICES ASSUME NEW r
               PROVE  Rests(ord2, L2, r) <=> \/ Rests(ord, L, r) /\ r.id # ord2[x].id
                                             \/ r = Entry(ord2, b, p, x)
    BY DEF RestsToo
  <1>4. ASSUME Rests(ord2, L2, r)
        PROVE  \/ Rests(ord, L, r) /\ r.id # ord2[x].id
               \/ r = Entry(ord2, b, p, x)
    <2>1. PICK c \in BOOLEAN, q \in Prices, s \in Slots : In(L2[c][q], s) /\ r = Entry(ord2, c, q, s)
      BY <1>4 DEF Rests
    <2>2. \/ In(L[c][q], s) /\ s # x
          \/ c = b /\ q = p /\ s = x
      BY <2>1 DEF Comes
    <2>3. CASE c = b /\ q = p /\ s = x
      BY <2>1, <2>3
    <2>4. CASE In(L[c][q], s) /\ s # x
      <3>1. r = Entry(ord, c, q, s)
        BY <1>1, <2>1, <2>4
      <3> QED
        BY <1>2, <1>3, <2>4, <3>1 DEF Rests
    <2> QED
      BY <2>2, <2>3, <2>4
  <1>5. ASSUME Rests(ord, L, r), r.id # ord2[x].id
        PROVE  Rests(ord2, L2, r)
    <2>1. PICK c \in BOOLEAN, q \in Prices, s \in Slots : In(L[c][q], s) /\ r = Entry(ord, c, q, s)
      BY <1>5 DEF Rests
    <2>2. s # x
      BY <1>2, <1>3, <1>5, <2>1
    <2>3. In(L2[c][q], s) /\ r = Entry(ord2, c, q, s)
      BY <1>1, <2>1, <2>2 DEF Comes
    <2> QED
      BY <2>3 DEF Rests
  <1>6. ASSUME r = Entry(ord2, b, p, x)
        PROVE  Rests(ord2, L2, r)
    <2>1. In(L2[b][p], x)
      BY DEF Comes
    <2> QED
      BY <1>6, <2>1 DEF Rests
  <1> QED
    BY <1>4, <1>5, <1>6

\* The orders of S with another id.
Others(S, id) == {r \in S : r.id # id}

LEMMA SoundShape ==
    ASSUME Sound
    PROVE  /\ PoolTypeOK /\ index = ActivePrices(levels)
           /\ \E L, F, X : Shape(L, F, X) /\ (OnLadder => X = {})
  BY SoundTo

LEMMA ShapeOwnIds ==
    ASSUME NEW L, NEW F, NEW X, Shape(L, F, X)
    PROVE  OwnIds(orders, L)
  BY DEF Shape, GoodIds, OwnIds

\* The orders that rest are those of the live ids, one of each.
LEMMA RestingLive ==
    ASSUME Sound
    PROVE  /\ \A r \in Resting : /\ r \in Calls /\ r.id \in LiveIds /\ r.id \in Slots
                                 /\ r.price \in Prices /\ r.id # call.id
           /\ \A id \in LiveIds : \E r \in Resting : r.id = id
           /\ \A r, t \in Resting : r.id = t.id => r = t
  <1>1. PICK L, F, X : Shape(L, F, X)
    BY SoundShape
  <1>2. PoolTypeOK /\ orders \in Pools
    BY SoundShape, PoolTypes
  <1>3. \A r : r \in Resting <=> Rests(orders, L, r)
    BY <1>1, RestingIs
  <1>4. /\ \A s \in Slots : Listed(L, s) => orders[s].id \in LiveIds /\ orders[s].id # call.id
        /\ \A id \in LiveIds : id_map[id] \in Slots /\ Listed(L, id_map[id])
                               /\ orders[id_map[id]].id = id
    <2>1. \A s \in Slots : Listed(L, s) => orders[s].id # call.id
      BY <1>1 DEF Shape, GoodIds
    <2> QED
      BY <1>1, <1>2, <2>1, LiveListed
  <1>5. ASSUME NEW r \in Resting
        PROVE  /\ r \in Calls /\ r.id \in LiveIds /\ r.id \in Slots
               /\ r.price \in Prices /\ r.id # call.id
    <2>1. PICK b \in BOOLEAN, p \in Prices, s \in Slots : In(L[b][p], s) /\ r = Entry(orders, b, p, s)
      BY <1>3 DEF Rests
    <2>2. orders[s].id \in Slots /\ orders[s].qty \in Nat
      BY <1>2 DEF Pools, Nodes
    <2>3. r.id = orders[s].id /\ r.price = p
      BY <2>1 DEF Entry
    <2>4. orders[s].id \in Ids \cup {-1} /\ p \in 0..MAX_PRICES
      BY <2>2, PoolAssumption, LadderAssumption DEF Slots, Ids, Prices
    <2>5. r \in Calls
      BY <2>1, <2>2, <2>4 DEF Entry, Calls
    <2>6. Listed(L, s)
      BY <2>1 DEF Listed
    <2> QED
      BY <1>4, <2>2, <2>3, <2>5, <2>6
  <1>6. ASSUME NEW id \in LiveIds
        PROVE  \E r \in Resting : r.id = id
    <2>1. PICK s \in Slots : Listed(L, s) /\ orders[s].id = id
      BY <1>4
    <2>2. PICK b \in BOOLEAN, p \in Prices : In(L[b][p], s)
      BY <2>1 DEF Listed
    <2>3. Rests(orders, L, Entry(orders, b, p, s)) /\ Entry(orders, b, p, s).id = id
      BY <2>1, <2>2 DEF Rests, Entry
    <2> QED
      BY <1>3, <2>3
  <1>7. ASSUME NEW r \in Resting, NEW t \in Resting, r.id = t.id
        PROVE  r = t
    <2>1. PICK b \in BOOLEAN, p \in Prices, s \in Slots : In(L[b][p], s) /\ r = Entry(orders, b, p, s)
      BY <1>3 DEF Rests
    <2>2. PICK c \in BOOLEAN, q \in Prices, u \in Slots : In(L[c][q], u) /\ t = Entry(orders, c, q, u)
      BY <1>3 DEF Rests
    <2>3. orders[s].id = orders[u].id /\ Listed(L, s) /\ Listed(L, u)
      BY <1>7, <2>1, <2>2 DEF Entry, Listed
    <2>4. s = u
      BY <1>1, <2>3, ShapeOwnIds DEF OwnIds
    <2>5. Rep(orders, levels, next_free_order_idx, L, F, X)
      BY <1>1 DEF Shape
    <2>6. b = c /\ p = q
      <3>1. orders[s].is_buy = b /\ orders[s].price = p
        BY <2>1, <2>5 DEF Rep
      <3>2. orders[s].is_buy = c /\ orders[s].price = q
        BY <2>2, <2>4, <2>5 DEF Rep
      <3> QED
        BY <3>1, <3>2
    <2> QED
      BY <2>1, <2>2, <2>4, <2>6
  <1> QED
    BY <1>5, <1>6, <1>7

\* There is a free slot for an order whose id is in the table.
LEMMA RoomForCall ==
    ASSUME PoolTypeOK, NEW L, NEW F, Shape(L, F, {}), call.id \in Slots
    PROVE  next_free_order_idx # NULL_IDX
  <1> DEFINE R == Book!RestingIds
  <1>1. \A id \in R : id \in Slots \ {call.id}
    <2>1. ASSUME NEW id \in R
          PROVE  id \in Slots \ {call.id}
      <3>1. PICK s \in Slots : Listed(L, s) /\ orders[s].id = id
        BY RestingAre
      <3>2. orders[s].id # call.id
        BY <3>1 DEF Shape, GoodIds
      <3>3. orders[s].id \in Slots
        BY PoolTypes DEF Pools, Nodes
      <3> QED
        BY <3>1, <3>2, <3>3
    <2> QED
      BY <2>1
  <1>2. IsFiniteSet(Slots) /\ Cardinality(Slots) = MaxOrders
    <2>1. 0 \in Int /\ MaxOrders - 1 \in Int
      BY PoolAssumption
    <2>2. /\ IsFiniteSet(0..(MaxOrders - 1))
          /\ Cardinality(0..(MaxOrders - 1)) =
                IF 0 > MaxOrders - 1 THEN 0 ELSE (MaxOrders - 1) - 0 + 1
      BY <2>1, FS_Interval
    <2> QED
      BY <2>2, PoolAssumption DEF Slots
  <1> HIDE DEF R
  <1>3. /\ IsFiniteSet(R) /\ Cardinality(R) <= Cardinality(Slots) /\ R # Slots
        /\ Cardinality(R) \in Nat
        /\ Cardinality(R) = Cardinality(Slots) => R = Slots
    <2>1. R \in SUBSET Slots /\ R # Slots
      BY <1>1
    <2> QED
      BY <1>2, <2>1, FS_Subset, FS_CardinalityType
  <1>4. Cardinality(R) < MaxOrders
    BY <1>2, <1>3, PoolAssumption
  <1> QED
    BY <1>4, RoomIs DEF R

LEMMA SameResting ==
    ASSUME UNCHANGED <<orders, levels>>
    PROVE  Resting' = Resting /\ HeadsKept
  <1>1. Resting' = Resting
    BY DEF Resting, OnLevels, LevelChain, Chain
  <1> QED
    BY <1>1 DEF HeadsKept

-----------------------------------------------------------------------------
(* What the operations do to the orders that rest *)

\* add_order() of an order with a quantity left.
LEMMA StoredRests ==
    ASSUME Sound, OnLadder, add_order, call.id \in Slots, call.qty > 0
    PROVE  Resting' = Resting \cup {call} /\ HeadsKept
  <1>1. PoolTypeOK /\ call.price \in Prices /\ call \in Calls /\ Return
        /\ orders \in Pools /\ levels \in Ladders
    BY SoundShape, PoolTypes DEF OnLadder, add_order
  <1>2. PICK L, F : Shape(L, F, {})
    BY SoundShape
  <1>3. CanStore
    BY <1>1, <1>2, RoomForCall DEF CanStore
  <1>4. PICK b \in BOOLEAN, p \in Prices : b = call.is_buy /\ p = call.price
    BY <1>1 DEF Calls
  <1>5. PICK x : x = next_free_order_idx
    OBVIOUS
  <1> DEFINE L2 == Put(L, b, p, Append(L[b][p], x))
  <1>6. Shape(L2, Without(F, 1), {})'
    BY <1>1, <1>2, <1>3, <1>4, <1>5, ReturnShape
  <1>7. /\ x \in Slots /\ ~Listed(L, x)
        /\ orders'[x].id = call.id /\ orders'[x].qty = call.qty
        /\ SameOrders(orders, orders', x)
    BY <1>1, <1>2, <1>3, <1>4, <1>5, RestOrders
  <1>8. Rep(orders, levels, x, L, F, {}) /\ L \in ListTables
    BY <1>2, <1>5 DEF Shape, Rep, ListTables
  <1>9. Comes(L, L2, b, p, x)
    BY <1>7, <1>8, AppendComes
  <1>10. \A s \in Slots : Listed(L, s) => s # x /\ orders[s].id # orders'[x].id
    BY <1>2, <1>7 DEF Shape, GoodIds
  <1> HIDE DEF L2
  <1>11. RestsToo(orders, L, orders', L2, b, p, x)
    <2>1. IdAt(orders, L, x, orders'[x].id)
      BY <1>10 DEF IdAt
    <2> QED
      BY <1>7, <1>9, <2>1, ComesRests
  <1>12. \A r : Rests(orders, L, r) => r.id # orders'[x].id
    <2>1. ASSUME NEW r, Rests(orders, L, r)
          PROVE  r.id # orders'[x].id
      <3>1. PICK c \in BOOLEAN, q \in Prices, s \in Slots : In(L[c][q], s) /\ r = Entry(orders, c, q, s)
        BY <2>1 DEF Rests
      <3>2. Listed(L, s) /\ r.id = orders[s].id
        BY <3>1 DEF Listed, Entry
      <3> QED
        BY <1>10, <3>2
    <2> QED
      BY <2>1
  <1>13. Entry(orders', b, p, x) = call
    <2>1. call = [id |-> call.id, price |-> call.price, qty |-> call.qty, is_buy |-> call.is_buy]
      BY <1>1 DEF Calls
    <2> QED
      BY <1>4, <1>7, <2>1 DEF Entry
  <1>14. Resting' = Resting \cup {call}
    <2>1. \A r : r \in Resting' <=> Rests(orders', L2, r)
      BY <1>6, RestingIsPrime
    <2>2. \A r : r \in Resting <=> Rests(orders, L, r)
      BY <1>2, RestingIs
    <2> QED
      BY <1>11, <1>12, <1>13, <2>1, <2>2 DEF RestsToo
  <1>15. HeadsKept
    <2> SUFFICES ASSUME HeadsReset(orders, levels)
                 PROVE  HeadsReset(orders', levels')
      BY DEF HeadsKept
    <2>1. PICK lv, t : lv = levels[b][p] /\ t = Link(Stored, lv, x)
      OBVIOUS
    <2>2. Store
      BY <1>1, <1>3 DEF Return
    <2>3. /\ lv \in Levels /\ Linkable(lv) /\ orders' = t.pool
          /\ levels' = Put(levels, b, p, t.level)
      BY <1>1, <1>3, <1>4, <1>5, <2>1, <2>2, StoreSteps
    <2>4. /\ Stored \in Pools /\ \A s \in Slots : s # x => Stored[s] = orders[s]
      BY <1>1, <1>3, <1>5, StoredFields
    <2>5. \A c \in BOOLEAN, q \in Prices : levels[c][q].head # x
      BY <1>7, <1>8, UnlistedNoHead
    <2>6. HeadsReset(Stored, levels)
      <3>1. \A c \in BOOLEAN, q \in Prices : levels[c][q].head \in Slots \cup {NULL_IDX}
        BY <1>1 DEF Ladders, Levels, Links
      <3> QED
        BY <2>4, <2>5, <3>1 DEF HeadsReset
    <2>7. lv.tail # x
      <3>1. IsLevel(orders, lv, L[b][p]) /\ \A k \in 1..Len(L[b][p]) : L[b][p][k] # x
        BY <1>7, <1>8, <2>1 DEF Rep, Listed, In
      <3> QED
        BY <1>1, <1>7, <2>3, <3>1, LinkLevel
    <2>8. HeadsReset(t.pool, Put(levels, b, p, t.level))
      BY <1>1, <1>7, <2>1, <2>3, <2>4, <2>5, <2>6, <2>7, LinkHeads
    <2> QED
      BY <2>3, <2>8
  <1> QED
    BY <1>14, <1>15

\* add_order() of an order that is filled.
LEMMA FilledRests ==
    ASSUME add_order, ~(call.qty > 0)
    PROVE  Resting' = Resting /\ HeadsKept /\ call' = Idle
  <1>1. UNCHANGED <<orders, levels>> /\ call' = Idle
    BY DEF add_order, Return, CanStore, pool
  <1> QED
    BY <1>1, SameResting

LEMMA ResetRests ==
    ASSUME Sound, init
    PROVE  Resting' = {} /\ HeadsReset(orders', levels') /\ OnLadder'
  <1>1. PoolTypeOK /\ PoolReset /\ call' = Idle
    BY SoundShape DEF init, PoolReset
  <1>2. Shape(EmptyLists, AllFree, {})'
    BY <1>1, ResetShape
  <1>3. \A r : r \in Resting' <=> Rests(orders', EmptyLists, r)
    BY <1>2, RestingIsPrime
  <1>4. \A r : ~Rests(orders', EmptyLists, r)
    BY EmptyListed DEF Rests, Listed
  <1>5. HeadsReset(orders', levels')
    BY <1>1 DEF PoolReset, EmptyLevels, HeadsReset
  <1>6. OnLadder'
    <2>1. Lost' = {}
      BY <1>2, ShapeIntactPrime
    <2>2. call'.price \in Prices
      BY <1>1, IdleInRange
    <2> QED
      BY <2>1, <2>2 DEF OnLadder
  <1> QED
    BY <1>3, <1>4, <1>5, <1>6

\* cancel_order() of an order that rests.
LEMMA CancelRests ==
    ASSUME Sound, NEW id, id \in LiveIds, MayTouch(id), cancel_order(id)
    PROVE  Resting' = Others(Resting, id) /\ HeadsKept
  <1>1. PoolTypeOK /\ orders \in Pools /\ levels \in Ladders
    BY SoundShape, PoolTypes
  <1>2. PICK L, F, X : Shape(L, F, X)
    BY SoundShape
  <1>3. HasEntry(id) /\ UNCHANGED <<call, clients>> /\ Remove(id)
    BY DEF LiveIds, cancel_order
  <1>4. PICK x, b, p : OrderAt(id, x, b, p)
    BY DEF OrderAt
  <1>5. PoolTypeOK' /\ Removed(id, x, b, p)
    BY <1>1, <1>3, <1>4, RemoveFields
  <1>6. /\ id \in Slots /\ x \in Slots /\ b \in BOOLEAN /\ p \in Prices
        /\ levels' = Put(levels, b, p, Unlink(orders, levels[b][p], x).level)
        /\ IsFreed(orders', Unlink(orders, levels[b][p], x).pool, x, next_free_order_idx)
    BY <1>5 DEF Removed
  <1>7. /\ orders[x].id = id
        /\ \E k : IsAt(L, b, p, k, x) /\ HeadReset(orders, k, x)
    BY <1>1, <1>2, <1>3, <1>4, <1>6, TouchedSlot DEF OrderAt
  <1>8. PICK k : IsAt(L, b, p, k, x) /\ HeadReset(orders, k, x)
    BY <1>7
  <1>9. Shape(OffLists(L, b, p, k), <<x>> \o F, X)'
    BY <1>1, <1>2, <1>3, <1>4, <1>6, <1>7, <1>8, RemoveShape DEF OffLists
  <1>10. Rep(orders, levels, next_free_order_idx, L, F, X)
    BY <1>2 DEF Shape
  <1>11. Leaves(L, OffLists(L, b, p, k), x) /\ Listed(L, x)
    BY <1>6, <1>8, <1>10, OffLeaves, ListedWithout
  <1>12. PICK up : up = Unlink(orders, levels[b][p], x).pool
    OBVIOUS
  <1>13. up \in Pools /\ SameData(up, orders)
    BY <1>1, <1>6, <1>12, UnlinkFields DEF Ladders
  <1>14. SameOrders(orders, orders', x)
    BY <1>6, <1>12, <1>13 DEF IsFreed, SameData, SameOrders, SameOrder
  <1>15. OwnIds(orders, L)
    BY <1>2, ShapeOwnIds
  <1>16. Resting' = Others(Resting, id)
    <2>1. \A r : r \in Resting' <=> Rests(orders', OffLists(L, b, p, k), r)
      BY <1>9, RestingIsPrime
    <2>2. \A r : r \in Resting <=> Rests(orders, L, r)
      BY <1>2, RestingIs
    <2>3. \A r : Rests(orders', OffLists(L, b, p, k), r) <=> Rests(orders, L, r) /\ r.id # id
      BY <1>6, <1>7, <1>11, <1>14, <1>15, LeavesRests
    <2> QED
      BY <2>1, <2>2, <2>3 DEF Others
  <1>17. HeadsKept
    <2> SUFFICES ASSUME HeadsReset(orders, levels)
                 PROVE  HeadsReset(orders', levels')
      BY DEF HeadsKept
    <2>1. HeadsReset(up, levels')
      BY <1>1, <1>6, <1>8, <1>10, <1>12, UnlinkHeads
    <2>2. \A s \in Slots : orders'[s].prev = IF s = x THEN NULL_IDX ELSE up[s].prev
      BY <1>6, <1>12 DEF IsFreed
    <2>3. \A c \in BOOLEAN, q \in Prices : levels'[c][q].head \in Slots \cup {NULL_IDX}
      BY <1>5, PoolTypesPrime DEF Ladders, Levels, Links
    <2> QED
      BY <2>1, <2>2, <2>3 DEF HeadsReset
  <1> QED
    BY <1>16, <1>17

\* The order in slot x comes to price q, or stays there, with quantity n.
LEMMA RenewedRests ==
    ASSUME NEW L, NEW F, NEW X, Shape(L, F, X), NEW L2, Shape(L2, F, X)',
           NEW b, NEW p, NEW k, NEW x, Touched(L, b, p, k, x), NEW q \in Prices, NEW n,
           OnlyQty(x, n), Comes(L, L2, b, q, x), NEW id, orders[x].id = id
    PROVE  Resting' = Others(Resting, id) \cup
                         {[id |-> id, is_buy |-> b, price |-> q, qty |-> n]}
  <1>1. /\ x \in Slots /\ b \in BOOLEAN /\ p \in Prices /\ IsAt(L, b, p, k, x)
    BY DEF Touched
  <1>2. orders'[x].id = id /\ orders'[x].qty = n /\ SameOrders(orders, orders', x)
    BY <1>1 DEF OnlyQty, SameOrders, SameOrder
  <1>3. Listed(L, x)
    BY <1>1 DEF Listed, In, IsAt
  <1>4. IdAt(orders, L, x, orders'[x].id)
    BY <1>1, <1>2, <1>3, ShapeOwnIds DEF OwnIds, IdAt
  <1>5. RestsToo(orders, L, orders', L2, b, q, x)
    BY <1>1, <1>2, <1>4, ComesRests
  <1>6. Entry(orders', b, q, x) = [id |-> id, is_buy |-> b, price |-> q, qty |-> n]
    BY <1>2 DEF Entry
  <1>7. \A r : r \in Resting' <=> Rests(orders', L2, r)
    BY RestingIsPrime
  <1>8. \A r : r \in Resting <=> Rests(orders, L, r)
    BY RestingIs
  <1> QED
    BY <1>2, <1>5, <1>6, <1>7, <1>8 DEF Others, RestsToo

LEMMA MovedComes ==
    ASSUME NEW ord, NEW lev, NEW nf, NEW L, NEW F, NEW X, Rep(ord, lev, nf, L, F, X),
           NEW b \in BOOLEAN, NEW p \in Prices, NEW k, NEW x, IsAt(L, b, p, k, x),
           NEW q \in Prices
    PROVE  Comes(L, MovedLists(L, b, p, q, k, x), b, q, x)
  <1>1. PICK L1 : L1 = OffLists(L, b, p, k)
    OBVIOUS
  <1>2. Leaves(L, L1, x) /\ L1 \in ListTables /\ x \in Slots
    BY <1>1, OffLeaves, ListedWithout
  <1>3. ~Listed(L1, x)
    BY <1>2 DEF Leaves, Listed
  <1>4. Comes(L1, Put(L1, b, q, Append(L1[b][q], x)), b, q, x)
    BY <1>2, <1>3, AppendComes
  <1>5. Comes(L1, MovedLists(L, b, p, q, k, x), b, q, x)
    BY <1>1, <1>4 DEF MovedLists
  <1> HIDE DEF MovedLists
  <1> QED
    BY <1>2, <1>5 DEF Leaves, Comes

\* replace_order() of an order that rests.
LEMMA ReplaceRests ==
    ASSUME Sound, NEW id, id \in LiveIds, MayTouch(id), NEW q \in Prices, NEW n \in Nat,
           replace_order(id, q, n)
    PROVE  /\ HeadsKept
           /\ \E r \in Resting :
                 /\ r.id = id
                 /\ Resting' = Others(Resting, id) \cup
                       {[id |-> id, is_buy |-> r.is_buy, price |-> q, qty |-> n]}
  <1>1. PoolTypeOK /\ index = ActivePrices(levels)
    BY SoundShape
  <1>2. PICK L, F, X : Shape(L, F, X)
    BY SoundShape
  <1>3. HasEntry(id)
    BY DEF LiveIds
  <1>4. PICK b, p, k, x : /\ x = id_map[id] /\ Touched(L, b, p, k, x)
                          /\ \/ ReplaceKeeps(q, n, L, F, X, p, x)
                             \/ ReplaceMoves(q, n, L, F, X, b, p, k, x)
    BY <1>1, <1>2, <1>3, ReplaceStep
  <1>5. /\ x \in Slots /\ b \in BOOLEAN /\ p \in Prices /\ IsAt(L, b, p, k, x)
    BY <1>4 DEF Touched
  <1>6. orders[x].id = id
    BY <1>1, <1>2, <1>4, LiveListed
  <1>7. Rep(orders, levels, next_free_order_idx, L, F, X)
    BY <1>2 DEF Shape
  <1>8. PICK L2 : Shape(L2, F, X)' /\ OnlyQty(x, n) /\ HeadsKept /\ Comes(L, L2, b, q, x)
    <2>1. CASE ReplaceKeeps(q, n, L, F, X, p, x)
      <3>1. p = q /\ Shape(L, F, X)' /\ OnlyQty(x, n) /\ HeadsKept
        BY <2>1 DEF ReplaceKeeps, ReplaceResult
      <3>2. OnlyAt(L, b, p, x) /\ In(L[b][p], x)
        BY <1>5, <1>7, PlaceOnly DEF In, IsAt
      <3>3. ASSUME NEW c \in BOOLEAN, NEW r \in Prices, NEW s \in Slots
            PROVE  In(L[c][r], s) <=> \/ In(L[c][r], s) /\ s # x
                                      \/ c = b /\ r = q /\ s = x
        <4>1. CASE <<c, r>> = <<b, p>>
          BY <3>1, <3>2, <4>1
        <4>2. CASE <<c, r>> # <<b, p>>
          BY <3>1, <3>2, <4>2 DEF OnlyAt
        <4> QED
          BY <4>1, <4>2
      <3>4. Comes(L, L, b, q, x)
        BY <3>3 DEF Comes
      <3> QED
        BY <3>1, <3>4
    <2>2. CASE ReplaceMoves(q, n, L, F, X, b, p, k, x)
      <3>1. Shape(MovedLists(L, b, p, q, k, x), F, X)' /\ OnlyQty(x, n) /\ HeadsKept
        BY <2>2 DEF ReplaceMoves, ReplaceResult
      <3>2. Comes(L, MovedLists(L, b, p, q, k, x), b, q, x)
        BY <1>5, <1>7, MovedComes
      <3> QED
        BY <3>1, <3>2
    <2> QED
      BY <1>4, <2>1, <2>2
  <1>9. Resting' = Others(Resting, id) \cup
                      {[id |-> id, is_buy |-> b, price |-> q, qty |-> n]}
    BY <1>2, <1>4, <1>6, <1>8, RenewedRests
  <1>10. Entry(orders, b, p, x) \in Resting
    <2>1. In(L[b][p], x)
      BY <1>5 DEF In, IsAt
    <2> QED
      BY <1>2, <1>5, <2>1, RestingIs DEF Rests
  <1>11. Entry(orders, b, p, x).id = id /\ Entry(orders, b, p, x).is_buy = b
    BY <1>6 DEF Entry
  <1> QED
    BY <1>8, <1>9, <1>10, <1>11

\* A trade of match() that fills the resting order.
LEMMA TradeRests ==
    ASSUME Sound, match, \A r \in Resting : r.qty <= call.qty
    PROVE  \E r \in Resting : /\ Resting' = Others(Resting, r.id)
                              /\ r.is_buy = ~call.is_buy
                              /\ call' = [call EXCEPT !.qty = @ - r.qty]
  <1>1. PoolTypeOK /\ index = ActivePrices(levels) /\ call \in Calls /\ orders \in Pools
    BY SoundShape, PoolTypes
  <1>2. PICK L, F, X : Shape(L, F, X)
    BY SoundShape
  <1>3. PICK side \in BOOLEAN, p \in Prices : side = ~call.is_buy /\ p = best
    BY <1>1, BestHasOrder DEF match
  <1>4. PICK x, t : TradeOf(side, p, x, t)
    <2>1. IsHead(levels, side, p, levels[side][p].head)
      BY <1>1, <1>3, BestHasOrder DEF match
    <2> QED
      BY <1>3, <2>1 DEF TradeOf
  <1>5. Trade(p)
    BY <1>3 DEF match
  <1>6. PoolTypeOK' /\ Traded(side, p, x, t)
    BY <1>1, <1>3, <1>4, <1>5, TradeFields
  <1>7. /\ x \in Slots /\ t \in Nat /\ t = Min({call.qty, orders[x].qty})
        /\ call' = [call EXCEPT !.qty = @ - t]
        /\ TradedPool(orders, orders', x, orders[x].qty - t)
    BY <1>6 DEF Traded
  <1>8. /\ IsAt(L, side, p, 1, x)
        /\ t = orders[x].qty => Shape(OffLists(L, side, p, 1), <<x>> \o F, X)'
    BY <1>1, <1>2, <1>3, <1>4, <1>5, TradeShape DEF OffLists
  <1>9. Entry(orders, side, p, x) \in Resting
    <2>1. In(L[side][p], x)
      BY <1>8 DEF In, IsAt
    <2> QED
      BY <1>2, <1>3, <1>7, <2>1, RestingIs DEF Rests
  <1>10. PICK r \in Resting : r = Entry(orders, side, p, x)
    BY <1>9
  <1>11. r.id = orders[x].id /\ r.is_buy = side /\ r.qty = orders[x].qty
    BY <1>10 DEF Entry
  <1>12. t = orders[x].qty
    <2>1. orders[x].qty \in Nat /\ call.qty \in Nat
      BY <1>1, <1>7 DEF Pools, Nodes, Calls
    <2>2. orders[x].qty <= call.qty
      BY <1>11
    <2> QED
      BY <1>7, <2>1, <2>2, MinOfTwo
  <1>13. Rep(orders, levels, next_free_order_idx, L, F, X)
    BY <1>2 DEF Shape
  <1>14. Leaves(L, OffLists(L, side, p, 1), x) /\ Listed(L, x)
    BY <1>3, <1>8, <1>13, OffLeaves, ListedWithout
  <1>15. SameOrders(orders, orders', x)
    BY <1>7 DEF TradedPool, SameOrders, SameOrder
  <1>16. OwnIds(orders, L)
    BY <1>2, ShapeOwnIds
  <1>17. Resting' = Others(Resting, r.id)
    <2>1. \A v : v \in Resting' <=> Rests(orders', OffLists(L, side, p, 1), v)
      BY <1>8, <1>12, RestingIsPrime
    <2>2. \A v : v \in Resting <=> Rests(orders, L, v)
      BY <1>2, RestingIs
    <2>3. \A v : Rests(orders', OffLists(L, side, p, 1), v) <=>
                    Rests(orders, L, v) /\ v.id # r.id
      BY <1>7, <1>11, <1>14, <1>15, <1>16, LeavesRests
    <2> QED
      BY <2>1, <2>2, <2>3 DEF Others
  <1> QED
    BY <1>3, <1>7, <1>11, <1>12, <1>17

\* Neither break of match() is taken exactly if an order of the other side
\* rests at a price in reach.
LEMMA CrossesResting ==
    ASSUME Sound, call.price \in Prices
    PROVE  Crosses <=> /\ call.qty > 0
                       /\ \E r \in Resting :
                             /\ r.is_buy = ~call.is_buy
                             /\ IF call.is_buy THEN r.price <= call.price
                                ELSE r.price >= call.price
  <1>1. /\ PoolTypeOK /\ index = ActivePrices(levels) /\ call \in Calls
        /\ levels \in Ladders
    BY SoundShape, PoolTypes
  <1>2. PICK L, F, X : Shape(L, F, X)
    BY SoundShape
  <1>3. PICK side \in BOOLEAN : side = ~call.is_buy
    OBVIOUS
  <1>4. \A p \in Prices : p \in index[side] <=> \E r \in Resting : r.is_buy = side /\ r.price = p
    <2> SUFFICES ASSUME NEW p \in Prices
                 PROVE  p \in index[side] <=> \E r \in Resting : r.is_buy = side /\ r.price = p
      OBVIOUS
    <2>1. Rep(orders, levels, next_free_order_idx, L, F, X)
      BY <1>2 DEF Shape
    <2>2. IsChain(orders, levels[side][p].head, L[side][p]) /\ L[side][p] \in Seq(Slots)
      BY <2>1 DEF Rep, IsLevel
    <2>3. p \in index[side] <=> levels[side][p].head # NULL_IDX
      BY <1>1 DEF ActivePrices
    <2>4. levels[side][p].head # NULL_IDX <=> \E s \in Slots : In(L[side][p], s)
      <3>1. PICK l : l = L[side][p]
        OBVIOUS
      <3>2. l \in Seq(Slots) /\ Len(l) \in Nat /\ IsChain(orders, levels[side][p].head, l)
        BY <2>2, <3>1
      <3>3. CASE Len(l) = 0
        BY <3>1, <3>2, <3>3 DEF IsChain, In
      <3>4. CASE Len(l) # 0
        <4>1. 1 \in 1..Len(l) /\ l[1] \in Slots
          BY <3>2, <3>4
        <4> QED
          BY <3>1, <3>2, <3>4, <4>1, SlotsNotNull DEF IsChain, In
      <3> QED
        BY <3>3, <3>4
    <2>5. \A r : r \in Resting <=> Rests(orders, L, r)
      BY <1>2, RestingIs
    <2>6. ASSUME NEW s \in Slots, In(L[side][p], s)
          PROVE  \E r \in Resting : r.is_buy = side /\ r.price = p
      <3>1. Entry(orders, side, p, s) \in Resting
        BY <2>5, <2>6 DEF Rests
      <3>2. Entry(orders, side, p, s).is_buy = side /\ Entry(orders, side, p, s).price = p
        BY DEF Entry
      <3> QED
        BY <3>1, <3>2
    <2>7. ASSUME NEW r \in Resting, r.is_buy = side, r.price = p
          PROVE  \E s \in Slots : In(L[side][p], s)
      <3>1. PICK c \in BOOLEAN, q \in Prices, s \in Slots : In(L[c][q], s) /\ r = Entry(orders, c, q, s)
        BY <2>5 DEF Rests
      <3>2. c = side /\ q = p
        BY <2>7, <3>1 DEF Entry
      <3> QED
        BY <3>1, <3>2
    <2> QED
      BY <2>3, <2>4, <2>6, <2>7
  <1>5. \A r \in Resting : r.price \in Prices
    BY RestingLive
  <1>6. index[side] \in SUBSET Prices
    BY <1>1, ActiveType
  <1>7. ASSUME call.qty > 0, NEW r \in Resting, r.is_buy = side,
               IF call.is_buy THEN r.price <= call.price ELSE r.price >= call.price
        PROVE  Crosses
    <2>1. r.price \in index[side] /\ index[side] # {}
      BY <1>4, <1>5, <1>7
    <2>2. CASE call.is_buy
      <3>1. side = FALSE
        BY <1>3, <2>2
      <3>2. best <= call.price
        <4>1. index[FALSE] \in SUBSET Prices /\ r.price \in index[FALSE] /\ ~(call.price < r.price)
          <5>1. call.price \in Int /\ r.price \in Int
            BY <1>5 DEF Prices
          <5>2. r.price <= call.price
            BY <1>7, <2>2, Zenon
          <5>3. ~(call.price < r.price)
            BY <5>1, <5>2
          <5> QED
            BY <1>6, <2>1, <3>1, <5>3
        <4> QED
          BY <2>2, <4>1, BelowMin DEF best
      <3> QED
        BY <1>3, <1>7, <2>1, <2>2, <3>2 DEF Crosses, InReach
    <2>3. CASE ~call.is_buy
      <3>1. side = TRUE
        BY <1>3, <2>3
      <3>2. best >= call.price
        <4>1. index[TRUE] \in SUBSET Prices /\ r.price \in index[TRUE] /\ ~(r.price < call.price)
          <5>1. call.price \in Int /\ r.price \in Int
            BY <1>5 DEF Prices
          <5>2. r.price >= call.price
            BY <1>7, <2>3, Zenon
          <5>3. ~(r.price < call.price)
            BY <5>1, <5>2
          <5> QED
            BY <1>6, <2>1, <3>1, <5>3
        <4> QED
          BY <2>3, <4>1, AboveMax DEF best
      <3> QED
        BY <1>3, <1>7, <2>1, <2>3, <3>2 DEF Crosses, InReach
    <2> QED
      BY <2>2, <2>3
  <1>8. ASSUME Crosses
        PROVE  \E r \in Resting :
                  /\ r.is_buy = side
                  /\ IF call.is_buy THEN r.price <= call.price ELSE r.price >= call.price
    <2>1. best \in index[side] /\ best \in Prices
      BY <1>1, <1>3, <1>8, BestHasOrder
    <2>2. PICK r \in Resting : r.is_buy = side /\ r.price = best
      BY <1>4, <2>1
    <2> QED
      BY <1>8, <2>2 DEF Crosses, InReach
  <1>9. Crosses => call.qty > 0
    BY DEF Crosses
  <1> QED
    BY <1>3, <1>7, <1>8, <1>9

\* A book without promoted heads may be asked for any order that rests.
LEMMA HeadsMayTouch ==
    ASSUME Sound, HeadsReset(orders, levels), NEW id \in LiveIds
    PROVE  MayTouch(id)
  <1>1. PICK L, F, X : Shape(L, F, X)
    BY SoundShape
  <1>2. PoolTypeOK
    BY SoundShape
  <1>3. id \in rested /\ orders[id_map[id]].price \in Prices
    BY DEF LiveIds
  <1>4. id_map[id] \in Slots /\ orders[id_map[id]].is_buy \in BOOLEAN
    BY <1>1, <1>2, LiveListed, PoolTypes DEF Pools, Nodes
  <1>5. ~PromotedHead(id_map[id])
    BY <1>3, <1>4, SlotsNotNull DEF PromotedHead, HeadsReset
  <1> QED
    BY <1>3, <1>5 DEF MayTouch

-----------------------------------------------------------------------------
(* Scenarios 1 and 2 of benchmark_book *)

\* The book holds asks for one unit with ids below next_id, and the order in
\* progress, the newest, is such an ask or a buy at the top of the ladder.
SweepBook ==
    /\ Sound /\ OnLadder /\ next_id \in Nat
    /\ \A r \in Resting : ~r.is_buy /\ r.qty = 1 /\ r.id < next_id
    /\ call # Idle => call.id = next_id - 1 /\ call.id \in Slots
    /\ call # Idle /\ call.is_buy => call.price = MAX_PRICES - 1
    /\ ~call.is_buy => call.qty = 1

\* As many asks have come as ids are used; n asks remain when the buy in
\* progress is done.
Asking    == (call # Idle => ~call.is_buy) /\ Cardinality(Resting) + call.qty = next_id
Buying(n) == call.is_buy /\ Cardinality(Resting) = n + call.qty

SweepCount ==
    /\ at = "sparse" => next_id <= SparseOrders /\ Asking
    /\ at = "swept" => Buying(0)
    /\ at = "wide" => /\ next_id <= 2 * WideOrders
                      /\ next_id <= WideOrders => Asking
                      /\ next_id > WideOrders => Buying(2 * WideOrders - next_id)

\* Invariant of scenarios 1 and 2.
SweepInv == at \in {"sparse", "swept", "wide"} => SweepBook /\ SweepCount

LEMMA RestingFinite ==
    ASSUME Sound
    PROVE  IsFiniteSet(Resting) /\ Cardinality(Resting) \in Nat
  <1> DEFINE f == [r \in Resting |-> r.id]
  <1>1. /\ \A r \in Resting : r.id \in Slots
        /\ \A r, t \in Resting : r.id = t.id => r = t
    BY RestingLive
  <1>2. IsFiniteSet(Slots)
    <2>1. 0 \in Int /\ MaxOrders - 1 \in Int
      BY PoolAssumption
    <2> QED
      BY <2>1, FS_Interval DEF Slots
  <1>3. f \in Injection(Resting, Slots)
    <2>1. f \in [Resting -> Slots]
      BY <1>1
    <2>2. \A r, t \in Resting : f[r] = f[t] => r = t
      BY <1>1
    <2>3. DOMAIN f = Resting
      OBVIOUS
    <2> HIDE DEF f
    <2> QED
      BY <2>1, <2>2, <2>3 DEF Injection, IsInjective
  <1> HIDE DEF f
  <1>4. IsFiniteSet(Resting)
    BY <1>2, <1>3, FS_Injection
  <1> QED
    BY <1>4, FS_CardinalityType

\* The order of r leaves S, in which every id is there once.
LEMMA OthersCardinality ==
    ASSUME NEW S, IsFiniteSet(S), NEW r \in S, \A t \in S : r.id = t.id => r = t
    PROVE  Cardinality(Others(S, r.id)) = Cardinality(S) - 1
  <1>1. Others(S, r.id) = S \ {r}
    BY DEF Others
  <1> QED
    BY <1>1, FS_RemoveElement

LEMMA IdleFields == Idle.qty = 0 /\ Idle.is_buy = TRUE /\ Idle.price = 0 /\ Idle.id = -1
  BY DEF Idle

\* submit_order() has been called.
LEMMA SubmitRests ==
    ASSUME Sound, OnLadder, NEW id \in Slots, \A r \in Resting : r.id # id,
           NEW price \in Prices, NEW qty \in Nat, NEW is_buy \in BOOLEAN,
           Submit(id, price, qty, is_buy)
    PROVE  /\ Sound' /\ OnLadder' /\ Resting' = Resting /\ HeadsKept
           /\ call'.id = id /\ call'.price = price /\ call'.qty = qty /\ call'.is_buy = is_buy
           /\ call = Idle /\ call' # Idle
           /\ call' = [id |-> id, price |-> price, qty |-> qty, is_buy |-> is_buy]
  <1>1. /\ call = Idle /\ UNCHANGED <<orders, levels>>
        /\ call' = [id |-> id, price |-> price, qty |-> qty, is_buy |-> is_buy]
    BY DEF Submit, submit_order
  <1>2. id \in Ids /\ price \in 0..MAX_PRICES /\ id \notin LiveIds
    <2>1. id \in Ids /\ price \in 0..MAX_PRICES
      BY PoolAssumption, LadderAssumption DEF Slots, Ids, Prices
    <2> QED
      BY <2>1, RestingLive
  <1>3. Sound' /\ OnLadder'
    BY <1>2, SubmitInv
  <1>4. call' # Idle
    <2>1. call'.id = id /\ Idle.id = -1 /\ id # -1
      BY <1>1, SlotsNotNull DEF Idle, NULL_IDX
    <2> QED
      BY <2>1
  <1> QED
    BY <1>1, <1>3, <1>4, SameResting

LEMMA AskSubmitted ==
    ASSUME SweepBook, Asking, call = Idle, NEW price \in Prices, next_id \in Slots,
           SubmitNext(price, 1, FALSE)
    PROVE  SweepBook' /\ Asking'
  <1>1. \A r \in Resting : r.id # next_id
    <2>1. \A r \in Resting : r.id \in Slots /\ r.id < next_id
      BY RestingLive DEF SweepBook
    <2> QED
      BY <2>1, SlotsNotNull
  <1>2. /\ Sound' /\ OnLadder' /\ Resting' = Resting /\ next_id' = next_id + 1
        /\ call'.id = next_id /\ call'.qty = 1 /\ call'.is_buy = FALSE
    BY <1>1, SubmitRests DEF SweepBook, SubmitNext
  <1>3. \A r \in Resting : ~r.is_buy /\ r.qty = 1 /\ r.id < next_id + 1
    <2>1. \A r \in Resting : ~r.is_buy /\ r.qty = 1 /\ r.id < next_id /\ r.id \in Slots
      BY RestingLive DEF SweepBook
    <2>2. \A x \in Slots : x < next_id => x < next_id + 1
      BY SlotsNotNull
    <2> QED
      BY <2>1, <2>2
  <1>4. next_id \in Nat /\ next_id' - 1 = next_id /\ next_id' \in Nat
    BY <1>2 DEF SweepBook
  <1>5. Cardinality(Resting) \in Nat /\ Cardinality(Resting) = next_id
    BY <1>4, RestingFinite, IdleFields DEF SweepBook, Asking
  <1>6. SweepBook'
    BY <1>2, <1>3, <1>4 DEF SweepBook
  <1>7. Asking'
    BY <1>2, <1>5 DEF Asking
  <1> QED
    BY <1>6, <1>7

LEMMA BuySubmitted ==
    ASSUME SweepBook, call = Idle, next_id \in Slots, NEW n \in Nat,
           SubmitNext(MAX_PRICES - 1, n, TRUE)
    PROVE  SweepBook' /\ Resting' = Resting /\ call'.is_buy /\ call'.qty = n
  <1>1. \A r \in Resting : r.id # next_id
    <2>1. \A r \in Resting : r.id \in Slots /\ r.id < next_id
      BY RestingLive DEF SweepBook
    <2> QED
      BY <2>1, SlotsNotNull
  <1>2. MAX_PRICES - 1 \in Prices
    BY LadderAssumption DEF Prices
  <1>3. /\ Sound' /\ OnLadder' /\ Resting' = Resting /\ next_id' = next_id + 1
        /\ call'.id = next_id /\ call'.qty = n /\ call'.is_buy = TRUE
        /\ call'.price = MAX_PRICES - 1
    BY <1>1, <1>2, SubmitRests DEF SweepBook, SubmitNext
  <1>4. \A r \in Resting : ~r.is_buy /\ r.qty = 1 /\ r.id < next_id + 1
    <2>1. \A r \in Resting : ~r.is_buy /\ r.qty = 1 /\ r.id < next_id /\ r.id \in Slots
      BY RestingLive DEF SweepBook
    <2>2. \A x \in Slots : x < next_id => x < next_id + 1
      BY SlotsNotNull
    <2> QED
      BY <2>1, <2>2
  <1>5. next_id \in Nat /\ next_id' - 1 = next_id /\ next_id' \in Nat
    BY <1>3 DEF SweepBook
  <1> QED
    BY <1>3, <1>4, <1>5 DEF SweepBook

LEMMA AskMatching ==
    ASSUME SweepBook, Asking, match \/ add_order, next_id' = next_id
    PROVE  SweepBook' /\ Asking'
  <1>1. /\ Sound /\ OnLadder /\ call # Idle /\ ~call.is_buy /\ call.qty = 1
        /\ call.id = next_id - 1 /\ call.id \in Slots /\ next_id \in Nat
    BY DEF SweepBook, Asking, match, add_order
  <1>2. \A r \in Resting : ~r.is_buy /\ r.qty = 1 /\ r.id < next_id
    BY DEF SweepBook
  <1>3. ~Crosses
    <2>1. call.price \in Prices
      BY <1>1 DEF OnLadder
    <2> QED
      BY <1>1, <1>2, <2>1, CrossesResting
  <1>4. add_order
    BY <1>3 DEF match
  <1>5. Resting' = Resting \cup {call} /\ call' = Idle
    BY <1>1, <1>4, StoredRests DEF add_order, Return
  <1>6. Sound' /\ OnLadder'
    BY <1>1, <1>4, RestInv
  <1>7. call \notin Resting
    BY <1>1, RestingLive
  <1>8. Cardinality(Resting') = Cardinality(Resting) + 1 /\ Cardinality(Resting) \in Nat
    BY <1>1, <1>5, <1>7, RestingFinite, FS_AddElement
  <1>9. SweepBook'
    <2>1. \A r \in Resting' : ~r.is_buy /\ r.qty = 1 /\ r.id < next_id
      <3>1. ~call.is_buy /\ call.qty = 1 /\ call.id < next_id
        BY <1>1
      <3> QED
        BY <1>2, <1>5, <3>1
    <2> QED
      BY <1>1, <1>5, <1>6, <2>1, IdleFields DEF SweepBook
  <1>10. Asking'
    <2>1. Cardinality(Resting) + 1 = next_id
      BY <1>1 DEF Asking
    <2> QED
      BY <1>5, <1>8, <2>1, IdleFields DEF Asking
  <1> QED
    BY <1>9, <1>10

LEMMA BuyMatching ==
    ASSUME SweepBook, NEW m \in Nat, Buying(m), match \/ add_order, next_id' = next_id
    PROVE  SweepBook' /\ call'.is_buy /\ Cardinality(Resting') = m + call'.qty
  <1>1. /\ Sound /\ OnLadder /\ call # Idle /\ call.is_buy
        /\ call.id = next_id - 1 /\ call.id \in Slots /\ next_id \in Nat
        /\ call.price = MAX_PRICES - 1 /\ call.price \in Prices
        /\ Cardinality(Resting) = m + call.qty
    BY DEF SweepBook, Buying, match, add_order, OnLadder
  <1>2. \A r \in Resting : ~r.is_buy /\ r.qty = 1 /\ r.id < next_id
    BY DEF SweepBook
  <1>3. call \in Calls /\ call.qty \in Nat /\ IsFiniteSet(Resting) /\ Cardinality(Resting) \in Nat
    BY <1>1, SoundShape, PoolTypes, RestingFinite DEF Calls
  <1>4. Crosses <=> call.qty > 0
    <2>1. ASSUME call.qty > 0
          PROVE  \E r \in Resting : r.is_buy = ~call.is_buy /\ r.price <= call.price
      <3>1. Resting # {}
        BY <1>1, <1>3, <2>1, FS_EmptySet
      <3>2. PICK r \in Resting : TRUE
        BY <3>1
      <3>3. r.price \in Prices /\ r \in Calls
        BY <1>1, RestingLive
      <3>4. r.price <= MAX_PRICES - 1
        BY <3>3, LadderAssumption DEF Prices
      <3>5. r.is_buy = ~call.is_buy
        BY <1>1, <1>2, <3>3 DEF Calls
      <3> QED
        BY <1>1, <3>4, <3>5
    <2> QED
      BY <1>1, <2>1, CrossesResting
  <1>5. CASE add_order
    <2>1. ~(call.qty > 0) /\ call.qty = 0
      BY <1>3, <1>4, <1>5 DEF add_order
    <2>2. Resting' = Resting /\ call' = Idle
      BY <1>5, <2>1, FilledRests
    <2>3. Sound' /\ OnLadder'
      BY <1>1, <1>5, RestInv
    <2>4. SweepBook'
      BY <1>1, <1>2, <2>2, <2>3, IdleFields DEF SweepBook
    <2> QED
      BY <1>1, <2>1, <2>2, <2>4, IdleFields
  <1>6. CASE match
    <2>1. call.qty > 0
      BY <1>4, <1>6 DEF match
    <2>2. \A r \in Resting : r.qty <= call.qty
      BY <1>2, <1>3, <2>1
    <2>3. PICK r \in Resting : /\ Resting' = Others(Resting, r.id)
                               /\ call' = [call EXCEPT !.qty = @ - r.qty]
      BY <1>1, <1>6, <2>2, TradeRests
    <2>4. /\ call'.id = call.id /\ call'.price = call.price /\ call'.is_buy = call.is_buy
          /\ call'.qty = call.qty - 1
      <3>1. r.qty = 1
        BY <1>2
      <3> QED
        BY <1>3, <2>3, <3>1 DEF Calls
    <2>5. Sound' /\ OnLadder'
      BY <1>1, <1>6, MatchInv
    <2>6. Cardinality(Resting') = Cardinality(Resting) - 1
      BY <1>1, <1>3, <2>3, RestingLive, OthersCardinality
    <2>7. \A t \in Resting' : ~t.is_buy /\ t.qty = 1 /\ t.id < next_id
      BY <1>2, <2>3 DEF Others
    <2>8. SweepBook'
      BY <1>1, <2>4, <2>5, <2>7 DEF SweepBook
    <2> QED
      BY <1>1, <1>3, <2>4, <2>6, <2>8
  <1> QED
    BY <1>5, <1>6

LEMMA InitRests ==
    ASSUME Init
    PROVE  /\ Sound /\ OnLadder /\ Resting = {} /\ call = Idle
           /\ HeadsReset(orders, levels)
  <1>1. Shape(EmptyLists, AllFree, {}) /\ call = Idle
    BY InitShape DEF Init, PoolInit
  <1>2. Sound
    BY InitInv DEF IInv
  <1>3. OnLadder
    BY <1>1, ShapeIntact, IdleInRange DEF OnLadder
  <1>4. Resting = {}
    <2>1. \A r : r \in Resting <=> Rests(orders, EmptyLists, r)
      BY <1>1, RestingIs
    <2>2. \A r : ~Rests(orders, EmptyLists, r)
      BY EmptyListed DEF Rests, Listed
    <2> QED
      BY <2>1, <2>2
  <1>5. HeadsReset(orders, levels)
    BY DEF Init, PoolInit, EmptyLevels, HeadsReset
  <1> QED
    BY <1>1, <1>2, <1>3, <1>4, <1>5

\* The sizes the benchmarks choose.
LEMMA Sizes ==
    /\ MaxOrders \in Nat /\ MAX_PRICES \in Nat /\ MAX_PRICES > 1
    /\ SparseLevels \in Nat /\ SparseLevels > 0 /\ SparseLevels < MAX_PRICES
    /\ SparseOrdersPerLevel \in Nat /\ SparseOrdersPerLevel > 0
    /\ SparseOrders \in Nat /\ SparseOrders < MaxOrders
    /\ WideOrders \in Nat /\ WideOrders > 0 /\ 2 * WideOrders <= MaxOrders
    /\ WideSpread \in Nat /\ WideSpread > 0 /\ WideSpread <= MAX_PRICES
  <1>1. MaxOrders \in Nat /\ MAX_PRICES \in Nat
    BY PoolAssumption, LadderAssumption
  <1>2. /\ SparseOrdersPerLevel \in Nat \ {0} /\ SparseRounds \in Nat \ {0}
        /\ WideOrders \in Nat \ {0}
        /\ SparseLevels \in 1..(MAX_PRICES - 1) /\ WideSpread \in 1..MAX_PRICES
        /\ SparseOrders + 1 \in 1..MaxOrders /\ 2 * WideOrders \in 1..MaxOrders
    BY SizesAssumption
  <1>3. SparseOrders \in Nat
    <2>1. SparseLevels * SparseOrdersPerLevel \in Nat
      BY <1>1, <1>2
    <2> QED
      BY <1>2, <2>1 DEF SparseOrders
  <1> HIDE DEF SparseOrders
  <1> QED
    BY <1>1, <1>2, <1>3

\* The levels of scenario 1 are on the ladder.
LEMMA SparsePriceType ==
    ASSUME NEW k \in Nat
    PROVE  SparsePrice(k) \in Prices
  <1> DEFINE d == MAX_PRICES \div SparseLevels
             e == k \div SparseOrdersPerLevel
             m == e % SparseLevels
  <1>1. /\ d \in Nat /\ SparseLevels * d <= MAX_PRICES
        /\ MAX_PRICES < SparseLevels * (d + 1)
    BY Sizes
  <1>2. e \in Nat
    BY Sizes
  <1>3. m \in Nat /\ m <= SparseLevels - 1
    <2> HIDE DEF e
    <2> QED
      BY <1>2, Sizes
  <1> HIDE DEF d, m
  <1>4. SparsePrice(k) = m * d + 1
    BY DEF SparsePrice, d, m
  <1>5. m * d \in Nat /\ m * d <= (SparseLevels - 1) * d
    BY <1>1, <1>3, Sizes
  <1>6. (SparseLevels - 1) * d = SparseLevels * d - d
    BY <1>1, Sizes
  <1>7. m * d + 1 <= MAX_PRICES - 1
    <2>1. CASE d = 0
      BY <1>5, <1>6, <2>1, Sizes
    <2>2. CASE d = 1
      <3>1. SparseLevels * d = SparseLevels
        BY <2>2, Sizes
      <3> QED
        BY <1>5, <1>6, <2>2, <3>1, Sizes
    <2>3. CASE d >= 2
      <3>1. PICK y \in Nat : y = SparseLevels * d
        BY <1>1, Sizes
      <3> QED
        BY <1>1, <1>5, <1>6, <2>3, <3>1, Sizes
    <2> QED
      BY <1>1, <2>1, <2>2, <2>3
  <1> QED
    BY <1>4, <1>5, <1>7, Sizes DEF Prices

LEMMA WidePriceType ==
    ASSUME NEW k \in Nat
    PROVE  MAX_PRICES - 1 - (k % WideSpread) \in Prices
  <1>1. k % WideSpread \in Nat /\ k % WideSpread <= WideSpread - 1
    BY Sizes
  <1> QED
    BY <1>1, Sizes DEF Prices

SweepAt == at \in {"sparse", "swept", "wide"}

LEMMA SweepMatching ==
    ASSUME SweepAt, SweepBook, SweepCount, Matching
    PROVE  SweepBook' /\ SweepCount'
  <1>1. (match \/ add_order) /\ at' = at /\ next_id' = next_id
    BY DEF Matching, bench
  <1>2. next_id \in Nat
    BY DEF SweepBook
  <1>3. CASE at = "sparse"
    <2>1. Asking /\ next_id <= SparseOrders
      BY <1>3 DEF SweepCount
    <2>2. SweepBook' /\ Asking'
      BY <1>1, <2>1, AskMatching
    <2> QED
      BY <1>1, <1>3, <2>1, <2>2 DEF SweepCount
  <1>4. CASE at = "swept"
    <2>1. Buying(0) /\ 0 \in Nat
      BY <1>4 DEF SweepCount
    <2>2. SweepBook' /\ call'.is_buy /\ Cardinality(Resting') = 0 + call'.qty
      BY <1>1, <2>1, BuyMatching
    <2>3. Buying(0)'
      BY <2>2 DEF Buying
    <2> QED
      BY <1>1, <1>4, <2>2, <2>3 DEF SweepCount
  <1>5. CASE at = "wide" /\ next_id <= WideOrders
    <2>1. Asking /\ next_id <= 2 * WideOrders
      BY <1>5 DEF SweepCount
    <2>2. SweepBook' /\ Asking'
      BY <1>1, <2>1, AskMatching
    <2>3. ~(next_id > WideOrders)
      BY <1>2, <1>5, Sizes
    <2> QED
      BY <1>1, <1>5, <2>1, <2>2, <2>3 DEF SweepCount
  <1>6. CASE at = "wide" /\ next_id > WideOrders
    <2>1. PICK m : m = 2 * WideOrders - next_id
      OBVIOUS
    <2>2. Buying(m) /\ next_id <= 2 * WideOrders
      BY <1>6, <2>1 DEF SweepCount
    <2>3. m \in Nat
      BY <1>2, <2>1, <2>2, Sizes
    <2>4. SweepBook' /\ call'.is_buy /\ Cardinality(Resting') = m + call'.qty
      BY <1>1, <2>2, <2>3, BuyMatching
    <2>5. Buying(2 * WideOrders - next_id)'
      BY <1>1, <2>1, <2>4 DEF Buying
    <2>6. ~(next_id <= WideOrders)
      BY <1>2, <1>6, Sizes
    <2> QED
      BY <1>1, <1>6, <2>2, <2>4, <2>5, <2>6 DEF SweepCount
  <1>7. next_id <= WideOrders \/ next_id > WideOrders
    BY <1>2, Sizes
  <1> QED
    BY <1>3, <1>4, <1>5, <1>6, <1>7 DEF SweepAt

\* init() before scenario 2.
LEMMA SweepReset ==
    ASSUME SweepBook, init, next_id' = 0
    PROVE  SweepBook' /\ Asking'
  <1>1. Sound /\ OnLadder /\ call' = Idle
    BY DEF SweepBook, init, PoolReset
  <1>2. Sound' /\ OnLadder' /\ Resting' = {}
    BY <1>1, ResetInv, ResetRests
  <1>3. SweepBook'
    BY <1>1, <1>2, IdleFields DEF SweepBook
  <1>4. Cardinality(Resting') = 0
    BY <1>2, FS_EmptySet
  <1> QED
    BY <1>1, <1>3, <1>4, IdleFields DEF Asking

LEMMA SweepNext ==
    ASSUME SweepInv, [BenchNext]_<<vars, bench>>
    PROVE  SweepInv'
  <1> SUFFICES ASSUME SweepAt'
               PROVE  SweepBook' /\ SweepCount'
    BY DEF SweepInv, SweepAt
  <1>1. ASSUME SweepAt PROVE SweepBook /\ SweepCount
    BY <1>1 DEF SweepInv, SweepAt
  <1>2. CASE Matching
    <2>1. SweepAt
      BY <1>2 DEF Matching, bench, SweepAt
    <2> QED
      BY <1>1, <1>2, <2>1, SweepMatching
  <1>3. CASE SparseInsert
    <2>1. /\ at = "sparse" /\ at' = "sparse" /\ call = Idle /\ next_id < SparseOrders
          /\ SubmitNext(SparsePrice(next_id), 1, FALSE) /\ next_id' = next_id + 1
      BY <1>3 DEF SparseInsert, At, SubmitNext
    <2>2. SweepBook /\ Asking /\ next_id \in Nat
      BY <1>1, <2>1 DEF SweepAt, SweepCount, SweepBook
    <2>3. SparsePrice(next_id) \in Prices
      BY <2>2, SparsePriceType
    <2>4. next_id \in Slots /\ next_id' <= SparseOrders
      BY <2>1, <2>2, Sizes DEF Slots
    <2>5. SweepBook' /\ Asking'
      BY <2>1, <2>2, <2>3, <2>4, AskSubmitted
    <2> QED
      BY <2>1, <2>4, <2>5 DEF SweepCount
  <1>4. CASE Sweep
    <2>1. /\ at = "sparse" /\ at' = "swept" /\ call = Idle /\ next_id = SparseOrders
          /\ SubmitNext(MAX_PRICES - 1, SparseOrders, TRUE)
      BY <1>4 DEF Sweep, At
    <2>2. SweepBook /\ Asking /\ next_id \in Nat
      BY <1>1, <2>1 DEF SweepAt, SweepCount, SweepBook
    <2>3. next_id \in Slots /\ SparseOrders \in Nat
      BY <2>1, <2>2, Sizes DEF Slots
    <2>4. SweepBook' /\ Resting' = Resting /\ call'.is_buy /\ call'.qty = SparseOrders
      BY <2>1, <2>2, <2>3, BuySubmitted
    <2>5. Cardinality(Resting) = SparseOrders
      <3>1. Cardinality(Resting) + 0 = next_id /\ Cardinality(Resting) \in Nat
        BY <2>1, <2>2, IdleFields, RestingFinite DEF Asking, SweepBook
      <3> QED
        BY <2>1, <3>1
    <2>6. Buying(0)'
      BY <2>3, <2>4, <2>5 DEF Buying
    <2> QED
      BY <2>1, <2>4, <2>6 DEF SweepCount
  <1>5. CASE StartWide
    <2>1. at = "swept" /\ at' = "wide" /\ init /\ next_id' = 0
      BY <1>5 DEF StartWide, At
    <2>2. SweepBook' /\ Asking'
      BY <1>1, <2>1, SweepReset DEF SweepAt
    <2>3. next_id' <= 2 * WideOrders /\ ~(next_id' > WideOrders)
      BY <2>1, Sizes
    <2> QED
      BY <2>1, <2>2, <2>3 DEF SweepCount
  <1>6. CASE Wide
    <2>1. /\ at = "wide" /\ at' = "wide" /\ call = Idle /\ next_id < 2 * WideOrders
      BY <1>6 DEF Wide, At
    <2>2. SweepBook /\ SweepCount /\ next_id \in Nat
      BY <1>1, <2>1 DEF SweepAt, SweepBook
    <2>3. next_id \in Slots
      BY <2>1, <2>2, Sizes DEF Slots
    <2>4. CASE next_id < WideOrders
      <3>1. /\ SubmitNext(MAX_PRICES - 1 - (next_id % WideSpread), 1, FALSE)
            /\ next_id' = next_id + 1
        BY <1>6, <2>4 DEF Wide, SubmitNext
      <3>2. MAX_PRICES - 1 - (next_id % WideSpread) \in Prices
        BY <2>2, WidePriceType
      <3>3. Asking
        <4>1. next_id <= WideOrders
          BY <2>2, <2>4, Sizes
        <4> QED
          BY <2>1, <2>2, <4>1 DEF SweepCount
      <3>4. SweepBook' /\ Asking'
        BY <2>1, <2>2, <2>3, <3>1, <3>2, <3>3, AskSubmitted
      <3>5. next_id' <= 2 * WideOrders /\ ~(next_id' > WideOrders)
        BY <2>2, <2>4, <3>1, Sizes
      <3> QED
        BY <2>1, <3>4, <3>5 DEF SweepCount
    <2>5. CASE ~(next_id < WideOrders)
      <3>1. SubmitNext(MAX_PRICES - 1, 1, TRUE) /\ next_id' = next_id + 1
        BY <1>6, <2>5 DEF Wide, SubmitNext
      <3>2. SweepBook' /\ Resting' = Resting /\ call'.is_buy /\ call'.qty = 1
        BY <2>1, <2>2, <2>3, <3>1, BuySubmitted
      <3>3. Cardinality(Resting) = 2 * WideOrders - next_id
        <4>1. Cardinality(Resting) \in Nat /\ call.qty = 0
          BY <2>1, <2>2, IdleFields, RestingFinite DEF SweepBook
        <4>2. CASE next_id = WideOrders
          <5>1. Cardinality(Resting) + call.qty = next_id
            <6>1. next_id <= WideOrders
              BY <4>2, Sizes
            <6> QED
              BY <2>1, <2>2, <6>1 DEF SweepCount, Asking
          <5> QED
            BY <2>2, <4>1, <4>2, <5>1, Sizes
        <4>3. CASE next_id > WideOrders
          <5>1. Cardinality(Resting) = 2 * WideOrders - next_id + call.qty
            BY <2>1, <2>2, <4>3 DEF SweepCount, Buying
          <5> QED
            BY <2>2, <4>1, <5>1, Sizes
        <4> QED
          BY <2>2, <2>5, <4>2, <4>3, Sizes
      <3>4. Buying(2 * WideOrders - next_id)'
        <4>1. Cardinality(Resting') = 2 * WideOrders - next_id' + call'.qty
          BY <2>2, <3>1, <3>2, <3>3, Sizes
        <4> QED
          BY <3>2, <4>1 DEF Buying
      <3>5. next_id' <= 2 * WideOrders /\ ~(next_id' <= WideOrders)
        BY <2>1, <2>2, <2>5, <3>1, Sizes
      <3> QED
        BY <2>1, <3>2, <3>4, <3>5 DEF SweepCount
    <2> QED
      BY <2>4, <2>5
  <1>7. CASE StartChurn \/ Churn \/ SeedA \/ ReplaceA \/ StartB \/ SeedB \/ CancelB \/ SubmitB
    <2>1. at' \in {"churn", "seed A", "seed B", "cancel", "submit"}
      BY <1>7 DEF StartChurn, Churn, SeedA, ReplaceA, StartB, SeedB, CancelB, SubmitB, At
    <2> QED
      BY <2>1 DEF SweepAt
  <1>8. CASE UNCHANGED <<vars, bench>>
    <2>1. /\ UNCHANGED vars /\ UNCHANGED <<orders, levels>> /\ call' = call
          /\ at' = at /\ next_id' = next_id
      BY <1>8 DEF vars, bench, pool
    <2>2. SweepBook /\ SweepCount
      BY <1>1, <2>1 DEF SweepAt
    <2>3. Resting' = Resting /\ Sound' /\ OnLadder'
      BY <2>1, <2>2, SameResting, StutterInv DEF SweepBook
    <2> QED
      BY <2>1, <2>2, <2>3 DEF SweepBook, SweepCount, Asking, Buying
  <1> QED
    BY <1>2, <1>3, <1>4, <1>5, <1>6, <1>7, <1>8 DEF BenchNext

LEMMA SweepInit == BenchInit => SweepInv
  <1> SUFFICES ASSUME BenchInit
               PROVE  SweepInv
    OBVIOUS
  <1>1. /\ Sound /\ OnLadder /\ Resting = {} /\ call = Idle
    BY InitRests DEF BenchInit
  <1>2. next_id = 0 /\ at \in {"sparse", "seed A"}
    BY SizesAssumption DEF BenchInit
  <1>3. Cardinality(Resting) = 0
    BY <1>1, FS_EmptySet
  <1>4. Asking /\ SweepBook
    <2>1. call.qty = 0 /\ call.is_buy = TRUE /\ next_id \in Nat
      BY <1>1, <1>2, IdleFields
    <2>2. Asking
      <3>1. Cardinality(Resting) + call.qty = next_id
        <4>1. next_id = 0 /\ call.qty = 0
          BY <1>2, <2>1
        <4>2. 0 + 0 = 0
          OBVIOUS
        <4> QED
          BY <1>3, <4>1, <4>2, Zenon
      <3> QED
        BY <1>1, <3>1, Zenon DEF Asking
    <2> QED
      BY <1>1, <2>1, <2>2 DEF SweepBook
  <1>5. next_id <= SparseOrders
    <2>1. SparseOrders \in Nat
      BY Sizes
    <2>2. next_id = 0
      BY <1>2
    <2> HIDE DEF SparseOrders
    <2> QED
      BY <2>1, <2>2
  <1> QED
    BY <1>2, <1>4, <1>5 DEF SweepInv, SweepCount

LEMMA SweepDone == SweepInv => SweptEmpty
  <1> SUFFICES ASSUME SweepInv,
                      At("swept") \/ (At("wide") /\ next_id = 2 * WideOrders)
               PROVE  OnLevels = {} /\ Members(Chain(next_free_order_idx)) = Slots
    BY DEF SweptEmpty
  <1>1. SweepBook /\ SweepCount /\ call = Idle
    BY DEF SweepInv, At
  <1>2. Sound /\ OnLadder /\ Cardinality(Resting) \in Nat /\ IsFiniteSet(Resting) /\ call.qty = 0
    BY <1>1, RestingFinite, IdleFields DEF SweepBook
  <1>3. Cardinality(Resting) = 0
    <2>1. CASE At("swept")
      <3>1. Cardinality(Resting) = 0 + call.qty
        BY <1>1, <2>1 DEF At, SweepCount, Buying
      <3> QED
        BY <1>2, <3>1
    <2>2. CASE At("wide") /\ next_id = 2 * WideOrders
      <3>1. next_id > WideOrders /\ 2 * WideOrders - next_id = 0
        BY <2>2, Sizes
      <3>2. Cardinality(Resting) = 2 * WideOrders - next_id + call.qty
        BY <1>1, <2>2, <3>1 DEF At, SweepCount, Buying
      <3> QED
        BY <1>2, <3>1, <3>2
    <2> QED
      BY <2>1, <2>2
  <1>4. Resting = {}
    BY <1>2, <1>3, FS_EmptySet
  <1>5. OnLevels = {}
    BY <1>4 DEF Resting
  <1>6. PICK L, F : Shape(L, F, {})
    BY <1>2, SoundShape
  <1>7. SlotPartition
    BY <1>6, ShapePartition
  <1> QED
    BY <1>5, <1>7 DEF SlotPartition

\* Scenarios 1 and 2 of benchmark_book: the sweeping buy and the buys one by
\* one take every ask there is, and then every slot of the pool is free
\* (SweptEmpty), for all numbers of levels, rounds and orders.
THEOREM SweptCorrect == BenchSpec => []SweptEmpty
  <1>1. BenchInit => SweepInv
    BY SweepInit
  <1>2. SweepInv /\ [BenchNext]_<<vars, bench>> => SweepInv'
    BY SweepNext
  <1>3. SweepInv => SweptEmpty
    BY SweepDone
  <1> QED
    BY <1>1, <1>2, <1>3, PTL DEF BenchSpec

-----------------------------------------------------------------------------
(* benchmark_replace *)

AllLive == 0..(LiveOrders - 1)
LiveDraws == UNION {Draws(id) : id \in AllLive}

\* The order that an operation leaves on the book.
Order(op) == [id    |-> op.id,        is_buy |-> is_bid(op.id),
              price |-> op.new_price, qty    |-> op.new_qty]

\* What rests, or will when the submit_order() in progress returns.
Eventual == Resting \cup ({call} \ {Idle})

IdsIn(S) == {r.id : r \in S}

\* The book holds orders that were drawn, and none of its heads is promoted.
DrawnBook ==
    /\ Sound /\ OnLadder /\ HeadsReset(orders, levels)
    /\ \A r \in Eventual : \E op \in LiveDraws : r = Order(op)

LEMMA DrawFields ==
    ASSUME NEW op \in LiveDraws
    PROVE  /\ op.id \in AllLive /\ op.id \in Slots
           /\ op.new_price \in Prices /\ op.new_price \in Int
           /\ op.new_qty \in Nat /\ op.new_qty > 0
           /\ is_bid(op.id) \in BOOLEAN
           /\ is_bid(op.id) => op.new_price < MAX_PRICES \div 2
           /\ ~is_bid(op.id) => op.new_price >= MAX_PRICES \div 2
  <1>1. PICK id \in AllLive : op \in Draws(id)
    BY DEF LiveDraws
  <1>2. op.id = id /\ op.new_price \in dist(id) /\ op.new_qty \in Qtys
    BY <1>1 DEF Draws
  <1>3. LiveOrders \in 1..MaxOrders /\ Margin \in 1..(MAX_PRICES \div 2 - 1)
        /\ 0 \notin Qtys /\ Qtys \subseteq Nat
    BY SizesAssumption, QtysAssumption
  <1>4. id \in Slots
    BY <1>3, PoolAssumption DEF AllLive, Slots
  <1>5. op.new_qty \in Nat /\ op.new_qty > 0
    <2>1. op.new_qty \in Nat /\ op.new_qty # 0
      BY <1>2, <1>3, Zenon
    <2> QED
      BY <2>1
  <1>6. PICK h : h = MAX_PRICES \div 2
    OBVIOUS
  <1>7. h \in Nat /\ 2 * h <= MAX_PRICES /\ MAX_PRICES \in Nat
    BY <1>6, LadderAssumption
  <1>8. Margin \in 1..(h - 1)
    BY <1>3, <1>6
  <1> DEFINE Priced == /\ op.new_price \in Prices /\ op.new_price \in Int
                       /\ is_bid(op.id) => op.new_price < MAX_PRICES \div 2
                       /\ ~is_bid(op.id) => op.new_price >= MAX_PRICES \div 2
  <1>9. ASSUME is_bid(id) PROVE Priced
    <2>1. op.new_price \in Margin..(h - 1)
      BY <1>2, <1>6, <1>9 DEF dist
    <2>2. op.new_price \in Int /\ op.new_price < h /\ op.new_price \in Prices
      BY <1>7, <1>8, <2>1 DEF Prices
    <2> QED
      BY <1>2, <1>6, <1>9, <2>2, Zenon
  <1>10. ASSUME ~is_bid(id) PROVE Priced
    <2>1. op.new_price \in h..(MAX_PRICES - Margin)
      BY <1>2, <1>6, <1>10 DEF dist
    <2>2. op.new_price \in Int /\ op.new_price >= h /\ op.new_price \in Prices
      BY <1>7, <1>8, <2>1 DEF Prices
    <2> QED
      BY <1>2, <1>6, <1>10, <2>2, Zenon
  <1>11. Priced
    BY <1>9, <1>10, Zenon
  <1>12. is_bid(op.id) \in BOOLEAN
    BY DEF is_bid
  <1>13. op.id \in AllLive /\ op.id \in Slots
    BY <1>1, <1>2, <1>4
  <1> QED
    BY <1>5, <1>11, <1>12, <1>13

LEMMA OrderFields ==
    ASSUME NEW op
    PROVE  /\ Order(op).id = op.id /\ Order(op).is_buy = is_bid(op.id)
           /\ Order(op).price = op.new_price /\ Order(op).qty = op.new_qty
  BY DEF Order

\* The price ranges of bids and asks are disjoint.
LEMMA DrawnNoTrade ==
    ASSUME DrawnBook, call # Idle
    PROVE  ~Crosses /\ call.id \in Slots /\ call.qty > 0
  <1>1. Sound /\ call.price \in Prices
    BY DEF DrawnBook, OnLadder
  <1>2. PICK op \in LiveDraws : call = Order(op)
    BY DEF DrawnBook, Eventual
  <1>3. /\ call.id = op.id /\ call.is_buy = is_bid(op.id) /\ call.price = op.new_price
        /\ call.qty = op.new_qty
    BY <1>2, OrderFields
  <1>4. ASSUME NEW r \in Resting, r.is_buy = ~call.is_buy
        PROVE  IF call.is_buy THEN r.price > call.price ELSE r.price < call.price
    <2>1. PICK o2 \in LiveDraws : r = Order(o2)
      BY DEF DrawnBook, Eventual
    <2>2. r.is_buy = is_bid(o2.id) /\ r.price = o2.new_price
      BY <2>1, OrderFields
    <2>3. MAX_PRICES \div 2 \in Int
      BY LadderAssumption
    <2>4. CASE call.is_buy
      <3>1. ~is_bid(o2.id) /\ is_bid(op.id)
        BY <1>3, <1>4, <2>2, <2>4
      <3>2. r.price >= MAX_PRICES \div 2 /\ call.price < MAX_PRICES \div 2
            /\ r.price \in Int /\ call.price \in Int
        BY <1>3, <2>2, <3>1, DrawFields
      <3> QED
        BY <2>3, <2>4, <3>2
    <2>5. CASE ~call.is_buy
      <3>1. is_bid(o2.id) /\ ~is_bid(op.id)
        BY <1>3, <1>4, <2>2, <2>5, DrawFields
      <3>2. r.price < MAX_PRICES \div 2 /\ call.price >= MAX_PRICES \div 2
            /\ r.price \in Int /\ call.price \in Int
        BY <1>3, <2>2, <3>1, DrawFields
      <3> QED
        BY <2>3, <2>5, <3>2
    <2> QED
      BY <2>4, <2>5
  <1>5. \A r \in Resting : r.is_buy = ~call.is_buy =>
           ~(IF call.is_buy THEN r.price <= call.price ELSE r.price >= call.price)
    <2>1. \A r \in Resting : r.price \in Int /\ call.price \in Int
      BY <1>1, RestingLive DEF Prices
    <2> QED
      BY <1>4, <2>1
  <1>6. ~Crosses
    BY <1>1, <1>5, CrossesResting
  <1> QED
    BY <1>3, <1>6, DrawFields

LEMMA DrawnMatching ==
    ASSUME DrawnBook, match \/ add_order
    PROVE  DrawnBook' /\ Eventual' = Eventual
  <1>1. Sound /\ OnLadder /\ HeadsReset(orders, levels) /\ call # Idle
    BY DEF DrawnBook, match, add_order
  <1>2. ~Crosses /\ call.id \in Slots /\ call.qty > 0
    BY <1>1, DrawnNoTrade
  <1>3. add_order /\ call' = Idle
    BY <1>2 DEF match, add_order, Return
  <1>4. Resting' = Resting \cup {call} /\ HeadsReset(orders', levels')
    BY <1>1, <1>2, <1>3, StoredRests DEF HeadsKept
  <1>5. Eventual' = Eventual
    BY <1>1, <1>3, <1>4 DEF Eventual
  <1>6. Sound' /\ OnLadder'
    BY <1>1, <1>3, RestInv
  <1> QED
    BY <1>4, <1>5, <1>6 DEF DrawnBook

LEMMA IdleEventual ==
    /\ call = Idle => Eventual = Resting
    /\ call' = Idle => Eventual' = Resting'
  BY DEF Eventual

LEMMA DrawnSubmit ==
    ASSUME DrawnBook, NEW op \in LiveDraws, op.id \notin IdsIn(Eventual), SubmitDraw(op)
    PROVE  DrawnBook' /\ Eventual' = Eventual \cup {Order(op)}
  <1>1. Sound /\ OnLadder /\ HeadsReset(orders, levels)
    BY DEF DrawnBook
  <1>2. Submit(op.id, op.new_price, op.new_qty, is_bid(op.id))
    BY DEF SubmitDraw
  <1>3. \A r \in Resting : r.id # op.id
    BY DEF IdsIn, Eventual
  <1>4. /\ Sound' /\ OnLadder' /\ Resting' = Resting /\ HeadsKept
        /\ call = Idle /\ call' # Idle
        /\ call' = [id |-> op.id, price |-> op.new_price, qty |-> op.new_qty, is_buy |-> is_bid(op.id)]
    BY <1>1, <1>2, <1>3, SubmitRests, DrawFields
  <1>5. call' = Order(op)
    BY <1>4 DEF Order
  <1>6. Eventual' = Eventual \cup {Order(op)}
    BY <1>4, <1>5 DEF Eventual
  <1>7. HeadsReset(orders', levels')
    BY <1>1, <1>4 DEF HeadsKept
  <1> QED
    BY <1>4, <1>6, <1>7 DEF DrawnBook

LEMMA DrawnReplace ==
    ASSUME DrawnBook, NEW op \in LiveDraws, op.id \in IdsIn(Eventual),
           replace_order(op.id, op.new_price, op.new_qty)
    PROVE  DrawnBook' /\ Eventual' = Others(Eventual, op.id) \cup {Order(op)}
  <1>1. Sound /\ OnLadder /\ HeadsReset(orders, levels) /\ call = Idle /\ call' = Idle
    BY DEF DrawnBook, replace_order
  <1>2. op.id \in LiveIds
    BY <1>1, RestingLive, IdleEventual DEF IdsIn
  <1>3. MayTouch(op.id)
    BY <1>1, <1>2, HeadsMayTouch
  <1>4. op.new_price \in Prices /\ op.new_qty \in Nat
    BY DrawFields
  <1>5. HeadsKept /\ Sound' /\ OnLadder'
    BY <1>1, <1>2, <1>3, <1>4, ReplaceRests, ReplaceInv
  <1>6. PICK r \in Resting :
           /\ r.id = op.id
           /\ Resting' = Others(Resting, op.id) \cup
                 {[id |-> op.id, is_buy |-> r.is_buy, price |-> op.new_price, qty |-> op.new_qty]}
    BY <1>1, <1>2, <1>3, <1>4, ReplaceRests
  <1>7. r.is_buy = is_bid(op.id)
    <2>1. PICK o2 \in LiveDraws : r = Order(o2)
      BY DEF DrawnBook, Eventual
    <2> QED
      BY <1>6, <2>1, OrderFields
  <1>8. Eventual' = Others(Eventual, op.id) \cup {Order(op)}
    BY <1>1, <1>6, <1>7, IdleEventual DEF Order
  <1>9. HeadsReset(orders', levels')
    BY <1>1, <1>5 DEF HeadsKept
  <1> QED
    BY <1>5, <1>8, <1>9 DEF DrawnBook, Others

LEMMA DrawnCancel ==
    ASSUME DrawnBook, NEW id \in IdsIn(Eventual), cancel_order(id)
    PROVE  DrawnBook' /\ Eventual' = Others(Eventual, id) /\ call' = Idle
  <1>1. Sound /\ OnLadder /\ HeadsReset(orders, levels) /\ call = Idle /\ call' = Idle
    BY DEF DrawnBook, cancel_order, MayCancel
  <1>2. id \in LiveIds
    BY <1>1, RestingLive, IdleEventual DEF IdsIn
  <1>3. MayTouch(id)
    BY <1>1, <1>2, HeadsMayTouch
  <1>4. HeadsKept /\ Sound' /\ OnLadder' /\ Resting' = Others(Resting, id)
    BY <1>1, <1>2, <1>3, CancelRests, CancelInv
  <1>5. Eventual' = Others(Eventual, id)
    BY <1>1, <1>4, IdleEventual
  <1>6. HeadsReset(orders', levels')
    BY <1>1, <1>4 DEF HeadsKept
  <1> QED
    BY <1>1, <1>4, <1>5, <1>6 DEF DrawnBook, Others

LEMMA DrawnReset ==
    ASSUME Sound, init
    PROVE  DrawnBook' /\ Eventual' = {} /\ call = Idle
  <1>1. call = Idle /\ call' = Idle
    BY DEF init, PoolReset
  <1>2. Resting' = {} /\ HeadsReset(orders', levels') /\ OnLadder' /\ Sound'
    BY ResetRests, ResetInv
  <1>3. Eventual' = {}
    BY <1>1, <1>2, IdleEventual
  <1> QED
    BY <1>1, <1>2, <1>3 DEF DrawnBook

-----------------------------------------------------------------------------
(* The operations of benchmark_replace, and what they leave behind *)

\* The operations among the first m of D that no later one of them overrides,
\* and the orders they leave on the book.
Last(D, m) == {k \in 1..m : \A j \in (k + 1)..m : D[j].id # D[k].id}
Written(D, m) == {Order(D[k]) : k \in Last(D, m)}

LEMMA WrittenNone ==
    ASSUME NEW D
    PROVE  Written(D, 0) = {}
  <1>1. Last(D, 0) = {}
    BY DEF Last
  <1> QED
    BY <1>1 DEF Written

\* The next operation overrides the one before it for its id.
LEMMA LastStep ==
    ASSUME NEW D, NEW m \in Nat
    PROVE  \A k : k \in Last(D, m + 1) <=> \/ k = m + 1
                                           \/ k \in Last(D, m) /\ D[k].id # D[m + 1].id
  <1> SUFFICES ASSUME NEW k
               PROVE  k \in Last(D, m + 1) <=> \/ k = m + 1
                                               \/ k \in Last(D, m) /\ D[k].id # D[m + 1].id
    OBVIOUS
  <1>1. CASE k = m + 1
    <2>1. k \in 1..(m + 1) /\ (k + 1)..(m + 1) = {}
      BY <1>1
    <2> QED
      BY <1>1, <2>1 DEF Last
  <1>2. CASE k \in 1..m
    <2>1. k # m + 1 /\ k \in 1..(m + 1)
      BY <1>2
    <2>2. \A j : j \in (k + 1)..(m + 1) <=> j \in (k + 1)..m \/ j = m + 1
      BY <1>2
    <2> QED
      BY <1>2, <2>1, <2>2 DEF Last
  <1>3. CASE k \notin 1..(m + 1)
    <2>1. k # m + 1 /\ k \notin 1..m
      BY <1>3
    <2> QED
      BY <1>3, <2>1 DEF Last
  <1> QED
    BY <1>1, <1>2, <1>3

LEMMA WrittenStep ==
    ASSUME NEW D, NEW m \in Nat, NEW op, op = D[m + 1]
    PROVE  Written(D, m + 1) = Others(Written(D, m), op.id) \cup {Order(op)}
  <1>1. \A k : k \in Last(D, m + 1) <=> \/ k = m + 1
                                        \/ k \in Last(D, m) /\ D[k].id # op.id
    BY LastStep
  <1>2. \A k : Order(D[k]).id = D[k].id
    BY OrderFields
  <1>3. ASSUME NEW r
        PROVE  r \in Written(D, m + 1) <=> r \in Others(Written(D, m), op.id) \cup {Order(op)}
    <2>1. r \in Written(D, m + 1) <=> \E k \in Last(D, m + 1) : r = Order(D[k])
      BY DEF Written
    <2>2. r \in Others(Written(D, m), op.id)
             <=> (\E k \in Last(D, m) : r = Order(D[k])) /\ r.id # op.id
      BY DEF Written, Others
    <2>3. (\E k \in Last(D, m + 1) : r = Order(D[k]))
             <=> \/ r = Order(op)
                 \/ \E k \in Last(D, m) : r = Order(D[k]) /\ D[k].id # op.id
      BY <1>1, Zenon
    <2>4. \A k : r = Order(D[k]) => r.id = D[k].id
      BY <1>2
    <2> QED
      BY <2>1, <2>2, <2>3, <2>4
  <1> QED
    BY <1>3

LEMMA WrittenSame ==
    ASSUME NEW D, NEW E, NEW m \in Nat, \A k \in 1..m : E[k] = D[k]
    PROVE  Written(E, m) = Written(D, m)
  <1>1. ASSUME NEW k \in 1..m
        PROVE  k \in Last(E, m) <=> k \in Last(D, m)
    <2>1. \A j \in (k + 1)..m : j \in 1..m
      OBVIOUS
    <2> QED
      BY <2>1 DEF Last
  <1>2. Last(E, m) = Last(D, m) /\ Last(D, m) \subseteq 1..m
    BY <1>1 DEF Last
  <1> QED
    BY <1>2 DEF Written

\* The seeds, and then the operations.
Drawn == seeds \o ops

LEMMA DrawnAt ==
    ASSUME NEW S, NEW s \in Seq(S), NEW t \in Seq(S)
    PROVE  /\ \A k \in 1..Len(s) : (s \o t)[k] = s[k]
           /\ \A k \in 1..Len(t) : (s \o t)[Len(s) + k] = t[k]
  <1>1. ASSUME NEW k \in 1..Len(s)
        PROVE  (s \o t)[k] = s[k]
    OBVIOUS
  <1>2. ASSUME NEW k \in 1..Len(t)
        PROVE  (s \o t)[Len(s) + k] = t[k]
    <2>1. Len(s) + k > Len(s) /\ Len(s) + k - Len(s) = k /\ Len(s) + k \in 1..(Len(s) + Len(t))
      OBVIOUS
    <2> QED
      BY <2>1
  <1> QED
    BY <1>1, <1>2

\* Drawing another operation adds it to the end.
LEMMA DrawnMore ==
    ASSUME NEW S, NEW s \in Seq(S), NEW t \in Seq(S), NEW op \in S,
           NEW s2, NEW t2,
           \/ t = <<>> /\ t2 = t /\ s2 = Append(s, op)
           \/ s2 = s /\ t2 = Append(t, op)
    PROVE  /\ s2 \in Seq(S) /\ t2 \in Seq(S)
           /\ (s2 \o t2)[Len(s) + Len(t) + 1] = op
           /\ \A k \in 1..(Len(s) + Len(t)) : (s2 \o t2)[k] = (s \o t)[k]
  <1>1. CASE t = <<>> /\ t2 = t /\ s2 = Append(s, op)
    <2>1. s2 \in Seq(S) /\ t2 \in Seq(S) /\ Len(t) = 0 /\ Len(s2) = Len(s) + 1
          /\ s2[Len(s) + 1] = op /\ \A k \in 1..Len(s) : s2[k] = s[k]
      BY <1>1
    <2>2. \A k \in 1..Len(s) : (s \o t)[k] = s[k]
      BY DrawnAt
    <2>3. \A k \in 1..Len(s2) : (s2 \o t2)[k] = s2[k]
      BY <2>1, DrawnAt
    <2>4. Len(s) \in Nat /\ Len(s) + Len(t) = Len(s)
      BY <2>1
    <2>5. Len(s) + 1 \in 1..Len(s2) /\ \A k \in 1..Len(s) : k \in 1..Len(s2)
      BY <2>1, <2>4
    <2> QED
      BY <2>1, <2>2, <2>3, <2>4, <2>5
  <1>2. CASE s2 = s /\ t2 = Append(t, op)
    <2>1. t2 \in Seq(S) /\ Len(t2) = Len(t) + 1 /\ t2[Len(t) + 1] = op
          /\ (\A k \in 1..Len(t) : t2[k] = t[k]) /\ Len(s) \in Nat /\ Len(t) \in Nat
      BY <1>2
    <2>2. /\ \A k \in 1..Len(s) : (s \o t)[k] = s[k]
          /\ \A k \in 1..Len(t) : (s \o t)[Len(s) + k] = t[k]
      BY DrawnAt
    <2>3. /\ \A k \in 1..Len(s) : (s2 \o t2)[k] = s[k]
          /\ \A k \in 1..Len(t2) : (s2 \o t2)[Len(s) + k] = t2[k]
      BY <1>2, <2>1, DrawnAt
    <2>4. ASSUME NEW k \in 1..(Len(s) + Len(t))
          PROVE  (s2 \o t2)[k] = (s \o t)[k]
      <3>1. CASE k \in 1..Len(s)
        BY <2>2, <2>3, <3>1
      <3>2. CASE k \notin 1..Len(s)
        <4>1. PICK j \in 1..Len(t) : k = Len(s) + j
          <5>1. k - Len(s) \in 1..Len(t) /\ k = Len(s) + (k - Len(s))
            BY <2>1, <3>2
          <5> QED
            BY <5>1
        <4>2. j \in 1..Len(t2)
          BY <2>1
        <4> QED
          BY <2>1, <2>2, <2>3, <4>1, <4>2
      <3> QED
        BY <3>1, <3>2
    <2>5. (s2 \o t2)[Len(s) + (Len(t) + 1)] = op /\ Len(s) + (Len(t) + 1) = Len(s) + Len(t) + 1
      BY <2>1, <2>3
    <2> QED
      BY <1>2, <2>1, <2>4, <2>5
  <1> QED
    BY <1>1, <1>2

\* The program is benchmark_replace.
ReplaceAt == at \in {"seed A", "seed B", "cancel", "submit"}

\* What has been drawn: the seeds use the ids one after the other.
History ==
    /\ i \in Nat /\ seeds \in Seq(LiveDraws) /\ ops \in Seq(LiveDraws)
    /\ \A k \in 1..Len(seeds) : seeds[k].id = k - 1
    /\ at = "seed A" => /\ i <= LiveOrders + NumOps
                        /\ i <= LiveOrders => Len(seeds) = i /\ ops = <<>>
                        /\ i > LiveOrders => Len(seeds) = LiveOrders /\ Len(ops) = i - LiveOrders
    /\ at # "seed A" => /\ Len(seeds) = LiveOrders /\ Len(ops) = NumOps
                        /\ left_A = Written(Drawn, LiveOrders + NumOps)

\* The orders on the book are the ones that the first m operations write, and
\* their ids are those below n.
Holds(m, n) == Eventual = Written(Drawn, m) /\ IdsIn(Eventual) = 0..(n - 1)

\* How far scenario A or B has come.
Progress ==
    /\ at = "seed A" => Holds(i, Len(seeds))
    /\ at = "seed B" => i \in 1..LiveOrders /\ Holds(i - 1, i - 1)
    /\ at = "cancel" => i \in 1..(NumOps + 1) /\ Holds(LiveOrders + i - 1, LiveOrders)
    /\ at = "submit" =>
          /\ i \in 1..NumOps /\ call = Idle
          /\ Eventual = Others(Written(Drawn, LiveOrders + i - 1), ops[i].id)
          /\ IdsIn(Eventual) = AllLive \ {ops[i].id}

DrawnInv == ReplaceAt => DrawnBook /\ History /\ Progress

LEMMA ReplaceSizes == LiveOrders \in Nat /\ LiveOrders > 0 /\ NumOps \in Nat
  <1>1. LiveOrders \in Nat \ {0} /\ NumOps \in Nat
    BY SizesAssumption
  <1> QED
    BY <1>1

LEMMA IdsInOthers ==
    ASSUME NEW S, NEW op
    PROVE  /\ IdsIn(Others(S, op.id)) = IdsIn(S) \ {op.id}
           /\ IdsIn(S \cup {Order(op)}) = IdsIn(S) \cup {op.id}
  <1>1. Order(op).id = op.id
    BY OrderFields
  <1>2. IdsIn(Others(S, op.id)) = IdsIn(S) \ {op.id}
    BY DEF IdsIn, Others
  <1>3. IdsIn(S \cup {Order(op)}) = IdsIn(S) \cup {op.id}
    BY <1>1 DEF IdsIn
  <1> QED
    BY <1>2, <1>3

LEMMA NotAmong ==
    ASSUME NEW S, NEW id, id \notin IdsIn(S)
    PROVE  Others(S, id) = S
  BY DEF IdsIn, Others

LEMMA IdsInMore ==
    ASSUME NEW S, NEW op
    PROVE  IdsIn(Others(S, op.id) \cup {Order(op)}) = IdsIn(S) \cup {op.id}
  <1>1. IdsIn(Others(S, op.id) \cup {Order(op)}) = IdsIn(Others(S, op.id)) \cup {op.id}
    BY IdsInOthers, Zenon
  <1>2. IdsIn(Others(S, op.id)) = IdsIn(S) \ {op.id}
    BY IdsInOthers, Zenon
  <1> QED
    BY <1>1, <1>2

LEMMA DrawnGrows ==
    ASSUME seeds \in Seq(LiveDraws), ops \in Seq(LiveDraws), NEW op \in LiveDraws,
           \/ ops = <<>> /\ ops' = ops /\ seeds' = Append(seeds, op)
           \/ seeds' = seeds /\ ops' = Append(ops, op),
           NEW m \in Nat, m = Len(seeds) + Len(ops)
    PROVE  /\ seeds' \in Seq(LiveDraws) /\ ops' \in Seq(LiveDraws)
           /\ Drawn'[m + 1] = op
           /\ Written(Drawn', m) = Written(Drawn, m)
  <1>1. /\ seeds' \in Seq(LiveDraws) /\ ops' \in Seq(LiveDraws)
        /\ (seeds' \o ops')[Len(seeds) + Len(ops) + 1] = op
        /\ \A k \in 1..(Len(seeds) + Len(ops)) : (seeds' \o ops')[k] = (seeds \o ops)[k]
    BY DrawnMore
  <1>2. Drawn'[m + 1] = op /\ \A k \in 1..m : Drawn'[k] = Drawn[k]
    BY <1>1, Zenon DEF Drawn
  <1> QED
    BY <1>1, <1>2, WrittenSame

\* A submit_order() of the program goes on.
LEMMA ReplaceMatching ==
    ASSUME DrawnBook, History, Progress, Matching
    PROVE  DrawnBook' /\ History' /\ Progress'
  <1>1. (match \/ add_order) /\ UNCHANGED <<at, i, seeds, ops, left_A>>
    BY DEF Matching, bench
  <1>2. DrawnBook' /\ Eventual' = Eventual
    BY <1>1, DrawnMatching
  <1>3. call # Idle
    BY <1>1 DEF match, add_order
  <1>4. Drawn' = Drawn
    BY <1>1 DEF Drawn
  <1>5. History'
    BY <1>1, <1>4 DEF History
  <1>6. Progress'
    BY <1>1, <1>2, <1>3, <1>4 DEF Progress, Holds
  <1> QED
    BY <1>2, <1>5, <1>6

LEMMA ReplaceStutter ==
    ASSUME DrawnBook, History, Progress, UNCHANGED <<vars, bench>>
    PROVE  DrawnBook' /\ History' /\ Progress'
  <1>1. /\ UNCHANGED vars /\ UNCHANGED <<orders, levels>> /\ call' = call
        /\ UNCHANGED <<at, i, seeds, ops, left_A>>
    BY DEF vars, bench, pool
  <1>2. Resting' = Resting /\ Sound' /\ OnLadder' /\ HeadsKept
    BY <1>1, SameResting, StutterInv DEF DrawnBook
  <1>3. Eventual' = Eventual
    BY <1>1, <1>2 DEF Eventual
  <1>4. Drawn' = Drawn
    BY <1>1 DEF Drawn
  <1>5. DrawnBook'
    BY <1>2, <1>3 DEF DrawnBook, HeadsKept
  <1>6. History'
    BY <1>1, <1>4 DEF History
  <1>7. Progress'
    BY <1>1, <1>3, <1>4 DEF Progress, Holds
  <1> QED
    BY <1>5, <1>6, <1>7

LEMMA SeedAStep ==
    ASSUME DrawnBook, History, Progress, SeedA
    PROVE  DrawnBook' /\ History' /\ Progress'
  <1>1. PICK op \in Draws(i) : SubmitDraw(op) /\ seeds' = Append(seeds, op)
    BY DEF SeedA
  <1>2. /\ at = "seed A" /\ at' = at /\ i < LiveOrders /\ i' = i + 1
        /\ ops' = ops /\ left_A' = left_A
    BY DEF SeedA, At
  <1>3. i \in Nat /\ Len(seeds) = i /\ ops = <<>> /\ seeds \in Seq(LiveDraws) /\ ops \in Seq(LiveDraws)
    <2>1. i \in Nat /\ seeds \in Seq(LiveDraws) /\ ops \in Seq(LiveDraws)
      BY DEF History
    <2>2. i < LiveOrders
      BY <1>2
    <2>3. i <= LiveOrders
      BY <2>1, <2>2, ReplaceSizes
    <2> QED
      BY <1>2, <2>1, <2>3, Zenon DEF History
  <1>4. op \in LiveDraws /\ op.id = i
    <2>1. i \in Nat /\ i < LiveOrders
      BY <1>2, <1>3
    <2>2. i \in AllLive
      BY <2>1, ReplaceSizes DEF AllLive
    <2> QED
      BY <2>2 DEF LiveDraws, Draws
  <1>5. Eventual = Written(Drawn, i) /\ IdsIn(Eventual) = 0..(i - 1)
    BY <1>2, <1>3 DEF Progress, Holds
  <1>6. op.id \notin IdsIn(Eventual)
    BY <1>3, <1>4, <1>5
  <1>7. DrawnBook' /\ Eventual' = Eventual \cup {Order(op)}
    BY <1>1, <1>4, <1>6, DrawnSubmit
  <1>8. /\ seeds' \in Seq(LiveDraws) /\ ops' \in Seq(LiveDraws)
        /\ Drawn'[i + 1] = op
        /\ Written(Drawn', i) = Written(Drawn, i)
    <2>1. Len(ops) = 0
      BY <1>3
    <2>2. i = Len(seeds) + Len(ops)
      BY <1>3, <2>1
    <2>3. ops = <<>> /\ ops' = ops /\ seeds' = Append(seeds, op)
      BY <1>1, <1>2, <1>3
    <2> QED
      BY <1>3, <1>4, <2>2, <2>3, DrawnGrows
  <1>9. Len(seeds') = i + 1 /\ \A k \in 1..(i + 1) : seeds'[k].id = k - 1
    <2>1. Len(seeds') = i + 1 /\ seeds'[i + 1] = op /\ \A k \in 1..i : seeds'[k] = seeds[k]
      BY <1>1, <1>3, <1>4
    <2>2. \A k \in 1..i : seeds[k].id = k - 1
      BY <1>3 DEF History
    <2>3. seeds'[i + 1].id = (i + 1) - 1
      BY <1>3, <1>4, <2>1
    <2>4. \A k \in 1..(i + 1) : k \in 1..i \/ k = i + 1
      BY <1>3
    <2> QED
      BY <2>1, <2>2, <2>3, <2>4
  <1>10. Eventual' = Written(Drawn', i + 1) /\ IdsIn(Eventual') = IdsIn(Eventual) \cup {op.id}
    <2>1. Eventual = Written(Drawn', i)
      BY <1>5, <1>8
    <2>2. Others(Eventual, op.id) = Eventual
      BY <1>6, NotAmong
    <2>3. Eventual' = Others(Eventual, op.id) \cup {Order(op)}
      BY <1>7, <2>2
    <2>4. op = Drawn'[i + 1] /\ i \in Nat
      BY <1>3, <1>8
    <2>5. Written(Drawn', i + 1) = Others(Written(Drawn', i), op.id) \cup {Order(op)}
      BY <2>4, WrittenStep
    <2> QED
      BY <2>1, <2>3, <2>5, IdsInMore
  <1>11. IdsIn(Eventual') = 0..((i + 1) - 1)
    <2>1. i \in Nat
      BY <1>3
    <2>2. 0..(i - 1) \cup {i} = 0..((i + 1) - 1)
      BY <2>1
    <2> QED
      BY <1>4, <1>5, <1>10, <2>2, Zenon
  <1>12. Progress'
    <2>1. i' = i + 1 /\ Len(seeds') = i + 1
      BY <1>2, <1>9
    <2>2. Holds(i, Len(seeds))'
      BY <1>10, <1>11, <2>1, Zenon DEF Holds, IdsIn
    <2> QED
      BY <1>2, <2>2 DEF Progress
  <1>13. History'
    <2>1. i \in Nat /\ i < LiveOrders /\ i' = i + 1
      BY <1>2, <1>3
    <2>2. i' \in Nat /\ i' <= LiveOrders /\ i' <= LiveOrders + NumOps /\ ~(i' > LiveOrders)
      BY <2>1, ReplaceSizes
    <2>3. ops' = <<>> /\ Len(seeds') = i'
      BY <1>2, <1>3, <1>9
    <2> QED
      BY <1>2, <1>8, <1>9, <2>2, <2>3 DEF History
  <1> QED
    BY <1>7, <1>12, <1>13

LEMMA ReplaceAStep ==
    ASSUME DrawnBook, History, Progress, ReplaceA
    PROVE  DrawnBook' /\ History' /\ Progress'
  <1>1. PICK op \in LiveDraws :
           replace_order(op.id, op.new_price, op.new_qty) /\ ops' = Append(ops, op)
    BY DEF ReplaceA, LiveDraws, AllLive
  <1>2. /\ at = "seed A" /\ at' = at /\ i \in LiveOrders..(LiveOrders + NumOps - 1) /\ i' = i + 1
        /\ seeds' = seeds /\ left_A' = left_A
    BY DEF ReplaceA, At
  <1>3. i \in Nat /\ seeds \in Seq(LiveDraws) /\ ops \in Seq(LiveDraws)
    BY DEF History
  <1>4. /\ i >= LiveOrders /\ i' \in Nat /\ i' > LiveOrders /\ ~(i' <= LiveOrders)
        /\ i' <= LiveOrders + NumOps
    <2>1. i \in LiveOrders..(LiveOrders + NumOps - 1) /\ i' = i + 1
      BY <1>2
    <2> QED
      BY <1>3, <2>1, ReplaceSizes
  <1>5. Len(seeds) = LiveOrders /\ Len(ops) = i - LiveOrders
    <2>1. CASE i = LiveOrders
      <3>1. i <= LiveOrders /\ i - LiveOrders = 0
        BY <1>3, <2>1
      <3>2. Len(seeds) = i /\ ops = <<>>
        BY <1>2, <3>1 DEF History
      <3>3. Len(ops) = 0
        BY <3>2
      <3> QED
        BY <2>1, <3>1, <3>2, <3>3
    <2>2. CASE i > LiveOrders
      BY <1>2, <2>2 DEF History
    <2> QED
      BY <1>3, <1>4, <2>1, <2>2, ReplaceSizes
  <1>6. Eventual = Written(Drawn, i) /\ IdsIn(Eventual) = AllLive
    BY <1>2, <1>5 DEF Progress, Holds, AllLive
  <1>7. op.id \in IdsIn(Eventual)
    BY <1>6, DrawFields
  <1>8. DrawnBook' /\ Eventual' = Others(Eventual, op.id) \cup {Order(op)}
    BY <1>1, <1>7, DrawnReplace
  <1>9. /\ seeds' \in Seq(LiveDraws) /\ ops' \in Seq(LiveDraws)
        /\ Drawn'[i + 1] = op
        /\ Written(Drawn', i) = Written(Drawn, i)
    <2>1. i = Len(seeds) + Len(ops)
      BY <1>3, <1>5, ReplaceSizes
    <2> QED
      BY <1>1, <1>2, <1>3, <2>1, DrawnGrows
  <1>10. Len(ops') = i' - LiveOrders /\ Len(seeds') = LiveOrders
    <2>1. Len(ops') = Len(ops) + 1
      BY <1>1, <1>3
    <2>2. i' = i + 1 /\ i \in Nat /\ Len(ops) = i - LiveOrders
      BY <1>2, <1>3, <1>5
    <2>3. Len(ops') = i' - LiveOrders
      BY <2>1, <2>2, ReplaceSizes
    <2> QED
      BY <1>2, <1>5, <2>3
  <1>11. Eventual' = Written(Drawn', i + 1) /\ IdsIn(Eventual') = AllLive
    <2>1. Written(Drawn', i + 1) = Others(Written(Drawn', i), op.id) \cup {Order(op)}
      BY <1>3, <1>9, WrittenStep
    <2>2. IdsIn(Eventual') = IdsIn(Eventual) \cup {op.id}
      BY <1>8, IdsInMore
    <2>3. Eventual' = Written(Drawn', i + 1)
      BY <1>6, <1>8, <1>9, <2>1, Zenon
    <2>4. IdsIn(Eventual') = AllLive
      BY <1>6, <1>7, <2>2
    <2> QED
      BY <2>3, <2>4
  <1>12. Progress'
    <2>1. Holds(i, Len(seeds))'
      BY <1>2, <1>10, <1>11, Zenon DEF Holds, IdsIn, AllLive
    <2> QED
      BY <1>2, <2>1 DEF Progress
  <1>13. History'
    BY <1>2, <1>4, <1>9, <1>10 DEF History
  <1> QED
    BY <1>8, <1>12, <1>13

LEMMA StartBStep ==
    ASSUME DrawnBook, History, Progress, StartB
    PROVE  DrawnBook' /\ History' /\ Progress'
  <1>1. /\ at = "seed A" /\ at' = "seed B" /\ call = Idle /\ i = LiveOrders + NumOps /\ i' = 1
        /\ left_A' = Resting /\ init /\ seeds' = seeds /\ ops' = ops
    BY DEF StartB, At
  <1>2. i \in Nat /\ seeds \in Seq(LiveDraws) /\ ops \in Seq(LiveDraws)
    BY DEF History
  <1>3. DrawnBook' /\ Eventual' = {}
    BY <1>1, DrawnReset DEF DrawnBook
  <1>4. Len(seeds) = LiveOrders /\ Len(ops) = NumOps
    <2>1. i = LiveOrders + NumOps
      BY <1>1
    <2>2. CASE NumOps = 0
      <3>1. i <= LiveOrders /\ i = LiveOrders
        BY <2>1, <2>2, ReplaceSizes
      <3>2. Len(seeds) = i /\ ops = <<>>
        BY <1>1, <3>1 DEF History
      <3>3. Len(ops) = 0
        BY <3>2
      <3> QED
        BY <2>2, <3>1, <3>2, <3>3
    <2>3. CASE NumOps > 0
      <3>1. i > LiveOrders /\ i - LiveOrders = NumOps
        BY <2>1, <2>3, ReplaceSizes
      <3> QED
        BY <1>1, <3>1 DEF History
    <2> QED
      BY <2>2, <2>3, ReplaceSizes
  <1>5. left_A' = Written(Drawn', LiveOrders + NumOps)
    <2>1. Eventual = Written(Drawn, LiveOrders + NumOps)
      BY <1>1 DEF Progress, Holds
    <2>2. Drawn' = Drawn
      BY <1>1 DEF Drawn
    <2> QED
      BY <1>1, <2>1, <2>2, IdleEventual
  <1>6. History'
    <2>1. \A k \in 1..Len(seeds) : seeds[k].id = k - 1
      BY DEF History
    <2>2. i' \in Nat
      BY <1>1
    <2> QED
      BY <1>1, <1>2, <1>4, <1>5, <2>1, <2>2 DEF History
  <1>7. Progress'
    <2>0. i' = 1
      BY <1>1
    <2>1. i' \in 1..LiveOrders /\ i' - 1 = 0
      BY <2>0, ReplaceSizes
    <2>2. Eventual' = Written(Drawn', 0)
      BY <1>3, WrittenNone
    <2>3. IdsIn(Eventual') = 0..(0 - 1)
      BY <1>3 DEF IdsIn
    <2>4. Holds(i - 1, i - 1)'
      BY <2>1, <2>2, <2>3, Zenon DEF Holds, IdsIn
    <2> QED
      BY <1>1, <2>1, <2>4 DEF Progress
  <1> QED
    BY <1>3, <1>6, <1>7

LEMMA SeedBStep ==
    ASSUME DrawnBook, History, Progress, SeedB
    PROVE  DrawnBook' /\ History' /\ Progress'
  <1>1. /\ at = "seed B" /\ SubmitDraw(seeds[i])
        /\ i' = (IF i = LiveOrders THEN 1 ELSE i + 1)
        /\ at' = (IF i = LiveOrders THEN "cancel" ELSE at)
        /\ seeds' = seeds /\ ops' = ops /\ left_A' = left_A
    BY DEF SeedB, At, drawn
  <1>2. /\ seeds \in Seq(LiveDraws) /\ ops \in Seq(LiveDraws) /\ Len(seeds) = LiveOrders
        /\ i \in 1..LiveOrders /\ seeds[i].id = i - 1
    <2>1. Len(seeds) = LiveOrders /\ i \in 1..LiveOrders
      BY <1>1 DEF History, Progress
    <2> QED
      BY <2>1 DEF History
  <1>3. PICK op \in LiveDraws : op = seeds[i]
    BY <1>2
  <1>4. op.id = i - 1 /\ i - 1 \in Nat /\ i \in Nat
    <2>1. i \in 1..LiveOrders
      BY <1>2
    <2>2. i - 1 \in Nat /\ i \in Nat
      BY <2>1, ReplaceSizes
    <2> QED
      BY <1>2, <1>3, <2>2
  <1>5. Eventual = Written(Drawn, i - 1) /\ IdsIn(Eventual) = 0..((i - 1) - 1)
    BY <1>1 DEF Progress, Holds
  <1>6. op.id \notin IdsIn(Eventual)
    BY <1>4, <1>5
  <1>7. DrawnBook' /\ Eventual' = Eventual \cup {Order(op)}
    BY <1>1, <1>3, <1>6, DrawnSubmit
  <1>8. Drawn' = Drawn
    BY <1>1 DEF Drawn
  <1>9. Drawn[i] = op
    BY <1>2, <1>3, DrawnAt DEF Drawn
  <1>10. Eventual' = Written(Drawn, i) /\ IdsIn(Eventual') = 0..(i - 1)
    <2>1. Others(Eventual, op.id) = Eventual
      BY <1>6, NotAmong
    <2>2. (i - 1) + 1 = i
      BY <1>4
    <2>3. Drawn[(i - 1) + 1] = op
      BY <1>9, <2>2
    <2>4. Written(Drawn, (i - 1) + 1) = Others(Written(Drawn, i - 1), op.id) \cup {Order(op)}
      BY <1>4, <2>3, WrittenStep
    <2>5. IdsIn(Eventual') = IdsIn(Eventual) \cup {op.id}
      BY <1>7, <2>1, IdsInMore
    <2>6. 0..((i - 1) - 1) \cup {i - 1} = 0..(i - 1)
      BY <1>4
    <2>7. IdsIn(Eventual') = 0..(i - 1)
      BY <1>4, <1>5, <2>5, <2>6, Zenon
    <2> QED
      BY <1>5, <1>7, <2>1, <2>2, <2>4, <2>7
  <1>11. History'
    <2>0. i \in Nat /\ (i' = 1 \/ i' = i + 1)
      BY <1>1, <1>4
    <2>1. i' \in Nat
      BY <2>0
    <2>2. at # "seed A" /\ at' # "seed A"
      BY <1>1
    <2> QED
      BY <1>1, <1>8, <2>1, <2>2 DEF History
  <1>12. CASE i = LiveOrders
    <2>0. (LiveOrders + 1) - 1 = LiveOrders /\ 1 \in 1..(NumOps + 1)
      BY ReplaceSizes
    <2>1. at' = "cancel" /\ i' = 1 /\ i' \in 1..(NumOps + 1)
      BY <1>1, <1>12, <2>0, Zenon
    <2>2. Holds(LiveOrders + i - 1, LiveOrders)'
      <3>1. Eventual' = Written(Drawn', LiveOrders) /\ IdsIn(Eventual') = 0..(LiveOrders - 1)
        BY <1>8, <1>10, <1>12, Zenon
      <3>2. LiveOrders + i' - 1 = LiveOrders
        <4>1. i' = 1
          BY <2>1
        <4> QED
          BY <4>1, ReplaceSizes
      <3> QED
        BY <3>1, <3>2, Zenon DEF Holds, IdsIn
    <2>3. Progress'
      BY <2>1, <2>2 DEF Progress
    <2> QED
      BY <1>7, <1>11, <2>3
  <1>13. CASE i # LiveOrders
    <2>1. at' = "seed B" /\ i' = i + 1
      BY <1>1, <1>13
    <2>2. i \in 1..LiveOrders /\ i # LiveOrders
      BY <1>2, <1>13
    <2>3. i' \in 1..LiveOrders /\ i' - 1 = i
      <3>1. i' = i + 1
        BY <2>1
      <3> QED
        BY <2>2, <3>1, ReplaceSizes
    <2>4. Holds(i - 1, i - 1)'
      BY <1>8, <1>10, <2>3, Zenon DEF Holds, IdsIn
    <2>5. Progress'
      BY <2>1, <2>3, <2>4 DEF Progress
    <2> QED
      BY <1>7, <1>11, <2>5
  <1> QED
    BY <1>12, <1>13

LEMMA OpAt ==
    ASSUME seeds \in Seq(LiveDraws), ops \in Seq(LiveDraws), NEW k \in 1..Len(ops)
    PROVE  ops[k] \in LiveDraws /\ Drawn[Len(seeds) + k] = ops[k]
  <1>1. ops[k] \in LiveDraws
    OBVIOUS
  <1>2. (seeds \o ops)[Len(seeds) + k] = ops[k]
    BY DrawnAt
  <1> QED
    BY <1>1, <1>2 DEF Drawn

\* Operation number k of benchmark_replace.
LEMMA OpDrawn ==
    ASSUME History, at # "seed A", NEW k, k \in 1..NumOps
    PROVE  ops[k] \in LiveDraws /\ Drawn[LiveOrders + k] = ops[k]
  <1>1. /\ seeds \in Seq(LiveDraws) /\ ops \in Seq(LiveDraws)
        /\ Len(seeds) = LiveOrders /\ Len(ops) = NumOps
    BY DEF History
  <1>2. k \in 1..Len(ops)
    BY <1>1, Zenon
  <1>3. ops[k] \in LiveDraws /\ Drawn[Len(seeds) + k] = ops[k]
    BY <1>1, <1>2, OpAt, Zenon
  <1> QED
    BY <1>1, <1>3, Zenon

LEMMA CancelBStep ==
    ASSUME DrawnBook, History, Progress, CancelB
    PROVE  DrawnBook' /\ History' /\ Progress'
  <1>1. /\ at = "cancel" /\ at' = "submit" /\ i <= NumOps /\ i' = i
        /\ cancel_order(ops[i].id)
        /\ seeds' = seeds /\ ops' = ops /\ left_A' = left_A
    BY DEF CancelB, At, drawn
  <1>2. i \in 1..NumOps
    <2>1. i \in 1..(NumOps + 1) /\ i <= NumOps
      BY <1>1 DEF Progress
    <2> QED
      BY <2>1, ReplaceSizes
  <1>3. Eventual = Written(Drawn, LiveOrders + i - 1) /\ IdsIn(Eventual) = AllLive
    BY <1>1 DEF Progress, Holds, AllLive
  <1>4. PICK op \in LiveDraws : op = ops[i]
    BY <1>1, <1>2, OpDrawn
  <1>5. op.id \in IdsIn(Eventual)
    BY <1>3, DrawFields
  <1>6. DrawnBook' /\ Eventual' = Others(Eventual, op.id) /\ call' = Idle
    BY <1>1, <1>4, <1>5, DrawnCancel
  <1>7. Drawn' = Drawn
    BY <1>1 DEF Drawn
  <1>8. IdsIn(Eventual') = AllLive \ {op.id}
    BY <1>3, <1>6, IdsInOthers
  <1>9. History'
    BY <1>1, <1>7 DEF History
  <1>10. Progress'
    <2>1. Eventual' = Others(Written(Drawn', LiveOrders + i' - 1), ops'[i'].id)
      BY <1>1, <1>3, <1>4, <1>6, <1>7, Zenon
    <2>2. IdsIn(Eventual)' = AllLive \ {ops'[i'].id}
      BY <1>1, <1>4, <1>8, Zenon DEF IdsIn
    <2>3. i' \in 1..NumOps
      BY <1>1, <1>2
    <2> QED
      BY <1>1, <1>6, <2>1, <2>2, <2>3, Zenon DEF Progress, AllLive
  <1> QED
    BY <1>6, <1>9, <1>10

LEMMA SubmitBStep ==
    ASSUME DrawnBook, History, Progress, SubmitB
    PROVE  DrawnBook' /\ History' /\ Progress'
  <1>1. /\ at = "submit" /\ at' = "cancel" /\ i' = i + 1 /\ SubmitDraw(ops[i])
        /\ seeds' = seeds /\ ops' = ops /\ left_A' = left_A
    BY DEF SubmitB, At, drawn
  <1>2. /\ i \in 1..NumOps /\ IdsIn(Eventual) = AllLive \ {ops[i].id}
        /\ Eventual = Others(Written(Drawn, LiveOrders + i - 1), ops[i].id)
    BY <1>1 DEF Progress
  <1>3. PICK op \in LiveDraws : op = ops[i]
    BY <1>1, <1>2, OpDrawn
  <1>4. DrawnBook' /\ Eventual' = Eventual \cup {Order(op)}
    <2>1. op.id \notin IdsIn(Eventual)
      BY <1>2, <1>3
    <2> QED
      BY <1>1, <1>3, <2>1, DrawnSubmit
  <1>5. Drawn' = Drawn
    BY <1>1 DEF Drawn
  <1>6. PICK m \in Nat : m = LiveOrders + i - 1
    BY <1>2, ReplaceSizes
  <1>7. m + 1 = LiveOrders + i /\ i' \in 1..(NumOps + 1) /\ LiveOrders + i' - 1 = m + 1 /\ i' \in Nat
    <2>1. i' = i + 1 /\ i \in 1..NumOps
      BY <1>1, <1>2
    <2> QED
      BY <1>6, <2>1, ReplaceSizes
  <1>8. Eventual' = Written(Drawn, m + 1)
    <2>1. Drawn[LiveOrders + i] = op
      BY <1>1, <1>2, <1>3, OpDrawn
    <2>2. op = Drawn[m + 1]
      BY <1>7, <2>1, Zenon
    <2>3. Written(Drawn, m + 1) = Others(Written(Drawn, m), op.id) \cup {Order(op)}
      BY <2>2, WrittenStep
    <2> QED
      BY <1>2, <1>3, <1>4, <1>6, <2>3, Zenon
  <1>9. IdsIn(Eventual') = 0..(LiveOrders - 1)
    <2>1. IdsIn(Eventual') = IdsIn(Eventual) \cup {op.id}
      BY <1>4, IdsInOthers
    <2>2. op.id \in AllLive
      BY DrawFields
    <2> QED
      BY <1>2, <1>3, <2>1, <2>2 DEF AllLive
  <1>10. History'
    BY <1>1, <1>5, <1>7 DEF History
  <1>11. Progress'
    <2>1. Holds(LiveOrders + i - 1, LiveOrders)'
      BY <1>5, <1>7, <1>8, <1>9, Zenon DEF Holds, IdsIn
    <2> QED
      BY <1>1, <1>7, <2>1 DEF Progress
  <1> QED
    BY <1>4, <1>10, <1>11

LEMMA DrawnNext ==
    ASSUME DrawnInv, [BenchNext]_<<vars, bench>>
    PROVE  DrawnInv'
  <1> SUFFICES ASSUME ReplaceAt'
               PROVE  DrawnBook' /\ History' /\ Progress'
    BY DEF DrawnInv
  <1>1. ASSUME ReplaceAt PROVE DrawnBook /\ History /\ Progress
    BY <1>1 DEF DrawnInv
  <1>2. CASE Matching
    <2>1. ReplaceAt
      BY <1>2 DEF Matching, bench, ReplaceAt
    <2> QED
      BY <1>1, <1>2, <2>1, ReplaceMatching
  <1>3. CASE SeedA
    <2>1. ReplaceAt
      BY <1>3 DEF SeedA, At, ReplaceAt
    <2> QED
      BY <1>1, <1>3, <2>1, SeedAStep
  <1>4. CASE ReplaceA
    <2>1. ReplaceAt
      BY <1>4 DEF ReplaceA, At, ReplaceAt
    <2> QED
      BY <1>1, <1>4, <2>1, ReplaceAStep
  <1>5. CASE StartB
    <2>1. ReplaceAt
      BY <1>5 DEF StartB, At, ReplaceAt
    <2> QED
      BY <1>1, <1>5, <2>1, StartBStep
  <1>6. CASE SeedB
    <2>1. ReplaceAt
      BY <1>6 DEF SeedB, At, ReplaceAt
    <2> QED
      BY <1>1, <1>6, <2>1, SeedBStep
  <1>7. CASE CancelB
    <2>1. ReplaceAt
      BY <1>7 DEF CancelB, At, ReplaceAt
    <2> QED
      BY <1>1, <1>7, <2>1, CancelBStep
  <1>8. CASE SubmitB
    <2>1. ReplaceAt
      BY <1>8 DEF SubmitB, At, ReplaceAt
    <2> QED
      BY <1>1, <1>8, <2>1, SubmitBStep
  <1>9. CASE SparseInsert \/ Sweep \/ StartWide \/ Wide \/ StartChurn \/ Churn
    <2>1. at' \in {"sparse", "swept", "wide", "churn"}
      BY <1>9 DEF SparseInsert, Sweep, StartWide, Wide, StartChurn, Churn, At
    <2> QED
      BY <2>1 DEF ReplaceAt
  <1>10. CASE UNCHANGED <<vars, bench>>
    <2>1. ReplaceAt
      BY <1>10 DEF bench, ReplaceAt
    <2> QED
      BY <1>1, <1>10, <2>1, ReplaceStutter
  <1> QED
    BY <1>2, <1>3, <1>4, <1>5, <1>6, <1>7, <1>8, <1>9, <1>10 DEF BenchNext

LEMMA DrawnInit == BenchInit => DrawnInv
  <1> SUFFICES ASSUME BenchInit, ReplaceAt
               PROVE  DrawnBook /\ History /\ Progress
    BY DEF DrawnInv
  <1>1. /\ Sound /\ OnLadder /\ Resting = {} /\ call = Idle /\ HeadsReset(orders, levels)
    BY InitRests DEF BenchInit
  <1>2. at = "seed A" /\ i = 0 /\ seeds = <<>> /\ ops = <<>>
    BY SizesAssumption DEF BenchInit, ReplaceAt
  <1>3. Eventual = {}
    BY <1>1, IdleEventual
  <1>4. DrawnBook
    BY <1>1, <1>3 DEF DrawnBook
  <1>5. seeds \in Seq(LiveDraws) /\ ops \in Seq(LiveDraws) /\ Len(seeds) = 0
    <2>1. <<>> \in Seq(LiveDraws) /\ Len(<<>>) = 0
      OBVIOUS
    <2> QED
      BY <1>2, <2>1, Zenon
  <1>6. i \in Nat /\ i <= LiveOrders /\ i <= LiveOrders + NumOps /\ ~(i > LiveOrders)
    <2>1. i = 0
      BY <1>2
    <2> QED
      BY <2>1, ReplaceSizes
  <1>7. History
    <2>1. \A k \in 1..Len(seeds) : seeds[k].id = k - 1
      BY <1>5
    <2> QED
      BY <1>2, <1>5, <1>6, <2>1 DEF History
  <1>8. Progress
    <2>1. Written(Drawn, i) = {} /\ IdsIn({}) = {}
      BY <1>2, WrittenNone DEF IdsIn
    <2>2. 0..(0 - 1) = {}
      OBVIOUS
    <2>3. Holds(i, Len(seeds))
      BY <1>3, <1>5, <2>1, <2>2, Zenon DEF Holds
    <2> QED
      BY <1>2, <2>3 DEF Progress
  <1> QED
    BY <1>4, <1>7, <1>8

LEMMA ReplaceNoTrade == DrawnInv => NoTrade
  BY DrawnNoTrade DEF DrawnInv, ReplaceAt, NoTrade

LEMMA ReplaceSame == DrawnInv => SameBook
  <1> SUFFICES ASSUME DrawnInv, ReplaceDone
               PROVE  Resting = left_A
    BY DEF SameBook
  <1>1. at = "cancel" /\ call = Idle /\ i > NumOps
    BY DEF ReplaceDone, At
  <1>2. DrawnBook /\ History /\ Progress
    BY <1>1 DEF DrawnInv, ReplaceAt
  <1>3. i \in 1..(NumOps + 1) /\ Eventual = Written(Drawn, LiveOrders + i - 1)
    BY <1>1, <1>2 DEF Progress, Holds
  <1>4. LiveOrders + i - 1 = LiveOrders + NumOps
    <2>1. i \in 1..(NumOps + 1) /\ i > NumOps
      BY <1>1, <1>3
    <2> QED
      BY <2>1, ReplaceSizes
  <1>5. left_A = Written(Drawn, LiveOrders + NumOps)
    BY <1>1, <1>2 DEF History
  <1> QED
    BY <1>1, <1>3, <1>4, <1>5, IdleEventual

\* benchmark_replace never trades: "bid and ask price ranges are disjoint so
\* cancel+submit cannot accidentally cross" (NoTrade), for every number of
\* orders and operations and every way they are drawn.
THEOREM NoTradeCorrect == BenchSpec => []NoTrade
  <1>1. BenchInit => DrawnInv
    BY DrawnInit
  <1>2. DrawnInv /\ [BenchNext]_<<vars, bench>> => DrawnInv'
    BY DrawnNext
  <1>3. DrawnInv => NoTrade
    BY ReplaceNoTrade
  <1> QED
    BY <1>1, <1>2, <1>3, PTL DEF BenchSpec

\* The two scenarios of benchmark_replace do the same work: native replaces and
\* pairs of cancel and submit, the latter on the pool and the id table that the
\* former have used, leave the same orders on the book (SameBook).
THEOREM SameBookCorrect == BenchSpec => []SameBook
  <1>1. BenchInit => DrawnInv
    BY DrawnInit
  <1>2. DrawnInv /\ [BenchNext]_<<vars, bench>> => DrawnInv'
    BY DrawnNext
  <1>3. DrawnInv => SameBook
    BY ReplaceSame
  <1> QED
    BY <1>1, <1>2, <1>3, PTL DEF BenchSpec
=============================================================================
