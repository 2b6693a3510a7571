------------------------ MODULE NaiveOrderBookProofs ------------------------
(***************************************************************************)
(* Proofs about NaiveOrderBook for every set of prices, ids and quantities *)
(* and any number of submits: what the lists and the lookup promise, that  *)
(* no trade is counted twice, and price-time priority.                     *)
(***************************************************************************)
EXTENDS NaiveOrderBook, WellFoundedInduction, SequenceTheorems, FiniteSetTheorems, TLAPS

-----------------------------------------------------------------------------
(* When the Min and Max of FiniteSetsExt are what their names say *)

\* A non-empty set of naturals has a least element: Min is not arbitrary.
LEMMA MinExists ==
    ASSUME NEW S, S \subseteq Nat, S # {}
    PROVE  Min(S) \in S /\ \A y \in S : Min(S) <= y
  <1>1. \E x \in S : \A y \in S : ~ (<<y, x>> \in OpToRel(<, Nat))
    BY WFMin, NatLessThanWellFounded
  <1>2. \A a, b \in Nat : a < b => <<a, b>> \in OpToRel(<, Nat)
    <2> DEFINE R == {ss \in Nat \X Nat : ss[1] < ss[2]}
    <2>1. OpToRel(<, Nat) = R
      BY Zenon DEF OpToRel
    <2>2. \A a, b \in Nat : a < b => <<a, b>> \in R
      OBVIOUS
    <2> QED
      BY <2>1, <2>2, Zenon
  <1>3. \A a, b \in Nat : ~(b < a) => a <= b
    OBVIOUS
  <1>4. \E x \in S : \A y \in S : x <= y
    BY <1>1, <1>2, <1>3, Zenon
  <1> QED
    BY <1>4 DEF Min

\* A bounded non-empty set of naturals has a greatest element.
LEMMA MaxExists ==
    ASSUME NEW n \in Nat, NEW S, S \subseteq 0..n, S # {}
    PROVE  Max(S) \in S /\ \A y \in S : Max(S) >= y
  <1> DEFINE T == {t \in 0..n : n - t \in S}
  <1>1. \A x \in S : n - x \in T
    OBVIOUS
  <1>0. T \subseteq Nat /\ T # {}
    <2>1. PICK x \in S : TRUE
      OBVIOUS
    <2>2. n - x \in T
      BY <1>1
    <2>3. T \subseteq Nat
      OBVIOUS
    <2> QED
      BY <2>2, <2>3, Zenon
  <1>2. Min(T) \in T /\ \A y \in T : Min(T) <= y
    BY <1>0, MinExists
  <1>3. PICK x \in S : x = n - Min(T)
    BY <1>2
  <1>4. \A y \in S : x >= y
    BY <1>1, <1>2, <1>3
  <1> QED
    BY <1>4 DEF Max

\* An element that bounds a set of numbers from above is its Max.
LEMMA MaxUnique ==
    ASSUME NEW S, S \subseteq Int, NEW x \in S, \A y \in S : y <= x
    PROVE  Max(S) = x
  <1> DEFINE isMax(m) == m \in S /\ \A y \in S : m >= y
  <1>1. isMax(x)
    OBVIOUS
  <1>2. ASSUME NEW m, isMax(m)
        PROVE  m = x
    <2>1. m \in Int /\ x \in Int /\ m >= x /\ m <= x
      BY <1>2
    <2> QED
      BY <2>1
  <1> QED
    BY <1>1, <1>2, Zenon DEF Max

\* An element that bounds a set of numbers from below is its Min.
LEMMA MinUnique ==
    ASSUME NEW S, S \subseteq Int, NEW x \in S, \A y \in S : x <= y
    PROVE  Min(S) = x
  <1> DEFINE isMin(m) == m \in S /\ \A y \in S : m <= y
  <1>1. isMin(x)
    OBVIOUS
  <1>2. ASSUME NEW m, isMin(m)
        PROVE  m = x
    <2>1. m \in Int /\ x \in Int /\ m <= x /\ m >= x
      BY <1>2
    <2> QED
      BY <2>1
  <1> QED
    BY <1>1, <1>2, Zenon DEF Min


\* No order without a quantity rests.
Orders == [id : Ids, qty : Nat \ {0}]
Calls  == [id : Ids, price : Prices, qty : Nat, is_buy : BOOLEAN]
Places == [price : Prices, is_buy : BOOLEAN]
Tables == [BOOLEAN -> [Prices -> Seq(Orders)]]

\* The lists of all prices, as the refinement mapping reads them.
Queue == [b \in BOOLEAN |-> [p \in Prices |-> ListAt(b, p)]]

\* The maps have finitely many prices, so that the bids have a begin().
Bounded(D) == \E n \in Prices \cup {0} : D \subseteq 0..n

MapsOK ==
    /\ DOMAIN book = BOOLEAN
    /\ \A b \in BOOLEAN : DOMAIN book[b] \subseteq Prices /\ Bounded(DOMAIN book[b])

\* The order with this id is at place k of the list of price p.
OnList(q, b, p, k, id) == k \in DOMAIN q[b][p] /\ q[b][p][k].id = id

\* The lists q and the lookup are inverse to each other.
Indexed(q, lookup) ==
    /\ \A b \in BOOLEAN, p \in Prices : \A k \in DOMAIN q[b][p] :
          LET id == q[b][p][k].id
          IN  /\ id \in DOMAIN lookup /\ lookup[id].price = p /\ lookup[id].is_buy = b
              /\ \A j \in DOMAIN q[b][p] : q[b][p][j].id = id => j = k
    /\ \A id \in DOMAIN lookup :
          /\ lookup[id] \in Places
          /\ \E k \in DOMAIN q[lookup[id].is_buy][lookup[id].price] :
                OnList(q, lookup[id].is_buy, lookup[id].price, k, id)

LookupOK == DOMAIN order_lookup \subseteq Ids /\ IsFiniteSet(DOMAIN order_lookup)

\* The incoming order is not on a list yet.
CallOK == call = Idle \/ (call \in Calls /\ call.id \notin DOMAIN order_lookup)

\* An order that can still trade or rest is worth one trade more.
TradesCounted ==
    total_trades + Cardinality(DOMAIN order_lookup)
                 + (IF call.qty > 0 THEN 1 ELSE 0) <= submits

IInv ==
    /\ MapsOK /\ Queue \in Tables /\ Indexed(Queue, order_lookup) /\ LookupOK /\ CallOK
    /\ total_trades \in Nat /\ submits \in 0..MaxSubmits
    /\ TradesCounted

-----------------------------------------------------------------------------
(* Changing one list *)

Put(q, b, p, l) == [q EXCEPT ![b][p] = l]

LEMMA PutFields ==
    ASSUME NEW q \in Tables, NEW b \in BOOLEAN, NEW p \in Prices, NEW l \in Seq(Orders)
    PROVE  /\ Put(q, b, p, l) \in Tables
           /\ Put(q, b, p, l)[b][p] = l
           /\ \A c \in BOOLEAN, r \in Prices :
                 <<c, r>> # <<b, p>> => Put(q, b, p, l)[c][r] = q[c][r]
  BY DEF Put, Tables

\* The map of side b gets the list l at price p: an empty one may be erased.
SetList(b, p, l) ==
    \/ book' = [book EXCEPT ![b] = WithList(book[b], p, l)]
    \/ l = <<>> /\ book' = [book EXCEPT ![b] = Erase(book[b], p)]

LEMMA ListAtPrime ==
    \A b, p : ListAt(b, p)' = IF p \in DOMAIN book'[b] THEN book'[b][p] ELSE <<>>
  BY DEF ListAt

LEMMA QueueAt ==
    ASSUME NEW b \in BOOLEAN, NEW p \in Prices
    PROVE  Queue[b][p] = ListAt(b, p)
  BY DEF Queue

LEMMA BoundedMore ==
    ASSUME NEW D, Bounded(D), NEW p \in Prices
    PROVE  Bounded(D \cup {p}) /\ Bounded(D \ {p})
  <1>1. PICK n \in Prices \cup {0} : D \subseteq 0..n
    BY DEF Bounded
  <1>2. n \in Nat /\ p \in Nat
    BY InputAssumption
  <1>3. CASE n <= p
    <2>1. D \cup {p} \subseteq 0..p
      BY <1>1, <1>2, <1>3
    <2> QED
      BY <1>1, <2>1 DEF Bounded
  <1>4. CASE p <= n
    <2>1. D \cup {p} \subseteq 0..n
      BY <1>1, <1>2, <1>4
    <2> QED
      BY <1>1, <2>1 DEF Bounded
  <1> QED
    BY <1>2, <1>3, <1>4

\* Only the list of price p changes, and the maps stay maps of finitely many
\* prices.
LEMMA SetListQueue ==
    ASSUME MapsOK, Queue \in Tables, NEW b \in BOOLEAN, NEW p \in Prices, NEW l,
           SetList(b, p, l)
    PROVE  MapsOK' /\ Queue' = Put(Queue, b, p, l)
  <1>1. PICK m : /\ book' = [book EXCEPT ![b] = m]
                 /\ \/ m = WithList(book[b], p, l)
                    \/ l = <<>> /\ m = Erase(book[b], p)
    BY DEF SetList
  <1>2. /\ DOMAIN book' = BOOLEAN /\ book'[b] = m
        /\ \A c \in BOOLEAN : c # b => book'[c] = book[c]
    BY <1>1 DEF MapsOK
  <1>3. /\ DOMAIN m = DOMAIN book[b] \cup {p} \/ DOMAIN m = DOMAIN book[b] \ {p}
        /\ \A r : (IF r \in DOMAIN m THEN m[r] ELSE <<>>) =
                     IF r = p THEN l ELSE ListAt(b, r)
    <2>1. CASE m = WithList(book[b], p, l)
      BY <2>1 DEF WithList, ListAt
    <2>2. CASE l = <<>> /\ m = Erase(book[b], p)
      BY <2>2 DEF Erase, Restrict, ListAt
    <2> QED
      BY <1>1, <2>1, <2>2
  <1>4. MapsOK'
    <2>0. DOMAIN book[b] \subseteq Prices /\ Bounded(DOMAIN book[b])
      BY DEF MapsOK
    <2>1. Bounded(DOMAIN book[b] \cup {p}) /\ Bounded(DOMAIN book[b] \ {p})
      BY <2>0, BoundedMore
    <2>2. DOMAIN m \subseteq Prices /\ Bounded(DOMAIN m)
      BY <1>3, <2>0, <2>1
    <2> QED
      BY <1>2, <2>2 DEF MapsOK
  <1>5. ASSUME NEW c \in BOOLEAN, NEW r \in Prices
        PROVE  ListAt(c, r)' = IF c = b /\ r = p THEN l ELSE Queue[c][r]
    <2>1. CASE c = b
      BY <1>2, <1>3, <2>1, ListAtPrime, QueueAt
    <2>2. CASE c # b
      <3>1. ListAt(c, r)' = ListAt(c, r)
        BY <1>2, <2>2, ListAtPrime DEF ListAt
      <3> QED
        BY <2>2, <3>1, QueueAt
    <2> QED
      BY <2>1, <2>2
  <1>6. Queue' = [c \in BOOLEAN |-> [r \in Prices |-> ListAt(c, r)']]
    BY DEF Queue
  <1>7. Queue' = [c \in BOOLEAN |-> [r \in Prices |->
                     IF c = b /\ r = p THEN l ELSE Queue[c][r]]]
    BY <1>5, <1>6
  <1>8. Put(Queue, b, p, l) = [c \in BOOLEAN |-> [r \in Prices |->
                     IF c = b /\ r = p THEN l ELSE Queue[c][r]]]
    <2> DEFINE q == Queue
    <2>1. q \in Tables
      OBVIOUS
    <2> HIDE DEF q
    <2>2. Put(q, b, p, l) = [c \in BOOLEAN |-> [r \in Prices |->
                     IF c = b /\ r = p THEN l ELSE q[c][r]]]
      BY <2>1 DEF Put, Tables
    <2> QED
      BY <2>2 DEF q
  <1> QED
    BY <1>4, <1>7, <1>8

-----------------------------------------------------------------------------
(* Lists and lookup stay inverse to each other *)

LEMMA IndexedAt ==
    ASSUME NEW q, NEW look, Indexed(q, look), NEW b \in BOOLEAN, NEW p \in Prices,
           NEW k, NEW id, OnList(q, b, p, k, id)
    PROVE  /\ id \in DOMAIN look /\ look[id].price = p /\ look[id].is_buy = b
           /\ \A j : OnList(q, b, p, j, id) => j = k
  BY DEF Indexed, OnList

LEMMA IndexedFound ==
    ASSUME NEW q, NEW look, Indexed(q, look), NEW id \in DOMAIN look
    PROVE  /\ look[id].is_buy \in BOOLEAN /\ look[id].price \in Prices
           /\ \E k : OnList(q, look[id].is_buy, look[id].price, k, id)
  BY DEF Indexed, Places

LEMMA IndexedFrom ==
    ASSUME NEW q, NEW look,
           \A b \in BOOLEAN, p \in Prices : \A k, id : OnList(q, b, p, k, id) =>
              /\ id \in DOMAIN look /\ look[id].price = p /\ look[id].is_buy = b
              /\ \A j : OnList(q, b, p, j, id) => j = k,
           \A id \in DOMAIN look :
              /\ look[id] \in Places
              /\ \E k : OnList(q, look[id].is_buy, look[id].price, k, id)
    PROVE  Indexed(q, look)
  BY DEF Indexed, OnList

\* An order that trades in part stays where it is.
SameIds(l, s) ==
    /\ l \in Seq(Orders) /\ Len(l) = Len(s)
    /\ \A k \in 1..Len(s) : l[k].id = s[k].id

LEMMA IndexedQty ==
    ASSUME NEW q \in Tables, NEW look, Indexed(q, look),
           NEW b \in BOOLEAN, NEW p \in Prices, NEW l, SameIds(l, q[b][p])
    PROVE  Put(q, b, p, l) \in Tables /\ Indexed(Put(q, b, p, l), look)
  <1> DEFINE q2 == Put(q, b, p, l)
  <1>1. /\ q2 \in Tables /\ q2[b][p] = l
        /\ \A c \in BOOLEAN, r \in Prices : <<c, r>> # <<b, p>> => q2[c][r] = q[c][r]
    BY PutFields DEF SameIds
  <1>2. q[b][p] \in Seq(Orders) /\ DOMAIN l = 1..Len(l) /\ DOMAIN q[b][p] = 1..Len(l)
    BY DEF Tables, SameIds
  <1> HIDE DEF q2
  <1>3. ASSUME NEW c \in BOOLEAN, NEW r \in Prices, NEW k, NEW id
        PROVE  OnList(q2, c, r, k, id) <=> OnList(q, c, r, k, id)
    <2>1. CASE <<c, r>> = <<b, p>>
      BY <1>1, <1>2, <2>1 DEF OnList, SameIds
    <2>2. CASE <<c, r>> # <<b, p>>
      BY <1>1, <2>2 DEF OnList
    <2> QED
      BY <2>1, <2>2
  <1>4. ASSUME NEW id \in DOMAIN look
        PROVE  /\ look[id] \in Places
               /\ \E k : OnList(q2, look[id].is_buy, look[id].price, k, id)
    <2>1. look[id] \in Places
      BY DEF Indexed
    <2> QED
      BY <1>3, <2>1, IndexedFound
  <1>5. ASSUME NEW c \in BOOLEAN, NEW r \in Prices, NEW k, NEW id, OnList(q2, c, r, k, id)
        PROVE  /\ id \in DOMAIN look /\ look[id].price = r /\ look[id].is_buy = c
               /\ \A j : OnList(q2, c, r, j, id) => j = k
    BY <1>3, <1>5, IndexedAt
  <1>6. Indexed(q2, look)
    BY <1>4, <1>5, IndexedFrom
  <1> QED
    BY <1>1, <1>6 DEF q2

\* The list s without its k-th order.
WithoutAt(l, s, k) ==
    /\ l \in Seq(Orders) /\ Len(l) = Len(s) - 1
    /\ \A j \in 1..(Len(s) - 1) : l[j] = IF j < k THEN s[j] ELSE s[j + 1]

LEMMA WithoutIds ==
    ASSUME NEW s \in Seq(Orders), NEW k \in 1..Len(s), NEW l, WithoutAt(l, s, k)
    PROVE  /\ \A j \in DOMAIN l : \E i \in DOMAIN s : i # k /\ l[j] = s[i]
           /\ \A i \in DOMAIN s : i # k => \E j \in DOMAIN l : l[j] = s[i]
           /\ \A i, j \in DOMAIN l : i # j => 
                 \E m, n \in DOMAIN s : m # n /\ l[i] = s[m] /\ l[j] = s[n]
  <1> DEFINE f(j) == IF j < k THEN j ELSE j + 1
             N == Len(s)
  <1>1. N \in Nat /\ DOMAIN s = 1..N /\ DOMAIN l = 1..(N - 1) /\ k \in 1..N
    BY DEF WithoutAt
  <1>2. \A j \in 1..(N - 1) : f(j) \in 1..N /\ f(j) # k /\ l[j] = s[f(j)]
    BY <1>1 DEF WithoutAt
  <1>3. \A i, j \in 1..(N - 1) : i # j => f(i) # f(j)
    BY <1>1
  <1>4. ASSUME NEW i \in 1..N, i # k
        PROVE  \E j \in 1..(N - 1) : f(j) = i
    <2>1. CASE i < k
      BY <1>1, <2>1
    <2>2. CASE i > k
      <3>1. i - 1 \in 1..(N - 1) /\ f(i - 1) = i
        BY <1>1, <2>2
      <3> QED
        BY <3>1
    <2> QED
      BY <1>1, <1>4, <2>1, <2>2
  <1> HIDE DEF f, N
  <1>5. \A j \in DOMAIN l : \E i \in DOMAIN s : i # k /\ l[j] = s[i]
    BY <1>1, <1>2
  <1>6. \A i \in DOMAIN s : i # k => \E j \in DOMAIN l : l[j] = s[i]
    BY <1>1, <1>2, <1>4
  <1>7. ASSUME NEW i \in DOMAIN l, NEW j \in DOMAIN l, i # j
        PROVE  \E m, n \in DOMAIN s : m # n /\ l[i] = s[m] /\ l[j] = s[n]
    BY <1>1, <1>2, <1>3, <1>7
  <1> QED
    BY <1>5, <1>6, <1>7, Zenon

\* An order leaves its list and the lookup.
LEMMA IndexedWithout ==
    ASSUME NEW q \in Tables, NEW look, Indexed(q, look),
           NEW b \in BOOLEAN, NEW p \in Prices, NEW k, NEW id, OnList(q, b, p, k, id),
           NEW l, WithoutAt(l, q[b][p], k)
    PROVE  Put(q, b, p, l) \in Tables /\ Indexed(Put(q, b, p, l), Erase(look, id))
  <1> DEFINE q2 == Put(q, b, p, l)
             s == q[b][p]
             look2 == Erase(look, id)
  <1>1. /\ q2 \in Tables /\ q2[b][p] = l
        /\ \A c \in BOOLEAN, r \in Prices : <<c, r>> # <<b, p>> => q2[c][r] = q[c][r]
    BY PutFields DEF WithoutAt
  <1>2. s \in Seq(Orders) /\ k \in 1..Len(s) /\ k \in DOMAIN s /\ s[k].id = id
    BY DEF Tables, OnList
  <1>3. /\ \A j \in DOMAIN l : \E i \in DOMAIN s : i # k /\ l[j] = s[i]
        /\ \A i \in DOMAIN s : i # k => \E j \in DOMAIN l : l[j] = s[i]
        /\ \A i, j \in DOMAIN l : i # j =>
              \E m, n \in DOMAIN s : m # n /\ l[i] = s[m] /\ l[j] = s[n]
    BY <1>2, WithoutIds
  <1>4. DOMAIN look2 = DOMAIN look \ {id} /\ \A x \in DOMAIN look2 : look2[x] = look[x]
    BY DEF Erase, Restrict
  <1>5. /\ id \in DOMAIN look /\ look[id].price = p /\ look[id].is_buy = b
        /\ \A j : OnList(q, b, p, j, id) => j = k
    BY IndexedAt
  <1> HIDE DEF q2, look2
  <1>6. ASSUME NEW c \in BOOLEAN, NEW r \in Prices, NEW j, NEW x, OnList(q2, c, r, j, x)
        PROVE  /\ x \in DOMAIN look2 /\ look2[x].price = r /\ look2[x].is_buy = c
               /\ \A i : OnList(q2, c, r, i, x) => i = j
    <2>1. CASE <<c, r>> = <<b, p>>
      <3>1. c = b /\ r = p /\ j \in DOMAIN l /\ l[j].id = x
        BY <1>1, <1>6, <2>1 DEF OnList
      <3>2. PICK i \in DOMAIN s : i # k /\ l[j] = s[i]
        BY <1>3, <3>1
      <3>3. OnList(q, b, p, i, x)
        BY <3>1, <3>2 DEF OnList
      <3>4. x # id
        BY <1>5, <3>2, <3>3
      <3>5. x \in DOMAIN look2 /\ look2[x].price = r /\ look2[x].is_buy = c
        BY <1>4, <3>1, <3>3, <3>4, IndexedAt
      <3>6. ASSUME NEW h, OnList(q2, c, r, h, x), h # j PROVE FALSE
        <4>1. h \in DOMAIN l /\ l[h].id = x
          BY <1>1, <3>1, <3>6 DEF OnList
        <4>2. PICK m \in DOMAIN s, n \in DOMAIN s : m # n /\ l[h] = s[m] /\ l[j] = s[n]
          BY <1>3, <3>1, <3>6, <4>1
        <4>3. OnList(q, b, p, m, x) /\ OnList(q, b, p, n, x)
          BY <3>1, <4>1, <4>2 DEF OnList
        <4> QED
          BY <4>2, <4>3, IndexedAt
      <3> QED
        BY <3>5, <3>6
    <2>2. CASE <<c, r>> # <<b, p>>
      <3>1. \A i : OnList(q2, c, r, i, x) <=> OnList(q, c, r, i, x)
        BY <1>1, <2>2 DEF OnList
      <3>2. /\ x \in DOMAIN look /\ look[x].price = r /\ look[x].is_buy = c
            /\ \A i : OnList(q, c, r, i, x) => i = j
        BY <1>6, <3>1, IndexedAt
      <3>3. x # id
        BY <1>5, <2>2, <3>2
      <3> QED
        BY <1>4, <3>1, <3>2, <3>3
    <2> QED
      BY <2>1, <2>2
  <1>7. ASSUME NEW x \in DOMAIN look2
        PROVE  /\ look2[x] \in Places
               /\ \E j : OnList(q2, look2[x].is_buy, look2[x].price, j, x)
    <2>1. x \in DOMAIN look /\ x # id /\ look2[x] = look[x] /\ look[x] \in Places
      BY <1>4 DEF Indexed
    <2>2. PICK c \in BOOLEAN, r \in Prices : c = look[x].is_buy /\ r = look[x].price
      BY <2>1, IndexedFound
    <2>3. PICK j : OnList(q, c, r, j, x)
      BY <2>1, <2>2, IndexedFound
    <2>4. CASE <<c, r>> = <<b, p>>
      <3>1. j \in DOMAIN s /\ s[j].id = x /\ j # k
        BY <1>2, <2>1, <2>3, <2>4 DEF OnList
      <3>2. PICK h \in DOMAIN l : l[h] = s[j]
        BY <1>3, <3>1
      <3>3. OnList(q2, c, r, h, x)
        BY <1>1, <2>4, <3>1, <3>2 DEF OnList
      <3> QED
        BY <2>1, <2>2, <3>3
    <2>5. CASE <<c, r>> # <<b, p>>
      <3>1. OnList(q2, c, r, j, x)
        BY <1>1, <2>3, <2>5 DEF OnList
      <3> QED
        BY <2>1, <2>2, <3>1
    <2> QED
      BY <2>4, <2>5
  <1>8. Indexed(q2, look2)
    BY <1>6, <1>7, IndexedFrom
  <1> QED
    BY <1>1, <1>8 DEF q2, look2

\* An order joins the end of its list and the lookup.
LEMMA IndexedAppend ==
    ASSUME NEW q \in Tables, NEW look, Indexed(q, look),
           NEW b \in BOOLEAN, NEW p \in Prices, NEW e \in Orders, e.id \notin DOMAIN look
    PROVE  /\ Put(q, b, p, Append(q[b][p], e)) \in Tables
           /\ Indexed(Put(q, b, p, Append(q[b][p], e)),
                      WithList(look, e.id, [price |-> p, is_buy |-> b]))
  <1> DEFINE s == q[b][p]
             l == Append(s, e)
             q2 == Put(q, b, p, l)
             place == [price |-> p, is_buy |-> b]
             look2 == WithList(look, e.id, place)
  <1>0. s \in Seq(Orders)
    BY DEF Tables
  <1>2. /\ l \in Seq(Orders) /\ DOMAIN s = 1..Len(s) /\ DOMAIN l = 1..(Len(s) + 1)
        /\ \A k \in 1..Len(s) : l[k] = s[k]
        /\ l[Len(s) + 1] = e /\ Len(s) \in Nat
    BY <1>0
  <1> HIDE DEF l
  <1>1. /\ q2 \in Tables /\ q2[b][p] = l
        /\ \A c \in BOOLEAN, r \in Prices : <<c, r>> # <<b, p>> => q2[c][r] = q[c][r]
    BY <1>2, PutFields
  <1>3. place \in Places /\ place.price = p /\ place.is_buy = b
    BY DEF Places
  <1>4. /\ DOMAIN look2 = DOMAIN look \cup {e.id} /\ look2[e.id] = place
        /\ \A x \in DOMAIN look : look2[x] = look[x]
    BY DEF WithList
  <1> HIDE DEF q2, look2, place
  <1>5. ASSUME NEW c \in BOOLEAN, NEW r \in Prices, NEW j, NEW x
        PROVE  OnList(q2, c, r, j, x) <=>
                  \/ OnList(q, c, r, j, x)
                  \/ c = b /\ r = p /\ j = Len(s) + 1 /\ x = e.id
    <2>1. CASE <<c, r>> = <<b, p>>
      <3>1. OnList(q2, c, r, j, x) <=> j \in 1..(Len(s) + 1) /\ l[j].id = x
        BY <1>1, <1>2, <2>1 DEF OnList
      <3>2. OnList(q, c, r, j, x) <=> j \in 1..Len(s) /\ s[j].id = x
        BY <1>2, <2>1 DEF OnList
      <3>3. j \in 1..(Len(s) + 1) <=> j \in 1..Len(s) \/ j = Len(s) + 1
        BY <1>2
      <3> QED
        BY <1>2, <2>1, <3>1, <3>2, <3>3
    <2>2. CASE <<c, r>> # <<b, p>>
      BY <1>1, <2>2 DEF OnList
    <2> QED
      BY <2>1, <2>2
  <1>6. ASSUME NEW c \in BOOLEAN, NEW r \in Prices, NEW j, NEW x, OnList(q2, c, r, j, x)
        PROVE  /\ x \in DOMAIN look2 /\ look2[x].price = r /\ look2[x].is_buy = c
               /\ \A i : OnList(q2, c, r, i, x) => i = j
    <2>1. CASE x = e.id
      <3>1. \A i : ~OnList(q, c, r, i, x)
        BY <2>1, IndexedAt
      <3> QED
        BY <1>3, <1>4, <1>5, <1>6, <2>1, <3>1
    <2>2. CASE x # e.id
      <3>1. OnList(q, c, r, j, x)
        BY <1>5, <1>6, <2>2
      <3>2. /\ x \in DOMAIN look /\ look[x].price = r /\ look[x].is_buy = c
            /\ \A i : OnList(q, c, r, i, x) => i = j
        BY <3>1, IndexedAt
      <3> QED
        BY <1>4, <1>5, <2>2, <3>2
    <2> QED
      BY <2>1, <2>2
  <1>7. ASSUME NEW x \in DOMAIN look2
        PROVE  /\ look2[x] \in Places
               /\ \E j : OnList(q2, look2[x].is_buy, look2[x].price, j, x)
    <2>1. CASE x = e.id
      BY <1>3, <1>4, <1>5, <2>1
    <2>2. CASE x # e.id
      <3>1. x \in DOMAIN look /\ look2[x] = look[x] /\ look[x] \in Places
        BY <1>4, <2>2 DEF Indexed
      <3>2. PICK c \in BOOLEAN, r \in Prices : c = look[x].is_buy /\ r = look[x].price
        BY <3>1, IndexedFound
      <3>3. PICK j : OnList(q, c, r, j, x)
        BY <3>1, <3>2, IndexedFound
      <3> QED
        BY <1>5, <3>1, <3>2, <3>3
    <2> QED
      BY <2>1, <2>2
  <1>8. Indexed(q2, look2)
    BY <1>6, <1>7, IndexedFrom
  <1> QED
    BY <1>1, <1>8 DEF q2, look2, l, place

-----------------------------------------------------------------------------
(* What the operations do to a list *)

LEMMA RemoveAtIs ==
    ASSUME NEW s \in Seq(Orders), NEW k \in 1..Len(s)
    PROVE  WithoutAt(RemoveAt(s, k), s, k)
  <1> DEFINE n == Len(s)
             u == SubSeq(s, 1, k - 1)
             v == SubSeq(s, k + 1, n)
             r == RemoveAt(s, k)
  <1>0. k \in 1..n /\ n \in Nat /\ k \in Nat
    OBVIOUS
  <1>1. /\ u \in Seq(Orders) /\ Len(u) = k - 1
        /\ \A j \in 1..(k - 1) : u[j] = s[j]
    BY <1>0
  <1>2. /\ v \in Seq(Orders) /\ Len(v) = n - k
        /\ \A j \in 1..(n - k) : v[j] = s[k + j]
    BY <1>0
  <1>3. r = u \o v
    BY DEF RemoveAt
  <1> HIDE DEF u, v, r
  <1>4. r \in Seq(Orders) /\ Len(r) = n - 1
    <2>1. r \in Seq(Orders) /\ Len(r) = Len(u) + Len(v)
      BY <1>1, <1>2, <1>3, ConcatProperties
    <2> QED
      BY <1>0, <1>1, <1>2, <2>1
  <1> HIDE DEF n
  <1>5. ASSUME NEW j \in 1..(n - 1)
        PROVE  r[j] = IF j < k THEN s[j] ELSE s[j + 1]
    <2>1. CASE j < k
      BY <1>0, <1>1, <1>2, <1>3, <2>1
    <2>2. CASE ~(j < k)
      <3>1. j - (k - 1) \in 1..(n - k) /\ k + (j - (k - 1)) = j + 1
        BY <1>0, <2>2
      <3>2. r[j] = v[j - (k - 1)]
        BY <1>0, <1>1, <1>2, <1>3, <2>2
      <3> QED
        BY <1>2, <2>2, <3>1, <3>2
    <2> QED
      BY <2>1, <2>2
  <1> QED
    BY <1>4, <1>5 DEF WithoutAt, r, n

LEMMA TailIs ==
    ASSUME NEW s \in Seq(Orders), s # <<>>
    PROVE  /\ 1 \in 1..Len(s) /\ Head(s) = s[1] /\ s[1] \in Orders
           /\ WithoutAt(Tail(s), s, 1)
  <1>1. Len(s) \in Nat /\ Len(s) # 0
    OBVIOUS
  <1>2. /\ Tail(s) \in Seq(Orders) /\ Len(Tail(s)) = Len(s) - 1
        /\ \A j \in 1..(Len(s) - 1) : Tail(s)[j] = s[j + 1]
    BY <1>1
  <1>3. \A j \in 1..(Len(s) - 1) : ~(j < 1)
    OBVIOUS
  <1>4. WithoutAt(Tail(s), s, 1)
    BY <1>2, <1>3 DEF WithoutAt
  <1> QED
    BY <1>1, <1>4

LEMMA HeadQtyIs ==
    ASSUME NEW s \in Seq(Orders), s # <<>>, NEW n \in Nat \ {0}
    PROVE  SameIds(<<[Head(s) EXCEPT !.qty = n]>> \o Tail(s), s)
  <1> DEFINE e == [Head(s) EXCEPT !.qty = n]
             l == <<e>> \o Tail(s)
  <1>1. Len(s) \in Nat /\ Len(s) # 0 /\ Head(s) = s[1] /\ s[1] \in Orders
    OBVIOUS
  <1>2. e \in Orders /\ e.id = s[1].id
    BY <1>1 DEF Orders
  <1> HIDE DEF e
  <1>3. /\ Tail(s) \in Seq(Orders) /\ Len(Tail(s)) = Len(s) - 1
        /\ \A j \in 1..(Len(s) - 1) : Tail(s)[j] = s[j + 1]
    BY <1>1
  <1>4. <<e>> \in Seq(Orders) /\ Len(<<e>>) = 1 /\ <<e>>[1] = e
    BY <1>2
  <1>5. /\ l \in Seq(Orders) /\ Len(l) = Len(s)
        /\ \A j \in 1..Len(s) : l[j] = IF j <= 1 THEN <<e>>[j] ELSE Tail(s)[j - 1]
    BY <1>1, <1>3, <1>4, ConcatProperties
  <1> HIDE DEF l
  <1>6. ASSUME NEW j \in 1..Len(s) PROVE l[j].id = s[j].id
    <2>1. CASE j = 1
      BY <1>2, <1>4, <1>5, <2>1
    <2>2. CASE j # 1
      <3>1. j - 1 \in 1..(Len(s) - 1) /\ (j - 1) + 1 = j /\ ~(j <= 1)
        BY <1>1, <2>2
      <3> QED
        BY <1>3, <1>5, <3>1
    <2> QED
      BY <2>1, <2>2
  <1> QED
    BY <1>5, <1>6 DEF SameIds, l, e

-----------------------------------------------------------------------------
(* The inductive invariant *)

LEMMA InitInv == Init => IInv
  <1> SUFFICES ASSUME Init PROVE IInv
    OBVIOUS
  <1>1. DOMAIN book = BOOLEAN /\ \A b \in BOOLEAN : DOMAIN book[b] = {}
    BY DEF Init
  <1>2. Bounded({})
    BY DEF Bounded
  <1>3. \A b \in BOOLEAN, p \in Prices : ListAt(b, p) = <<>>
    BY <1>1 DEF ListAt
  <1>4. Queue = [b \in BOOLEAN |-> [p \in Prices |-> <<>>]]
    BY <1>3 DEF Queue
  <1>5. <<>> \in Seq(Orders) /\ DOMAIN <<>> = {}
    OBVIOUS
  <1>6. DOMAIN order_lookup = {}
    BY DEF Init
  <1>7. Queue \in Tables /\ Indexed(Queue, order_lookup)
    BY <1>4, <1>5, <1>6 DEF Tables, Indexed
  <1>8. LookupOK /\ Cardinality(DOMAIN order_lookup) = 0
    BY <1>6, FS_EmptySet DEF LookupOK
  <1>9. call = Idle /\ ~(call.qty > 0) /\ total_trades = 0 /\ submits = 0
    BY DEF Init, Idle
  <1> QED
    BY <1>1, <1>2, <1>7, <1>8, <1>9, InputAssumption
    DEF IInv, MapsOK, CallOK, TradesCounted

LEMMA Calling ==
    ASSUME IInv, call # Idle
    PROVE  call \in Calls /\ call.id \notin DOMAIN order_lookup
  BY DEF IInv, CallOK

\* begin() is the best price of the map.
LEMMA BeginIs ==
    ASSUME IInv, call # Idle, DOMAIN book[~call.is_buy] # {}
    PROVE  /\ begin \in DOMAIN book[~call.is_buy] /\ begin \in Prices
           /\ \A p \in DOMAIN book[~call.is_buy] :
                 IF call.is_buy THEN begin <= p ELSE p <= begin
  <1>1. call.is_buy \in BOOLEAN
    BY Calling DEF Calls
  <1>2. CASE call.is_buy
    <2> DEFINE D == DOMAIN book[FALSE]
    <2>1. D \subseteq Prices /\ D \subseteq Nat /\ D # {} /\ ~call.is_buy = FALSE
      BY <1>1, <1>2, InputAssumption DEF IInv, MapsOK
    <2>2. begin = Min(D)
      BY <1>2 DEF begin
    <2> HIDE DEF D
    <2>3. begin \in D /\ \A p \in D : begin <= p
      BY <2>1, <2>2, MinExists
    <2> QED
      BY <1>2, <2>1, <2>3 DEF D
  <1>3. CASE ~call.is_buy
    <2> DEFINE D == DOMAIN book[TRUE]
    <2>1. D \subseteq Prices /\ Bounded(D) /\ D # {} /\ ~call.is_buy = TRUE
      BY <1>1, <1>3 DEF IInv, MapsOK
    <2>2. begin = Max(D)
      BY <1>1, <1>3 DEF begin
    <2> HIDE DEF D
    <2>3. PICK n \in Nat : D \subseteq 0..n
      BY <2>1, InputAssumption DEF Bounded
    <2>4. begin \in D /\ \A p \in D : begin >= p
      BY <2>1, <2>2, <2>3, MaxExists
    <2>5. \A p \in D : p \in Int
      BY <2>3
    <2>6. begin \in D /\ \A p \in D : p <= begin
      BY <2>4, <2>5
    <2> QED
      BY <1>1, <1>3, <2>1, <2>6 DEF D
  <1> QED
    BY <1>1, <1>2, <1>3

\* One trade, with names for its parts.
TradeOf(b, p, s, o, t, l) ==
    /\ b = ~call.is_buy /\ p = begin /\ s = ListAt(b, p) /\ o = Head(s) /\ t = Traded(o)
    /\ l = IF t = o.qty THEN Tail(s) ELSE <<[o EXCEPT !.qty = @ - t]>> \o Tail(s)
    /\ call' = [call EXCEPT !.qty = @ - t]
    /\ total_trades' = total_trades + 1
    /\ order_lookup' = IF t = o.qty THEN Erase(order_lookup, o.id) ELSE order_lookup
    /\ SetList(b, p, l)
    /\ submits' = submits

LEMMA TradeSteps ==
    ASSUME process_list
    PROVE  \E b, p, s, o, t, l : TradeOf(b, p, s, o, t, l)
  <1>1. PICK b, p, s : b = ~call.is_buy /\ p = begin /\ s = ListAt(b, p)
    OBVIOUS
  <1>2. PICK o, t : o = Head(s) /\ t = Traded(o)
    OBVIOUS
  <1>3. PICK l : l = IF t = o.qty THEN Tail(s) ELSE <<[o EXCEPT !.qty = @ - t]>> \o Tail(s)
    OBVIOUS
  <1>4. book' = [book EXCEPT ![b] =
                    IF l = <<>> THEN EraseBegin(@) ELSE WithList(@, begin, l)]
    BY <1>1, <1>2, <1>3, Zenon DEF process_list
  <1>5. SetList(b, p, l)
    <2>1. CASE l = <<>>
      BY <1>1, <1>4, <2>1 DEF SetList, EraseBegin
    <2>2. CASE l # <<>>
      BY <1>1, <1>4, <2>2 DEF SetList
    <2> QED
      BY <2>1, <2>2
  <1>6. TradeOf(b, p, s, o, t, l)
    BY <1>1, <1>2, <1>3, <1>5, Zenon
    DEF TradeOf, process_list, CountTrade, LookupErase
  <1> QED
    BY <1>6

LEMMA MinOfTwo ==
    ASSUME NEW x \in Nat, NEW y \in Nat
    PROVE  /\ Min({x, y}) \in Nat /\ Min({x, y}) <= x /\ Min({x, y}) <= y
           /\ Min({x, y}) = x \/ Min({x, y}) = y
  <1>1. Min({x, y}) \in {x, y} /\ \A z \in {x, y} : Min({x, y}) <= z
    <2>1. {x, y} \subseteq Nat /\ {x, y} # {}
      OBVIOUS
    <2> QED
      BY <2>1, MinExists
  <1> QED
    BY <1>1

\* A trade is with an order of the best list, for a positive quantity.
PartsOf(b, p, s, o, t) ==
    /\ b \in BOOLEAN /\ p \in Prices /\ s = Queue[b][p]
    /\ s \in Seq(Orders) /\ s # <<>> /\ o = Head(s) /\ o \in Orders
    /\ OnList(Queue, b, p, 1, o.id)
    /\ t \in Nat \ {0} /\ t <= call.qty /\ t <= o.qty
    /\ t = Min({call.qty, o.qty}) /\ (t = o.qty \/ t = call.qty)
    /\ call \in Calls /\ call.qty > 0

LEMMA TradeParts ==
    ASSUME IInv, process_list, NEW b, NEW p, NEW s, NEW o, NEW t, NEW l,
           TradeOf(b, p, s, o, t, l)
    PROVE  PartsOf(b, p, s, o, t)
  <1>1. call \in Calls /\ call # Idle /\ Matches
    BY Calling DEF process_list
  <1>2. b \in BOOLEAN /\ p \in Prices
    BY <1>1, BeginIs DEF TradeOf, Calls, Matches
  <1>3. s = Queue[b][p] /\ s # <<>>
    BY <1>2, QueueAt DEF TradeOf, process_list
  <1>4. s \in Seq(Orders)
    BY <1>2, <1>3 DEF IInv, Tables
  <1>5. o = s[1] /\ o \in Orders /\ 1 \in DOMAIN s /\ o = Head(s)
    BY <1>3, <1>4 DEF TradeOf
  <1>6. OnList(Queue, b, p, 1, o.id)
    BY <1>3, <1>5 DEF OnList
  <1>7. call.qty \in Nat /\ call.qty > 0 /\ o.qty \in Nat /\ o.qty # 0
    BY <1>1, <1>5 DEF Calls, Matches, Orders
  <1>8. t = Min({call.qty, o.qty})
    BY DEF TradeOf, Traded
  <1>9. t \in Nat /\ t <= call.qty /\ t <= o.qty /\ (t = call.qty \/ t = o.qty)
    BY <1>7, <1>8, MinOfTwo
  <1>10. t # 0
    BY <1>7, <1>9
  <1> QED
    BY <1>1, <1>2, <1>3, <1>4, <1>5, <1>6, <1>7, <1>8, <1>9, <1>10 DEF PartsOf

LEMMA CallTraded ==
    ASSUME call \in Calls, NEW t \in Nat, t <= call.qty, call' = [call EXCEPT !.qty = @ - t]
    PROVE  call' \in Calls /\ call'.id = call.id /\ call'.qty = call.qty - t
  <1>1. call.qty \in Nat /\ call.qty - t \in Nat
    BY DEF Calls
  <1> QED
    BY <1>1 DEF Calls

LEMMA Counts ==
    ASSUME LookupOK
    PROVE  /\ Cardinality(DOMAIN order_lookup) \in Nat
           /\ \A id \in DOMAIN order_lookup :
                 /\ IsFiniteSet(DOMAIN order_lookup \ {id})
                 /\ Cardinality(DOMAIN order_lookup \ {id}) = Cardinality(DOMAIN order_lookup) - 1
           /\ \A id : id \notin DOMAIN order_lookup =>
                 /\ IsFiniteSet(DOMAIN order_lookup \cup {id})
                 /\ Cardinality(DOMAIN order_lookup \cup {id}) = Cardinality(DOMAIN order_lookup) + 1
  BY FS_CardinalityType, FS_RemoveElement, FS_AddElement DEF LookupOK

\* An erased id, and what is counted without it.
LEMMA ErasedLookup ==
    ASSUME LookupOK, NEW id \in DOMAIN order_lookup, order_lookup' = Erase(order_lookup, id)
    PROVE  /\ LookupOK' /\ DOMAIN order_lookup' = DOMAIN order_lookup \ {id}
           /\ Cardinality(DOMAIN order_lookup') = Cardinality(DOMAIN order_lookup) - 1
  <1>1. DOMAIN order_lookup' = DOMAIN order_lookup \ {id}
    BY DEF Erase, Restrict
  <1>2. /\ IsFiniteSet(DOMAIN order_lookup \ {id})
        /\ Cardinality(DOMAIN order_lookup \ {id}) = Cardinality(DOMAIN order_lookup) - 1
    BY Counts
  <1> QED
    BY <1>1, <1>2 DEF LookupOK

LEMMA TradeInv ==
    ASSUME IInv, process_list
    PROVE  IInv'
  <1>1. PICK b, p, s, o, t, l : TradeOf(b, p, s, o, t, l)
    BY TradeSteps
  <1>2. PartsOf(b, p, s, o, t)
    BY <1>1, TradeParts
  <1>3. MapsOK' /\ Queue' = Put(Queue, b, p, l)
    BY <1>1, <1>2, SetListQueue DEF PartsOf, TradeOf, IInv
  <1>4. /\ call' \in Calls /\ call'.id = call.id /\ call'.qty = call.qty - t
        /\ call.id \notin DOMAIN order_lookup /\ call.qty \in Nat
    <2>1. call # Idle
      BY DEF process_list
    <2> QED
      BY <1>1, <1>2, <2>1, CallTraded, Calling DEF PartsOf, TradeOf, Calls
  <1>5. /\ total_trades' = total_trades + 1 /\ submits' = submits
        /\ total_trades \in Nat /\ submits \in 0..MaxSubmits /\ LookupOK
        /\ Queue \in Tables /\ Indexed(Queue, order_lookup)
        /\ total_trades + Cardinality(DOMAIN order_lookup) + 1 <= submits
    BY <1>1, <1>2 DEF PartsOf, TradeOf, IInv, TradesCounted
  <1>0. Cardinality(DOMAIN order_lookup) \in Nat
    BY <1>5, Counts
  <1>6. CASE t = o.qty
    <2>1. l = Tail(s) /\ order_lookup' = Erase(order_lookup, o.id)
      BY <1>1, <1>6 DEF TradeOf
    <2>2. WithoutAt(l, Queue[b][p], 1)
      BY <1>2, <2>1, TailIs DEF PartsOf
    <2>3. Queue' \in Tables /\ Indexed(Queue', order_lookup')
      BY <1>2, <1>3, <1>5, <2>1, <2>2, IndexedWithout DEF PartsOf
    <2>4. o.id \in DOMAIN order_lookup
      BY <1>2, <1>5, IndexedAt DEF PartsOf
    <2>5. /\ LookupOK' /\ DOMAIN order_lookup' = DOMAIN order_lookup \ {o.id}
          /\ Cardinality(DOMAIN order_lookup') = Cardinality(DOMAIN order_lookup) - 1
      BY <1>5, <2>1, <2>4, ErasedLookup
    <2>6. CallOK'
      BY <1>4, <2>5 DEF CallOK
    <2>7. TradesCounted'
      BY <1>0, <1>5, <2>5, InputAssumption DEF TradesCounted
    <2> QED
      BY <1>3, <1>5, <2>3, <2>5, <2>6, <2>7 DEF IInv
  <1>7. CASE t # o.qty
    <2>1. /\ l = <<[Head(s) EXCEPT !.qty = @ - t]>> \o Tail(s)
          /\ order_lookup' = order_lookup
      BY <1>1, <1>2, <1>7, Zenon DEF PartsOf, TradeOf
    <2>2. Head(s).qty - t \in Nat \ {0}
      BY <1>2, <1>7 DEF PartsOf, Orders
    <2>3. SameIds(l, Queue[b][p])
      BY <1>2, <2>1, <2>2, HeadQtyIs DEF PartsOf
    <2>4. Queue' \in Tables /\ Indexed(Queue', order_lookup')
      BY <1>2, <1>3, <1>5, <2>1, <2>3, IndexedQty DEF PartsOf
    <2>5. CallOK' /\ LookupOK'
      BY <1>4, <1>5, <2>1 DEF CallOK, LookupOK
    <2>6. ~(call'.qty > 0)
      BY <1>2, <1>4, <1>7 DEF PartsOf
    <2>7. TradesCounted'
      BY <1>0, <1>5, <2>1, <2>6, InputAssumption DEF TradesCounted
    <2> QED
      BY <1>3, <1>5, <2>4, <2>5, <2>7 DEF IInv
  <1> QED
    BY <1>6, <1>7

\* Erasing an empty list changes the map, not the lists.
LEMMA EraseEmptyQueue ==
    ASSUME IInv, EraseEmpty
    PROVE  MapsOK' /\ Queue' = Queue
  <1>1. call \in Calls /\ call # Idle /\ Matches
    BY Calling DEF EraseEmpty
  <1>2. PICK b \in BOOLEAN, p \in Prices : b = ~call.is_buy /\ p = begin
    BY <1>1, BeginIs DEF Calls, Matches
  <1>3. ListAt(b, p) = <<>> /\ book' = [book EXCEPT ![b] = Erase(book[b], p)]
    BY <1>2 DEF EraseEmpty, EraseBegin
  <1>4. SetList(b, p, <<>>)
    BY <1>3 DEF SetList
  <1>5. Queue \in Tables /\ MapsOK
    BY DEF IInv
  <1>6. MapsOK' /\ Queue' = Put(Queue, b, p, <<>>)
    BY <1>4, <1>5, SetListQueue
  <1>7. Queue[b][p] = <<>>
    BY <1>3, QueueAt
  <1>8. ASSUME NEW q \in Tables, q[b][p] = <<>> PROVE Put(q, b, p, <<>>) = q
    BY <1>8 DEF Put, Tables
  <1> QED
    BY <1>5, <1>6, <1>7, <1>8

LEMMA EraseEmptyInv ==
    ASSUME IInv, EraseEmpty
    PROVE  IInv'
  <1>1. MapsOK' /\ Queue' = Queue
    BY EraseEmptyQueue
  <1>2. UNCHANGED <<order_lookup, total_trades, call, submits>>
    BY DEF EraseEmpty
  <1> QED
    BY <1>1, <1>2 DEF IInv, LookupOK, CallOK, TradesCounted

\* What is left of the incoming order, and the list it joins.
Left == [id |-> call.id, qty |-> call.qty]

LEMMA InsertQueue ==
    ASSUME IInv, Insert, call.qty > 0
    PROVE  /\ call \in Calls /\ Left \in Orders /\ Left.id = call.id
           /\ MapsOK'
           /\ Queue' = Put(Queue, call.is_buy, call.price,
                           Append(Queue[call.is_buy][call.price], Left))
  <1>1. call \in Calls /\ call.is_buy \in BOOLEAN /\ call.price \in Prices
    BY Calling DEF Insert, Calls
  <1>2. Left \in Orders /\ Left.id = call.id
    BY <1>1 DEF Left, Orders, Calls
  <1>3. PICK b \in BOOLEAN, p \in Prices : b = call.is_buy /\ p = call.price
    BY <1>1
  <1>4. book' = [book EXCEPT ![b] = WithList(@, p, Append(ListAt(b, p), Left))]
    BY <1>3 DEF Insert, Left
  <1>5. SetList(b, p, Append(Queue[b][p], Left))
    BY <1>4, QueueAt DEF SetList
  <1>6. MapsOK' /\ Queue' = Put(Queue, b, p, Append(Queue[b][p], Left))
    BY <1>5, SetListQueue DEF IInv
  <1> QED
    BY <1>1, <1>2, <1>3, <1>6

LEMMA InsertInv ==
    ASSUME IInv, Insert
    PROVE  IInv'
  <1>1. /\ call' = Idle /\ ~(call'.qty > 0) /\ call # Idle
        /\ UNCHANGED <<total_trades, submits>>
    BY DEF Insert, Idle
  <1>2. CallOK'
    BY <1>1 DEF CallOK
  <1>3. /\ total_trades \in Nat /\ submits \in 0..MaxSubmits /\ LookupOK /\ submits \in Nat
        /\ Queue \in Tables /\ Indexed(Queue, order_lookup) /\ TradesCounted /\ MapsOK
    BY InputAssumption DEF IInv
  <1>4. Cardinality(DOMAIN order_lookup) \in Nat
    BY <1>3, Counts
  <1>5. CASE call.qty > 0
    <2>1. /\ call \in Calls /\ Left \in Orders /\ Left.id = call.id
          /\ MapsOK'
          /\ Queue' = Put(Queue, call.is_buy, call.price,
                          Append(Queue[call.is_buy][call.price], Left))
      BY <1>5, InsertQueue
    <2>2. PICK b \in BOOLEAN, p \in Prices : b = call.is_buy /\ p = call.price
      BY <2>1 DEF Calls
    <2>3. /\ order_lookup' = WithList(order_lookup, Left.id, [price |-> p, is_buy |-> b])
          /\ Left.id \notin DOMAIN order_lookup /\ Left.id \in Ids
      BY <1>1, <1>5, <2>1, <2>2, Calling DEF Insert, Calls
    <2>4. Queue' \in Tables /\ Indexed(Queue', order_lookup')
      BY <1>3, <2>1, <2>2, <2>3, IndexedAppend
    <2>5. DOMAIN order_lookup' = DOMAIN order_lookup \cup {Left.id}
      BY <2>3 DEF WithList
    <2>6. /\ IsFiniteSet(DOMAIN order_lookup')
          /\ Cardinality(DOMAIN order_lookup') = Cardinality(DOMAIN order_lookup) + 1
      BY <1>3, <2>3, <2>5, Counts
    <2>7. LookupOK'
      BY <1>3, <2>3, <2>5, <2>6 DEF LookupOK
    <2>8. TradesCounted'
      BY <1>1, <1>3, <1>4, <1>5, <2>6 DEF TradesCounted
    <2> QED
      BY <1>1, <1>2, <1>3, <2>1, <2>4, <2>7, <2>8 DEF IInv
  <1>6. CASE ~(call.qty > 0)
    <2>1. UNCHANGED <<book, order_lookup>>
      BY <1>6 DEF Insert
    <2>2. MapsOK' /\ Queue' = Queue /\ LookupOK'
      BY <1>3, <2>1 DEF MapsOK, Queue, ListAt, LookupOK
    <2>3. TradesCounted'
      BY <1>1, <1>3, <1>6, <2>1 DEF TradesCounted
    <2> QED
      BY <1>1, <1>2, <1>3, <2>1, <2>2, <2>3 DEF IInv
  <1> QED
    BY <1>5, <1>6

LEMMA AddInv ==
    ASSUME IInv, NEW id \in Ids, NEW price \in Prices, NEW qty \in Qtys,
           NEW is_buy \in BOOLEAN, add_order(id, price, qty, is_buy)
    PROVE  IInv'
  <1>1. /\ call = Idle /\ submits < MaxSubmits /\ id \notin DOMAIN order_lookup
        /\ call' = [id |-> id, price |-> price, qty |-> qty, is_buy |-> is_buy]
        /\ submits' = submits + 1
        /\ UNCHANGED <<book, order_lookup, total_trades>>
    BY DEF add_order
  <1>2. call' \in Calls /\ call'.id = id
    BY <1>1, InputAssumption DEF Calls
  <1>3. MapsOK' /\ Queue' = Queue /\ LookupOK'
    BY <1>1 DEF IInv, MapsOK, Queue, ListAt, LookupOK
  <1>4. CallOK'
    BY <1>1, <1>2 DEF CallOK
  <1>5. ~(call.qty > 0)
    BY <1>1 DEF Idle
  <1>6. /\ total_trades \in Nat /\ Cardinality(DOMAIN order_lookup) \in Nat
        /\ submits \in Nat /\ submits' \in 0..MaxSubmits
    BY <1>1, Counts, InputAssumption DEF IInv
  <1>7. TradesCounted'
    BY <1>1, <1>5, <1>6 DEF IInv, TradesCounted
  <1> QED
    BY <1>1, <1>3, <1>4, <1>6, <1>7 DEF IInv

\* A cancel of an order that rests: its place, and the lists without it.
CancelOf(id, b, p, k) ==
    /\ OnList(Queue, b, p, k, id)
    /\ order_lookup' = Erase(order_lookup, id)
    /\ MapsOK' /\ Queue' = Put(Queue, b, p, RemoveAt(Queue[b][p], k))
    /\ WithoutAt(RemoveAt(Queue[b][p], k), Queue[b][p], k)

LEMMA CancelQueue ==
    ASSUME IInv, NEW id, cancel_order(id), has_order(id)
    PROVE  \E b \in BOOLEAN, p \in Prices : \E k \in DOMAIN Queue[b][p] :
              CancelOf(id, b, p, k)
  <1>1. /\ MapsOK /\ Queue \in Tables /\ Indexed(Queue, order_lookup)
        /\ id \in DOMAIN order_lookup
    BY DEF IInv, has_order
  <1>2. PICK b \in BOOLEAN, p \in Prices :
           b = order_lookup[id].is_buy /\ p = order_lookup[id].price
    BY <1>1, IndexedFound
  <1>3. PICK s, k : s = ListAt(b, p) /\ k = itr(s, id)
    OBVIOUS
  <1>4. s = Queue[b][p] /\ s \in Seq(Orders)
    BY <1>1, <1>3, QueueAt DEF Tables
  <1>5. k \in DOMAIN s /\ s[k].id = id
    <2>1. PICK j : OnList(Queue, b, p, j, id)
      BY <1>1, <1>2, IndexedFound
    <2>2. j \in DOMAIN s /\ s[j].id = id
      BY <1>4, <2>1 DEF OnList
    <2> QED
      BY <1>3, <2>2, Zenon DEF itr
  <1>6. /\ book' = [book EXCEPT ![b] = WithList(@, p, RemoveAt(s, k))]
        /\ order_lookup' = Erase(order_lookup, id)
    BY <1>2, <1>3, Zenon DEF cancel_order
  <1>7. SetList(b, p, RemoveAt(s, k))
    BY <1>6 DEF SetList
  <1>8. MapsOK' /\ Queue' = Put(Queue, b, p, RemoveAt(s, k))
    BY <1>1, <1>7, SetListQueue
  <1>9. WithoutAt(RemoveAt(s, k), s, k)
    BY <1>4, <1>5, RemoveAtIs
  <1>10. OnList(Queue, b, p, k, id)
    BY <1>4, <1>5 DEF OnList
  <1>11. CancelOf(id, b, p, k)
    BY <1>4, <1>6, <1>8, <1>9, <1>10 DEF CancelOf
  <1> QED
    BY <1>4, <1>5, <1>11

LEMMA CancelInv ==
    ASSUME IInv, NEW id, cancel_order(id)
    PROVE  IInv'
  <1>1. call = Idle /\ UNCHANGED <<total_trades, call, submits>>
    BY DEF cancel_order
  <1>2. CallOK'
    BY <1>1 DEF CallOK
  <1>3. /\ total_trades \in Nat /\ submits \in 0..MaxSubmits /\ LookupOK /\ submits \in Nat
        /\ Queue \in Tables /\ Indexed(Queue, order_lookup) /\ TradesCounted /\ MapsOK
    BY InputAssumption DEF IInv
  <1>4. CASE has_order(id)
    <2>1. PICK b \in BOOLEAN, p \in Prices : \E k \in DOMAIN Queue[b][p] : CancelOf(id, b, p, k)
      BY <1>4, CancelQueue
    <2>2. PICK k : CancelOf(id, b, p, k)
      BY <2>1
    <2>3. Queue' \in Tables /\ Indexed(Queue', order_lookup')
      BY <1>3, <2>2, IndexedWithout DEF CancelOf
    <2>4. /\ LookupOK' /\ DOMAIN order_lookup' = DOMAIN order_lookup \ {id}
          /\ Cardinality(DOMAIN order_lookup') = Cardinality(DOMAIN order_lookup) - 1
      BY <1>3, <1>4, <2>2, ErasedLookup DEF CancelOf, has_order
    <2>5. Cardinality(DOMAIN order_lookup) \in Nat
      BY <1>3, Counts
    <2>6. TradesCounted'
      BY <1>1, <1>3, <2>4, <2>5 DEF TradesCounted
    <2> QED
      BY <1>1, <1>2, <1>3, <2>2, <2>3, <2>4, <2>6 DEF IInv, CancelOf
  <1>5. CASE ~has_order(id)
    <2>1. UNCHANGED <<book, order_lookup>>
      BY <1>5 DEF cancel_order
    <2>2. MapsOK' /\ Queue' = Queue /\ LookupOK' /\ TradesCounted'
      BY <1>1, <1>3, <2>1 DEF MapsOK, Queue, ListAt, LookupOK, TradesCounted
    <2> QED
      BY <1>1, <1>2, <1>3, <2>1, <2>2 DEF IInv
  <1> QED
    BY <1>4, <1>5

LEMMA StutterInv ==
    ASSUME IInv, UNCHANGED vars
    PROVE  IInv'
  BY DEF vars, IInv, MapsOK, Queue, ListAt, LookupOK, CallOK, TradesCounted

LEMMA NextInv ==
    ASSUME IInv, [Next]_vars
    PROVE  IInv'
  BY TradeInv, EraseEmptyInv, InsertInv, AddInv, CancelInv, StutterInv DEF Next

\* The inductive invariant: the maps have finitely many prices, the lists hold
\* orders with a quantity, lists and lookup are inverse to each other, the
\* incoming order is in neither, and every order is worth at most one trade.
THEOREM Invariant == Spec => []IInv
  <1>1. IInv /\ [Next]_vars => IInv'
    BY NextInv
  <1> QED
    BY InitInv, <1>1, PTL DEF Spec

\* TypeOK: process_list() never takes more from an order than it has.
THEOREM TypeCorrect == Spec => []TypeOK
  <1>1. IInv => TypeOK
    <2> SUFFICES ASSUME IInv PROVE TypeOK
      OBVIOUS
    <2>1. ASSUME NEW b \in BOOLEAN
          PROVE  /\ DOMAIN book[b] \subseteq Prices
                 /\ \A p \in DOMAIN book[b] : book[b][p] \in Seq([id : Ids, qty : Nat])
      <3>1. DOMAIN book[b] \subseteq Prices
        BY DEF IInv, MapsOK
      <3>2. ASSUME NEW p \in DOMAIN book[b]
            PROVE  book[b][p] \in Seq([id : Ids, qty : Nat])
        <4>1. book[b][p] \in Seq(Orders)
          BY <3>1, QueueAt DEF IInv, Tables, ListAt
        <4>2. Orders \subseteq [id : Ids, qty : Nat]
          BY DEF Orders
        <4> DEFINE s == book[b][p]
                   T == [id : Ids, qty : Nat]
        <4>3. s \in Seq(Orders) /\ Orders \subseteq T
          BY <4>1, <4>2
        <4> HIDE DEF s, T
        <4>4. s \in Seq(T)
          BY <4>3
        <4> QED
          BY <4>4 DEF s, T
      <3> QED
        BY <3>1, <3>2
    <2>2. ASSUME NEW id \in DOMAIN order_lookup
          PROVE  order_lookup[id] \in [price : Prices, is_buy : BOOLEAN]
      BY DEF IInv, Indexed, Places
    <2> QED
      BY <2>1, <2>2 DEF IInv, TypeOK, LookupOK, CallOK, Calls
  <1> QED
    BY Invariant, <1>1, PTL

\* LookupExact: an id is in the lookup exactly while its order is on the list
\* of the price and side the lookup names, also after cancels in the middle of
\* a list and fills at its head.
THEOREM LookupCorrect == Spec => []LookupExact
  <1>1. IInv => LookupExact
    <2> SUFFICES ASSUME IInv PROVE LookupExact
      OBVIOUS
    <2>0. Indexed(Queue, order_lookup) /\ Queue \in Tables
      BY DEF IInv
    <2>1. ASSUME NEW b \in BOOLEAN, NEW p \in DOMAIN book[b], NEW k \in DOMAIN book[b][p],
                 NEW id, id = book[b][p][k].id
          PROVE  has_order(id) /\ order_lookup[id] = [price |-> p, is_buy |-> b]
      <3>1. p \in Prices /\ Queue[b][p] = book[b][p]
        BY QueueAt DEF IInv, MapsOK, ListAt
      <3>2. OnList(Queue, b, p, k, id)
        BY <2>1, <3>1 DEF OnList
      <3>3. id \in DOMAIN order_lookup /\ order_lookup[id].price = p /\ order_lookup[id].is_buy = b
        BY <2>0, <3>1, <3>2, IndexedAt
      <3>4. order_lookup[id] \in Places
        BY <2>0, <3>3 DEF Indexed
      <3> QED
        BY <3>3, <3>4 DEF has_order, Places
    <2>2. ASSUME NEW id \in DOMAIN order_lookup
          PROVE  \E o \in ToSet(ListAt(order_lookup[id].is_buy, order_lookup[id].price)) : o.id = id
      <3>1. PICK b \in BOOLEAN, p \in Prices :
               b = order_lookup[id].is_buy /\ p = order_lookup[id].price
        BY <2>0, IndexedFound
      <3>2. PICK k : OnList(Queue, b, p, k, id)
        BY <2>0, <3>1, IndexedFound
      <3>3. k \in DOMAIN ListAt(b, p) /\ ListAt(b, p)[k].id = id
        BY <3>1, <3>2, QueueAt DEF OnList
      <3>4. ListAt(b, p)[k] \in ToSet(ListAt(b, p))
        BY <3>3, Zenon DEF ToSet
      <3> QED
        BY <3>1, <3>3, <3>4
    <2>3. \A b \in BOOLEAN : \A p \in DOMAIN book[b] : \A k \in DOMAIN book[b][p] :
             LET id == book[b][p][k].id
             IN  has_order(id) /\ order_lookup[id] = [price |-> p, is_buy |-> b]
      BY <2>1
    <2> QED
      BY <2>2, <2>3, Zenon DEF LookupExact
  <1> QED
    BY Invariant, <1>1, PTL

\* TradesBounded: a partial fill is counted once, although the resting order
\* stays; between two calls of add_order() no more trades are counted than
\* orders have left the book.
THEOREM TradesCorrect == Spec => []TradesBounded
  <1>1. IInv => TradesBounded
    <2> SUFFICES ASSUME IInv, call = Idle
                 PROVE  total_trades + Cardinality(DOMAIN order_lookup) <= submits
      BY DEF TradesBounded
    <2>1. ~(call.qty > 0)
      BY DEF Idle
    <2>2. total_trades \in Nat /\ Cardinality(DOMAIN order_lookup) \in Nat /\ submits \in Nat
      BY Counts, InputAssumption DEF IInv
    <2> QED
      BY <2>1, <2>2 DEF IInv, TradesCounted
  <1> QED
    BY Invariant, <1>1, PTL

-----------------------------------------------------------------------------
(* The abstract book, over the lists *)

LEMMA BookVars == Book!bookVars = <<Queue, call>>
  BY Zenon DEF Book!bookVars, Queue

LEMMA BookVarsPrime == (Book!bookVars)' = <<Queue', call'>>
  BY Zenon DEF Book!bookVars, Queue

LEMMA BookInit ==
    Book!Init <=> Queue = [b \in BOOLEAN |-> [p \in Prices |-> <<>>]] /\ call = Idle
  BY Zenon DEF Book!Init, Book!Empty, Book!Idle, Idle, Queue

LEMMA BookActive == \A b : Book!Active(b) = {p \in Prices : Queue[b][p] # <<>>}
  BY Zenon DEF Book!Active, Queue

LEMMA BookMinMax == \A S : Book!Min(S) = Min(S) /\ Book!Max(S) = Max(S)
  BY Zenon DEF Book!Min, Min, Book!Max, Max

LEMMA BookCardinality == \A S : Book!Cardinality(S) = Cardinality(S)
  BY Zenon DEF Book!Cardinality, Cardinality

LEMMA BookRemoveAt == \A s, k : Book!RemoveAt(s, k) = RemoveAt(s, k)
  BY Zenon DEF Book!RemoveAt, RemoveAt

LEMMA BookRestingIds ==
    /\ Book!RestingIds = UNION {Book!IdsAt(bp[1], bp[2]) : bp \in BOOLEAN \X Prices}
    /\ \A b, p : Book!IdsAt(b, p) = {Queue[b][p][k].id : k \in DOMAIN Queue[b][p]}
  BY Zenon DEF Book!RestingIds, Book!IdsAt, Queue, Book!Places

LEMMA BookSubmit ==
    ASSUME NEW i, NEW p, NEW q, NEW b
    PROVE  Book!Submit(i, p, q, b) <=>
              /\ call = Idle
              /\ call' = [id |-> i, price |-> p, qty |-> q, is_buy |-> b]
              /\ i \notin Book!RestingIds
              /\ Queue' = Queue
  BY Zenon DEF Book!Submit, Book!Idle, Idle, Queue

LEMMA BookTrade ==
    Book!Trade <=>
        /\ call # Idle /\ Book!Crossing
        /\ LET old  == Head(Queue[~call.is_buy][Book!Best])
               t    == Min({call.qty, old.qty})
               rest == Tail(Queue[~call.is_buy][Book!Best])
           IN  /\ call' = [call EXCEPT !.qty = @ - t]
               /\ Queue' = [Queue EXCEPT ![~call.is_buy][Book!Best] =
                     IF t = old.qty THEN rest
                                    ELSE <<[old EXCEPT !.qty = @ - t]>> \o rest]
  BY Zenon DEF Book!Trade, Queue, Idle, Book!Idle, Book!Min, Min

LEMMA BookRest ==
    Book!Rest <=>
        /\ call # Idle /\ ~Book!Crossing
        /\ call' = Idle
        /\ Queue' = IF call.qty > 0 /\ Cardinality(Book!RestingIds) < MaxSubmits + 1
                    THEN [Queue EXCEPT ![call.is_buy][call.price] =
                             Append(@, [id |-> call.id, qty |-> call.qty])]
                    ELSE Queue
  BY BookCardinality, Zenon DEF Book!Rest, Queue, Idle, Book!Idle

LEMMA BookCancel ==
    ASSUME NEW b, NEW p, NEW k
    PROVE  Book!Cancel(b, p, k) <=>
              /\ call = Idle
              /\ Queue' = [Queue EXCEPT ![b][p] = Book!RemoveAt(@, k)]
              /\ call' = call
  BY Zenon DEF Book!Cancel, Queue, Idle, Book!Idle

LEMMA BookNext ==
    \/ Book!Trade \/ Book!Rest
    \/ \E i \in Ids, p \in Prices, q \in Qtys, b \in BOOLEAN : Book!Submit(i, p, q, b)
    \/ \E b \in BOOLEAN, p \in Prices : \E k \in DOMAIN Queue[b][p] : Book!Cancel(b, p, k)
    => Book!Next
  BY Zenon DEF Book!Next, Queue

-----------------------------------------------------------------------------
(* Every step of the naive book is a step of the abstract book, or none *)

\* The maps may have prices with an empty list, the abstract book has none; the
\* best price is the same when the list of begin() is not empty, and when the
\* loop of match() ends.
LEMMA ActiveIs ==
    ASSUME IInv, NEW b \in BOOLEAN
    PROVE  /\ Book!Active(b) \subseteq DOMAIN book[b]
           /\ \A p \in DOMAIN book[b] : p \in Book!Active(b) <=> ListAt(b, p) # <<>>
  <1>1. DOMAIN book[b] \subseteq Prices
    BY DEF IInv, MapsOK
  <1>2. ASSUME NEW p \in Prices, p \notin DOMAIN book[b] PROVE Queue[b][p] = <<>>
    BY <1>2, QueueAt DEF ListAt
  <1>3. \A p \in Prices : p \in Book!Active(b) <=> Queue[b][p] # <<>>
    BY BookActive
  <1>4. Book!Active(b) \subseteq Prices
    BY BookActive
  <1> QED
    BY <1>1, <1>2, <1>3, <1>4, QueueAt

LEMMA BookBest ==
    /\ Book!Best = IF call.is_buy THEN Min(Book!Active(FALSE)) ELSE Max(Book!Active(TRUE))
    /\ Book!Crossing <=> /\ call.qty > 0
                         /\ Book!Active(~call.is_buy) # {}
                         /\ IF call.is_buy THEN Book!Best <= call.price
                                           ELSE Book!Best >= call.price
  <1>1. Book!Best = IF call.is_buy THEN Book!Min(Book!Active(FALSE))
                                   ELSE Book!Max(Book!Active(TRUE))
    BY Zenon DEF Book!Best
  <1>2. Book!Crossing <=> /\ call.qty > 0
                          /\ Book!Active(~call.is_buy) # {}
                          /\ IF call.is_buy THEN Book!Best <= call.price
                                            ELSE Book!Best >= call.price
    BY Zenon DEF Book!Crossing
  <1> QED
    BY <1>1, <1>2, BookMinMax

\* A list of begin() with an order is the best queue of the abstract book.
LEMMA BestIsBegin ==
    ASSUME IInv, call # Idle, Matches, ListAt(~call.is_buy, begin) # <<>>
    PROVE  Book!Best = begin /\ Book!Crossing
  <1>1. PICK b, p : b \in BOOLEAN /\ b = ~call.is_buy /\ p = begin /\ call.is_buy \in BOOLEAN
    BY Calling DEF Calls
  <1>2. /\ p \in DOMAIN book[b] /\ p \in Prices
        /\ \A r \in DOMAIN book[b] : IF call.is_buy THEN p <= r ELSE r <= p
    BY <1>1, BeginIs DEF Matches
  <1>3. PICK A : A = Book!Active(b)
    OBVIOUS
  <1>4. A \subseteq DOMAIN book[b] /\ p \in A
    BY <1>1, <1>2, <1>3, ActiveIs
  <1>5. A \subseteq Int /\ \A r \in A : IF call.is_buy THEN p <= r ELSE r <= p
    BY <1>2, <1>4, InputAssumption DEF IInv, MapsOK
  <1>6. Book!Best = p
    <2>1. CASE call.is_buy
      <3>1. Book!Best = Min(A) /\ \A r \in A : p <= r
        BY <1>1, <1>3, <1>5, <2>1, BookBest
      <3> QED
        BY <1>4, <1>5, <3>1, MinUnique
    <2>2. CASE ~call.is_buy
      <3>1. Book!Best = Max(A) /\ \A r \in A : r <= p
        BY <1>1, <1>3, <1>5, <2>2, BookBest
      <3> QED
        BY <1>4, <1>5, <3>1, MaxUnique
    <2> QED
      BY <1>1, <2>1, <2>2
  <1>7. Book!Crossing
    <2>1. call.qty > 0 /\ (IF call.is_buy THEN p <= call.price ELSE p >= call.price)
      BY <1>1 DEF Matches, BreaksNot, InReach
    <2>2. Book!Active(~call.is_buy) # {}
      BY <1>1, <1>3, <1>4
    <2> QED
      BY <1>6, <2>1, <2>2, BookBest
  <1> QED
    BY <1>1, <1>6, <1>7

\* When the loop of match() ends, no queue of the abstract book is in reach.
LEMMA EndsUncrossed ==
    ASSUME IInv, call # Idle, ~Matches
    PROVE  ~Book!Crossing
  <1> SUFFICES ASSUME Book!Crossing PROVE FALSE
    OBVIOUS
  <1>1. PICK b \in BOOLEAN : b = ~call.is_buy /\ call.is_buy \in BOOLEAN
    BY Calling DEF Calls
  <1>2. PICK A : A = Book!Active(b)
    OBVIOUS
  <1>3. A \subseteq DOMAIN book[b] /\ A # {} /\ call.qty > 0
    BY <1>1, <1>2, ActiveIs, BookBest
  <1>4. DOMAIN book[b] \subseteq Prices /\ DOMAIN book[b] # {} /\ Bounded(DOMAIN book[b])
    BY <1>3 DEF IInv, MapsOK
  <1>5. /\ begin \in DOMAIN book[b]
        /\ \A r \in DOMAIN book[b] : IF call.is_buy THEN begin <= r ELSE r <= begin
    BY <1>1, <1>4, BeginIs
  <1>6. ~InReach
    BY <1>1, <1>3, <1>4 DEF Matches, BreaksNot
  <1>7. Book!Best \in A
    <2>1. CASE call.is_buy
      <3>1. Book!Best = Min(A) /\ A \subseteq Nat
        BY <1>1, <1>2, <1>3, <1>4, <2>1, BookBest, InputAssumption
      <3> QED
        BY <1>3, <3>1, MinExists
    <2>2. CASE ~call.is_buy
      <3>1. Book!Best = Max(A)
        BY <1>1, <1>2, <2>2, BookBest
      <3>2. PICK n \in Nat : A \subseteq 0..n
        BY <1>3, <1>4, InputAssumption DEF Bounded
      <3> QED
        BY <1>3, <3>1, <3>2, MaxExists
    <2> QED
      BY <1>1, <2>1, <2>2
  <1>8. /\ Book!Best \in Nat /\ begin \in Nat /\ call.price \in Nat
        /\ IF call.is_buy THEN begin <= Book!Best ELSE Book!Best <= begin
    <2>1. call.price \in Prices
      BY Calling DEF Calls
    <2> QED
      BY <1>3, <1>4, <1>5, <1>7, <2>1, InputAssumption
  <1>9. IF call.is_buy THEN Book!Best <= call.price ELSE Book!Best >= call.price
    BY BookBest
  <1>10. PICK x, y, z : x = Book!Best /\ y = begin /\ z = call.price
    OBVIOUS
  <1> QED
    BY <1>1, <1>6, <1>8, <1>9, <1>10 DEF InReach

\* The ids of the abstract book are in the lookup.
LEMMA RestingFound ==
    ASSUME IInv
    PROVE  Book!RestingIds \subseteq DOMAIN order_lookup
  <1> SUFFICES ASSUME NEW id \in Book!RestingIds PROVE id \in DOMAIN order_lookup
    OBVIOUS
  <1>1. PICK bp \in BOOLEAN \X Prices : id \in Book!IdsAt(bp[1], bp[2])
    BY BookRestingIds, Zenon
  <1>2. PICK b \in BOOLEAN, p \in Prices : b = bp[1] /\ p = bp[2]
    OBVIOUS
  <1>3. Book!IdsAt(b, p) = {Queue[b][p][k].id : k \in DOMAIN Queue[b][p]}
    BY BookRestingIds, Zenon
  <1>4. PICK k \in DOMAIN Queue[b][p] : id = Queue[b][p][k].id
    BY <1>1, <1>2, <1>3
  <1>5. OnList(Queue, b, p, k, id)
    BY <1>4 DEF OnList
  <1>6. Indexed(Queue, order_lookup)
    BY DEF IInv
  <1> QED
    BY <1>5, <1>6, IndexedAt

\* The naive book never runs out of room: it holds no more orders than were
\* submitted.
LEMMA RoomLeft ==
    ASSUME IInv
    PROVE  Cardinality(Book!RestingIds) < MaxSubmits + 1
  <1> DEFINE D == DOMAIN order_lookup
             R == Book!RestingIds
  <1>1. R \subseteq D /\ IsFiniteSet(D)
    BY RestingFound DEF IInv, LookupOK
  <1> HIDE DEF D, R
  <1>2. IsFiniteSet(R) /\ Cardinality(R) <= Cardinality(D)
    BY <1>1, FS_Subset
  <1>3. Cardinality(R) \in Nat /\ Cardinality(D) \in Nat
    BY <1>1, <1>2, FS_CardinalityType
  <1>4. total_trades \in Nat /\ submits \in Nat /\ submits <= MaxSubmits /\ MaxSubmits \in Nat
    BY InputAssumption DEF IInv
  <1>5. total_trades + Cardinality(D) + (IF call.qty > 0 THEN 1 ELSE 0) <= submits
    BY DEF IInv, TradesCounted, D
  <1> QED
    BY <1>2, <1>3, <1>4, <1>5 DEF R

LEMMA RefineInit == Init => Book!Init
  <1> SUFFICES ASSUME Init PROVE Book!Init
    OBVIOUS
  <1>1. \A b \in BOOLEAN, p \in Prices : ListAt(b, p) = <<>>
    BY DEF Init, ListAt
  <1>2. Queue = [b \in BOOLEAN |-> [p \in Prices |-> <<>>]]
    BY <1>1 DEF Queue
  <1> QED
    BY <1>2, BookInit DEF Init

LEMMA RefineTrade ==
    ASSUME IInv, process_list
    PROVE  Book!Trade
  <1>1. PICK b, p, s, o, t, l : TradeOf(b, p, s, o, t, l)
    BY TradeSteps
  <1>2. PartsOf(b, p, s, o, t)
    BY <1>1, TradeParts
  <1>3. Queue' = Put(Queue, b, p, l)
    BY <1>1, <1>2, SetListQueue DEF TradeOf, PartsOf, IInv
  <1>4. call # Idle /\ p = Book!Best /\ b = ~call.is_buy /\ Book!Crossing
    BY <1>1, BestIsBegin DEF TradeOf, process_list
  <1>5. /\ s = Queue[b][p] /\ o = Head(s) /\ t = Min({call.qty, o.qty})
        /\ l = IF t = o.qty THEN Tail(s) ELSE <<[o EXCEPT !.qty = @ - t]>> \o Tail(s)
        /\ call' = [call EXCEPT !.qty = @ - t]
    BY <1>1, <1>2, Zenon DEF TradeOf, PartsOf
  <1>6. /\ call # Idle /\ Book!Crossing
        /\ LET old  == Head(Queue[b][p])
               tt   == Min({call.qty, old.qty})
               rest == Tail(Queue[b][p])
           IN  /\ call' = [call EXCEPT !.qty = @ - tt]
               /\ Queue' = [Queue EXCEPT ![b][p] =
                     IF tt = old.qty THEN rest
                                    ELSE <<[old EXCEPT !.qty = @ - tt]>> \o rest]
    BY <1>3, <1>4, <1>5, Zenon DEF Put
  <1> QED
    BY <1>4, <1>6, BookTrade, Zenon

LEMMA RefineInsert ==
    ASSUME IInv, Insert
    PROVE  Book!Rest
  <1>1. call # Idle /\ ~Book!Crossing /\ call' = Idle
    BY EndsUncrossed DEF Insert
  <1>2. Cardinality(Book!RestingIds) < MaxSubmits + 1
    BY RoomLeft
  <1>3. CASE call.qty > 0
    <2>1. Queue' = Put(Queue, call.is_buy, call.price,
                       Append(Queue[call.is_buy][call.price], Left))
      BY <1>3, InsertQueue
    <2>2. Queue' = [Queue EXCEPT ![call.is_buy][call.price] =
                       Append(@, [id |-> call.id, qty |-> call.qty])]
      BY <2>1, Zenon DEF Put, Left
    <2> QED
      BY <1>1, <1>2, <1>3, <2>2, BookRest, Zenon
  <1>4. CASE ~(call.qty > 0)
    <2>1. Queue' = Queue
      BY <1>4 DEF Insert, Queue, ListAt
    <2> QED
      BY <1>1, <1>4, <2>1, BookRest, Zenon
  <1> QED
    BY <1>3, <1>4

LEMMA RefineAdd ==
    ASSUME IInv, NEW id, NEW price, NEW qty, NEW is_buy, add_order(id, price, qty, is_buy)
    PROVE  Book!Submit(id, price, qty, is_buy)
  <1>1. /\ call = Idle /\ id \notin DOMAIN order_lookup
        /\ call' = [id |-> id, price |-> price, qty |-> qty, is_buy |-> is_buy]
        /\ book' = book
    BY DEF add_order
  <1>2. Queue' = Queue
    BY <1>1 DEF Queue, ListAt
  <1>3. id \notin Book!RestingIds
    BY <1>1, RestingFound
  <1> QED
    BY <1>1, <1>2, <1>3, BookSubmit, Zenon

LEMMA RefineCancel ==
    ASSUME IInv, NEW id, cancel_order(id)
    PROVE  Book!Next \/ (Queue' = Queue /\ call' = call)
  <1>1. call = Idle /\ call' = call
    BY DEF cancel_order
  <1>2. CASE has_order(id)
    <2>1. PICK b \in BOOLEAN, p \in Prices : \E k \in DOMAIN Queue[b][p] : CancelOf(id, b, p, k)
      BY <1>2, CancelQueue
    <2>2. PICK k \in DOMAIN Queue[b][p] : CancelOf(id, b, p, k)
      BY <2>1
    <2>3. Queue' = Put(Queue, b, p, Book!RemoveAt(Queue[b][p], k))
      BY <2>2, BookRemoveAt DEF CancelOf
    <2>4. Queue' = [Queue EXCEPT ![b][p] = Book!RemoveAt(@, k)]
      BY <2>3, Zenon DEF Put
    <2>5. Book!Cancel(b, p, k)
      BY <1>1, <2>4, BookCancel, Zenon
    <2> QED
      BY <2>5, BookNext, Zenon
  <1>3. CASE ~has_order(id)
    BY <1>1, <1>3 DEF cancel_order, Queue, ListAt
  <1> QED
    BY <1>2, <1>3

LEMMA RefineNext ==
    ASSUME IInv, [Next]_vars
    PROVE  [Book!Next]_(Book!bookVars)
  <1>0. SUFFICES Book!Next \/ (Queue' = Queue /\ call' = call)
    BY BookVars, BookVarsPrime
  <1>1. CASE process_list
    BY <1>1, RefineTrade, BookNext, Zenon
  <1>2. CASE EraseEmpty
    BY <1>2, EraseEmptyQueue DEF EraseEmpty
  <1>3. CASE Insert
    BY <1>3, RefineInsert, BookNext, Zenon
  <1>4. ASSUME NEW id \in Ids, NEW price \in Prices, NEW qty \in Qtys,
               NEW is_buy \in BOOLEAN, add_order(id, price, qty, is_buy)
        PROVE  Book!Next
    BY <1>4, RefineAdd, BookNext, Zenon
  <1>5. ASSUME NEW id \in Ids, cancel_order(id)
        PROVE  Book!Next \/ (Queue' = Queue /\ call' = call)
    BY <1>5, RefineCancel
  <1>6. CASE UNCHANGED vars
    BY <1>6 DEF vars, Queue, ListAt
  <1> QED
    BY <1>1, <1>2, <1>3, <1>4, <1>5, <1>6 DEF Next

\* PriceTime: the lists in the sorted maps are a price-time priority book that
\* is never full.  Every trade of process_list() is with the oldest order at
\* the best price that has one, and a list that a cancel has emptied and left
\* in the map delays match() but changes nothing.
THEOREM Refinement == Spec => PriceTime
  <1>1. IInv /\ [Next]_vars => [Book!Next]_(Book!bookVars)
    BY RefineNext
  <1> QED
    BY RefineInit, <1>1, Invariant, PTL DEF Spec, PriceTime, Book!Spec
=============================================================================
