--------------------------- MODULE OrderPoolProofs --------------------------
(***************************************************************************)
(* Facts about the pool and the lists of OrderPool that both books use.    *)
(***************************************************************************)
EXTENDS OrderPool, WellFoundedInduction, SequenceTheorems, FiniteSetTheorems, TLAPS

-----------------------------------------------------------------------------
(* When the Min and Max of FiniteSetsExt are what their names say *)

\* A non-empty set of naturals has a least element: Min is not arbitrary.
LEMMA MinExists ==
    ASSUME NEW S, S \subseteq Nat, S # {}
    PROVE  Min(S) \in S /\ \A y \in S : Min(S) <= y
  <1>1. \E x \in S : \A y \in S : ~ (<<y, x>> \in OpToRel(<, Nat))
    BY WFMin, NatLessThanWellFounded
  <1>2. \A a, b \in Nat : a < b => <<a, b>> \in OpToRel(<, Nat)
    <2> DEFINE R == {ss \in Nat \X Nat : ss[1] < ss[2]}
    <2>1. OpToRel(<, Nat) = R
      BY Zenon DEF OpToRel
    <2>2. \A a, b \in Nat : a < b => <<a, b>> \in R
      OBVIOUS
    <2> QED
      BY <2>1, <2>2, Zenon
  <1>3. \A a, b \in Nat : ~(b < a) => a <= b
    OBVIOUS
  <1>4. \E x \in S : \A y \in S : x <= y
    BY <1>1, <1>2, <1>3, Zenon
  <1> QED
    BY <1>4 DEF Min

\* A bounded non-empty set of naturals has a greatest element.
LEMMA MaxExists ==
    ASSUME NEW n \in Nat, NEW S, S \subseteq 0..n, S # {}
    PROVE  Max(S) \in S /\ \A y \in S : Max(S) >= y
  <1> DEFINE T == {t \in 0..n : n - t \in S}
  <1>1. \A x \in S : n - x \in T
    OBVIOUS
  <1>0. T \subseteq Nat /\ T # {}
    <2>1. PICK x \in S : TRUE
      OBVIOUS
    <2>2. n - x \in T
      BY <1>1
    <2>3. T \subseteq Nat
      OBVIOUS
    <2> QED
      BY <2>2, <2>3, Zenon
  <1>2. Min(T) \in T /\ \A y \in T : Min(T) <= y
    BY <1>0, MinExists
  <1>3. PICK x \in S : x = n - Min(T)
    BY <1>2
  <1>4. \A y \in S : x >= y
    BY <1>1, <1>2, <1>3
  <1> QED
    BY <1>4 DEF Max

\* An element that bounds a set of numbers from above is its Max.
LEMMA MaxUnique ==
    ASSUME NEW S, S \subseteq Int, NEW x \in S, \A y \in S : y <= x
    PROVE  Max(S) = x
  <1> DEFINE isMax(m) == m \in S /\ \A y \in S : m >= y
  <1>1. isMax(x)
    OBVIOUS
  <1>2. ASSUME NEW m, isMax(m)
        PROVE  m = x
    <2>1. m \in Int /\ x \in Int /\ m >= x /\ m <= x
      BY <1>2
    <2> QED
      BY <2>1
  <1> QED
    BY <1>1, <1>2, Zenon DEF Max

\* An element that bounds a set of numbers from below is its Min.
LEMMA MinUnique ==
    ASSUME NEW S, S \subseteq Int, NEW x \in S, \A y \in S : x <= y
    PROVE  Min(S) = x
  <1> DEFINE isMin(m) == m \in S /\ \A y \in S : m <= y
  <1>1. isMin(x)
    OBVIOUS
  <1>2. ASSUME NEW m, isMin(m)
        PROVE  m = x
    <2>1. m \in Int /\ x \in Int /\ m <= x /\ m >= x
      BY <1>2
    <2> QED
      BY <2>1
  <1> QED
    BY <1>1, <1>2, Zenon DEF Min


-----------------------------------------------------------------------------
(* Walks: what the recursive function of Walk computes *)

\* One round of the recursion: the walks of one step more.
Longer(ord, n, shorter) ==
    [s \in Slots \cup {NULL_IDX} |->
        IF s = NULL_IDX \/ n = 0 THEN <<>> ELSE <<s>> \o shorter[ord[s].next]]

IsWalks(ord, f, m) == f = [n \in 0..m |-> Longer(ord, n, f[n - 1])]

\* The recursive function exists: were m the least bound for which it does
\* not, the function for m - 1 could be extended.
LEMMA WalksExist ==
    ASSUME NEW ord, NEW m \in Nat
    PROVE  \E f : IsWalks(ord, f, m)
  <1> DEFINE bad == {k \in Nat : ~ \E f : IsWalks(ord, f, k)}
  <1>1. SUFFICES ASSUME bad # {} PROVE FALSE
    OBVIOUS
  <1>2. PICK k \in bad : \A j \in bad : k <= j
    BY <1>1, MinExists
  <1>3. CASE k = 0
    <2> DEFINE f == [n \in 0..0 |-> Longer(ord, n, <<>>)]
    <2>1. \A g : Longer(ord, 0, g) = [s \in Slots \cup {NULL_IDX} |-> <<>>]
      BY DEF Longer
    <2>2. f = [n \in 0..0 |-> Longer(ord, n, f[n - 1])]
      BY <2>1
    <2>3. IsWalks(ord, f, 0)
      BY <2>2 DEF IsWalks
    <2> QED
      BY <1>3, <2>3
  <1>4. CASE k # 0
    <2>1. k - 1 \in Nat /\ k - 1 \notin bad
      BY <1>2, <1>4
    <2>2. PICK g : IsWalks(ord, g, k - 1)
      BY <2>1
    <2> DEFINE f == [n \in 0..k |-> IF n = k THEN Longer(ord, k, g[k - 1]) ELSE g[n]]
    <2>3. ASSUME NEW n \in 0..k
          PROVE  f[n] = Longer(ord, n, f[n - 1])
      <3>1. CASE n = k
        BY <3>1, <1>4, k - 1 \in 0..k, k - 1 # k
      <3>2. CASE n = 0
        <4>1. \A a, b : Longer(ord, 0, a) = Longer(ord, 0, b)
          BY DEF Longer
        <4>2. g[0] = Longer(ord, 0, g[0 - 1])
          BY <2>2, <2>1 DEF IsWalks
        <4> QED
          BY <4>1, <4>2, <3>2, <1>4
      <3>3. CASE n # k /\ n # 0
        <4>1. n \in 0..(k - 1) /\ n - 1 \in 0..k /\ n - 1 # k
          BY <3>3
        <4>2. g[n] = Longer(ord, n, g[n - 1])
          BY <2>2, <4>1, Zenon DEF IsWalks
        <4> QED
          BY <4>1, <4>2, <3>3
      <3> QED
        BY <3>1, <3>2, <3>3
    <2>4. IsWalks(ord, f, k)
      BY <2>3 DEF IsWalks
    <2> QED
      BY <2>4
  <1> QED
    BY <1>3, <1>4

\* Walk is the last function of the recursion.
LEMMA WalkWalks ==
    ASSUME NEW ord
    PROVE  \E f : /\ IsWalks(ord, f, MaxOrders + 1)
                  /\ \A i : Walk(ord, i) = f[MaxOrders + 1][i]
  <1> DEFINE f == CHOOSE g : IsWalks(ord, g, MaxOrders + 1)
  <1>1. IsWalks(ord, f, MaxOrders + 1)
    BY WalksExist, PoolAssumption, MaxOrders + 1 \in Nat
  <1>2. \A i : Walk(ord, i) = f[MaxOrders + 1][i]
    BY DEF Walk, IsWalks, Longer
  <1> QED
    BY <1>1, <1>2

\* l is the list of slots, each of them once, that next leads along from h.
IsChain(ord, h, l) ==
    /\ l \in Seq(Slots)
    /\ \A j, k \in 1..Len(l) : l[j] = l[k] => j = k
    /\ h = IF Len(l) = 0 THEN NULL_IDX ELSE l[1]
    /\ \A k \in 1..Len(l) :
          ord[l[k]].next = IF k = Len(l) THEN NULL_IDX ELSE l[k + 1]

Suffix(l, k) == [j \in 1..(Len(l) + 1 - k) |-> l[j + k - 1]]

LEMMA SuffixStep ==
    ASSUME NEW S, NEW l \in Seq(S), NEW k \in 1..Len(l)
    PROVE  <<l[k]>> \o Suffix(l, k + 1) = Suffix(l, k)
  <1>1. Suffix(l, k + 1) \in Seq(S) /\ Suffix(l, k) \in Seq(S)
    BY DEF Suffix
  <1>2. Len(Suffix(l, k + 1)) = Len(l) - k /\ Len(Suffix(l, k)) = Len(l) + 1 - k
    BY DEF Suffix
  <1> QED
    BY <1>1, <1>2 DEF Suffix

\* A list of different slots is no longer than the pool.
LEMMA ChainFits ==
    ASSUME NEW ord, NEW h, NEW l, IsChain(ord, h, l)
    PROVE  Len(l) <= MaxOrders
  <1>1. IsFiniteSet(Slots) /\ Cardinality(Slots) = MaxOrders
    <2>1. 0 \in Int /\ MaxOrders - 1 \in Int
      BY PoolAssumption
    <2>2. /\ IsFiniteSet(0..(MaxOrders - 1))
          /\ Cardinality(0..(MaxOrders - 1)) =
                IF 0 > MaxOrders - 1 THEN 0 ELSE (MaxOrders - 1) - 0 + 1
      BY <2>1, FS_Interval
    <2> QED
      BY <2>2, PoolAssumption DEF Slots
  <1>2. IsFiniteSet(1..Len(l)) /\ Cardinality(1..Len(l)) = Len(l)
    <2>1. PICK n \in Nat : n = Len(l)
      BY DEF IsChain
    <2>2. 1 \in Int /\ n \in Int
      OBVIOUS
    <2>3. IsFiniteSet(1..n) /\ Cardinality(1..n) = IF 1 > n THEN 0 ELSE n - 1 + 1
      BY <2>2, FS_Interval, Zenon
    <2>4. (IF 1 > n THEN 0 ELSE n - 1 + 1) = n
      OBVIOUS
    <2> QED
      BY <2>1, <2>3, <2>4, Zenon
  <1>3. l \in Injection(1..Len(l), Slots)
    BY DEF IsChain, Injection, IsInjective
  <1> QED
    BY <1>1, <1>2, <1>3, FS_Injection

\* A walk from the head of a list finds the list.
LEMMA WalkChain ==
    ASSUME NEW ord, NEW h, NEW l, IsChain(ord, h, l)
    PROVE  Walk(ord, h) = l
  <1> DEFINE M == MaxOrders + 1
             from(k) == IF k > Len(l) THEN NULL_IDX ELSE l[k]
  <1>1. PICK f : IsWalks(ord, f, M) /\ \A i : Walk(ord, i) = f[M][i]
    BY WalkWalks
  <1>2. l \in Seq(Slots) /\ Len(l) \in Nat /\ M \in Nat /\ Len(l) <= MaxOrders
    BY ChainFits, PoolAssumption DEF IsChain
  <1>3. Slots \subseteq Nat /\ NULL_IDX \notin Slots
    BY PoolAssumption DEF Slots, NULL_IDX
  <1> DEFINE good(n) == \A k \in 1..(Len(l) + 1) :
                           n >= Len(l) + 1 - k => f[n][from(k)] = Suffix(l, k)
             bad == {n \in 0..M : ~good(n)}
  <1>4. \A k \in 1..(Len(l) + 1) : from(k) \in Slots \cup {NULL_IDX}
    BY <1>2
  <1>5. \A n \in 0..M : f[n] = Longer(ord, n, f[n - 1])
    BY <1>1, Zenon DEF IsWalks
  <1>6. Suffix(l, Len(l) + 1) = <<>>
    BY <1>2 DEF Suffix
  <1>7. ASSUME bad # {} PROVE FALSE
    <2>0. bad \subseteq Nat
      BY <1>2
    <2>1. PICK n \in bad : \A j \in bad : n <= j
      <3> HIDE DEF bad
      <3> QED
        BY <1>7, <2>0, MinExists
    <2>2. ASSUME NEW k \in 1..(Len(l) + 1), n >= Len(l) + 1 - k
          PROVE  f[n][from(k)] = Suffix(l, k)
      <3>1. CASE k = Len(l) + 1
        <4>1. f[n][NULL_IDX] = <<>>
          BY <1>5 DEF Longer
        <4> QED
          BY <3>1, <4>1, <1>6, <1>2
      <3>2. CASE k # Len(l) + 1
        <4>1. k \in 1..Len(l) /\ n # 0 /\ n - 1 \in 0..M /\ k + 1 \in 1..(Len(l) + 1)
              /\ n - 1 >= Len(l) + 1 - (k + 1)
          BY <3>2, <2>2, <1>2
        <4>2. f[n - 1][from(k + 1)] = Suffix(l, k + 1)
          <5>1. n - 1 \notin bad
            BY <2>1, <4>1
          <5> QED
            BY <4>1, <5>1
        <4>3. l[k] \in Slots /\ from(k) = l[k] /\ ord[l[k]].next = from(k + 1)
          <5>1. l[k] \in Slots /\ from(k) = l[k]
            BY <4>1, <1>2
          <5>2. ord[l[k]].next = IF k = Len(l) THEN NULL_IDX ELSE l[k + 1]
            BY <4>1 DEF IsChain
          <5> QED
            BY <4>1, <5>1, <5>2, <1>2
        <4>4. f[n][l[k]] = <<l[k]>> \o f[n - 1][ord[l[k]].next]
          <5>1. l[k] # NULL_IDX
            BY <4>3, <1>3
          <5> QED
            BY <1>5, <4>1, <4>3, <5>1 DEF Longer
        <4>5. f[n][from(k)] = <<l[k]>> \o Suffix(l, k + 1)
          BY <4>2, <4>3, <4>4
        <4> QED
          BY <4>5, <4>1, <1>2, SuffixStep
      <3> QED
        BY <3>1, <3>2
    <2> QED
      BY <2>1, <2>2
  <1>8. f[M][from(1)] = Suffix(l, 1)
    <2>1. M \in 0..M /\ 1 \in 1..(Len(l) + 1) /\ M >= Len(l) + 1 - 1
      BY <1>2, PoolAssumption
    <2>2. M \notin bad
      BY <1>7
    <2>3. good(M)
      BY <2>1, <2>2, Zenon
    <2> QED
      BY <2>1, <2>3
  <1>9. from(1) = h
    BY <1>2 DEF IsChain
  <1>10. Suffix(l, 1) = l
    BY <1>2 DEF Suffix
  <1> QED
    BY <1>1, <1>8, <1>9, <1>10, Zenon

-----------------------------------------------------------------------------
(* What the operators on pool and lists change, field by field *)

Links == Slots \cup {NULL_IDX}
Nodes == [id : Slots, price : 0..MAX_PRICES, qty : Nat, is_buy : BOOLEAN,
          next : Links, prev : Links]
Pools == [Slots -> Nodes]
Levels == [head : Links, tail : Links]

LEMMA SlotsNotNull == NULL_IDX \notin Slots /\ Slots \subseteq Nat
  BY PoolAssumption DEF Slots, NULL_IDX

\* Two pools differ in next and prev at most.
SameData(ord1, ord2) ==
    \A s \in Slots : /\ ord1[s].id = ord2[s].id
                     /\ ord1[s].price = ord2[s].price
                     /\ ord1[s].qty = ord2[s].qty
                     /\ ord1[s].is_buy = ord2[s].is_buy

LEMMA UnlinkFields ==
    ASSUME NEW ord \in Pools, NEW lv \in Levels, NEW i \in Slots
    PROVE  LET u == Unlink(ord, lv, i)
           IN  /\ u.pool \in Pools /\ u.level \in Levels
               /\ SameData(u.pool, ord)
               /\ u.level.head = IF lv.head = i THEN ord[i].next ELSE lv.head
               /\ u.level.tail = IF lv.tail = i THEN ord[i].prev ELSE lv.tail
               /\ \A s \in Slots :
                     /\ u.pool[s].next = IF s = ord[i].prev THEN ord[i].next
                                         ELSE ord[s].next
                     /\ u.pool[s].prev = IF s = ord[i].next THEN ord[i].prev
                                         ELSE ord[s].prev
  <1> DEFINE prev == ord[i].prev
             next == ord[i].next
             ord1 == IF prev = NULL_IDX THEN ord ELSE [ord EXCEPT ![prev].next = next]
             ord2 == IF next = NULL_IDX THEN ord1 ELSE [ord1 EXCEPT ![next].prev = prev]
  <1>1. prev \in Links /\ next \in Links
    BY DEF Pools, Nodes
  <1>2. ord1 \in Pools /\ SameData(ord1, ord)
        /\ \A s \in Slots : /\ ord1[s].next = IF s = prev THEN next ELSE ord[s].next
                            /\ ord1[s].prev = ord[s].prev
    BY <1>1, SlotsNotNull DEF Pools, Nodes, Links, SameData
  <1>3. ord2 \in Pools /\ SameData(ord2, ord)
        /\ \A s \in Slots : /\ ord2[s].next = ord1[s].next
                            /\ ord2[s].prev = IF s = next THEN prev ELSE ord1[s].prev
    <2> HIDE DEF ord1, prev, next
    <2> QED
      BY <1>1, <1>2, SlotsNotNull DEF Pools, Nodes, Links, SameData
  <1>4. Unlink(ord, lv, i).pool = ord2
    BY DEF Unlink
  <1>5. /\ Unlink(ord, lv, i).level =
              [head |-> IF lv.head = i THEN next ELSE lv.head,
               tail |-> IF lv.tail = i THEN prev ELSE lv.tail]
    BY DEF Unlink, TailWithout
  <1>6. Unlink(ord, lv, i).level \in Levels
    BY <1>1, <1>5 DEF Levels
  <1> QED
    <2> HIDE DEF ord1, ord2
    <2> QED
      BY <1>2, <1>3, <1>4, <1>5, <1>6

LEMMA LinkFields ==
    ASSUME NEW ord \in Pools, NEW lv \in Levels, NEW i \in Slots, Linkable(lv),
           lv.tail # i
    PROVE  LET k == Link(ord, lv, i)
           IN  /\ k.pool \in Pools /\ k.level \in Levels
               /\ SameData(k.pool, ord)
               /\ k.level.head = IF lv.head = NULL_IDX THEN i ELSE lv.head
               /\ k.level.tail = i
               /\ \A s \in Slots :
                     /\ k.pool[s].next = IF lv.head # NULL_IDX /\ s = lv.tail THEN i
                                         ELSE ord[s].next
                     /\ k.pool[s].prev = IF s # i THEN ord[s].prev
                                         ELSE IF lv.head = NULL_IDX THEN NULL_IDX
                                         ELSE lv.tail
  <1>1. CASE lv.head = NULL_IDX
    <2>1. Link(ord, lv, i) = [level |-> [head |-> i, tail |-> i],
                              pool  |-> [ord EXCEPT ![i].prev = NULL_IDX]]
      BY <1>1 DEF Link
    <2> QED
      BY <1>1, <2>1 DEF Pools, Nodes, Links, Levels, SameData
  <1>2. CASE lv.head # NULL_IDX
    <2>1. lv.tail \in Slots
      BY <1>2 DEF Linkable, Levels, Links
    <2>2. Link(ord, lv, i) =
            [level |-> [lv EXCEPT !.tail = i],
             pool  |-> [ord EXCEPT ![lv.tail].next = i, ![i].prev = lv.tail]]
      BY <1>2, Zenon DEF Link, LinkBack
    <2>3. [lv EXCEPT !.tail = i] = [head |-> lv.head, tail |-> i]
      BY DEF Levels
    <2> DEFINE t == lv.tail
               ord2 == [ord EXCEPT ![t].next = i, ![i].prev = t]
    <2>4. ord2 \in Pools /\ SameData(ord2, ord)
          /\ \A s \in Slots : /\ ord2[s].next = IF s = t THEN i ELSE ord[s].next
                              /\ ord2[s].prev = IF s = i THEN t ELSE ord[s].prev
      BY <2>1 DEF Pools, Nodes, Links, SameData
    <2>5. lv.head \in Links /\ [head |-> lv.head, tail |-> i] \in Levels
      BY DEF Levels, Links
    <2>6. /\ Link(ord, lv, i).pool = ord2
          /\ Link(ord, lv, i).level = [head |-> lv.head, tail |-> i]
      BY <2>2, <2>3
    <2> HIDE DEF ord2
    <2> QED
      BY <1>2, <2>4, <2>5, <2>6
  <1> QED
    BY <1>1, <1>2

-----------------------------------------------------------------------------
(* The lists of levels *)

\* l is the doubly linked list of level lv; prev of its head is arbitrary.
IsLevel(ord, lv, l) ==
    /\ IsChain(ord, lv.head, l)
    /\ lv.tail = IF Len(l) = 0 THEN NULL_IDX ELSE l[Len(l)]
    /\ \A k \in 2..Len(l) : ord[l[k]].prev = l[k - 1]

Without(l, k) == [j \in 1..(Len(l) - 1) |-> IF j < k THEN l[j] ELSE l[j + 1]]

\* A list is not touched by changes elsewhere.
LEMMA LevelFrame ==
    ASSUME NEW ord, NEW ord2, NEW lv, NEW l, IsLevel(ord, lv, l),
           \A k \in 1..Len(l) : /\ ord2[l[k]].next = ord[l[k]].next
                                /\ ord2[l[k]].prev = ord[l[k]].prev
    PROVE  IsLevel(ord2, lv, l)
  <1>1. IsChain(ord2, lv.head, l)
    BY DEF IsLevel, IsChain
  <1>2. \A k \in 2..Len(l) : ord2[l[k]].prev = l[k - 1]
    <2>1. Len(l) \in Nat
      BY DEF IsLevel, IsChain
    <2> QED
      BY <2>1 DEF IsLevel
  <1> QED
    BY <1>1, <1>2 DEF IsLevel

\* Taking the k-th slot out of a list, if prev of the head was reset.
LEMMA UnlinkLevel ==
    ASSUME NEW ord \in Pools, NEW lv \in Levels, NEW l, IsLevel(ord, lv, l),
           NEW k \in 1..Len(l), k = 1 => ord[l[k]].prev = NULL_IDX
    PROVE  LET u == Unlink(ord, lv, l[k])
           IN  /\ IsLevel(u.pool, u.level, Without(l, k))
               /\ \A s \in Slots :
                     (\A j \in 1..Len(l) : j # k => l[j] # s) =>
                        /\ u.pool[s].next = ord[s].next
                        /\ u.pool[s].prev = ord[s].prev
  <1> DEFINE i == l[k]
             u == Unlink(ord, lv, i)
             m == Without(l, k)
             n == Len(l)
  <1>1. /\ l \in Seq(Slots) /\ n \in Nat /\ n # 0 /\ k \in 1..n /\ i \in Slots
        /\ \A a, b \in 1..n : l[a] = l[b] => a = b
        /\ \A a \in 1..n : ord[l[a]].next = IF a = n THEN NULL_IDX ELSE l[a + 1]
        /\ \A a \in 2..n : ord[l[a]].prev = l[a - 1]
        /\ lv.head = l[1] /\ lv.tail = l[n]
    BY DEF IsLevel, IsChain
  <1>2. /\ ord[i].next = IF k = n THEN NULL_IDX ELSE l[k + 1]
        /\ ord[i].prev = IF k = 1 THEN NULL_IDX ELSE l[k - 1]
    BY <1>1
  <1>3. /\ u.level.head = IF lv.head = i THEN ord[i].next ELSE lv.head
        /\ u.level.tail = IF lv.tail = i THEN ord[i].prev ELSE lv.tail
        /\ \A s \in Slots :
             /\ u.pool[s].next = IF s = ord[i].prev THEN ord[i].next ELSE ord[s].next
             /\ u.pool[s].prev = IF s = ord[i].next THEN ord[i].prev ELSE ord[s].prev
    BY UnlinkFields, <1>1
  <1>4. /\ m \in Seq(Slots) /\ Len(m) = n - 1
        /\ \A j \in 1..(n - 1) : m[j] = IF j < k THEN l[j] ELSE l[j + 1]
    BY <1>1 DEF Without
  <1> HIDE DEF u, m
  <1>5. \A a, b \in 1..Len(m) : m[a] = m[b] => a = b
    BY <1>1, <1>4
  <1>6. u.level.head = IF Len(m) = 0 THEN NULL_IDX ELSE m[1]
    BY <1>1, <1>2, <1>3, <1>4
  <1>7. u.level.tail = IF Len(m) = 0 THEN NULL_IDX ELSE m[Len(m)]
    BY <1>1, <1>2, <1>3, <1>4
  <1>8. \A a \in 1..n : /\ l[a] \in Slots
                        /\ l[a] = ord[i].prev <=> a = k - 1
                        /\ l[a] = ord[i].next <=> a = k + 1
    BY <1>1, <1>2, SlotsNotNull
  <1>9. \A a \in 1..n : /\ u.pool[l[a]].next = IF a = k - 1 THEN ord[i].next ELSE ord[l[a]].next
                        /\ u.pool[l[a]].prev = IF a = k + 1 THEN ord[i].prev ELSE ord[l[a]].prev
    BY <1>3, <1>8
  <1>10. ASSUME NEW j \in 1..Len(m)
         PROVE  u.pool[m[j]].next = IF j = Len(m) THEN NULL_IDX ELSE m[j + 1]
    <2>0. j \in 1..(n - 1) /\ Len(m) = n - 1
      BY <1>4
    <2>1. CASE j = k - 1
      <3>1. m[j] = l[j] /\ j \in 1..n /\ (k # n => m[j + 1] = l[k + 1])
        BY <1>1, <1>4, <2>0, <2>1
      <3>2. u.pool[l[j]].next = ord[i].next
        BY <1>9, <2>1, <3>1
      <3> QED
        BY <1>1, <1>2, <2>0, <2>1, <3>1, <3>2
    <2>2. CASE j < k - 1
      <3>1. m[j] = l[j] /\ m[j + 1] = l[j + 1] /\ j \in 1..n /\ j # n - 1 /\ j # n
        BY <1>1, <1>4, <2>0, <2>2
      <3>2. u.pool[l[j]].next = ord[l[j]].next
        BY <1>9, <2>2, <3>1
      <3> QED
        BY <1>1, <2>0, <3>1, <3>2
    <2>3. CASE j >= k
      <3>1. m[j] = l[j + 1] /\ j + 1 \in 1..n /\ j + 1 # k - 1
            /\ (j # n - 1 => m[j + 1] = l[(j + 1) + 1])
        <4>1. k \in Int /\ n \in Int /\ j \in Int /\ ~(j < k) /\ ~(j + 1 < k)
          BY <1>1, <2>0, <2>3
        <4>2. j # n - 1 => j + 1 \in 1..(n - 1)
          BY <2>0, <4>1
        <4> QED
          BY <1>4, <2>0, <4>1, <4>2
      <3>2. u.pool[l[j + 1]].next = ord[l[j + 1]].next
        BY <1>9, <3>1
      <3>3. ord[l[j + 1]].next = IF j + 1 = n THEN NULL_IDX ELSE l[(j + 1) + 1]
        BY <1>1, <3>1
      <3> QED
        BY <1>1, <2>0, <3>1, <3>2, <3>3
    <2> QED
      BY <2>1, <2>2, <2>3, <1>1, <2>0
  <1>11. ASSUME NEW j \in 2..Len(m)
         PROVE  u.pool[m[j]].prev = m[j - 1]
    <2>0. j \in 2..(n - 1) /\ j - 1 \in 1..(n - 1)
      BY <1>1, <1>4
    <2>1. CASE j < k
      <3>1. m[j] = l[j] /\ m[j - 1] = l[j - 1] /\ j \in 1..n /\ j \in 2..n /\ j # k + 1
        BY <1>1, <1>4, <2>0, <2>1
      <3>2. u.pool[l[j]].prev = ord[l[j]].prev
        BY <1>9, <3>1
      <3> QED
        BY <1>1, <3>1, <3>2
    <2>2. CASE j = k
      <3>1. m[j] = l[k + 1] /\ m[j - 1] = l[k - 1] /\ k + 1 \in 1..n /\ k # 1
        BY <1>1, <1>4, <2>0, <2>2
      <3>2. u.pool[l[k + 1]].prev = ord[i].prev
        BY <1>9, <3>1
      <3> QED
        BY <1>2, <3>1, <3>2
    <2>3. CASE j > k
      <3>1. m[j] = l[j + 1] /\ m[j - 1] = l[j] /\ j + 1 \in 2..n /\ j + 1 # k + 1
        BY <1>1, <1>4, <2>0, <2>3
      <3>2. u.pool[l[j + 1]].prev = ord[l[j + 1]].prev
        BY <1>9, <3>1
      <3>3. ord[l[j + 1]].prev = l[(j + 1) - 1]
        BY <1>1, <3>1
      <3> QED
        BY <2>0, <3>1, <3>2, <3>3
    <2> QED
      BY <2>1, <2>2, <2>3, <2>0, <1>1
  <1>12. IsLevel(u.pool, u.level, m)
    BY <1>4, <1>5, <1>6, <1>7, <1>10, <1>11 DEF IsLevel, IsChain
  <1>13. ASSUME NEW s \in Slots, \A j \in 1..n : j # k => l[j] # s
         PROVE  u.pool[s].next = ord[s].next /\ u.pool[s].prev = ord[s].prev
    <2>1. s # ord[i].prev
      BY <1>1, <1>2, <1>13, SlotsNotNull
    <2>2. s # ord[i].next
      BY <1>1, <1>2, <1>13, SlotsNotNull
    <2> QED
      BY <1>3, <2>1, <2>2
  <1> QED
    BY <1>12, <1>13 DEF u, m

\* Putting a slot at the back of a list.  The caller sets its next.
LEMMA LinkLevel ==
    ASSUME NEW ord \in Pools, NEW lv \in Levels, NEW l, IsLevel(ord, lv, l),
           NEW i \in Slots, \A k \in 1..Len(l) : l[k] # i
    PROVE  /\ Linkable(lv) /\ lv.tail # i
           /\ \A ord2 :
                 /\ ord2[i].next = NULL_IDX
                 /\ ord2[i].prev = Link(ord, lv, i).pool[i].prev
                 /\ \A k \in 1..Len(l) :
                       /\ ord2[l[k]].next = Link(ord, lv, i).pool[l[k]].next
                       /\ ord2[l[k]].prev = Link(ord, lv, i).pool[l[k]].prev
                 => IsLevel(ord2, Link(ord, lv, i).level, Append(l, i))
           /\ \A s \in Slots : (s # i /\ \A k \in 1..Len(l) : l[k] # s) =>
                 /\ Link(ord, lv, i).pool[s].next = ord[s].next
                 /\ Link(ord, lv, i).pool[s].prev = ord[s].prev
           /\ Link(ord, lv, i).pool[i].next = ord[i].next
  <1> DEFINE t == Link(ord, lv, i)
             n == Len(l)
             m == Append(l, i)
  <1>1. /\ l \in Seq(Slots) /\ n \in Nat
        /\ \A a, b \in 1..n : l[a] = l[b] => a = b
        /\ \A a \in 1..n : ord[l[a]].next = IF a = n THEN NULL_IDX ELSE l[a + 1]
        /\ \A a \in 2..n : ord[l[a]].prev = l[a - 1]
        /\ lv.head = IF n = 0 THEN NULL_IDX ELSE l[1]
        /\ lv.tail = IF n = 0 THEN NULL_IDX ELSE l[n]
    BY DEF IsLevel, IsChain
  <1>2. Linkable(lv) /\ lv.tail # i /\ (lv.head = NULL_IDX <=> n = 0)
    BY <1>1, SlotsNotNull DEF Linkable
  <1>3. /\ t.level.head = IF lv.head = NULL_IDX THEN i ELSE lv.head
        /\ t.level.tail = i
        /\ \A s \in Slots :
              /\ t.pool[s].next = IF lv.head # NULL_IDX /\ s = lv.tail THEN i
                                  ELSE ord[s].next
              /\ t.pool[s].prev = IF s # i THEN ord[s].prev
                                  ELSE IF lv.head = NULL_IDX THEN NULL_IDX
                                  ELSE lv.tail
    BY <1>2, LinkFields
  <1>4. /\ m \in Seq(Slots) /\ Len(m) = n + 1 /\ m[n + 1] = i
        /\ \A j \in 1..n : m[j] = l[j]
    BY <1>1
  <1> HIDE DEF t, m
  <1>5. ASSUME NEW ord2, ord2[i].next = NULL_IDX, ord2[i].prev = t.pool[i].prev,
               \A k \in 1..n : /\ ord2[l[k]].next = t.pool[l[k]].next
                               /\ ord2[l[k]].prev = t.pool[l[k]].prev
        PROVE  IsLevel(ord2, t.level, m)
    <2>1. \A a, b \in 1..Len(m) : m[a] = m[b] => a = b
      BY <1>1, <1>4
    <2>2. t.level.head = m[1] /\ t.level.tail = m[Len(m)]
      BY <1>1, <1>2, <1>3, <1>4
    <2>3. ASSUME NEW j \in 1..Len(m)
          PROVE  ord2[m[j]].next = IF j = Len(m) THEN NULL_IDX ELSE m[j + 1]
      <3>1. CASE j = n + 1
        BY <1>4, <1>5, <3>1
      <3>2. CASE j = n
        BY <1>1, <1>2, <1>3, <1>4, <1>5, <3>2
      <3>3. CASE j < n
        <4>1. l[j] # lv.tail /\ l[j] \in Slots
          BY <1>1, <3>3
        <4> QED
          BY <1>1, <1>2, <1>3, <1>4, <1>5, <3>3, <4>1
      <3> QED
        BY <3>1, <3>2, <3>3, <1>4, <1>1
    <2>4. ASSUME NEW j \in 2..Len(m)
          PROVE  ord2[m[j]].prev = m[j - 1]
      <3>1. CASE j = n + 1
        <4>1. n # 0 /\ m[j] = i /\ m[j - 1] = l[n]
          BY <1>1, <1>4, <3>1
        <4> QED
          BY <1>1, <1>2, <1>3, <1>5, <4>1
      <3>2. CASE j # n + 1
        <4>1. j \in 2..n /\ j \in 1..n /\ j - 1 \in 1..n
          BY <1>1, <1>4, <3>2
        <4>2. m[j] = l[j] /\ m[j - 1] = l[j - 1] /\ l[j] \in Slots /\ l[j] # i
          BY <1>1, <1>4, <4>1
        <4>3. ord2[l[j]].prev = t.pool[l[j]].prev /\ t.pool[l[j]].prev = ord[l[j]].prev
          BY <1>3, <1>5, <4>1, <4>2
        <4> QED
          BY <1>1, <4>1, <4>2, <4>3
      <3> QED
        BY <3>1, <3>2
    <2>5. Len(m) # 0 /\ Len(m) \in Nat
      BY <1>1, <1>4
    <2>6. IsChain(ord2, t.level.head, m)
      BY <1>4, <2>1, <2>2, <2>3, <2>5 DEF IsChain
    <2> QED
      BY <2>2, <2>4, <2>5, <2>6 DEF IsLevel
  <1>6. \A s \in Slots : (s # i /\ \A k \in 1..n : l[k] # s) =>
           t.pool[s].next = ord[s].next /\ t.pool[s].prev = ord[s].prev
    BY <1>1, <1>2, <1>3
  <1>7. t.pool[i].next = ord[i].next
    BY <1>2, <1>3
  <1> QED
    BY <1>2, <1>5, <1>6, <1>7 DEF t, m

-----------------------------------------------------------------------------
(* The pool is the disjoint union of its lists *)

In(l, s) == \E k \in 1..Len(l) : l[k] = s

\* The lists L of the levels and the free list F have each slot at most once;
\* the slots of X are on none of them.
Rep(ord, lev, nf, L, F, X) ==
    /\ L \in [BOOLEAN -> [Prices -> Seq(Slots)]]
    /\ X \subseteq Slots
    /\ IsChain(ord, nf, F)
    /\ \A b \in BOOLEAN, p \in Prices : IsLevel(ord, lev[b][p], L[b][p])
    /\ \A b \in BOOLEAN, p \in Prices, s \in Slots : In(L[b][p], s) =>
          /\ ord[s].is_buy = b /\ ord[s].price = p
          /\ ~In(F, s) /\ s \notin X
    /\ \A s \in Slots : In(F, s) => s \notin X
    /\ \A s \in Slots : \/ In(F, s)
                        \/ s \in X
                        \/ \E b \in BOOLEAN, p \in Prices : In(L[b][p], s)

Ladders == [BOOLEAN -> [Prices -> Levels]]

\* Links determine the lists: they are what walks find.
LEMMA RepUnique ==
    ASSUME NEW ord, NEW lev, NEW nf, NEW L, NEW F, NEW X, Rep(ord, lev, nf, L, F, X)
    PROVE  /\ Walk(ord, nf) = F
           /\ \A b \in BOOLEAN, p \in Prices : Walk(ord, lev[b][p].head) = L[b][p]
  <1>1. Walk(ord, nf) = F
    BY WalkChain DEF Rep
  <1>2. \A b \in BOOLEAN, p \in Prices : IsChain(ord, lev[b][p].head, L[b][p])
    BY DEF Rep, IsLevel
  <1> QED
    BY <1>1, <1>2, WalkChain

\* Links and places are all that counts.
LEMMA RepFrame ==
    ASSUME NEW ord, NEW lev, NEW nf, NEW L, NEW F, NEW X, Rep(ord, lev, nf, L, F, X),
           NEW ord2,
           \A s \in Slots : /\ ord2[s].next = ord[s].next
                            /\ ord2[s].prev = ord[s].prev
                            /\ ord2[s].is_buy = ord[s].is_buy
                            /\ ord2[s].price = ord[s].price
    PROVE  Rep(ord2, lev, nf, L, F, X)
  <1>1. \A b \in BOOLEAN, p \in Prices : L[b][p] \in Seq(Slots)
    BY DEF Rep
  <1>2. IsChain(ord2, nf, F)
    BY DEF Rep, IsChain
  <1>3. ASSUME NEW b \in BOOLEAN, NEW p \in Prices
        PROVE  IsLevel(ord2, lev[b][p], L[b][p])
    <2>1. IsLevel(ord, lev[b][p], L[b][p])
      BY DEF Rep
    <2>2. \A k \in 1..Len(L[b][p]) : L[b][p][k] \in Slots
      BY <1>1
    <2> QED
      BY <2>1, <2>2, LevelFrame
  <1> QED
    BY <1>2, <1>3 DEF Rep

\* The entry of side b and price p.
Put(f, b, p, v) == [f EXCEPT ![b][p] = v]

\* Where a listed slot belongs, and where it is not.
LEMMA RepListed ==
    ASSUME NEW ord, NEW lev, NEW nf, NEW L, NEW F, NEW X, Rep(ord, lev, nf, L, F, X),
           NEW b \in BOOLEAN, NEW p \in Prices, NEW s \in Slots, In(L[b][p], s)
    PROVE  ord[s].is_buy = b /\ ord[s].price = p /\ ~In(F, s) /\ s \notin X
  BY Zenon DEF Rep

\* Slots move between one level, the free list and X, and all else stays.
LEMMA RepUpdate ==
    ASSUME NEW ord, NEW lev \in Ladders, NEW nf, NEW L, NEW F, NEW X,
           Rep(ord, lev, nf, L, F, X),
           NEW ord2, NEW nf2, NEW F2, NEW X2 \in SUBSET Slots,
           NEW b \in BOOLEAN, NEW p \in Prices, NEW lv2, NEW l2,
           IsLevel(ord2, lv2, l2), IsChain(ord2, nf2, F2),
           \A s \in Slots : In(l2, s) => /\ ord2[s].is_buy = b /\ ord2[s].price = p
                                         /\ ~In(F2, s) /\ s \notin X2,
           \A s \in Slots : In(F2, s) => s \notin X2,
           \A s \in Slots : (In(F2, s) \/ In(l2, s) \/ s \in X2)
                              <=> (In(F, s) \/ In(L[b][p], s) \/ s \in X),
           \A s \in Slots : ~(In(F, s) \/ In(L[b][p], s) \/ s \in X) =>
                               /\ ord2[s].next = ord[s].next
                               /\ ord2[s].prev = ord[s].prev
                               /\ ord2[s].is_buy = ord[s].is_buy
                               /\ ord2[s].price = ord[s].price
    PROVE  Rep(ord2, Put(lev, b, p, lv2), nf2, Put(L, b, p, l2), F2, X2)
  <1> DEFINE lev2 == Put(lev, b, p, lv2)
             L2   == Put(L, b, p, l2)
  <1>1. /\ l2 \in Seq(Slots)
        /\ L2 \in [BOOLEAN -> [Prices -> Seq(Slots)]]
        /\ lev2[b][p] = lv2 /\ L2[b][p] = l2
        /\ \A c \in BOOLEAN, q \in Prices : <<c, q>> # <<b, p>> =>
              lev2[c][q] = lev[c][q] /\ L2[c][q] = L[c][q]
    BY DEF Rep, Ladders, IsLevel, IsChain, Put
  <1> HIDE DEF lev2, L2
  <1>2. ASSUME NEW c \in BOOLEAN, NEW q \in Prices, <<c, q>> # <<b, p>>,
               NEW s \in Slots, In(L[c][q], s)
        PROVE  ~(In(F, s) \/ In(L[b][p], s) \/ s \in X)
    <2>1. ord[s].is_buy = c /\ ord[s].price = q /\ ~In(F, s) /\ s \notin X
      BY <1>2, RepListed
    <2>2. In(L[b][p], s) => ord[s].is_buy = b /\ ord[s].price = p
      BY RepListed
    <2> QED
      BY <1>2, <2>1, <2>2, Zenon
  <1>3. ASSUME NEW c \in BOOLEAN, NEW q \in Prices
        PROVE  IsLevel(ord2, lev2[c][q], L2[c][q])
    <2>1. CASE <<c, q>> = <<b, p>>
      BY <1>1, <2>1
    <2>2. CASE <<c, q>> # <<b, p>>
      <3>1. IsLevel(ord, lev[c][q], L[c][q]) /\ L[c][q] \in Seq(Slots)
        BY DEF Rep
      <3>2. \A k \in 1..Len(L[c][q]) : L[c][q][k] \in Slots /\ In(L[c][q], L[c][q][k])
        BY <3>1 DEF In
      <3>3. \A k \in 1..Len(L[c][q]) : /\ ord2[L[c][q][k]].next = ord[L[c][q][k]].next
                                       /\ ord2[L[c][q][k]].prev = ord[L[c][q][k]].prev
        BY <1>2, <2>2, <3>2
      <3>4. IsLevel(ord2, lev[c][q], L[c][q])
        <4> DEFINE lq == L[c][q]
                   lvq == lev[c][q]
        <4>1. /\ IsLevel(ord, lvq, lq)
              /\ \A k \in 1..Len(lq) : /\ ord2[lq[k]].next = ord[lq[k]].next
                                       /\ ord2[lq[k]].prev = ord[lq[k]].prev
          BY <3>1, <3>3
        <4> HIDE DEF lq, lvq
        <4>2. IsLevel(ord2, lvq, lq)
          BY <4>1, LevelFrame
        <4> QED
          BY <4>2 DEF lq, lvq
      <3>5. lev2[c][q] = lev[c][q] /\ L2[c][q] = L[c][q]
        BY <1>1, <2>2
      <3> QED
        BY <3>4, <3>5
    <2> QED
      BY <2>1, <2>2
  <1>4. ASSUME NEW c \in BOOLEAN, NEW q \in Prices, NEW s \in Slots, In(L2[c][q], s)
        PROVE  /\ ord2[s].is_buy = c /\ ord2[s].price = q
               /\ ~In(F2, s) /\ s \notin X2
    <2>1. CASE <<c, q>> = <<b, p>>
      BY <1>1, <1>4, <2>1
    <2>2. CASE <<c, q>> # <<b, p>>
      <3>1. In(L[c][q], s)
        BY <1>1, <1>4, <2>2
      <3>2. ~(In(F, s) \/ In(L[b][p], s) \/ s \in X)
        BY <1>2, <2>2, <3>1
      <3> QED
        BY <3>1, <3>2 DEF Rep
    <2> QED
      BY <2>1, <2>2
  <1>5. ASSUME NEW s \in Slots
        PROVE  \/ In(F2, s)
               \/ s \in X2
               \/ \E c \in BOOLEAN, q \in Prices : In(L2[c][q], s)
    <2>1. CASE In(F, s) \/ In(L[b][p], s) \/ s \in X
      BY <1>1, <2>1
    <2>2. CASE ~(In(F, s) \/ In(L[b][p], s) \/ s \in X)
      <3>1. PICK c \in BOOLEAN, q \in Prices : In(L[c][q], s)
        BY <2>2 DEF Rep
      <3>2. <<c, q>> # <<b, p>>
        BY <2>2, <3>1
      <3> QED
        BY <1>1, <3>1, <3>2
    <2> QED
      BY <2>1, <2>2
  <1>6. Rep(ord2, lev2, nf2, L2, F2, X2)
    BY <1>1, <1>3, <1>4, <1>5 DEF Rep
  <1> QED
    BY <1>6 DEF lev2, L2

-----------------------------------------------------------------------------
(* Members of lists, and the free list *)

LEMMA WithoutIn ==
    ASSUME NEW ord, NEW h, NEW l, IsChain(ord, h, l), NEW k \in 1..Len(l)
    PROVE  /\ Without(l, k) \in Seq(Slots) /\ Len(Without(l, k)) = Len(l) - 1
           /\ \A s : In(Without(l, k), s) <=> In(l, s) /\ s # l[k]
  <1> DEFINE n == Len(l)
             m == Without(l, k)
  <1>1. /\ l \in Seq(Slots) /\ n \in Nat /\ k \in 1..n
        /\ \A a, b \in 1..n : l[a] = l[b] => a = b
    BY DEF IsChain
  <1>2. /\ m \in Seq(Slots) /\ Len(m) = n - 1
        /\ \A j \in 1..(n - 1) : m[j] = IF j < k THEN l[j] ELSE l[j + 1]
    BY <1>1 DEF Without
  <1> HIDE DEF m
  <1>3. ASSUME NEW s, In(m, s)
        PROVE  In(l, s) /\ s # l[k]
    <2>1. PICK j \in 1..(n - 1) : m[j] = s
      BY <1>2, <1>3 DEF In
    <2>2. CASE j < k
      <3>1. j \in 1..n /\ l[j] = s /\ j # k
        BY <1>1, <1>2, <2>1, <2>2
      <3> QED
        BY <1>1, <3>1 DEF In
    <2>3. CASE ~(j < k)
      <3>1. j + 1 \in 1..n /\ l[j + 1] = s /\ j + 1 # k
        BY <1>1, <1>2, <2>1, <2>3
      <3> QED
        BY <1>1, <3>1 DEF In
    <2> QED
      BY <2>2, <2>3
  <1>4. ASSUME NEW s, In(l, s), s # l[k]
        PROVE  In(m, s)
    <2>1. PICK j \in 1..n : l[j] = s /\ j # k
      BY <1>4 DEF In
    <2>2. CASE j < k
      <3>1. j \in 1..(n - 1) /\ m[j] = s
        BY <1>1, <1>2, <2>1, <2>2
      <3> QED
        BY <1>2, <3>1 DEF In
    <2>3. CASE ~(j < k)
      <3>1. j - 1 \in 1..(n - 1) /\ ~(j - 1 < k) /\ (j - 1) + 1 = j
        BY <1>1, <2>1, <2>3
      <3>2. m[j - 1] = s
        BY <1>2, <2>1, <3>1
      <3> QED
        BY <1>2, <3>1, <3>2 DEF In
    <2> QED
      BY <2>2, <2>3
  <1> QED
    BY <1>2, <1>3, <1>4 DEF m

LEMMA AppendIn ==
    ASSUME NEW l \in Seq(Slots), NEW i \in Slots
    PROVE  \A s : In(Append(l, i), s) <=> In(l, s) \/ s = i
  <1>1. /\ Len(Append(l, i)) = Len(l) + 1 /\ Len(l) \in Nat
        /\ Append(l, i)[Len(l) + 1] = i
        /\ \A j \in 1..Len(l) : Append(l, i)[j] = l[j]
    OBVIOUS
  <1>2. ASSUME NEW s, In(Append(l, i), s)
        PROVE  In(l, s) \/ s = i
    <2>1. PICK j \in 1..(Len(l) + 1) : Append(l, i)[j] = s
      BY <1>1, <1>2 DEF In
    <2> QED
      BY <1>1, <2>1 DEF In
  <1>3. ASSUME NEW s, In(l, s) \/ s = i
        PROVE  In(Append(l, i), s)
    <2>1. CASE s = i
      <3>1. Len(l) + 1 \in 1..Len(Append(l, i))
        BY <1>1
      <3> QED
        BY <1>1, <2>1, <3>1 DEF In
    <2>2. CASE In(l, s)
      <3>1. PICK j \in 1..Len(l) : l[j] = s
        BY <2>2 DEF In
      <3>2. j \in 1..Len(Append(l, i)) /\ Append(l, i)[j] = s
        BY <1>1, <3>1
      <3> QED
        BY <3>2 DEF In
    <2> QED
      BY <1>3, <2>1, <2>2
  <1> QED
    BY <1>2, <1>3

\* A freed slot becomes the head of the free list.
LEMMA PushFree ==
    ASSUME NEW ord, NEW nf, NEW F, IsChain(ord, nf, F), NEW i \in Slots, ~In(F, i),
           NEW ord2, ord2[i].next = nf,
           \A s \in Slots : In(F, s) => ord2[s].next = ord[s].next
    PROVE  /\ IsChain(ord2, i, <<i>> \o F)
           /\ \A s : In(<<i>> \o F, s) <=> s = i \/ In(F, s)
  <1> DEFINE G == <<i>> \o F
             n == Len(F)
  <1>1. /\ F \in Seq(Slots) /\ n \in Nat
        /\ \A a, b \in 1..n : F[a] = F[b] => a = b
        /\ \A a \in 1..n : ord[F[a]].next = IF a = n THEN NULL_IDX ELSE F[a + 1]
        /\ nf = IF n = 0 THEN NULL_IDX ELSE F[1]
    BY DEF IsChain
  <1>2. /\ G \in Seq(Slots) /\ Len(G) = n + 1 /\ G[1] = i
        /\ \A j \in 2..(n + 1) : G[j] = F[j - 1]
    BY <1>1
  <1> HIDE DEF G
  <1>3. \A a \in 1..n : F[a] \in Slots /\ F[a] # i /\ ord2[F[a]].next = ord[F[a]].next
    BY <1>1 DEF In
  <1>4. \A a, b \in 1..Len(G) : G[a] = G[b] => a = b
    <2> SUFFICES ASSUME NEW a \in 1..(n + 1), NEW b \in 1..(n + 1), G[a] = G[b]
                 PROVE  a = b
      BY <1>2
    <2>1. CASE a = 1 \/ b = 1
      BY <1>2, <1>3, <1>1, <2>1
    <2>2. CASE a # 1 /\ b # 1
      <3>1. a - 1 \in 1..n /\ b - 1 \in 1..n /\ F[a - 1] = F[b - 1]
        BY <1>1, <1>2, <2>2
      <3>2. a - 1 = b - 1
        BY <1>1, <3>1
      <3> QED
        BY <3>2, <1>1
    <2> QED
      BY <2>1, <2>2
  <1>5. ASSUME NEW a \in 1..Len(G)
        PROVE  ord2[G[a]].next = IF a = Len(G) THEN NULL_IDX ELSE G[a + 1]
    <2>1. CASE a = 1
      BY <1>1, <1>2, <2>1
    <2>2. CASE a # 1
      <3>1. a - 1 \in 1..n /\ G[a] = F[a - 1] /\ (a # n + 1 => G[a + 1] = F[a])
        BY <1>1, <1>2, <2>2
      <3>2. ord2[F[a - 1]].next = IF a - 1 = n THEN NULL_IDX ELSE F[(a - 1) + 1]
        BY <1>1, <1>3, <3>1
      <3> QED
        BY <1>1, <1>2, <3>1, <3>2
    <2> QED
      BY <2>1, <2>2
  <1>6. IsChain(ord2, i, G)
    BY <1>1, <1>2, <1>4, <1>5 DEF IsChain
  <1>7. ASSUME NEW s, In(G, s)
        PROVE  s = i \/ In(F, s)
    <2>1. PICK j \in 1..(n + 1) : G[j] = s
      BY <1>2, <1>7 DEF In
    <2>2. CASE j # 1
      <3>1. j - 1 \in 1..n /\ F[j - 1] = s
        BY <1>1, <1>2, <2>1, <2>2
      <3> QED
        BY <3>1 DEF In
    <2> QED
      BY <1>2, <2>1, <2>2
  <1>8. ASSUME NEW s, s = i \/ In(F, s)
        PROVE  In(G, s)
    <2>1. CASE s = i
      <3>1. 1 \in 1..Len(G)
        BY <1>1, <1>2
      <3> QED
        BY <1>2, <2>1, <3>1 DEF In
    <2>2. CASE In(F, s)
      <3>1. PICK j \in 1..n : F[j] = s
        BY <2>2 DEF In
      <3>2. j + 1 \in 1..Len(G) /\ G[j + 1] = s
        BY <1>1, <1>2, <3>1
      <3> QED
        BY <3>2 DEF In
    <2> QED
      BY <1>8, <2>1, <2>2
  <1> QED
    BY <1>6, <1>7, <1>8 DEF G

\* The head of the free list is handed out.
LEMMA PopFree ==
    ASSUME NEW ord, NEW nf, NEW F, IsChain(ord, nf, F), nf # NULL_IDX,
           NEW ord2,
           \A s \in Slots : In(F, s) /\ s # nf => ord2[s].next = ord[s].next
    PROVE  /\ nf \in Slots /\ In(F, nf)
           /\ IsChain(ord2, ord[nf].next, Without(F, 1))
           /\ \A s : In(Without(F, 1), s) <=> In(F, s) /\ s # nf
  <1> DEFINE G == Without(F, 1)
             n == Len(F)
  <1>1. /\ F \in Seq(Slots) /\ n \in Nat /\ n # 0 /\ nf = F[1]
        /\ \A a, b \in 1..n : F[a] = F[b] => a = b
        /\ \A a \in 1..n : ord[F[a]].next = IF a = n THEN NULL_IDX ELSE F[a + 1]
    BY DEF IsChain
  <1>2. /\ G \in Seq(Slots) /\ Len(G) = n - 1
        /\ \A j \in 1..(n - 1) : G[j] = F[j + 1]
    BY <1>1 DEF Without
  <1>3. nf \in Slots /\ 1 \in 1..n
    BY <1>1
  <1>4. In(F, nf)
    BY <1>1, <1>3 DEF In
  <1>5. \A s : In(G, s) <=> In(F, s) /\ s # nf
    <2>1. \A s : In(Without(F, 1), s) <=> In(F, s) /\ s # F[1]
      BY <1>3, WithoutIn
    <2> QED
      BY <1>1, <2>1
  <1> HIDE DEF G
  <1>6. \A a, b \in 1..Len(G) : G[a] = G[b] => a = b
    BY <1>1, <1>2
  <1>7. ASSUME NEW a \in 1..Len(G)
        PROVE  ord2[G[a]].next = IF a = Len(G) THEN NULL_IDX ELSE G[a + 1]
    <2>1. a + 1 \in 1..n /\ a + 1 # 1 /\ a \in 1..(n - 1)
      BY <1>1, <1>2
    <2>2. G[a] = F[a + 1] /\ F[a + 1] \in Slots /\ F[a + 1] # nf /\ In(F, F[a + 1])
      BY <1>1, <1>2, <2>1 DEF In
    <2>3. ord2[G[a]].next = ord[F[a + 1]].next
      BY <2>2
    <2>4. ord[F[a + 1]].next = IF a + 1 = n THEN NULL_IDX ELSE F[(a + 1) + 1]
      BY <1>1, <2>1
    <2> QED
      BY <1>1, <1>2, <2>1, <2>3, <2>4
  <1>8. ord[nf].next = IF Len(G) = 0 THEN NULL_IDX ELSE G[1]
    BY <1>1, <1>2, <1>3
  <1>9. IsChain(ord2, ord[nf].next, G)
    BY <1>2, <1>6, <1>7, <1>8 DEF IsChain
  <1> QED
    BY <1>3, <1>4, <1>5, <1>9 DEF G

-----------------------------------------------------------------------------
(* Types: the operations keep them whatever the clients do *)

Calls == [id : Ids \cup {-1}, price : 0..MAX_PRICES, qty : Nat, is_buy : BOOLEAN]

LEMMA PoolTypes ==
    PoolTypeOK <=> /\ orders \in Pools /\ levels \in Ladders
                   /\ id_map \in [Slots -> Links]
                   /\ next_free_order_idx \in Links
                   /\ call \in Calls
                   /\ rested \subseteq Slots /\ submits \in Nat
  BY DEF PoolTypeOK, Pools, Nodes, Ladders, Levels, Links, Calls

LEMMA PoolTypesPrime ==
    PoolTypeOK' <=> /\ orders' \in Pools /\ levels' \in Ladders
                    /\ id_map' \in [Slots -> Links]
                    /\ next_free_order_idx' \in Links
                    /\ call' \in Calls
                    /\ rested' \subseteq Slots /\ submits' \in Nat
  BY DEF PoolTypeOK, Pools, Nodes, Ladders, Levels, Links, Calls

LEMMA MinOfTwo ==
    ASSUME NEW a \in Nat, NEW b \in Nat
    PROVE  Min({a, b}) = IF a <= b THEN a ELSE b
  <1>1. CASE a <= b
    BY <1>1, MinUnique
  <1>2. CASE b < a
    BY <1>2, MinUnique
  <1> QED
    BY <1>1, <1>2

LEMMA FreeChainFields ==
    ASSUME NEW ord \in Pools
    PROVE  /\ FreeChain(ord) \in Pools
           /\ \A s \in Slots : FreeChain(ord)[s].next =
                                  IF s = MaxOrders - 1 THEN NULL_IDX ELSE s + 1
  BY PoolAssumption DEF FreeChain, Pools, Nodes, Links, Slots, NULL_IDX

LEMMA EmptyLevelsType == EmptyLevels \in Ladders
  BY DEF EmptyLevels, Ladders, Levels, Links

LEMMA IdleType == Idle \in Calls
  BY LadderAssumption DEF Idle, Calls, Ids

LEMMA InitType == PoolInit => PoolTypeOK
  <1> SUFFICES ASSUME PoolInit PROVE PoolTypeOK
    OBVIOUS
  <1> DEFINE zero == [s \in Slots |-> [id |-> 0, price |-> 0, qty |-> 0,
                                       is_buy |-> FALSE, next |-> 0, prev |-> 0]]
  <1>1. 0 \in Slots
    BY PoolAssumption DEF Slots
  <1>2. zero \in Pools
    BY <1>1, LadderAssumption DEF Pools, Nodes, Links
  <1>3. orders = FreeChain(zero)
    BY DEF PoolInit
  <1>4. orders \in Pools
    BY <1>2, <1>3, FreeChainFields
  <1>5. levels \in Ladders /\ call \in Calls
    BY EmptyLevelsType, IdleType DEF PoolInit
  <1> QED
    BY <1>1, <1>4, <1>5, PoolTypes DEF PoolInit, Links

LEMMA ResetType ==
    ASSUME PoolTypeOK, PoolReset
    PROVE  PoolTypeOK'
  <1>1. orders' \in Pools
    BY PoolTypes, FreeChainFields DEF PoolReset
  <1>2. 0 \in Slots
    BY PoolAssumption DEF Slots
  <1> QED
    BY <1>1, <1>2, PoolTypes, PoolTypesPrime, EmptyLevelsType DEF PoolReset, Links

LEMMA SubmitType ==
    ASSUME PoolTypeOK, NEW id \in Ids, NEW price \in 0..MAX_PRICES, NEW qty \in Nat,
           NEW is_buy \in BOOLEAN, submit_order(id, price, qty, is_buy)
    PROVE  PoolTypeOK'
  <1>1. call' \in Calls
    BY QtysAssumption DEF submit_order, Calls
  <1> QED
    BY <1>1, PoolTypes, PoolTypesPrime DEF submit_order

\* Setting one field of one slot.
WithNext(ord, i, n) == [ord EXCEPT ![i].next = n]
WithPrev(ord, i, n) == [ord EXCEPT ![i].prev = n]
WithQty(ord, i, q)  == [ord EXCEPT ![i].qty = q]

\* Two pools differ in quantities at most.
SameLinks(ord1, ord2) ==
    \A s \in Slots : /\ ord1[s].id = ord2[s].id
                     /\ ord1[s].price = ord2[s].price
                     /\ ord1[s].is_buy = ord2[s].is_buy
                     /\ ord1[s].prev = ord2[s].prev
                     /\ ord1[s].next = ord2[s].next

LEMMA SetNext ==
    ASSUME NEW ord \in Pools, NEW i \in Slots, NEW n \in Links
    PROVE  /\ WithNext(ord, i, n) \in Pools /\ SameData(WithNext(ord, i, n), ord)
           /\ \A s \in Slots :
                 /\ WithNext(ord, i, n)[s].prev = ord[s].prev
                 /\ WithNext(ord, i, n)[s].next = IF s = i THEN n ELSE ord[s].next
  BY DEF WithNext, Pools, Nodes, SameData

LEMMA SetPrev ==
    ASSUME NEW ord \in Pools, NEW i \in Slots, NEW n \in Links
    PROVE  /\ WithPrev(ord, i, n) \in Pools /\ SameData(WithPrev(ord, i, n), ord)
           /\ \A s \in Slots :
                 /\ WithPrev(ord, i, n)[s].next = ord[s].next
                 /\ WithPrev(ord, i, n)[s].prev = IF s = i THEN n ELSE ord[s].prev
  BY DEF WithPrev, Pools, Nodes, SameData

LEMMA SetQty ==
    ASSUME NEW ord \in Pools, NEW i \in Slots, NEW q \in Nat
    PROVE  /\ WithQty(ord, i, q) \in Pools /\ SameLinks(WithQty(ord, i, q), ord)
           /\ \A s \in Slots :
                 WithQty(ord, i, q)[s].qty = IF s = i THEN q ELSE ord[s].qty
  BY DEF WithQty, Pools, Nodes, SameLinks

IsHead(lev, b, p, i) == i = lev[b][p].head /\ i # NULL_IDX

\* The incoming order trades quantity t with slot i, the head of its level.
TradeOf(side, p, i, t) ==
    /\ side = ~call.is_buy
    /\ IsHead(levels, side, p, i)
    /\ t = TradeQty(orders[i])

\* What a trade of quantity t with slot i, the head of its level, does.
PoppedLevel(ord, lv, i) ==
    [head |-> ord[i].next,
     tail |-> IF ord[i].next = NULL_IDX THEN NULL_IDX ELSE lv.tail]

TradedPool(ord, ord2, i, q) ==
    \A s \in Slots : /\ ord2[s].id = ord[s].id
                     /\ ord2[s].price = ord[s].price
                     /\ ord2[s].is_buy = ord[s].is_buy
                     /\ ord2[s].prev = ord[s].prev
                     /\ ord2[s].qty = IF s = i THEN q ELSE ord[s].qty

NextSet(ord, ord2, i, n) ==
    \A s \in Slots : ord2[s].next = IF s = i THEN n ELSE ord[s].next

Traded(side, p, i, t) ==
    /\ side \in BOOLEAN /\ i \in Slots
    /\ t \in Nat /\ t <= call.qty /\ t <= orders[i].qty
    /\ t = Min({call.qty, orders[i].qty})
    /\ call' = [call EXCEPT !.qty = @ - t]
    /\ TradedPool(orders, orders', i, orders[i].qty - t)
    /\ UNCHANGED <<rested, submits>>
    /\ t = orders[i].qty =>
          /\ id_map' = [id_map EXCEPT ![orders[i].id] = NULL_IDX]
          /\ levels' = Put(levels, side, p, PoppedLevel(orders, levels[side][p], i))
          /\ next_free_order_idx' = i
          /\ NextSet(orders, orders', i, next_free_order_idx)
    /\ t # orders[i].qty =>
          /\ UNCHANGED <<id_map, levels, next_free_order_idx>>
          /\ NextSet(orders, orders', i, orders[i].next)

LEMMA TradeFields ==
    ASSUME PoolTypeOK, NEW p \in Prices, Trade(p),
           NEW side \in BOOLEAN, NEW i, NEW t, TradeOf(side, p, i, t)
    PROVE  PoolTypeOK' /\ Traded(side, p, i, t)
  <1> DEFINE r == orders[i]
             q == r.qty - t
             traded == WithQty(orders, i, q)
             lv2 == [head |-> r.next,
                     tail |-> IF r.next = NULL_IDX THEN NULL_IDX
                              ELSE levels[side][p].tail]
  <1>0. /\ orders \in Pools /\ levels \in Ladders /\ call \in Calls
        /\ id_map \in [Slots -> Links] /\ next_free_order_idx \in Links
        /\ rested \subseteq Slots /\ submits \in Nat
    BY PoolTypes
  <1> USE DEF TradeOf, IsHead
  <1>1. side \in BOOLEAN /\ levels[side][p] \in Levels
    BY <1>0 DEF Calls, Ladders
  <1>2. i \in Slots /\ r \in Nodes
    BY <1>0, <1>1 DEF Levels, Links, Pools
  <1>3. call.qty \in Nat /\ r.qty \in Nat /\ r.id \in Slots /\ r.next \in Links
    BY <1>0, <1>2 DEF Calls, Nodes
  <1>4. t \in Nat /\ t <= call.qty /\ t <= r.qty /\ t = Min({call.qty, r.qty})
        /\ r.qty - t \in Nat /\ call.qty - t \in Nat
    <2>1. PICK x \in Nat, y \in Nat : x = call.qty /\ y = r.qty
      BY <1>3
    <2>2. t = Min({x, y})
      BY <2>1 DEF TradeQty
    <2>3. t \in Nat /\ t <= x /\ t <= y
      BY <2>2, MinOfTwo
    <2>4. y - t \in Nat /\ x - t \in Nat
      BY <2>3
    <2> QED
      BY <2>1, <2>2, <2>3, <2>4
  <1>5. lv2 \in Levels
    BY <1>1, <1>3 DEF Levels, Links
  <1>6. /\ call' = [call EXCEPT !.qty = @ - t]
        /\ UNCHANGED <<rested, submits>>
        /\ t = r.qty => /\ id_map' = [id_map EXCEPT ![r.id] = NULL_IDX]
                        /\ levels' = [levels EXCEPT ![side][p] = lv2]
                        /\ orders' = WithNext(traded, i, next_free_order_idx)
                        /\ next_free_order_idx' = i
        /\ t # r.qty => /\ orders' = traded
                        /\ UNCHANGED <<levels, id_map, next_free_order_idx>>
    BY DEF Trade, Filled, Free, Forget, clients, WithQty, WithNext
  <1> HIDE DEF TradeOf, IsHead
  <1>7. /\ traded \in Pools /\ SameLinks(traded, orders)
        /\ \A s \in Slots : traded[s].qty = IF s = i THEN r.qty - t ELSE orders[s].qty
    <2>1. q \in Nat
      BY <1>4
    <2> HIDE DEF q
    <2>2. /\ traded \in Pools /\ SameLinks(traded, orders)
          /\ \A s \in Slots : traded[s].qty = IF s = i THEN q ELSE orders[s].qty
      BY <1>0, <1>2, <2>1, SetQty
    <2> QED
      BY <2>2, Zenon DEF q
  <1>8. call' \in Calls /\ rested' \subseteq Slots /\ submits' \in Nat
    BY <1>0, <1>4, <1>6 DEF Calls
  <1> HIDE DEF traded, lv2
  <1>9. CASE t = r.qty
    <2>1. /\ orders' \in Pools /\ SameData(orders', traded)
          /\ \A s \in Slots : /\ orders'[s].prev = traded[s].prev
                              /\ orders'[s].next = IF s = i THEN next_free_order_idx
                                                   ELSE traded[s].next
      <3>1. orders' = WithNext(traded, i, next_free_order_idx)
        BY <1>6, <1>9
      <3> DEFINE nf == next_free_order_idx
                 ord2 == WithNext(traded, i, nf)
      <3>2. nf \in Links /\ traded \in Pools
        BY <1>0, <1>7
      <3> HIDE DEF nf
      <3>3. /\ ord2 \in Pools /\ SameData(ord2, traded)
            /\ \A s \in Slots : /\ ord2[s].prev = traded[s].prev
                                /\ ord2[s].next = IF s = i THEN nf ELSE traded[s].next
        BY <1>2, <3>2, SetNext
      <3> QED
        BY <3>1, <3>3, Zenon DEF nf
    <2>2. levels' \in Ladders
      <3>1. levels' = [levels EXCEPT ![side][p] = lv2]
        BY <1>6, <1>9
      <3> QED
        BY <1>0, <1>1, <1>5, <3>1 DEF Ladders
    <2>3. id_map' \in [Slots -> Links] /\ next_free_order_idx' \in Links
      BY <1>0, <1>2, <1>3, <1>6, <1>9 DEF Links
    <2>4. PoolTypeOK'
      BY <1>8, <2>1, <2>2, <2>3, PoolTypesPrime
    <2>5. \A s \in Slots : /\ orders'[s].id = orders[s].id
                           /\ orders'[s].price = orders[s].price
                           /\ orders'[s].is_buy = orders[s].is_buy
                           /\ orders'[s].prev = orders[s].prev
                           /\ orders'[s].qty = IF s = i THEN r.qty - t ELSE orders[s].qty
                           /\ orders'[s].next = IF s = i THEN next_free_order_idx
                                                ELSE orders[s].next
      BY <1>7, <2>1 DEF SameData, SameLinks
    <2>6. /\ TradedPool(orders, orders', i, r.qty - t)
          /\ NextSet(orders, orders', i, next_free_order_idx)
      BY <2>5 DEF TradedPool, NextSet
    <2>7. levels' = Put(levels, side, p, PoppedLevel(orders, levels[side][p], i))
      BY <1>6, <1>9 DEF Put, PoppedLevel, lv2
    <2> QED
      BY <1>1, <1>2, <1>4, <1>6, <1>9, <2>4, <2>6, <2>7, Zenon DEF r, Traded
  <1>10. CASE t # r.qty
    <2>1. PoolTypeOK'
      BY <1>0, <1>6, <1>7, <1>8, <1>10, PoolTypesPrime
    <2>2. \A s \in Slots : /\ orders'[s].id = orders[s].id
                           /\ orders'[s].price = orders[s].price
                           /\ orders'[s].is_buy = orders[s].is_buy
                           /\ orders'[s].prev = orders[s].prev
                           /\ orders'[s].qty = IF s = i THEN r.qty - t ELSE orders[s].qty
                           /\ orders'[s].next = orders[s].next
      BY <1>6, <1>7, <1>10 DEF SameLinks
    <2>3. /\ TradedPool(orders, orders', i, r.qty - t)
          /\ NextSet(orders, orders', i, r.next)
      BY <2>2 DEF TradedPool, NextSet
    <2> QED
      BY <1>1, <1>2, <1>4, <1>6, <1>10, <2>1, <2>3, Zenon DEF r, Traded
  <1> QED
    BY <1>9, <1>10

-----------------------------------------------------------------------------
(* Moves of one slot between the lists, the free list and X *)

\* The slots of X and the free list change, the levels do not.
LEMMA RepOffLevels ==
    ASSUME NEW ord, NEW lev \in Ladders, NEW nf, NEW L, NEW F, NEW X,
           Rep(ord, lev, nf, L, F, X),
           NEW ord2, NEW nf2, NEW F2, NEW X2 \in SUBSET Slots, IsChain(ord2, nf2, F2),
           \A s \in Slots : In(F2, s) => s \notin X2,
           \A s \in Slots : (In(F2, s) \/ s \in X2) <=> (In(F, s) \/ s \in X),
           \A s \in Slots : ~(In(F, s) \/ s \in X) =>
                               /\ ord2[s].next = ord[s].next
                               /\ ord2[s].prev = ord[s].prev
                               /\ ord2[s].is_buy = ord[s].is_buy
                               /\ ord2[s].price = ord[s].price
    PROVE  Rep(ord2, lev, nf2, L, F2, X2)
  <1>1. ASSUME NEW b \in BOOLEAN, NEW p \in Prices, NEW s \in Slots, In(L[b][p], s)
        PROVE  /\ ~(In(F, s) \/ s \in X) /\ ~(In(F2, s) \/ s \in X2)
               /\ ord2[s].is_buy = b /\ ord2[s].price = p
    BY <1>1 DEF Rep
  <1>2. ASSUME NEW b \in BOOLEAN, NEW p \in Prices
        PROVE  IsLevel(ord2, lev[b][p], L[b][p])
    <2> DEFINE l == L[b][p]
               lv == lev[b][p]
    <2>1. IsLevel(ord, lv, l) /\ l \in Seq(Slots)
      BY DEF Rep
    <2>2. \A k \in 1..Len(l) : l[k] \in Slots /\ In(l, l[k])
      BY <2>1 DEF In
    <2>3. \A k \in 1..Len(l) : ord2[l[k]].next = ord[l[k]].next
                               /\ ord2[l[k]].prev = ord[l[k]].prev
      BY <1>1, <2>2
    <2> HIDE DEF l, lv
    <2>4. IsLevel(ord2, lv, l)
      BY <2>1, <2>3, LevelFrame
    <2> QED
      BY <2>4 DEF l, lv
  <1>3. \A s \in Slots : \/ In(F2, s)
                         \/ s \in X2
                         \/ \E b \in BOOLEAN, p \in Prices : In(L[b][p], s)
    BY DEF Rep
  <1> QED
    BY <1>1, <1>2, <1>3 DEF Rep

\* Nothing that counts for the lists has changed but at slot i.
SameBut(ord, ord2, i) ==
    \A s \in Slots : s # i => /\ ord2[s].next = ord[s].next
                              /\ ord2[s].prev = ord[s].prev
                              /\ ord2[s].is_buy = ord[s].is_buy
                              /\ ord2[s].price = ord[s].price

\* Slot i of X becomes the head of the free list.
LEMMA RepFree ==
    ASSUME NEW ord, NEW lev \in Ladders, NEW nf, NEW L, NEW F, NEW X,
           Rep(ord, lev, nf, L, F, X), NEW i \in X,
           NEW ord2, SameBut(ord, ord2, i), ord2[i].next = nf
    PROVE  Rep(ord2, lev, i, L, <<i>> \o F, X \ {i})
  <1> DEFINE G == <<i>> \o F
             Y == X \ {i}
  <1>1. X \subseteq Slots /\ i \in Slots /\ ~In(F, i) /\ IsChain(ord, nf, F)
        /\ \A s \in Slots : In(F, s) => s \notin X
    BY DEF Rep
  <1>2. \A s \in Slots : In(F, s) => ord2[s].next = ord[s].next
    BY <1>1 DEF SameBut
  <1>3. IsChain(ord2, i, G) /\ \A s : In(G, s) <=> s = i \/ In(F, s)
    BY <1>1, <1>2, PushFree
  <1> HIDE DEF G
  <1>4. /\ Y \in SUBSET Slots
        /\ \A s \in Slots : In(G, s) => s \notin Y
        /\ \A s \in Slots : (In(G, s) \/ s \in Y) <=> (In(F, s) \/ s \in X)
    BY <1>1, <1>3
  <1>5. \A s \in Slots : ~(In(F, s) \/ s \in X) =>
                               /\ ord2[s].next = ord[s].next
                               /\ ord2[s].prev = ord[s].prev
                               /\ ord2[s].is_buy = ord[s].is_buy
                               /\ ord2[s].price = ord[s].price
    BY DEF SameBut
  <1> HIDE DEF Y
  <1>6. Rep(ord2, lev, i, L, G, Y)
    BY <1>3, <1>4, <1>5, RepOffLevels
  <1> QED
    BY <1>6 DEF G, Y

\* The head of the free list moves to X.
LEMMA RepTake ==
    ASSUME NEW ord, NEW lev \in Ladders, NEW nf, NEW L, NEW F, NEW X,
           Rep(ord, lev, nf, L, F, X), nf # NULL_IDX,
           NEW ord2, SameBut(ord, ord2, nf)
    PROVE  /\ nf \in Slots /\ In(F, nf)
           /\ Rep(ord2, lev, ord[nf].next, L, Without(F, 1), X \cup {nf})
  <1> DEFINE G == Without(F, 1)
             Y == X \cup {nf}
             nf2 == ord[nf].next
  <1>1. X \subseteq Slots /\ IsChain(ord, nf, F)
        /\ \A s \in Slots : In(F, s) => s \notin X
    BY DEF Rep
  <1>2. /\ nf \in Slots /\ In(F, nf)
        /\ IsChain(ord2, nf2, G)
        /\ \A s : In(G, s) <=> In(F, s) /\ s # nf
    BY <1>1, PopFree DEF SameBut
  <1> HIDE DEF G, nf2
  <1>3. /\ Y \in SUBSET Slots
        /\ \A s \in Slots : In(G, s) => s \notin Y
        /\ \A s \in Slots : (In(G, s) \/ s \in Y) <=> (In(F, s) \/ s \in X)
    BY <1>1, <1>2
  <1>4. \A s \in Slots : ~(In(F, s) \/ s \in X) =>
                               /\ ord2[s].next = ord[s].next
                               /\ ord2[s].prev = ord[s].prev
                               /\ ord2[s].is_buy = ord[s].is_buy
                               /\ ord2[s].price = ord[s].price
    BY <1>2 DEF SameBut
  <1> HIDE DEF Y
  <1>5. Rep(ord2, lev, nf2, L, G, Y)
    BY <1>2, <1>3, <1>4, RepOffLevels
  <1> QED
    BY <1>2, <1>5 DEF G, Y, nf2

\* Slot i is the k-th of its list.
IsAt(L, b, p, k, i) == k \in 1..Len(L[b][p]) /\ L[b][p][k] = i

\* Its prev was reset if it is the head.
HeadReset(ord, k, i) == k = 1 => ord[i].prev = NULL_IDX

\* The k-th slot of a level moves to X, if prev of the head was reset.
LEMMA RepUnlink ==
    ASSUME NEW ord \in Pools, NEW lev \in Ladders, NEW nf, NEW L, NEW F, NEW X,
           Rep(ord, lev, nf, L, F, X), NEW b \in BOOLEAN, NEW p \in Prices,
           NEW k, NEW i, IsAt(L, b, p, k, i), HeadReset(ord, k, i)
    PROVE  Rep(Unlink(ord, lev[b][p], i).pool,
               Put(lev, b, p, Unlink(ord, lev[b][p], i).level), nf,
               Put(L, b, p, Without(L[b][p], k)), F, X \cup {i})
  <1> DEFINE l == L[b][p]
             lv == lev[b][p]
             u == Unlink(ord, lv, i)
             m == Without(l, k)
             Y == X \cup {i}
  <1>1. /\ IsLevel(ord, lv, l) /\ l \in Seq(Slots) /\ lv \in Levels
        /\ k \in 1..Len(l) /\ i = l[k]
        /\ k = 1 => ord[l[k]].prev = NULL_IDX
        /\ u = Unlink(ord, lv, i)
    BY DEF Rep, Ladders, IsAt, HeadReset
  <1> HIDE DEF u
  <1>2. /\ X \subseteq Slots /\ IsChain(ord, nf, F)
        /\ \A s \in Slots : In(l, s) => /\ ord[s].is_buy = b /\ ord[s].price = p
                                        /\ ~In(F, s) /\ s \notin X
        /\ \A s \in Slots : In(F, s) => s \notin X
    BY DEF Rep
  <1> HIDE DEF l, lv
  <1>3. i \in Slots /\ In(l, i)
    BY <1>1 DEF In
  <1>4. u.pool \in Pools /\ u.level \in Levels /\ SameData(u.pool, ord)
    BY <1>1, <1>3, UnlinkFields
  <1>5. /\ IsLevel(u.pool, u.level, m)
        /\ \A s \in Slots : (\A j \in 1..Len(l) : j # k => l[j] # s) =>
              u.pool[s].next = ord[s].next /\ u.pool[s].prev = ord[s].prev
    BY <1>1, UnlinkLevel
  <1>6. \A s : In(m, s) <=> In(l, s) /\ s # i
    BY <1>1, WithoutIn DEF IsLevel
  <1>7. \A s \in Slots : ~In(l, s) => u.pool[s].next = ord[s].next
                                      /\ u.pool[s].prev = ord[s].prev
    BY <1>5 DEF In
  <1>8. \A s \in Slots : u.pool[s].is_buy = ord[s].is_buy /\ u.pool[s].price = ord[s].price
    BY <1>4 DEF SameData
  <1>9. IsChain(u.pool, nf, F)
    <2>1. F \in Seq(Slots) /\ \A j \in 1..Len(F) : In(F, F[j])
      BY <1>2 DEF IsChain, In
    <2>2. \A j \in 1..Len(F) : u.pool[F[j]].next = ord[F[j]].next
      BY <1>2, <1>7, <2>1
    <2> QED
      BY <1>2, <2>2 DEF IsChain
  <1> HIDE DEF m
  <1>10. /\ Y \in SUBSET Slots
         /\ \A s \in Slots : In(m, s) => /\ u.pool[s].is_buy = b /\ u.pool[s].price = p
                                         /\ ~In(F, s) /\ s \notin Y
         /\ \A s \in Slots : In(F, s) => s \notin Y
         /\ \A s \in Slots : (In(F, s) \/ In(m, s) \/ s \in Y)
                               <=> (In(F, s) \/ In(l, s) \/ s \in X)
    BY <1>2, <1>3, <1>6, <1>8
  <1>11. \A s \in Slots : ~(In(F, s) \/ In(l, s) \/ s \in X) =>
                                /\ u.pool[s].next = ord[s].next
                                /\ u.pool[s].prev = ord[s].prev
                                /\ u.pool[s].is_buy = ord[s].is_buy
                                /\ u.pool[s].price = ord[s].price
    BY <1>7, <1>8
  <1> HIDE DEF Y
  <1>12. Rep(u.pool, Put(lev, b, p, u.level), nf, Put(L, b, p, m), F, Y)
    <2> DEFINE o2 == u.pool
               v2 == u.level
    <2>1. /\ IsLevel(o2, v2, m) /\ IsChain(o2, nf, F)
          /\ \A s \in Slots : In(m, s) => /\ o2[s].is_buy = b /\ o2[s].price = p
                                          /\ ~In(F, s) /\ s \notin Y
          /\ \A s \in Slots : ~(In(F, s) \/ In(l, s) \/ s \in X) =>
                                /\ o2[s].next = ord[s].next
                                /\ o2[s].prev = ord[s].prev
                                /\ o2[s].is_buy = ord[s].is_buy
                                /\ o2[s].price = ord[s].price
      BY <1>5, <1>9, <1>10, <1>11
    <2> HIDE DEF o2, v2
    <2>2. Rep(o2, Put(lev, b, p, v2), nf, Put(L, b, p, m), F, Y)
      BY <1>10, <2>1, RepUpdate DEF l
    <2> QED
      BY <2>2 DEF o2, v2
  <1> QED
    BY <1>12 DEF m, Y, l, lv, u

\* The head of a level is the first of its list.
LEMMA HeadIsAt ==
    ASSUME NEW ord, NEW lev, NEW nf, NEW L, NEW F, NEW X,
           Rep(ord, lev, nf, L, F, X), NEW b \in BOOLEAN, NEW p \in Prices,
           NEW i, IsHead(lev, b, p, i)
    PROVE  i \in Slots /\ IsAt(L, b, p, 1, i)
  <1> DEFINE l == L[b][p]
  <1>1. /\ l \in Seq(Slots) /\ Len(l) \in Nat
        /\ i = IF Len(l) = 0 THEN NULL_IDX ELSE l[1]
        /\ i # NULL_IDX
    BY DEF Rep, IsLevel, IsChain, IsHead
  <1> HIDE DEF l
  <1>2. 1 \in 1..Len(l) /\ l[1] = i /\ l[1] \in Slots
    BY <1>1
  <1> QED
    BY <1>2 DEF l, IsAt

\* The head of a level moves to X; prev of the new head is not touched.
LEMMA RepPop ==
    ASSUME NEW ord \in Pools, NEW lev \in Ladders, NEW nf, NEW L, NEW F, NEW X,
           Rep(ord, lev, nf, L, F, X), NEW b \in BOOLEAN, NEW p \in Prices,
           NEW i, IsHead(lev, b, p, i)
    PROVE  /\ i \in Slots /\ IsAt(L, b, p, 1, i)
           /\ Rep(ord, Put(lev, b, p, PoppedLevel(ord, lev[b][p], i)), nf,
                  Put(L, b, p, Without(L[b][p], 1)), F, X \cup {i})
  <1> DEFINE l == L[b][p]
             lv == lev[b][p]
             lv2 == PoppedLevel(ord, lv, i)
             m == Without(l, 1)
             n == Len(l)
             Y == X \cup {i}
  <1>1. /\ IsLevel(ord, lv, l) /\ l \in Seq(Slots)
        /\ i = lv.head /\ i # NULL_IDX
        /\ lv2 = [head |-> ord[i].next,
                  tail |-> IF ord[i].next = NULL_IDX THEN NULL_IDX ELSE lv.tail]
    BY DEF Rep, PoppedLevel, IsHead
  <1>2. /\ X \subseteq Slots /\ IsChain(ord, nf, F)
        /\ \A s \in Slots : In(l, s) => /\ ord[s].is_buy = b /\ ord[s].price = p
                                        /\ ~In(F, s) /\ s \notin X
        /\ \A s \in Slots : In(F, s) => s \notin X
    BY DEF Rep
  <1> HIDE DEF l, lv, lv2
  <1>0. Len(l) # 0 /\ l[1] = i
    BY <1>1 DEF IsLevel, IsChain
  <1>3. /\ n \in Nat /\ n # 0 /\ l[1] = i
        /\ \A a, c \in 1..n : l[a] = l[c] => a = c
        /\ \A a \in 1..n : ord[l[a]].next = IF a = n THEN NULL_IDX ELSE l[a + 1]
        /\ \A a \in 2..n : ord[l[a]].prev = l[a - 1]
        /\ lv.tail = l[n]
    BY <1>0, <1>1 DEF IsLevel, IsChain
  <1>4. 1 \in 1..n /\ i \in Slots /\ In(l, i)
    BY <1>1, <1>3 DEF In
  <1>5. /\ m \in Seq(Slots) /\ Len(m) = n - 1
        /\ \A j \in 1..(n - 1) : m[j] = l[j + 1]
    BY <1>1, <1>3 DEF Without
  <1>6. \A s : In(m, s) <=> In(l, s) /\ s # i
    <2>1. \A s : In(Without(l, 1), s) <=> In(l, s) /\ s # l[1]
      BY <1>1, <1>4, WithoutIn DEF IsLevel
    <2> QED
      BY <1>3, <2>1
  <1> HIDE DEF m
  <1>7. IsChain(ord, lv2.head, m)
    <2>1. \A a, c \in 1..Len(m) : m[a] = m[c] => a = c
      BY <1>3, <1>5
    <2>2. lv2.head = IF Len(m) = 0 THEN NULL_IDX ELSE m[1]
      BY <1>1, <1>3, <1>4, <1>5
    <2>3. ASSUME NEW a \in 1..Len(m)
          PROVE  ord[m[a]].next = IF a = Len(m) THEN NULL_IDX ELSE m[a + 1]
      <3>1. a \in 1..(n - 1) /\ a + 1 \in 1..n /\ m[a] = l[a + 1]
            /\ (a # n - 1 => m[a + 1] = l[(a + 1) + 1])
        BY <1>3, <1>5
      <3>2. ord[l[a + 1]].next = IF a + 1 = n THEN NULL_IDX ELSE l[(a + 1) + 1]
        BY <1>3, <3>1
      <3> QED
        BY <1>3, <1>5, <3>1, <3>2
    <2> QED
      BY <1>5, <2>1, <2>2, <2>3 DEF IsChain
  <1>8. lv2.tail = IF Len(m) = 0 THEN NULL_IDX ELSE m[Len(m)]
    <2>1. CASE n = 1
      BY <1>1, <1>3, <1>4, <1>5, <2>1
    <2>2. CASE n # 1
      <3>1. ord[i].next = l[2] /\ l[2] \in Slots /\ m[n - 1] = l[n]
        BY <1>1, <1>3, <1>4, <1>5, <2>2
      <3> QED
        BY <1>1, <1>3, <1>5, <2>2, <3>1, SlotsNotNull
    <2> QED
      BY <2>1, <2>2
  <1>9. \A a \in 2..Len(m) : ord[m[a]].prev = m[a - 1]
    <2> SUFFICES ASSUME NEW a \in 2..Len(m) PROVE ord[m[a]].prev = m[a - 1]
      OBVIOUS
    <2>1. a + 1 \in 2..n /\ m[a] = l[a + 1] /\ m[a - 1] = l[(a + 1) - 1]
      BY <1>3, <1>5
    <2> QED
      BY <1>3, <2>1
  <1>10. IsLevel(ord, lv2, m)
    BY <1>7, <1>8, <1>9 DEF IsLevel
  <1>11. /\ Y \in SUBSET Slots
         /\ \A s \in Slots : In(m, s) => /\ ord[s].is_buy = b /\ ord[s].price = p
                                         /\ ~In(F, s) /\ s \notin Y
         /\ \A s \in Slots : In(F, s) => s \notin Y
         /\ \A s \in Slots : (In(F, s) \/ In(m, s) \/ s \in Y)
                               <=> (In(F, s) \/ In(l, s) \/ s \in X)
    BY <1>2, <1>4, <1>6
  <1> HIDE DEF Y
  <1>12. Rep(ord, Put(lev, b, p, lv2), nf, Put(L, b, p, m), F, Y)
    BY <1>2, <1>10, <1>11, RepUpdate DEF l
  <1> QED
    BY <1>3, <1>4, <1>12 DEF m, Y, l, lv, lv2, IsAt

\* Slot i of X goes to the back of a level; ord2 is the pool after the link has
\* been made and next, side and price of slot i have been set.
IsLinked(ord, lev, ord2, i, b, p) ==
  LET tp == Link(ord, lev[b][p], i).pool
  IN
    /\ ord2[i].next = NULL_IDX /\ ord2[i].prev = tp[i].prev
    /\ ord2[i].is_buy = b /\ ord2[i].price = p
    /\ \A s \in Slots : s # i => /\ ord2[s].next = tp[s].next
                                 /\ ord2[s].prev = tp[s].prev
                                 /\ ord2[s].is_buy = ord[s].is_buy
                                 /\ ord2[s].price = ord[s].price

LEMMA RepLink ==
    ASSUME NEW ord \in Pools, NEW lev \in Ladders, NEW nf, NEW L, NEW F, NEW X,
           Rep(ord, lev, nf, L, F, X), NEW b \in BOOLEAN, NEW p \in Prices,
           NEW i \in X,
           NEW ord2, IsLinked(ord, lev, ord2, i, b, p)
    PROVE  Rep(ord2, Put(lev, b, p, Link(ord, lev[b][p], i).level), nf,
               Put(L, b, p, Append(L[b][p], i)), F, X \ {i})
  <1> DEFINE l == L[b][p]
             lv == lev[b][p]
             m == Append(l, i)
             Y == X \ {i}
             t == Link(ord, lv, i)
             v2 == t.level
  <1>1. /\ IsLevel(ord, lv, l) /\ l \in Seq(Slots) /\ lv \in Levels
        /\ t = Link(ord, lv, i)
        /\ ord2[i].next = NULL_IDX /\ ord2[i].prev = t.pool[i].prev
        /\ ord2[i].is_buy = b /\ ord2[i].price = p
        /\ \A s \in Slots : s # i => /\ ord2[s].next = t.pool[s].next
                                     /\ ord2[s].prev = t.pool[s].prev
                                     /\ ord2[s].is_buy = ord[s].is_buy
                                     /\ ord2[s].price = ord[s].price
    BY DEF Rep, Ladders, IsLinked
  <1> HIDE DEF t
  <1>2. /\ X \subseteq Slots /\ IsChain(ord, nf, F)
        /\ \A s \in Slots : In(l, s) => /\ ord[s].is_buy = b /\ ord[s].price = p
                                        /\ ~In(F, s) /\ s \notin X
        /\ \A s \in Slots : In(F, s) => s \notin X
    BY DEF Rep
  <1> HIDE DEF l, lv
  <1>3. i \in Slots /\ ~In(l, i) /\ \A k \in 1..Len(l) : l[k] # i
    BY <1>2 DEF In
  <1>4. /\ \A o : /\ o[i].next = NULL_IDX
                  /\ o[i].prev = t.pool[i].prev
                  /\ \A k \in 1..Len(l) : /\ o[l[k]].next = t.pool[l[k]].next
                                          /\ o[l[k]].prev = t.pool[l[k]].prev
                  => IsLevel(o, v2, m)
        /\ \A s \in Slots : (s # i /\ \A k \in 1..Len(l) : l[k] # s) =>
              t.pool[s].next = ord[s].next /\ t.pool[s].prev = ord[s].prev
    BY <1>1, <1>3, LinkLevel
  <1>5. \A k \in 1..Len(l) : l[k] \in Slots /\ l[k] # i
    BY <1>1, <1>3
  <1>6. IsLevel(ord2, v2, m)
    BY <1>1, <1>4, <1>5
  <1>7. \A s : In(m, s) <=> In(l, s) \/ s = i
    BY <1>1, <1>3, AppendIn
  <1>8. \A s \in Slots : s # i /\ ~In(l, s) => ord2[s].next = ord[s].next
                                               /\ ord2[s].prev = ord[s].prev
    BY <1>1, <1>4 DEF In
  <1>9. IsChain(ord2, nf, F)
    <2>1. F \in Seq(Slots) /\ \A j \in 1..Len(F) : In(F, F[j])
      BY <1>2 DEF IsChain, In
    <2>2. \A j \in 1..Len(F) : ord2[F[j]].next = ord[F[j]].next
      BY <1>2, <1>8, <2>1
    <2> QED
      BY <1>2, <2>2 DEF IsChain
  <1> HIDE DEF m, v2
  <1>10. /\ Y \in SUBSET Slots
         /\ \A s \in Slots : In(m, s) => /\ ord2[s].is_buy = b /\ ord2[s].price = p
                                         /\ ~In(F, s) /\ s \notin Y
         /\ \A s \in Slots : In(F, s) => s \notin Y
         /\ \A s \in Slots : (In(F, s) \/ In(m, s) \/ s \in Y)
                               <=> (In(F, s) \/ In(l, s) \/ s \in X)
    BY <1>1, <1>2, <1>3, <1>7
  <1>11. \A s \in Slots : ~(In(F, s) \/ In(l, s) \/ s \in X) =>
                                /\ ord2[s].next = ord[s].next
                                /\ ord2[s].prev = ord[s].prev
                                /\ ord2[s].is_buy = ord[s].is_buy
                                /\ ord2[s].price = ord[s].price
    BY <1>1, <1>8
  <1> HIDE DEF Y
  <1>12. Rep(ord2, Put(lev, b, p, v2), nf, Put(L, b, p, m), F, Y)
    BY <1>6, <1>9, <1>10, <1>11, RepUpdate DEF l
  <1> QED
    BY <1>12 DEF m, Y, l, v2, t, lv

\* After init() every slot is on the free list.
EmptyLists == [b \in BOOLEAN |-> [p \in Prices |-> <<>>]]
AllFree    == [k \in 1..MaxOrders |-> k - 1]

LEMMA RepReset ==
    ASSUME NEW ord \in Pools
    PROVE  Rep(FreeChain(ord), EmptyLevels, 0, EmptyLists, AllFree, {})
  <1> DEFINE ord2 == FreeChain(ord)
  <1>1. \A s \in Slots : ord2[s].next = IF s = MaxOrders - 1 THEN NULL_IDX ELSE s + 1
    BY FreeChainFields
  <1> HIDE DEF ord2
  <1>2. /\ AllFree \in Seq(Slots) /\ Len(AllFree) = MaxOrders
        /\ \A k \in 1..MaxOrders : AllFree[k] = k - 1 /\ k - 1 \in Slots
    BY PoolAssumption DEF AllFree, Slots
  <1>3. IsChain(ord2, 0, AllFree)
    BY <1>1, <1>2, PoolAssumption DEF IsChain
  <1>4. \A s \in Slots : In(AllFree, s)
    <2> SUFFICES ASSUME NEW s \in Slots PROVE In(AllFree, s)
      OBVIOUS
    <2>1. s + 1 \in 1..MaxOrders /\ (s + 1) - 1 = s
      BY PoolAssumption DEF Slots
    <2>2. AllFree[s + 1] = s
      BY <1>2, <2>1
    <2> QED
      BY <1>2, <2>1, <2>2 DEF In
  <1>5. EmptyLists \in [BOOLEAN -> [Prices -> Seq(Slots)]]
    BY DEF EmptyLists
  <1>6. \A b \in BOOLEAN, p \in Prices : IsLevel(ord2, EmptyLevels[b][p], EmptyLists[b][p])
    BY DEF EmptyLists, EmptyLevels, IsLevel, IsChain
  <1>7. \A b \in BOOLEAN, p \in Prices, s \in Slots : ~In(EmptyLists[b][p], s)
    BY DEF EmptyLists, In
  <1>8. Rep(ord2, EmptyLevels, 0, EmptyLists, AllFree, {})
    BY <1>3, <1>4, <1>5, <1>6, <1>7 DEF Rep
  <1> QED
    BY <1>8 DEF ord2

-----------------------------------------------------------------------------
(* The table of ids *)

\* Slot s is on the list of some level.
Listed(L, s) == \E b \in BOOLEAN, p \in Prices : In(L[b][p], s)

\* From L to L2, slot i has been put on a list or taken off its list.
Delisted(L, L2, i)  == \A s \in Slots : Listed(L2, s) <=> Listed(L, s) /\ s # i
AlsoListed(L, L2, i) == \A s \in Slots : Listed(L2, s) <=> Listed(L, s) \/ s = i

LEMMA ListedWithout ==
    ASSUME NEW ord, NEW lev, NEW nf, NEW L, NEW F, NEW X,
           Rep(ord, lev, nf, L, F, X), NEW b \in BOOLEAN, NEW p \in Prices,
           NEW k, NEW i, IsAt(L, b, p, k, i)
    PROVE  /\ Delisted(L, Put(L, b, p, Without(L[b][p], k)), i)
           /\ i \in Slots /\ Listed(L, i) /\ ~In(F, i) /\ i \notin X
  <1> DEFINE m == Without(L[b][p], k)
             L2 == Put(L, b, p, m)
  <1>1. /\ L \in [BOOLEAN -> [Prices -> Seq(Slots)]]
        /\ IsChain(ord, lev[b][p].head, L[b][p])
        /\ k \in 1..Len(L[b][p]) /\ L[b][p][k] = i
    BY DEF Rep, IsLevel, IsAt
  <1>2. \A s : In(m, s) <=> In(L[b][p], s) /\ s # i
    BY <1>1, WithoutIn
  <1>3. /\ L2[b][p] = m
        /\ \A c \in BOOLEAN, q \in Prices : <<c, q>> # <<b, p>> => L2[c][q] = L[c][q]
    BY <1>1 DEF Put
  <1>4. In(L[b][p], i) /\ i \in Slots
    BY <1>1 DEF In
  <1>5. \A c \in BOOLEAN, q \in Prices : In(L[c][q], i) => c = b /\ q = p
    <2>1. \A c \in BOOLEAN, q \in Prices :
             In(L[c][q], i) => ord[i].is_buy = c /\ ord[i].price = q
      BY <1>4 DEF Rep
    <2>2. ord[i].is_buy = b /\ ord[i].price = p
      BY <1>4, <2>1, Zenon
    <2> QED
      BY <2>1, <2>2
  <1> HIDE DEF m, L2
  <1>6. ASSUME NEW s \in Slots, Listed(L2, s)
        PROVE  Listed(L, s) /\ s # i
    <2>1. PICK c \in BOOLEAN, q \in Prices : In(L2[c][q], s)
      BY <1>6 DEF Listed
    <2>2. CASE <<c, q>> = <<b, p>>
      BY <1>2, <1>3, <2>1, <2>2 DEF Listed
    <2>3. CASE <<c, q>> # <<b, p>>
      <3>1. In(L[c][q], s)
        BY <1>3, <2>1, <2>3
      <3>2. s # i
        BY <1>5, <2>3, <3>1
      <3> QED
        BY <3>1, <3>2 DEF Listed
    <2> QED
      BY <2>2, <2>3
  <1>7. ASSUME NEW s \in Slots, Listed(L, s), s # i
        PROVE  Listed(L2, s)
    <2>1. PICK c \in BOOLEAN, q \in Prices : In(L[c][q], s)
      BY <1>7 DEF Listed
    <2>2. CASE <<c, q>> = <<b, p>>
      BY <1>2, <1>3, <1>7, <2>1, <2>2 DEF Listed
    <2>3. CASE <<c, q>> # <<b, p>>
      BY <1>3, <2>1, <2>3 DEF Listed
    <2> QED
      BY <2>2, <2>3
  <1>8. Delisted(L, L2, i)
    BY <1>6, <1>7 DEF Delisted
  <1>9. Listed(L, i) /\ ~In(F, i) /\ i \notin X
    BY <1>4 DEF Listed, Rep
  <1> QED
    BY <1>4, <1>8, <1>9 DEF L2, m

LEMMA ListedAppend ==
    ASSUME NEW L \in [BOOLEAN -> [Prices -> Seq(Slots)]],
           NEW b \in BOOLEAN, NEW p \in Prices, NEW i \in Slots
    PROVE  AlsoListed(L, Put(L, b, p, Append(L[b][p], i)), i)
  <1> DEFINE m == Append(L[b][p], i)
             L2 == Put(L, b, p, m)
  <1>1. \A s : In(m, s) <=> In(L[b][p], s) \/ s = i
    BY AppendIn
  <1>2. /\ L2[b][p] = m
        /\ \A c \in BOOLEAN, q \in Prices : <<c, q>> # <<b, p>> => L2[c][q] = L[c][q]
    BY DEF Put
  <1> HIDE DEF m, L2
  <1>3. ASSUME NEW s \in Slots, Listed(L2, s)
        PROVE  Listed(L, s) \/ s = i
    <2>1. PICK c \in BOOLEAN, q \in Prices : In(L2[c][q], s)
      BY <1>3 DEF Listed
    <2>2. CASE <<c, q>> = <<b, p>>
      BY <1>1, <1>2, <2>1, <2>2 DEF Listed
    <2>3. CASE <<c, q>> # <<b, p>>
      BY <1>2, <2>1, <2>3 DEF Listed
    <2> QED
      BY <2>2, <2>3
  <1>4. ASSUME NEW s \in Slots, Listed(L, s)
        PROVE  Listed(L2, s)
    <2>1. PICK c \in BOOLEAN, q \in Prices : In(L[c][q], s)
      BY <1>4 DEF Listed
    <2>2. CASE <<c, q>> = <<b, p>>
      BY <1>1, <1>2, <2>1, <2>2 DEF Listed
    <2>3. CASE <<c, q>> # <<b, p>>
      BY <1>2, <2>1, <2>3 DEF Listed
    <2> QED
      BY <2>2, <2>3
  <1>5. Listed(L2, i)
    BY <1>1, <1>2 DEF Listed
  <1>6. AlsoListed(L, L2, i)
    BY <1>3, <1>4, <1>5 DEF AlsoListed
  <1> QED
    BY <1>6 DEF L2, m

\* Table im leads from the id of every listed order to its slot, and every id
\* of R, the ids that have rested, is forgotten, listed or off the ladder; c is
\* the id of the incoming order.
GoodIds(ord, im, L, X, R, c) ==
    /\ \A s \in Slots : Listed(L, s) =>
          im[ord[s].id] = s /\ ord[s].id \in R /\ ord[s].id # c
    /\ \A id \in R : im[id] # NULL_IDX =>
          im[id] \in X \/ (Listed(L, im[id]) /\ ord[im[id]].id = id)
    /\ \A s \in X : ord[s].price \notin Prices

Tables == [Slots -> Links]

\* Ids and prices are the same, but for slot i.
SameIds(ord, ord2) ==
    \A s \in Slots : ord2[s].id = ord[s].id /\ ord2[s].price = ord[s].price
SameIdsBut(ord, ord2, i) ==
    \A s \in Slots : s # i => ord2[s].id = ord[s].id /\ ord2[s].price = ord[s].price

\* The ids stay, and which slots are listed.
LEMMA IdsFrame ==
    ASSUME NEW ord, NEW im \in Tables, NEW L, NEW X \in SUBSET Slots,
           NEW R \in SUBSET Slots, NEW c, GoodIds(ord, im, L, X, R, c),
           NEW ord2, \A s \in Slots : ord2[s].id = ord[s].id,
           \A s \in X : ord2[s].price = ord[s].price,
           NEW L2, \A s \in Slots : Listed(L2, s) <=> Listed(L, s)
    PROVE  GoodIds(ord2, im, L2, X, R, c)
  <1>1. \A id \in R : im[id] # NULL_IDX => im[id] \in Slots
    BY DEF Tables, Links
  <1> QED
    BY <1>1 DEF GoodIds

\* An order leaves its level, and its id is forgotten.
LEMMA IdsGone ==
    ASSUME NEW ord \in Pools, NEW im \in Tables, NEW L, NEW X \in SUBSET Slots,
           NEW R \in SUBSET Slots, NEW c, GoodIds(ord, im, L, X, R, c),
           NEW i \in Slots, Listed(L, i),
           NEW ord2, SameIds(ord, ord2), NEW L2, Delisted(L, L2, i)
    PROVE  GoodIds(ord2, [im EXCEPT ![ord[i].id] = NULL_IDX], L2, X, R, c)
  <1> DEFINE im2 == [im EXCEPT ![ord[i].id] = NULL_IDX]
  <1>1. \A s \in Slots : ord[s].id \in Slots
    BY DEF Pools, Nodes
  <1>2. \A id \in Slots : im2[id] = IF id = ord[i].id THEN NULL_IDX ELSE im[id]
    BY <1>1 DEF Tables
  <1>3. \A s \in Slots : Listed(L, s) => im[ord[s].id] = s /\ ord[s].id \in R
                                         /\ ord[s].id # c
    BY DEF GoodIds
  <1> HIDE DEF im2
  <1>4. ASSUME NEW s \in Slots, Listed(L2, s)
        PROVE  im2[ord2[s].id] = s /\ ord2[s].id \in R /\ ord2[s].id # c
    BY <1>1, <1>2, <1>3, <1>4 DEF SameIds, Delisted
  <1>5. ASSUME NEW id \in R, im2[id] # NULL_IDX
        PROVE  im2[id] \in X \/ (Listed(L2, im2[id]) /\ ord2[im2[id]].id = id)
    <2>1. im2[id] = im[id] /\ id # ord[i].id /\ im[id] \in Slots
      BY <1>2, <1>5 DEF Tables, Links
    <2>2. im[id] \in X \/ (Listed(L, im[id]) /\ ord[im[id]].id = id)
      BY <1>5, <2>1 DEF GoodIds
    <2> QED
      BY <2>1, <2>2 DEF SameIds, Delisted
  <1>6. \A s \in X : ord2[s].price \notin Prices
    BY DEF GoodIds, SameIds
  <1> QED
    BY <1>4, <1>5, <1>6 DEF GoodIds, im2

\* Slot i, on no list so far, gets the incoming order and is listed.
LEMMA IdsStored ==
    ASSUME NEW ord \in Pools, NEW im \in Tables, NEW L, NEW X \in SUBSET Slots,
           NEW R \in SUBSET Slots, NEW c \in Slots, GoodIds(ord, im, L, X, R, c),
           NEW i \in Slots, ~Listed(L, i), i \notin X,
           NEW ord2, ord2[i].id = c, SameIdsBut(ord, ord2, i),
           NEW L2, AlsoListed(L, L2, i), NEW c2, c2 \notin Slots
    PROVE  GoodIds(ord2, [im EXCEPT ![c] = i], L2, X, R \cup {c}, c2)
  <1> DEFINE im2 == [im EXCEPT ![c] = i]
  <1>1. \A s \in Slots : ord[s].id \in Slots
    BY DEF Pools, Nodes
  <1>2. \A id \in Slots : im2[id] = IF id = c THEN i ELSE im[id]
    BY DEF Tables
  <1>3. \A s \in Slots : Listed(L, s) => im[ord[s].id] = s /\ ord[s].id \in R
                                         /\ ord[s].id # c
    BY DEF GoodIds
  <1> HIDE DEF im2
  <1>4. ASSUME NEW s \in Slots, Listed(L2, s)
        PROVE  im2[ord2[s].id] = s /\ ord2[s].id \in R \cup {c} /\ ord2[s].id # c2
    <2>1. CASE s = i
      BY <1>2, <2>1 DEF AlsoListed
    <2>2. CASE s # i
      BY <1>1, <1>2, <1>3, <1>4, <2>2 DEF SameIdsBut, AlsoListed
    <2> QED
      BY <2>1, <2>2
  <1>5. ASSUME NEW id \in R \cup {c}, im2[id] # NULL_IDX
        PROVE  im2[id] \in X \/ (Listed(L2, im2[id]) /\ ord2[im2[id]].id = id)
    <2>1. CASE id = c
      BY <1>2, <2>1 DEF AlsoListed
    <2>2. CASE id # c
      <3>1. id \in R /\ im2[id] = im[id] /\ im[id] \in Slots
        BY <1>2, <1>5, <2>2 DEF Tables, Links
      <3>2. im[id] \in X \/ (Listed(L, im[id]) /\ ord[im[id]].id = id)
        BY <1>5, <3>1 DEF GoodIds
      <3> QED
        BY <3>1, <3>2 DEF SameIdsBut, AlsoListed
    <2> QED
      BY <2>1, <2>2
  <1>6. \A s \in X : ord2[s].price \notin Prices
    BY DEF GoodIds, SameIdsBut
  <1> QED
    BY <1>4, <1>5, <1>6 DEF GoodIds, im2

\* Slot i, on no list so far, gets an incoming order off the ladder.
LEMMA IdsLost ==
    ASSUME NEW ord \in Pools, NEW im \in Tables, NEW L, NEW X \in SUBSET Slots,
           NEW R \in SUBSET Slots, NEW c \in Slots, GoodIds(ord, im, L, X, R, c),
           NEW i \in Slots, ~Listed(L, i),
           NEW ord2, ord2[i].id = c, ord2[i].price \notin Prices,
           SameIdsBut(ord, ord2, i), NEW c2, c2 \notin Slots
    PROVE  GoodIds(ord2, [im EXCEPT ![c] = i], L, X \cup {i}, R, c2)
  <1> DEFINE im2 == [im EXCEPT ![c] = i]
  <1>1. \A s \in Slots : ord[s].id \in Slots
    BY DEF Pools, Nodes
  <1>2. \A id \in Slots : im2[id] = IF id = c THEN i ELSE im[id]
    BY DEF Tables
  <1>3. \A s \in Slots : Listed(L, s) => im[ord[s].id] = s /\ ord[s].id \in R
                                         /\ ord[s].id # c
    BY DEF GoodIds
  <1> HIDE DEF im2
  <1>4. ASSUME NEW s \in Slots, Listed(L, s)
        PROVE  im2[ord2[s].id] = s /\ ord2[s].id \in R /\ ord2[s].id # c2
    BY <1>1, <1>2, <1>3, <1>4 DEF SameIdsBut
  <1>5. ASSUME NEW id \in R, im2[id] # NULL_IDX
        PROVE  im2[id] \in X \cup {i} \/ (Listed(L, im2[id]) /\ ord2[im2[id]].id = id)
    <2>1. CASE id = c
      BY <1>2, <2>1 DEF AlsoListed
    <2>2. CASE id # c
      <3>1. im2[id] = im[id] /\ im[id] \in Slots
        BY <1>2, <1>5, <2>2 DEF Tables, Links
      <3>2. im[id] \in X \/ (Listed(L, im[id]) /\ ord[im[id]].id = id)
        BY <1>5, <3>1 DEF GoodIds
      <3> QED
        BY <3>1, <3>2 DEF SameIdsBut, AlsoListed
    <2> QED
      BY <2>1, <2>2
  <1>6. \A s \in X \cup {i} : ord2[s].price \notin Prices
    BY DEF GoodIds, SameIdsBut
  <1> QED
    BY <1>4, <1>5, <1>6 DEF GoodIds, im2

-----------------------------------------------------------------------------
(* What add_order() and cancel_order() change *)

LEMMA LinkType ==
    ASSUME NEW ord \in Pools, NEW lv \in Levels, NEW i \in Slots, Linkable(lv)
    PROVE  Link(ord, lv, i).pool \in Pools /\ Link(ord, lv, i).level \in Levels
  <1>1. CASE lv.tail # i
    BY <1>1, LinkFields
  <1>2. CASE lv.tail = i /\ lv.head = NULL_IDX
    BY <1>2 DEF Link, Pools, Nodes, Levels, Links
  <1>3. CASE lv.tail = i /\ lv.head # NULL_IDX
    <2>1. /\ Link(ord, lv, i).pool = [ord EXCEPT ![i].next = i, ![i].prev = i]
          /\ Link(ord, lv, i).level = [lv EXCEPT !.tail = i]
      BY <1>3 DEF Link, LinkBack
    <2>2. [ord EXCEPT ![i].next = i, ![i].prev = i] \in Pools
      BY DEF Pools, Nodes, Links
    <2>3. [lv EXCEPT !.tail = i] \in Levels
      BY DEF Levels, Links
    <2> QED
      BY <2>1, <2>2, <2>3
  <1> QED
    BY <1>1, <1>2, <1>3

LEMMA PutType ==
    ASSUME NEW lev \in Ladders, NEW b \in BOOLEAN, NEW p \in Prices, NEW lv \in Levels
    PROVE  /\ Put(lev, b, p, lv) \in Ladders
           /\ Put(lev, b, p, lv)[b][p] = lv
           /\ \A c \in BOOLEAN, q \in Prices : <<c, q>> # <<b, p>> =>
                 Put(lev, b, p, lv)[c][q] = lev[c][q]
  BY DEF Put, Ladders

\* The node add_order() fills, and the pool with it, before it is linked.
NewNode == [id |-> call.id, price |-> call.price, qty |-> call.qty,
            is_buy |-> call.is_buy, next |-> NULL_IDX, prev |-> NULL_IDX]
Stored == [orders EXCEPT ![next_free_order_idx] = NewNode]

LEMMA StoredFields ==
    ASSUME PoolTypeOK, CanStore, call.id \in Slots
    PROVE  /\ next_free_order_idx \in Slots /\ Stored \in Pools
           /\ Stored[next_free_order_idx] = NewNode
           /\ \A s \in Slots : s # next_free_order_idx => Stored[s] = orders[s]
  <1>1. orders \in Pools /\ call \in Calls /\ next_free_order_idx \in Slots
    BY PoolTypes DEF CanStore, Links
  <1>2. NewNode \in Nodes
    BY <1>1 DEF NewNode, Nodes, Calls, Links
  <1> QED
    BY <1>1, <1>2 DEF Stored, Pools

LEMMA StoreSteps ==
    ASSUME PoolTypeOK, CanStore, Store,
           NEW lv, lv = levels[call.is_buy][call.price],
           NEW t, t = Link(Stored, lv, next_free_order_idx)
    PROVE  /\ call.id \in Slots /\ call.is_buy \in BOOLEAN
           /\ next_free_order_idx' = orders[next_free_order_idx].next
           /\ id_map' = [id_map EXCEPT ![call.id] = next_free_order_idx]
           /\ call.price \notin Prices =>
                 orders' = Stored /\ levels' = levels /\ rested' = rested
           /\ call.price \in Prices =>
                 /\ lv \in Levels /\ Linkable(lv)
                 /\ orders' = t.pool
                 /\ levels' = Put(levels, call.is_buy, call.price, t.level)
                 /\ rested' = rested \cup {call.id}
  <1>1. levels \in Ladders /\ call \in Calls /\ id_map \in [Slots -> Links]
    BY PoolTypes
  <1>2. call.id \in Slots /\ call.is_buy \in BOOLEAN
    BY <1>1 DEF Store, Calls
  <1>3. call.price \in Prices => lv \in Levels
    BY <1>1, <1>2 DEF Ladders
  <1>4. /\ next_free_order_idx' = orders[next_free_order_idx].next
        /\ id_map' = [id_map EXCEPT ![call.id] = next_free_order_idx]
        /\ call.price \notin Prices =>
              orders' = Stored /\ levels' = levels /\ rested' = rested
        /\ call.price \in Prices =>
              /\ Linkable(lv)
              /\ orders' = t.pool
              /\ levels' = Put(levels, call.is_buy, call.price, t.level)
              /\ rested' = rested \cup {call.id}
    BY DEF Store, Stored, NewNode, Put
  <1> QED
    BY <1>2, <1>3, <1>4

LEMMA ReturnType ==
    ASSUME PoolTypeOK, Return
    PROVE  PoolTypeOK'
  <1>0. /\ orders \in Pools /\ levels \in Ladders /\ call \in Calls
        /\ id_map \in [Slots -> Links] /\ next_free_order_idx \in Links
        /\ rested \subseteq Slots /\ submits \in Nat
    BY PoolTypes
  <1>1. call' = Idle /\ submits' = submits /\ call' \in Calls /\ submits' \in Nat
    BY <1>0, IdleType DEF Return
  <1>2. CASE ~CanStore
    <2>1. UNCHANGED <<orders, levels, id_map, next_free_order_idx, rested>>
      BY <1>2 DEF Return, pool
    <2> QED
      BY <1>0, <1>1, <2>1, PoolTypesPrime
  <1>3. CASE CanStore
    <2> DEFINE lv == levels[call.is_buy][call.price]
               t  == Link(Stored, lv, next_free_order_idx)
    <2>1. Store
      BY <1>3 DEF Return
    <2>2. /\ call.id \in Slots /\ call.is_buy \in BOOLEAN
          /\ next_free_order_idx' = orders[next_free_order_idx].next
          /\ id_map' = [id_map EXCEPT ![call.id] = next_free_order_idx]
          /\ call.price \notin Prices =>
                orders' = Stored /\ levels' = levels /\ rested' = rested
          /\ call.price \in Prices =>
                /\ lv \in Levels /\ Linkable(lv)
                /\ orders' = t.pool
                /\ levels' = Put(levels, call.is_buy, call.price, t.level)
                /\ rested' = rested \cup {call.id}
      BY <1>3, <2>1, StoreSteps
    <2>3. next_free_order_idx \in Slots /\ Stored \in Pools
      BY <1>3, <2>2, StoredFields
    <2>4. next_free_order_idx' \in Links /\ id_map' \in [Slots -> Links]
      BY <1>0, <2>2, <2>3 DEF Pools, Nodes, Links
    <2>5. CASE call.price \notin Prices
      BY <1>0, <1>1, <2>2, <2>3, <2>4, <2>5, PoolTypesPrime
    <2>6. CASE call.price \in Prices
      <3> HIDE DEF lv
      <3>1. t.pool \in Pools /\ t.level \in Levels
        BY <2>2, <2>3, <2>6, LinkType
      <3> HIDE DEF t
      <3>2. levels' \in Ladders
        BY <1>0, <2>2, <2>6, <3>1, PutType
      <3>3. orders' \in Pools /\ rested' \subseteq Slots
        BY <1>0, <2>2, <2>6, <3>1
      <3> QED
        BY <1>1, <2>4, <3>2, <3>3, PoolTypesPrime
    <2> QED
      BY <2>5, <2>6
  <1> QED
    BY <1>2, <1>3

\* o is pool up with slot i linked to the free list and its prev reset.
IsFreed(o, up, i, nf) ==
    /\ o \in Pools /\ SameData(o, up)
    /\ \A s \in Slots : /\ o[s].next = IF s = i THEN nf ELSE up[s].next
                        /\ o[s].prev = IF s = i THEN NULL_IDX ELSE up[s].prev

LEMMA FreedFields ==
    ASSUME NEW up \in Pools, NEW i \in Slots, NEW nf \in Links
    PROVE  IsFreed(WithNext(WithPrev(up, i, NULL_IDX), i, nf), up, i, nf)
  <1> DEFINE o1 == WithPrev(up, i, NULL_IDX)
             o2 == WithNext(o1, i, nf)
  <1>0. NULL_IDX \in Links
    BY DEF Links
  <1>1. /\ o1 \in Pools /\ SameData(o1, up)
        /\ \A s \in Slots : /\ o1[s].next = up[s].next
                            /\ o1[s].prev = IF s = i THEN NULL_IDX ELSE up[s].prev
    BY <1>0, SetPrev
  <1> HIDE DEF o1
  <1>2. /\ o2 \in Pools /\ SameData(o2, o1)
        /\ \A s \in Slots : /\ o2[s].prev = o1[s].prev
                            /\ o2[s].next = IF s = i THEN nf ELSE o1[s].next
    BY <1>1, SetNext
  <1> HIDE DEF o2
  <1>3. IsFreed(o2, up, i, nf)
    BY <1>1, <1>2 DEF IsFreed, SameData
  <1> QED
    BY <1>3 DEF o1, o2

\* The order of id is in slot i, on the list of side b and price p.
OrderAt(id, i, b, p) == i = id_map[id] /\ b = orders[i].is_buy /\ p = orders[i].price

\* What its cancel changes.
Removed(id, i, b, p) ==
    /\ id \in Slots /\ i \in Slots /\ b \in BOOLEAN /\ p \in Prices
    /\ levels' = Put(levels, b, p, Unlink(orders, levels[b][p], i).level)
    /\ next_free_order_idx' = i
    /\ id_map' = [id_map EXCEPT ![id] = NULL_IDX]
    /\ IsFreed(orders', Unlink(orders, levels[b][p], i).pool, i, next_free_order_idx)

LEMMA RemoveFields ==
    ASSUME PoolTypeOK, NEW id, HasEntry(id), Remove(id), UNCHANGED <<call, clients>>,
           NEW i, NEW b, NEW p, OrderAt(id, i, b, p)
    PROVE  PoolTypeOK' /\ Removed(id, i, b, p)
  <1>0. /\ orders \in Pools /\ levels \in Ladders /\ call \in Calls
        /\ id_map \in [Slots -> Links] /\ next_free_order_idx \in Links
        /\ rested \subseteq Slots /\ submits \in Nat
    BY PoolTypes
  <1>1. id \in Slots /\ i \in Slots
    BY <1>0 DEF HasEntry, Links, OrderAt
  <1>2. b \in BOOLEAN /\ p \in Prices
    BY <1>0, <1>1 DEF Pools, Nodes, Remove, OrderAt
  <1> DEFINE nf == next_free_order_idx
             u  == Unlink(orders, levels[b][p], i)
             up == u.pool
             o2 == WithNext(WithPrev(up, i, NULL_IDX), i, nf)
  <1>3. /\ levels' = Put(levels, b, p, u.level)
        /\ orders' = o2
        /\ next_free_order_idx' = i
        /\ id_map' = [id_map EXCEPT ![id] = NULL_IDX]
    BY DEF Remove, Free, Forget, Put, WithPrev, WithNext, OrderAt
  <1>4. levels[b][p] \in Levels
    BY <1>0, <1>2 DEF Ladders
  <1>5. up \in Pools /\ u.level \in Levels
    BY <1>0, <1>1, <1>4, UnlinkFields
  <1>6. nf \in Links /\ NULL_IDX \in Links
    BY <1>0 DEF Links
  <1> HIDE DEF nf, up
  <1>7. IsFreed(o2, up, i, nf)
    BY <1>1, <1>5, <1>6, FreedFields, Zenon
  <1> HIDE DEF o2
  <1>8. levels' \in Ladders
    BY <1>0, <1>2, <1>3, <1>5, PutType
  <1>9. id_map' \in [Slots -> Links]
    BY <1>0, <1>1, <1>3, <1>6
  <1>10. PoolTypeOK'
    BY <1>0, <1>1, <1>3, <1>7, <1>8, <1>9, PoolTypesPrime DEF clients, Links, IsFreed
  <1>11. IsFreed(orders', up, i, nf)
    BY <1>3, <1>7
  <1> QED
    BY <1>1, <1>2, <1>3, <1>10, <1>11, Zenon DEF nf, up, Removed

-----------------------------------------------------------------------------
(* The invariant of the pool *)

\* L, F and X are the lists of the levels, the free list and the slots lost to
\* orders off the ladder, and the table of ids fits them.
Shape(L, F, X) ==
    /\ Rep(orders, levels, next_free_order_idx, L, F, X)
    /\ GoodIds(orders, id_map, L, X, rested, call.id)

\* What the clients must refrain from for the lists to stay intact.
SafeRules == {"unused_ids", "known_ids", "no_promoted_head"}

LEMMA EmptyListed == \A s : ~Listed(EmptyLists, s)
  BY DEF Listed, EmptyLists, In

LEMMA InitShape ==
    ASSUME PoolInit
    PROVE  Shape(EmptyLists, AllFree, {})
  <1> DEFINE zero == [s \in Slots |-> [id |-> 0, price |-> 0, qty |-> 0,
                                       is_buy |-> FALSE, next |-> 0, prev |-> 0]]
  <1>1. 0 \in Slots
    BY PoolAssumption DEF Slots
  <1>2. zero \in Pools
    BY <1>1, LadderAssumption DEF Pools, Nodes, Links
  <1>3. /\ orders = FreeChain(zero) /\ levels = EmptyLevels
        /\ next_free_order_idx = 0 /\ rested = {}
    BY DEF PoolInit
  <1> HIDE DEF zero
  <1>4. Rep(orders, levels, next_free_order_idx, EmptyLists, AllFree, {})
    BY <1>2, <1>3, RepReset
  <1>5. GoodIds(orders, id_map, EmptyLists, {}, rested, call.id)
    BY <1>3, EmptyListed DEF GoodIds
  <1> QED
    BY <1>4, <1>5 DEF Shape

LEMMA ResetShape ==
    ASSUME PoolTypeOK, PoolReset
    PROVE  Shape(EmptyLists, AllFree, {})'
  <1>1. orders \in Pools
    BY PoolTypes
  <1>2. /\ orders' = FreeChain(orders) /\ levels' = EmptyLevels
        /\ next_free_order_idx' = 0 /\ rested' = {}
    BY DEF PoolReset
  <1>3. Rep(orders', levels', next_free_order_idx', EmptyLists, AllFree, {})
    BY <1>1, <1>2, RepReset
  <1>4. GoodIds(orders', id_map', EmptyLists, {}, rested', call'.id)
    BY <1>2, EmptyListed DEF GoodIds
  <1> QED
    BY <1>3, <1>4 DEF Shape, EmptyLists, AllFree, Prices

\* The live ids are those of the listed orders.
LEMMA LiveListed ==
    ASSUME PoolTypeOK, NEW L, NEW F, NEW X, Shape(L, F, X)
    PROVE  /\ \A s \in Slots : Listed(L, s) =>
                 /\ orders[s].id \in LiveIds /\ id_map[orders[s].id] = s
                 /\ orders[s].price \in Prices
           /\ \A id \in LiveIds : /\ id \in Slots /\ id_map[id] \in Slots
                                  /\ Listed(L, id_map[id])
                                  /\ orders[id_map[id]].id = id
  <1>0. /\ orders \in Pools /\ id_map \in [Slots -> Links] /\ rested \subseteq Slots
    BY PoolTypes
  <1>1. ASSUME NEW s \in Slots, Listed(L, s)
        PROVE  /\ orders[s].id \in LiveIds /\ id_map[orders[s].id] = s
               /\ orders[s].price \in Prices
    <2>1. orders[s].price \in Prices
      BY <1>1 DEF Shape, Rep, Listed
    <2>2. id_map[orders[s].id] = s /\ orders[s].id \in rested
      BY <1>1 DEF Shape, GoodIds
    <2>3. s # NULL_IDX
      BY SlotsNotNull
    <2> QED
      BY <1>0, <2>1, <2>2, <2>3 DEF LiveIds, HasEntry
  <1>2. ASSUME NEW id \in LiveIds
        PROVE  /\ id \in Slots /\ id_map[id] \in Slots
               /\ Listed(L, id_map[id])
               /\ orders[id_map[id]].id = id
    <2>1. /\ id \in rested /\ id \in Slots /\ id_map[id] # NULL_IDX
          /\ id_map[id] \in Slots /\ orders[id_map[id]].price \in Prices
      BY <1>0, <1>2 DEF LiveIds, HasEntry, Links
    <2>2. id_map[id] \notin X
      BY <2>1 DEF Shape, GoodIds
    <2> QED
      BY <2>1, <2>2 DEF Shape, GoodIds
  <1> QED
    BY <1>1, <1>2

LEMMA SubmitShape ==
    ASSUME PoolTypeOK, NEW L, NEW F, NEW X, Shape(L, F, X),
           NEW id, id \notin LiveIds, NEW price, NEW qty, NEW is_buy,
           submit_order(id, price, qty, is_buy)
    PROVE  Shape(L, F, X)'
  <1>1. /\ UNCHANGED <<orders, levels, id_map, next_free_order_idx, rested>>
        /\ call'.id = id
    BY DEF submit_order
  <1>3. \A s \in Slots : Listed(L, s) => orders[s].id # id
    BY LiveListed
  <1>4. GoodIds(orders, id_map, L, X, rested, id)
    BY <1>3 DEF Shape, GoodIds
  <1>5. GoodIds(orders', id_map', L, X, rested', call'.id)
    BY <1>1, <1>4
  <1>6. Rep(orders', levels', next_free_order_idx', L, F, X)
    BY <1>1 DEF Shape
  <1> QED
    BY <1>5, <1>6 DEF Shape

\* A trade that fills the head of a level takes it off its list.
LEMMA FilledShape ==
    ASSUME NEW ord \in Pools, NEW lev \in Ladders, NEW nf, NEW L, NEW F, NEW X,
           Rep(ord, lev, nf, L, F, X),
           NEW im \in Tables, NEW R \in SUBSET Slots, NEW c, GoodIds(ord, im, L, X, R, c),
           NEW b \in BOOLEAN, NEW p \in Prices, NEW i, IsHead(lev, b, p, i),
           Put(lev, b, p, PoppedLevel(ord, lev[b][p], i)) \in Ladders,
           NEW ord2, NEW q, TradedPool(ord, ord2, i, q), NextSet(ord, ord2, i, nf)
    PROVE  /\ Rep(ord2, Put(lev, b, p, PoppedLevel(ord, lev[b][p], i)), i,
                  Put(L, b, p, Without(L[b][p], 1)), <<i>> \o F, X)
           /\ GoodIds(ord2, [im EXCEPT ![ord[i].id] = NULL_IDX],
                      Put(L, b, p, Without(L[b][p], 1)), X, R, c)
  <1> DEFINE Y == X \cup {i}
             L2 == Put(L, b, p, Without(L[b][p], 1))
             lev2 == Put(lev, b, p, PoppedLevel(ord, lev[b][p], i))
  <1>1. /\ i \in Slots /\ IsAt(L, b, p, 1, i)
        /\ Rep(ord, lev2, nf, L2, F, Y)
    BY RepPop
  <1>2. Delisted(L, L2, i) /\ Listed(L, i) /\ i \notin X
    BY <1>1, ListedWithout
  <1>3. i \in Y /\ Y \ {i} = X /\ lev2 \in Ladders /\ X \in SUBSET Slots
    BY <1>2 DEF Rep
  <1>4. SameBut(ord, ord2, i) /\ ord2[i].next = nf /\ SameIds(ord, ord2)
    BY <1>1 DEF TradedPool, NextSet, SameBut, SameIds
  <1> HIDE DEF Y, L2, lev2
  <1>5. Rep(ord2, lev2, i, L2, <<i>> \o F, Y \ {i})
    BY <1>1, <1>3, <1>4, RepFree
  <1>6. GoodIds(ord2, [im EXCEPT ![ord[i].id] = NULL_IDX], L2, X, R, c)
    BY <1>1, <1>2, <1>3, <1>4, IdsGone
  <1> QED
    BY <1>3, <1>5, <1>6 DEF L2, lev2

\* The pool, the levels, the head of the free list, the table, the ids that have
\* rested and the incoming id, with the lists they stand for.
BookOf(ord, lev, nf, im, R, c, L, F, X) ==
    /\ ord \in Pools /\ lev \in Ladders /\ im \in Tables /\ R \in SUBSET Slots
    /\ Rep(ord, lev, nf, L, F, X) /\ GoodIds(ord, im, L, X, R, c)

\* A cancel takes the order of slot i off its list and frees the slot.
Cancelled(ord, lev, nf, L, ord2, b, p, k, i) ==
    /\ b \in BOOLEAN /\ p \in Prices /\ IsAt(L, b, p, k, i) /\ HeadReset(ord, k, i)
    /\ IsFreed(ord2, Unlink(ord, lev[b][p], i).pool, i, nf)

LEMMA RemovedShape ==
    ASSUME NEW ord, NEW lev, NEW nf, NEW im, NEW R, NEW c, NEW L, NEW F, NEW X,
           BookOf(ord, lev, nf, im, R, c, L, F, X),
           NEW ord2, NEW b, NEW p, NEW k, NEW i,
           Cancelled(ord, lev, nf, L, ord2, b, p, k, i)
    PROVE  /\ Rep(ord2, Put(lev, b, p, Unlink(ord, lev[b][p], i).level), i,
                  Put(L, b, p, Without(L[b][p], k)), <<i>> \o F, X)
           /\ GoodIds(ord2, [im EXCEPT ![ord[i].id] = NULL_IDX],
                      Put(L, b, p, Without(L[b][p], k)), X, R, c)
  <1> USE DEF BookOf
  <1> USE DEF Cancelled
  <1> DEFINE u  == Unlink(ord, lev[b][p], i)
             up == u.pool
             ul == u.level
             Y == X \cup {i}
             L2 == Put(L, b, p, Without(L[b][p], k))
             lev2 == Put(lev, b, p, ul)
  <1>1. /\ i \in Slots /\ up \in Pools /\ ul \in Levels /\ SameData(up, ord)
        /\ Rep(up, lev2, nf, L2, F, Y)
    <2>1. Rep(up, lev2, nf, L2, F, Y)
      BY RepUnlink
    <2>2. i \in Slots /\ lev[b][p] \in Levels
      BY ListedWithout DEF Ladders
    <2>3. up \in Pools /\ ul \in Levels /\ SameData(up, ord)
      BY <2>2, UnlinkFields
    <2> QED
      BY <2>1, <2>2, <2>3
  <1>2. Delisted(L, L2, i) /\ Listed(L, i) /\ i \notin X
    BY ListedWithout
  <1>3. IsFreed(ord2, up, i, nf)
    OBVIOUS
  <1> HIDE DEF u, up, ul
  <1>4. i \in Y /\ Y \ {i} = X /\ X \in SUBSET Slots
    BY <1>2 DEF Rep
  <1>5. lev2 \in Ladders
    BY <1>1, PutType
  <1>6. SameBut(up, ord2, i) /\ ord2[i].next = nf /\ SameIds(ord, ord2)
    BY <1>1, <1>3 DEF SameBut, SameIds, IsFreed, SameData
  <1> HIDE DEF Y, L2, lev2
  <1>7. Rep(ord2, lev2, i, L2, <<i>> \o F, Y \ {i})
    BY <1>1, <1>4, <1>5, <1>6, RepFree
  <1>8. GoodIds(ord2, [im EXCEPT ![ord[i].id] = NULL_IDX], L2, X, R, c)
    BY <1>1, <1>2, <1>4, <1>6, IdsGone
  <1> QED
    BY <1>4, <1>7, <1>8 DEF L2, lev2, ul, u

\* add_order() fills the first free slot with an order of side b and price p.
TakenBy(ord, nf, ord1, c, b, p) ==
    /\ nf # NULL_IDX /\ c \in Slots /\ b \in BOOLEAN
    /\ ord1 \in Pools /\ SameBut(ord, ord1, nf) /\ SameIdsBut(ord, ord1, nf)
    /\ ord1[nf].id = c /\ ord1[nf].price = p /\ ord1[nf].is_buy = b
    /\ ord1[nf].next = NULL_IDX

\* add_order() of a price off the ladder: the slot is lost.
LEMMA LostShape ==
    ASSUME NEW ord, NEW lev, NEW nf, NEW im, NEW R, NEW c, NEW L, NEW F, NEW X,
           BookOf(ord, lev, nf, im, R, c, L, F, X), NEW ord1, NEW b, NEW p,
           TakenBy(ord, nf, ord1, c, b, p), p \notin Prices, NEW c2, c2 \notin Slots
    PROVE  /\ Rep(ord1, lev, ord[nf].next, L, Without(F, 1), X \cup {nf})
           /\ GoodIds(ord1, [im EXCEPT ![c] = nf], L, X \cup {nf}, R, c2)
  <1> USE DEF BookOf, TakenBy
  <1>1. /\ nf \in Slots /\ In(F, nf)
        /\ Rep(ord1, lev, ord[nf].next, L, Without(F, 1), X \cup {nf})
    BY RepTake
  <1>2. ~Listed(L, nf) /\ X \in SUBSET Slots
    BY <1>1 DEF Rep, Listed
  <1>3. GoodIds(ord1, [im EXCEPT ![c] = nf], L, X \cup {nf}, R, c2)
    BY <1>1, <1>2, IdsLost
  <1> QED
    BY <1>1, <1>3

\* add_order() puts the order at the back of the list of its price.
LEMMA RestedShape ==
    ASSUME NEW ord, NEW lev, NEW nf, NEW im, NEW R, NEW c, NEW L, NEW F, NEW X,
           BookOf(ord, lev, nf, im, R, c, L, F, X), NEW ord1, NEW b, NEW p,
           TakenBy(ord, nf, ord1, c, b, p), p \in Prices, NEW c2, c2 \notin Slots
    PROVE  /\ Rep(Link(ord1, lev[b][p], nf).pool,
                  Put(lev, b, p, Link(ord1, lev[b][p], nf).level), ord[nf].next,
                  Put(L, b, p, Append(L[b][p], nf)), Without(F, 1), X)
           /\ GoodIds(Link(ord1, lev[b][p], nf).pool, [im EXCEPT ![c] = nf],
                      Put(L, b, p, Append(L[b][p], nf)), X, R \cup {c}, c2)
           /\ SameData(Link(ord1, lev[b][p], nf).pool, ord1)
  <1> USE DEF BookOf, TakenBy
  <1> DEFINE t  == Link(ord1, lev[b][p], nf)
             tp == t.pool
             Y == X \cup {nf}
             F2 == Without(F, 1)
             L2 == Put(L, b, p, Append(L[b][p], nf))
             nf2 == ord[nf].next
             im2 == [im EXCEPT ![c] = nf]
  <1>1. /\ nf \in Slots /\ In(F, nf)
        /\ Rep(ord1, lev, nf2, L, F2, Y)
    BY RepTake
  <1>2. ~Listed(L, nf) /\ X \in SUBSET Slots /\ nf \notin X
        /\ L \in [BOOLEAN -> [Prices -> Seq(Slots)]]
    BY <1>1 DEF Rep, Listed
  <1>3. lev[b][p] \in Levels /\ IsLevel(ord1, lev[b][p], L[b][p])
    BY <1>1 DEF Ladders, Rep
  <1>4. \A k \in 1..Len(L[b][p]) : L[b][p][k] # nf
    BY <1>2 DEF Listed, In
  <1>5. Linkable(lev[b][p]) /\ lev[b][p].tail # nf /\ tp[nf].next = ord1[nf].next
    BY <1>1, <1>3, <1>4, LinkLevel
  <1>6. SameData(tp, ord1)
    BY <1>1, <1>3, <1>5, LinkFields
  <1>7. IsLinked(ord1, lev, tp, nf, b, p)
    BY <1>1, <1>5, <1>6 DEF IsLinked, SameData
  <1>8. nf \in Y /\ Y \ {nf} = X
    BY <1>2
  <1> HIDE DEF Y, F2, nf2
  <1>9. Rep(tp, Put(lev, b, p, t.level), nf2, L2, F2, Y \ {nf})
    <2> HIDE DEF tp
    <2> QED
      BY <1>1, <1>7, <1>8, RepLink
  <1>10. AlsoListed(L, L2, nf)
    BY <1>1, <1>2, ListedAppend
  <1>11. tp[nf].id = c /\ SameIdsBut(ord, tp, nf)
    BY <1>1, <1>6 DEF SameData, SameIdsBut
  <1> HIDE DEF L2, tp
  <1>12. GoodIds(tp, im2, L2, X, R \cup {c}, c2)
    BY <1>1, <1>2, <1>10, <1>11, IdsStored
  <1> QED
    BY <1>6, <1>8, <1>9, <1>12 DEF F2, nf2, L2, tp

-----------------------------------------------------------------------------
(* The steps of the pool on its lists *)

\* A trade keeps the lists, or takes the filled order off its list.
LEMMA TradeShape ==
    ASSUME PoolTypeOK, NEW L, NEW F, NEW X, Shape(L, F, X),
           NEW p \in Prices, Trade(p), NEW side \in BOOLEAN, NEW i, NEW t, TradeOf(side, p, i, t)
    PROVE  /\ IsAt(L, side, p, 1, i)
           /\ t = orders[i].qty =>
                 Shape(Put(L, side, p, Without(L[side][p], 1)), <<i>> \o F, X)'
           /\ t # orders[i].qty => Shape(L, F, X)'
  <1> DEFINE nf == next_free_order_idx
             q == orders[i].qty - t
             lev2 == Put(levels, side, p, PoppedLevel(orders, levels[side][p], i))
             L2 == Put(L, side, p, Without(L[side][p], 1))
  <1>0. /\ orders \in Pools /\ levels \in Ladders /\ id_map \in Tables
        /\ rested \in SUBSET Slots /\ call \in Calls
    BY PoolTypes DEF Tables
  <1>1. Rep(orders, levels, nf, L, F, X) /\ GoodIds(orders, id_map, L, X, rested, call.id)
    BY DEF Shape
  <1>2. PoolTypeOK' /\ Traded(side, p, i, t)
    BY TradeFields
  <1>3. /\ side \in BOOLEAN /\ i \in Slots /\ IsHead(levels, side, p, i)
        /\ TradedPool(orders, orders', i, q)
    BY <1>2, Zenon DEF Traded, TradeOf
  <1>4. call'.id = call.id /\ rested' = rested
    BY <1>0, <1>2 DEF Calls, Traded
  <1>5. IsAt(L, side, p, 1, i)
    BY <1>0, <1>1, <1>3, HeadIsAt
  <1>6. ASSUME t # orders[i].qty
        PROVE  Shape(L, F, X)'
    <2>1. /\ UNCHANGED <<id_map, levels, next_free_order_idx>>
          /\ NextSet(orders, orders', i, orders[i].next)
      BY <1>2, <1>6, Zenon DEF Traded
    <2>2. \A s \in Slots : /\ orders'[s].next = orders[s].next
                           /\ orders'[s].prev = orders[s].prev
                           /\ orders'[s].is_buy = orders[s].is_buy
                           /\ orders'[s].price = orders[s].price
      BY <1>3, <2>1 DEF TradedPool, NextSet
    <2>3. Rep(orders', levels, nf, L, F, X)
      BY <1>1, <2>2, RepFrame
    <2>4. GoodIds(orders', id_map, L, X, rested, call.id)
      <3>1. \A s \in Slots : orders'[s].id = orders[s].id
        BY <1>3 DEF TradedPool
      <3>2. X \in SUBSET Slots /\ \A s \in X : orders'[s].price = orders[s].price
        BY <1>1, <2>2 DEF Rep
      <3> QED
        BY <1>0, <1>1, <3>1, <3>2, IdsFrame
    <2> QED
      BY <1>4, <2>1, <2>3, <2>4 DEF Shape
  <1>7. ASSUME t = orders[i].qty
        PROVE  Shape(L2, <<i>> \o F, X)'
    <2>1. /\ id_map' = [id_map EXCEPT ![orders[i].id] = NULL_IDX]
          /\ levels' = lev2
          /\ next_free_order_idx' = i
          /\ NextSet(orders, orders', i, nf)
      BY <1>2, <1>7, Zenon DEF Traded
    <2>2. lev2 \in Ladders
      BY <1>2, <2>1, PoolTypesPrime
    <2> HIDE DEF nf, q
    <2>3. /\ Rep(orders', lev2, i, L2, <<i>> \o F, X)
          /\ GoodIds(orders', [id_map EXCEPT ![orders[i].id] = NULL_IDX], L2, X, rested,
                     call.id)
      <3>1. NextSet(orders, orders', i, nf)
        BY <2>1
      <3>2. ASSUME NEW o2, TradedPool(orders, o2, i, q), NextSet(orders, o2, i, nf)
            PROVE  /\ Rep(o2, lev2, i, L2, <<i>> \o F, X)
                   /\ GoodIds(o2, [id_map EXCEPT ![orders[i].id] = NULL_IDX], L2, X,
                              rested, call.id)
        BY <1>0, <1>1, <1>3, <2>2, <3>2, FilledShape
      <3> QED
        BY <1>3, <3>1, <3>2, Zenon
    <2> QED
      BY <1>4, <2>1, <2>3 DEF Shape
  <1> QED
    BY <1>5, <1>6, <1>7

\* What SafeRules ask of a cancel or replace: the id has rested or has no entry in
\* the table, and it is not that of a promoted head.
MayTouch(id) ==
    /\ id \in rested \/ id \notin Slots
    /\ id \in LiveIds => ~PromotedHead(id_map[id])

LEMMA RulesTouch ==
    ASSUME SafeRules \subseteq Rules, PoolTypeOK, NEW id \in TouchIds
    PROVE  MayTouch(id)
  BY PoolTypes DEF TouchIds, SafeRules, MayTouch

\* The order that a client may cancel or replace is on the list of its price,
\* and prev of its slot is reset if it is the first.
LEMMA TouchedSlot ==
    ASSUME PoolTypeOK, NEW L, NEW F, NEW X, Shape(L, F, X),
           NEW id, MayTouch(id), HasEntry(id), NEW i, i = id_map[id],
           orders[i].price \in Prices
    PROVE  /\ id \in Slots /\ i \in Slots /\ orders[i].id = id /\ id \in LiveIds
           /\ orders[i].is_buy \in BOOLEAN
           /\ \E k : /\ IsAt(L, orders[i].is_buy, orders[i].price, k, i)
                     /\ HeadReset(orders, k, i)
  <1>0. orders \in Pools /\ id_map \in [Slots -> Links] /\ levels \in Ladders
    BY PoolTypes
  <1>1. id \in Slots /\ id_map[id] # NULL_IDX /\ i \in Slots
    BY <1>0 DEF HasEntry, Links
  <1>2. id \in rested
    BY <1>1 DEF MayTouch
  <1>3. id \in LiveIds
    BY <1>2 DEF LiveIds
  <1>4. Listed(L, i) /\ orders[i].id = id
    BY <1>3, LiveListed
  <1>5. PICK b \in BOOLEAN, p \in Prices : In(L[b][p], i)
    BY <1>4 DEF Listed
  <1>6. orders[i].is_buy = b /\ orders[i].price = p
    BY <1>1, <1>5 DEF Shape, Rep
  <1>7. PICK k \in 1..Len(L[b][p]) : L[b][p][k] = i
    BY <1>5 DEF In
  <1>8. IsAt(L, b, p, k, i)
    BY <1>7 DEF IsAt
  <1>9. HeadReset(orders, k, i)
    <2> SUFFICES ASSUME k = 1 PROVE orders[i].prev = NULL_IDX
      BY DEF HeadReset
    <2>1. levels[b][p].head = L[b][p][1]
      <3>1. IsLevel(orders, levels[b][p], L[b][p])
        BY DEF Shape, Rep
      <3>2. Len(L[b][p]) # 0
        BY <1>7, <3>1 DEF IsLevel, IsChain
      <3> QED
        BY <3>1, <3>2 DEF IsLevel, IsChain
    <2>2. ~PromotedHead(i)
      BY <1>3 DEF MayTouch
    <2> QED
      BY <1>6, <1>7, <2>1, <2>2 DEF PromotedHead
  <1> QED
    BY <1>1, <1>3, <1>4, <1>6, <1>8, <1>9

\* A cancel takes its order off its list.
LEMMA RemoveShape ==
    ASSUME PoolTypeOK, NEW L, NEW F, NEW X, Shape(L, F, X),
           NEW id, HasEntry(id), Remove(id), UNCHANGED <<call, clients>>,
           NEW i, NEW b \in BOOLEAN, NEW p \in Prices, OrderAt(id, i, b, p),
           orders[i].id = id, NEW k, IsAt(L, b, p, k, i), HeadReset(orders, k, i)
    PROVE  Shape(Put(L, b, p, Without(L[b][p], k)), <<i>> \o F, X)'
  <1> DEFINE nf == next_free_order_idx
             lev2 == Put(levels, b, p, Unlink(orders, levels[b][p], i).level)
             L2 == Put(L, b, p, Without(L[b][p], k))
             im2 == [id_map EXCEPT ![orders[i].id] = NULL_IDX]
  <1>0. /\ orders \in Pools /\ levels \in Ladders /\ id_map \in Tables
        /\ rested \in SUBSET Slots
    BY PoolTypes DEF Tables
  <1>1. Rep(orders, levels, nf, L, F, X) /\ GoodIds(orders, id_map, L, X, rested, call.id)
    BY DEF Shape
  <1>2. Removed(id, i, b, p)
    BY RemoveFields
  <1>3. /\ levels' = lev2 /\ next_free_order_idx' = i /\ id_map' = im2
        /\ Cancelled(orders, levels, nf, L, orders', b, p, k, i)
    BY <1>2, Zenon DEF Removed, Cancelled
  <1> HIDE DEF nf
  <1>4. BookOf(orders, levels, nf, id_map, rested, call.id, L, F, X)
    BY <1>0, <1>1 DEF BookOf
  <1>5. Rep(orders', lev2, i, L2, <<i>> \o F, X)
        /\ GoodIds(orders', im2, L2, X, rested, call.id)
    BY <1>3, <1>4, RemovedShape
  <1>6. rested' = rested /\ call'.id = call.id
    BY DEF clients
  <1> QED
    BY <1>3, <1>5, <1>6 DEF Shape

\* What add_order() stores.
LEMMA StoredTaken ==
    ASSUME PoolTypeOK, CanStore, call.id \in Slots
    PROVE  TakenBy(orders, next_free_order_idx, Stored, call.id, call.is_buy, call.price)
  <1>1. /\ next_free_order_idx \in Slots /\ Stored \in Pools
        /\ Stored[next_free_order_idx] = NewNode
        /\ \A s \in Slots : s # next_free_order_idx => Stored[s] = orders[s]
    BY StoredFields
  <1>2. /\ NewNode.id = call.id /\ NewNode.price = call.price
        /\ NewNode.is_buy = call.is_buy /\ NewNode.next = NULL_IDX
    BY DEF NewNode
  <1>3. call.is_buy \in BOOLEAN
    BY PoolTypes DEF Calls
  <1>4. next_free_order_idx # NULL_IDX
    BY DEF CanStore
  <1>5. SameBut(orders, Stored, next_free_order_idx)
        /\ SameIdsBut(orders, Stored, next_free_order_idx)
    BY <1>1 DEF SameBut, SameIdsBut
  <1> QED
    BY <1>1, <1>2, <1>3, <1>4, <1>5 DEF TakenBy

LEMMA BookShape ==
    ASSUME PoolTypeOK, NEW L, NEW F, NEW X, Shape(L, F, X)
    PROVE  BookOf(orders, levels, next_free_order_idx, id_map, rested, call.id, L, F, X)
  BY PoolTypes DEF Shape, BookOf, Tables

\* The rest of an order goes to the back of the list of its price, a slot is
\* lost to an order off the ladder, or nothing happens.
LEMMA ReturnShape ==
    ASSUME PoolTypeOK, NEW L, NEW F, NEW X, Shape(L, F, X), Return,
           NEW b, b = call.is_buy, NEW p, p = call.price,
           NEW i, i = next_free_order_idx
    PROVE  /\ ~CanStore => Shape(L, F, X)'
           /\ CanStore => /\ call.id \in Slots
                          /\ p \in Prices => Shape(Put(L, b, p, Append(L[b][p], i)),
                                                   Without(F, 1), X)'
                          /\ p \notin Prices => Shape(L, Without(F, 1), X \cup {i})'
  <1> DEFINE im2 == [id_map EXCEPT ![call.id] = i]
             nf2 == orders[i].next
             L2 == Put(L, b, p, Append(L[b][p], i))
             t == Link(Stored, levels[b][p], i)
  <1>1. BookOf(orders, levels, i, id_map, rested, call.id, L, F, X)
    BY BookShape
  <1>2. call' = Idle /\ Idle.id = -1 /\ -1 \notin Slots
    BY SlotsNotNull DEF Return, Idle, NULL_IDX
  <1>3. ASSUME ~CanStore
        PROVE  Shape(L, F, X)'
    <2>1. UNCHANGED <<orders, levels, id_map, next_free_order_idx, rested>>
      BY <1>3 DEF Return, pool
    <2>2. \A s \in Slots : orders[s].id # -1
      <3>1. orders \in Pools
        BY PoolTypes
      <3> QED
        BY <1>2, <3>1 DEF Pools, Nodes
    <2>3. GoodIds(orders, id_map, L, X, rested, -1)
      BY <2>2 DEF Shape, GoodIds
    <2> QED
      BY <1>2, <2>1, <2>3 DEF Shape
  <1>4. ASSUME CanStore
        PROVE  /\ call.id \in Slots /\ call.is_buy \in BOOLEAN
               /\ next_free_order_idx' = nf2 /\ id_map' = im2
               /\ p \notin Prices => orders' = Stored /\ levels' = levels /\ rested' = rested
               /\ p \in Prices => /\ orders' = t.pool
                                  /\ levels' = Put(levels, b, p, t.level)
                                  /\ rested' = rested \cup {call.id}
    <2>1. Store
      BY <1>4 DEF Return
    <2> QED
      BY <1>4, <2>1, StoreSteps
  <1>5. ASSUME CanStore
        PROVE  TakenBy(orders, i, Stored, call.id, b, p)
    BY <1>4, <1>5, StoredTaken
  <1>6. ASSUME CanStore, p \notin Prices
        PROVE  Shape(L, Without(F, 1), X \cup {i})'
    <2>1. TakenBy(orders, i, Stored, call.id, b, p)
      BY <1>5, <1>6
    <2>2. /\ Rep(Stored, levels, nf2, L, Without(F, 1), X \cup {i})
          /\ GoodIds(Stored, im2, L, X \cup {i}, rested, -1)
      <3> HIDE DEF im2
      <3> QED
        BY <1>1, <1>2, <1>6, <2>1, LostShape DEF im2
    <2> QED
      BY <1>2, <1>4, <1>6, <2>2 DEF Shape
  <1>7. ASSUME CanStore, p \in Prices
        PROVE  Shape(L2, Without(F, 1), X)'
    <2>1. TakenBy(orders, i, Stored, call.id, b, p)
      BY <1>5, <1>7
    <2>2. /\ Rep(t.pool, Put(levels, b, p, t.level), nf2, L2, Without(F, 1), X)
          /\ GoodIds(t.pool, im2, L2, X, rested \cup {call.id}, -1)
      BY <1>1, <1>2, <1>7, <2>1, RestedShape
    <2> QED
      BY <1>2, <1>4, <1>7, <2>2 DEF Shape
  <1> QED
    BY <1>3, <1>4, <1>6, <1>7

-----------------------------------------------------------------------------
(* What the lists say of the properties *)

\* The chains that the properties are about are the lists.
LEMMA ShapeChains ==
    ASSUME NEW L, NEW F, NEW X, Shape(L, F, X)
    PROVE  /\ Chain(next_free_order_idx) = F
           /\ F \in Seq(Slots) /\ L \in [BOOLEAN -> [Prices -> Seq(Slots)]]
           /\ \A b \in BOOLEAN, p \in Prices : LevelChain(b, p) = L[b][p]
           /\ OnLevels = {s \in Slots : Listed(L, s)}
           /\ Members(F) = {s \in Slots : In(F, s)}
  <1>1. Rep(orders, levels, next_free_order_idx, L, F, X)
    BY DEF Shape
  <1>2. /\ Chain(next_free_order_idx) = F
        /\ \A b \in BOOLEAN, p \in Prices : LevelChain(b, p) = L[b][p]
    BY <1>1, RepUnique DEF Chain, LevelChain
  <1>3. F \in Seq(Slots) /\ L \in [BOOLEAN -> [Prices -> Seq(Slots)]]
    BY <1>1 DEF Rep, IsChain
  <1>4. ASSUME NEW l \in Seq(Slots)
        PROVE  Members(l) = {s \in Slots : In(l, s)}
    <2>1. DOMAIN l = 1..Len(l) /\ \A k \in 1..Len(l) : l[k] \in Slots
      OBVIOUS
    <2> QED
      BY <2>1 DEF Members, In
  <1>5. OnLevels = {s \in Slots : Listed(L, s)}
    <2>1. ASSUME NEW b \in BOOLEAN, NEW p \in Prices
          PROVE  Members(LevelChain(b, p)) = {s \in Slots : In(L[b][p], s)}
      BY <1>2, <1>3, <1>4
    <2> QED
      BY <2>1 DEF OnLevels, Listed
  <1> QED
    BY <1>2, <1>3, <1>4, <1>5

LEMMA ShapeLevelLists ==
    ASSUME NEW L, NEW F, NEW X, Shape(L, F, X)
    PROVE  LevelLists
  <1> SUFFICES ASSUME NEW b \in BOOLEAN, NEW p \in Prices, NEW l, l = LevelChain(b, p)
               PROVE  /\ \A k \in DOMAIN l : /\ orders[l[k]].is_buy = b
                                             /\ orders[l[k]].price = p
                      /\ l # <<>> => levels[b][p].tail = l[Len(l)]
                      /\ \A k \in 2..Len(l) : orders[l[k]].prev = l[k - 1]
    BY DEF LevelLists
  <1>1. l = L[b][p] /\ l \in Seq(Slots)
    BY ShapeChains
  <1>2. IsLevel(orders, levels[b][p], l)
    BY <1>1 DEF Shape, Rep
  <1>3. \A k \in 1..Len(l) : l[k] \in Slots /\ In(L[b][p], l[k])
    BY <1>1 DEF In
  <1>4. \A k \in 1..Len(l) : orders[l[k]].is_buy = b /\ orders[l[k]].price = p
    BY <1>3 DEF Shape, Rep
  <1>5. DOMAIN l = 1..Len(l) /\ (l # <<>> => Len(l) # 0)
    BY <1>1
  <1> QED
    BY <1>2, <1>4, <1>5 DEF IsLevel

LEMMA ShapeIdMap ==
    ASSUME PoolTypeOK, NEW L, NEW F, NEW X, Shape(L, F, X)
    PROVE  IdMapExact
  <1>1. OnLevels = {s \in Slots : Listed(L, s)}
    BY ShapeChains
  <1>2. ASSUME NEW s \in Slots, Listed(L, s)
        PROVE  id_map[orders[s].id] = s /\ orders[s].id \in rested
    BY <1>2 DEF Shape, GoodIds
  <1> QED
    BY <1>1, <1>2, LiveListed DEF IdMapExact

LEMMA ShapePartition ==
    ASSUME NEW L, NEW F, Shape(L, F, {})
    PROVE  SlotPartition
  <1>1. /\ Chain(next_free_order_idx) = F
        /\ F \in Seq(Slots) /\ L \in [BOOLEAN -> [Prices -> Seq(Slots)]]
        /\ \A b \in BOOLEAN, p \in Prices : LevelChain(b, p) = L[b][p]
        /\ OnLevels = {s \in Slots : Listed(L, s)}
        /\ Members(F) = {s \in Slots : In(F, s)}
    BY ShapeChains
  <1>2. Rep(orders, levels, next_free_order_idx, L, F, {})
    BY DEF Shape
  <1>3. Members(F) \cup OnLevels = Slots
    <2>1. \A s \in Slots : In(F, s) \/ Listed(L, s)
      BY <1>2 DEF Rep, Listed
    <2> QED
      BY <1>1, <2>1
  <1>4. Members(F) \cap OnLevels = {}
    <2>1. \A s \in Slots : ~(In(F, s) /\ Listed(L, s))
      BY <1>2 DEF Rep, Listed
    <2> QED
      BY <1>1, <2>1
  <1>5. IsInjective(F)
    BY <1>1, <1>2 DEF Rep, IsChain, IsInjective
  <1> DEFINE lists == [bp \in BOOLEAN \X Prices |-> LevelChain(bp[1], bp[2])]
  <1>6. ASSUME NEW bp \in BOOLEAN \X Prices, NEW cq \in BOOLEAN \X Prices,
               NEW k \in DOMAIN lists[bp], NEW j \in DOMAIN lists[cq],
               lists[bp][k] = lists[cq][j]
        PROVE  bp = cq /\ k = j
    <2>1. PICK b \in BOOLEAN, p \in Prices, c \in BOOLEAN, q \in Prices :
              bp = <<b, p>> /\ cq = <<c, q>>
      OBVIOUS
    <2>2. lists[bp] = L[b][p] /\ lists[cq] = L[c][q]
      BY <1>1, <2>1
    <2>3. k \in 1..Len(L[b][p]) /\ j \in 1..Len(L[c][q]) /\ L[b][p][k] = L[c][q][j]
          /\ L[b][p][k] \in Slots
      BY <1>1, <1>6, <2>2
    <2>4. In(L[b][p], L[b][p][k]) /\ In(L[c][q], L[b][p][k])
      BY <2>3 DEF In
    <2>5. b = c /\ p = q
      <3>1. PICK s \in Slots : s = L[b][p][k]
        BY <2>3
      <3>2. In(L[b][p], s) /\ In(L[c][q], s)
        BY <2>4, <3>1
      <3>3. orders[s].is_buy = b /\ orders[s].price = p
        BY <1>2, <3>2 DEF Rep
      <3>4. orders[s].is_buy = c /\ orders[s].price = q
        BY <1>2, <3>2 DEF Rep
      <3> QED
        BY <3>3, <3>4, Zenon
    <2>6. k = j
      BY <1>2, <2>3, <2>5 DEF Rep, IsLevel, IsChain
    <2> QED
      BY <2>1, <2>5, <2>6
  <1>7. DOMAIN lists = BOOLEAN \X Prices
    OBVIOUS
  <1> HIDE DEF lists
  <1>8. \A bp, cq \in DOMAIN lists :
           \A k \in DOMAIN lists[bp], j \in DOMAIN lists[cq] :
              lists[bp][k] = lists[cq][j] => bp = cq /\ k = j
    BY <1>6, <1>7
  <1> QED
    BY <1>1, <1>3, <1>4, <1>5, <1>8, Zenon DEF SlotPartition, lists

LEMMA ShapeLinkable ==
    ASSUME NEW L, NEW F, NEW X, Shape(L, F, X)
    PROVE  \A b \in BOOLEAN, p \in Prices : Linkable(levels[b][p])
  <1> SUFFICES ASSUME NEW b \in BOOLEAN, NEW p \in Prices
               PROVE  Linkable(levels[b][p])
    OBVIOUS
  <1>1. IsLevel(orders, levels[b][p], L[b][p]) /\ L[b][p] \in Seq(Slots)
    BY DEF Shape, Rep
  <1> QED
    BY <1>1, SlotsNotNull DEF IsLevel, IsChain, Linkable

-----------------------------------------------------------------------------
(* What replace_order() does to the lists *)

\* Slot i taken off the list of price p and put at the back of that of price q.
OffPool(ord, lev, b, p, i) == Unlink(ord, lev[b][p], i).pool
OffLevels(ord, lev, b, p, i) == Put(lev, b, p, Unlink(ord, lev[b][p], i).level)
OnLink(ord, lev, b, p, q, i) ==
    Link(OffPool(ord, lev, b, p, i), OffLevels(ord, lev, b, p, i)[b][q], i)
MovedLevels(ord, lev, b, p, q, i) ==
    Put(OffLevels(ord, lev, b, p, i), b, q, OnLink(ord, lev, b, p, q, i).level)

OffLists(L, b, p, k) == Put(L, b, p, Without(L[b][p], k))
MovedLists(L, b, p, q, k, i) ==
    Put(OffLists(L, b, p, k), b, q, Append(OffLists(L, b, p, k)[b][q], i))

Moved(ord, lev, L, ord2, b, p, q, k, i) ==
    /\ b \in BOOLEAN /\ p \in Prices /\ q \in Prices
    /\ IsAt(L, b, p, k, i) /\ HeadReset(ord, k, i)
    /\ IsLinked(OffPool(ord, lev, b, p, i), OffLevels(ord, lev, b, p, i), ord2, i, b, q)
    /\ \A s \in Slots : ord2[s].id = ord[s].id

LEMMA MovedShape ==
    ASSUME NEW ord, NEW lev, NEW nf, NEW im, NEW R, NEW c, NEW L, NEW F, NEW X,
           BookOf(ord, lev, nf, im, R, c, L, F, X),
           NEW ord2, NEW b, NEW p, NEW q, NEW k, NEW i,
           Moved(ord, lev, L, ord2, b, p, q, k, i)
    PROVE  /\ Rep(ord2, MovedLevels(ord, lev, b, p, q, i), nf,
                  MovedLists(L, b, p, q, k, i), F, X)
           /\ GoodIds(ord2, im, MovedLists(L, b, p, q, k, i), X, R, c)
  <1> DEFINE op == OffPool(ord, lev, b, p, i)
             lev1 == OffLevels(ord, lev, b, p, i)
             L1 == OffLists(L, b, p, k)
             L2 == MovedLists(L, b, p, q, k, i)
             Y == X \cup {i}
  <1>1. /\ b \in BOOLEAN /\ p \in Prices /\ q \in Prices
        /\ IsAt(L, b, p, k, i) /\ HeadReset(ord, k, i)
        /\ ord \in Pools /\ lev \in Ladders /\ im \in Tables /\ R \in SUBSET Slots
        /\ Rep(ord, lev, nf, L, F, X) /\ GoodIds(ord, im, L, X, R, c)
    BY DEF BookOf, Moved
  <1>2. /\ Delisted(L, L1, i)
        /\ i \in Slots /\ Listed(L, i) /\ ~In(F, i) /\ i \notin X
    BY <1>1, ListedWithout DEF OffLists
  <1>3. Rep(op, lev1, nf, L1, F, Y)
    BY <1>1, RepUnlink DEF OffPool, OffLevels, OffLists
  <1>4. /\ op \in Pools /\ SameData(op, ord) /\ lev1 \in Ladders
    <2>1. lev[b][p] \in Levels
      BY <1>1 DEF Ladders
    <2>2. /\ op \in Pools /\ SameData(op, ord) /\ Unlink(ord, lev[b][p], i).level \in Levels
      BY <1>1, <1>2, <2>1, UnlinkFields DEF OffPool
    <2> QED
      BY <1>1, <2>2, PutType DEF OffLevels
  <1>5. i \in Y /\ Y \ {i} = X /\ X \in SUBSET Slots
    BY <1>1, <1>2 DEF Rep
  <1>6. IsLinked(op, lev1, ord2, i, b, q) /\ \A s \in Slots : ord2[s].id = ord[s].id
    BY DEF Moved
  <1>7. L1 \in [BOOLEAN -> [Prices -> Seq(Slots)]]
    BY <1>3 DEF Rep
  <1> HIDE DEF op, lev1, L1, Y
  <1>8. Rep(ord2, Put(lev1, b, q, Link(op, lev1[b][q], i).level), nf,
            Put(L1, b, q, Append(L1[b][q], i)), F, Y \ {i})
    BY <1>1, <1>3, <1>4, <1>5, <1>6, RepLink
  <1>9. AlsoListed(L1, Put(L1, b, q, Append(L1[b][q], i)), i)
    BY <1>1, <1>2, <1>7, ListedAppend
  <1>10. \A s \in Slots : Listed(L2, s) <=> Listed(L, s)
    BY <1>2, <1>9 DEF Delisted, AlsoListed, L1, MovedLists
  <1>11. \A s \in X : ord2[s].price = ord[s].price
    <2>1. \A s \in Slots : s # i => ord2[s].price = op[s].price
      BY <1>6 DEF IsLinked
    <2> QED
      BY <1>2, <1>4, <1>5, <2>1 DEF SameData
  <1> HIDE DEF L2
  <1>12. GoodIds(ord2, im, L2, X, R, c)
    BY <1>1, <1>5, <1>6, <1>10, <1>11, IdsFrame
  <1> QED
    BY <1>5, <1>8, <1>12 DEF op, lev1, L1, L2, MovedLevels, MovedLists, OnLink

-----------------------------------------------------------------------------
(* The invariant without a choice of lists *)

ListsOf(ord, lev) ==
    [b \in BOOLEAN |-> [p \in Prices |-> Walk(ord, lev[b][p].head)]]
LostOf(ord, lev, nf) ==
    {s \in Slots : ~In(Walk(ord, nf), s) /\ ~Listed(ListsOf(ord, lev), s)}

LEMMA RepLists ==
    ASSUME NEW ord, NEW lev, NEW nf, NEW L, NEW F, NEW X, Rep(ord, lev, nf, L, F, X)
    PROVE  L = ListsOf(ord, lev) /\ F = Walk(ord, nf) /\ X = LostOf(ord, lev, nf)
  <1>1. /\ Walk(ord, nf) = F
        /\ \A b \in BOOLEAN, p \in Prices : Walk(ord, lev[b][p].head) = L[b][p]
    BY RepUnique
  <1>2. L \in [BOOLEAN -> [Prices -> Seq(Slots)]]
    BY DEF Rep
  <1>3. ASSUME NEW b \in BOOLEAN
        PROVE  L[b] = ListsOf(ord, lev)[b]
    BY <1>1, <1>2 DEF ListsOf
  <1>4. L = ListsOf(ord, lev)
    BY <1>2, <1>3 DEF ListsOf
  <1>5. X = LostOf(ord, lev, nf)
    <2>1. \A s \in Slots : s \in X <=> ~In(F, s) /\ ~Listed(L, s)
      BY DEF Rep, Listed
    <2>2. X \subseteq Slots
      BY DEF Rep
    <2> QED
      BY <1>1, <1>4, <2>1, <2>2 DEF LostOf
  <1> QED
    BY <1>1, <1>4, <1>5

\* The lists that walks find are intact and fit the table.
Lists == ListsOf(orders, levels)
FreeList == Chain(next_free_order_idx)
Lost == LostOf(orders, levels, next_free_order_idx)
Intact == Shape(Lists, FreeList, Lost)

LEMMA ShapeIntact ==
    ASSUME NEW L, NEW F, NEW X, Shape(L, F, X)
    PROVE  Intact /\ L = Lists /\ F = FreeList /\ X = Lost
  <1>1. L = Lists /\ F = FreeList /\ X = Lost
    BY RepLists DEF Shape, Lists, FreeList, Lost, Chain
  <1> QED
    BY <1>1 DEF Intact

LEMMA ShapeIntactPrime ==
    ASSUME NEW L, NEW F, NEW X, Shape(L, F, X)'
    PROVE  Intact' /\ L = Lists' /\ F = FreeList' /\ X = Lost'
  <1>1. Rep(orders', levels', next_free_order_idx', L, F, X)
    BY DEF Shape
  <1>2. L = Lists' /\ F = FreeList' /\ X = Lost'
    BY <1>1, RepLists DEF Lists, FreeList, Lost, Chain
  <1> QED
    BY <1>2 DEF Intact

-----------------------------------------------------------------------------
(* What is lost to orders off the ladder *)

LEMMA RepLost ==
    ASSUME NEW ord, NEW lev, NEW nf, NEW L, NEW F, NEW X, Rep(ord, lev, nf, L, F, X)
    PROVE  X = Slots \ ((UNION {Members(Walk(ord, lev[b][p].head)) :
                                    b \in BOOLEAN, p \in Prices})
                            \cup Members(Walk(ord, nf)))
  <1>1. /\ Walk(ord, nf) = F
        /\ \A b \in BOOLEAN, p \in Prices : Walk(ord, lev[b][p].head) = L[b][p]
    BY RepUnique
  <1>2. F \in Seq(Slots) /\ L \in [BOOLEAN -> [Prices -> Seq(Slots)]]
    BY DEF Rep, IsChain
  <1>3. ASSUME NEW l \in Seq(Slots), NEW s
        PROVE  s \in Members(l) <=> In(l, s)
    <2>1. DOMAIN l = 1..Len(l)
      OBVIOUS
    <2> QED
      BY <2>1 DEF Members, In
  <1>4. ASSUME NEW s
        PROVE  s \in UNION {Members(Walk(ord, lev[b][p].head)) :
                                b \in BOOLEAN, p \in Prices} <=> Listed(L, s)
    <2>1. ASSUME NEW b \in BOOLEAN, NEW p \in Prices
          PROVE  s \in Members(Walk(ord, lev[b][p].head)) <=> In(L[b][p], s)
      BY <1>1, <1>2, <1>3
    <2> QED
      BY <2>1 DEF Listed
  <1>5. \A s \in Slots : s \in X <=> ~In(F, s) /\ ~Listed(L, s)
    BY DEF Rep, Listed
  <1>6. X \subseteq Slots
    BY DEF Rep
  <1> QED
    BY <1>1, <1>2, <1>3, <1>4, <1>5, <1>6

LEMMA ShapeLost ==
    ASSUME NEW L, NEW F, NEW X, Shape(L, F, X)
    PROVE  LostSlots = X
  BY RepLost DEF Shape, LostSlots, OnLevels, LevelChain, Chain

LEMMA ShapeLostPrime ==
    ASSUME NEW L, NEW F, NEW X, Shape(L, F, X)'
    PROVE  LostSlots' = X
  <1>1. Rep(orders', levels', next_free_order_idx', L, F, X)
    BY DEF Shape
  <1> QED
    BY <1>1, RepLost DEF LostSlots, OnLevels, LevelChain, Chain

LEMMA ResetLoss ==
    ASSUME PoolTypeOK, PoolReset
    PROVE  LossStep
  BY ResetShape, ShapeLostPrime DEF LossStep

\* A step that keeps the lost slots X.
LEMMA KeepsLoss ==
    ASSUME NEW L, NEW F, NEW X, Shape(L, F, X), ~LosesSlot,
           NEW L2, NEW F2, Shape(L2, F2, X)'
    PROVE  LossStep
  BY ShapeLost, ShapeLostPrime DEF LossStep

\* No call off the ladder ends in another step than that of add_order().
LEMMA OnlyReturnLoses ==
    ASSUME LosesSlot
    PROVE  call # Idle /\ call' # call /\ call'.price # call.price
  BY LadderAssumption DEF LosesSlot, Idle, Prices

LEMMA ReturnLoss ==
    ASSUME PoolTypeOK, NEW L, NEW F, NEW X, Shape(L, F, X), Return, call # Idle
    PROVE  LossStep
  <1>1. PICK b, p, i : b = call.is_buy /\ p = call.price /\ i = next_free_order_idx
    OBVIOUS
  <1>2. /\ ~CanStore => Shape(L, F, X)'
        /\ CanStore => /\ call.id \in Slots
                       /\ p \in Prices => Shape(Put(L, b, p, Append(L[b][p], i)),
                                                Without(F, 1), X)'
                       /\ p \notin Prices => Shape(L, Without(F, 1), X \cup {i})'
    BY <1>1, ReturnShape
  <1>3. LosesSlot <=> CanStore /\ p \notin Prices
    BY <1>1 DEF LosesSlot, Return
  <1>4. CASE ~LosesSlot
    BY <1>2, <1>3, <1>4, KeepsLoss
  <1>5. CASE LosesSlot
    <2>1. LostSlots' = LostSlots \cup {next_free_order_idx}
      BY <1>1, <1>2, <1>3, <1>5, ShapeLost, ShapeLostPrime
    <2>2. Store /\ CanStore /\ call.id \in Slots /\ call.price \notin Prices
      BY <1>1, <1>2, <1>3, <1>5 DEF Return
    <2>3. /\ orders' = Stored
          /\ id_map' = [id_map EXCEPT ![call.id] = next_free_order_idx]
      BY <2>2 DEF Store, Stored, NewNode
    <2>4. Stored[next_free_order_idx] = NewNode /\ next_free_order_idx \in Slots
      BY <2>2, StoredFields
    <2>5. ASSUME NEW id \in Slots, id = call.id
          PROVE  get_quantity(id)' = call.qty
      <3>1. id_map \in [Slots -> Links]
        BY PoolTypes
      <3>2. id \in DOMAIN id_map' /\ id_map'[id] = next_free_order_idx
        BY <2>3, <2>5, <3>1
      <3>3. orders'[id_map'[id]].qty = call.qty
        BY <2>3, <2>4, <3>2 DEF NewNode
      <3> QED
        BY <2>4, <3>2, <3>3, SlotsNotNull DEF get_quantity, HasEntry
    <2> QED
      BY <1>5, <2>1, <2>5 DEF LossStep
  <1> QED
    BY <1>4, <1>5

-----------------------------------------------------------------------------
(* The prices that have orders *)

ActivePrices(lev) ==
    [b \in BOOLEAN |-> {p \in Prices : lev[b][p].head # NULL_IDX}]

LEMMA ActiveType ==
    ASSUME NEW lev
    PROVE  ActivePrices(lev) \in [BOOLEAN -> SUBSET Prices]
  BY DEF ActivePrices

WithPrice(idx, b, p) == [idx EXCEPT ![b] = @ \cup {p}]
WithoutPrice(idx, b, p) == [idx EXCEPT ![b] = @ \ {p}]

\* A level whose last order goes is the only one that changes.
LEMMA ActiveCleared ==
    ASSUME NEW lev \in Ladders, NEW b \in BOOLEAN, NEW p \in Prices, NEW lv \in Levels,
           lv.head # NULL_IDX => lev[b][p].head # NULL_IDX
    PROVE  ActivePrices(Put(lev, b, p, lv)) =
              IF lv.head = NULL_IDX THEN WithoutPrice(ActivePrices(lev), b, p)
              ELSE ActivePrices(lev)
  <1> DEFINE a == ActivePrices(lev)
             a2 == ActivePrices(Put(lev, b, p, lv))
  <1>1. /\ Put(lev, b, p, lv)[b][p] = lv
        /\ \A c \in BOOLEAN, q \in Prices : <<c, q>> # <<b, p>> =>
              Put(lev, b, p, lv)[c][q] = lev[c][q]
    BY PutType
  <1>2. \A c \in BOOLEAN : c # b => a2[c] = a[c]
    BY <1>1 DEF ActivePrices
  <1>3. lv.head = NULL_IDX => a2[b] = a[b] \ {p}
    BY <1>1 DEF ActivePrices
  <1>4. lv.head # NULL_IDX => a2[b] = a[b]
    BY <1>1 DEF ActivePrices
  <1>5. a \in [BOOLEAN -> SUBSET Prices] /\ a2 \in [BOOLEAN -> SUBSET Prices]
    BY ActiveType
  <1> HIDE DEF a, a2
  <1>6. a2 = IF lv.head = NULL_IDX THEN WithoutPrice(a, b, p) ELSE a
    BY <1>2, <1>3, <1>4, <1>5 DEF WithoutPrice
  <1> QED
    BY <1>6 DEF a, a2

\* A level that gets an order.
LEMMA ActiveAdded ==
    ASSUME NEW lev \in Ladders, NEW b \in BOOLEAN, NEW p \in Prices, NEW lv \in Levels,
           lv.head # NULL_IDX
    PROVE  ActivePrices(Put(lev, b, p, lv)) =
              WithPrice(ActivePrices(lev), b, p)
  <1> DEFINE a == ActivePrices(lev)
             a2 == ActivePrices(Put(lev, b, p, lv))
  <1>1. /\ Put(lev, b, p, lv)[b][p] = lv
        /\ \A c \in BOOLEAN, q \in Prices : <<c, q>> # <<b, p>> =>
              Put(lev, b, p, lv)[c][q] = lev[c][q]
    BY PutType
  <1>2. \A c \in BOOLEAN : c # b => a2[c] = a[c]
    BY <1>1 DEF ActivePrices
  <1>3. a2[b] = a[b] \cup {p}
    BY <1>1 DEF ActivePrices
  <1>5. a \in [BOOLEAN -> SUBSET Prices] /\ a2 \in [BOOLEAN -> SUBSET Prices]
    BY ActiveType
  <1> HIDE DEF a, a2
  <1>6. a2 = WithPrice(a, b, p)
    BY <1>2, <1>3, <1>5 DEF WithPrice
  <1> QED
    BY <1>6 DEF a, a2

-----------------------------------------------------------------------------
(* The fields that replace_order() sets *)

\* Slot i gets quantity n and price q and becomes the last of a list.
Renewed(ord, i, n, q) ==
    [ord EXCEPT ![i].qty = n, ![i].price = q, ![i].next = NULL_IDX]

LEMMA RenewedFields ==
    ASSUME NEW ord \in Pools, NEW i \in Slots, NEW n \in Nat, NEW q \in Prices
    PROVE  /\ Renewed(ord, i, n, q) \in Pools
           /\ \A s \in Slots :
                 /\ Renewed(ord, i, n, q)[s].id = ord[s].id
                 /\ Renewed(ord, i, n, q)[s].is_buy = ord[s].is_buy
                 /\ Renewed(ord, i, n, q)[s].prev = ord[s].prev
                 /\ Renewed(ord, i, n, q)[s].price = IF s = i THEN q ELSE ord[s].price
                 /\ Renewed(ord, i, n, q)[s].qty = IF s = i THEN n ELSE ord[s].qty
                 /\ Renewed(ord, i, n, q)[s].next =
                       IF s = i THEN NULL_IDX ELSE ord[s].next
  <1>1. q \in 0..MAX_PRICES /\ NULL_IDX \in Links
    BY LadderAssumption DEF Prices, Links
  <1> DEFINE o == Renewed(ord, i, n, q)
             r2(r) == [r EXCEPT !.qty = n, !.price = q, !.next = NULL_IDX]
  <1>2. DOMAIN o = Slots /\ o = [s \in Slots |-> o[s]]
    BY DEF Renewed, Pools
  <1>3. ASSUME NEW s \in Slots
        PROVE  o[s] = IF s = i THEN r2(ord[s]) ELSE ord[s]
    <2>1. CASE s # i
      BY <2>1 DEF Renewed, Pools
    <2>2. CASE s = i
      BY <2>2 DEF Renewed, Pools
    <2> QED
      BY <2>1, <2>2
  <1>4. ASSUME NEW r \in Nodes
        PROVE  /\ r2(r) \in Nodes
               /\ r2(r).id = r.id /\ r2(r).is_buy = r.is_buy /\ r2(r).prev = r.prev
               /\ r2(r).price = q /\ r2(r).qty = n /\ r2(r).next = NULL_IDX
    BY <1>1 DEF Nodes
  <1>5. ASSUME NEW s \in Slots
        PROVE  ord[s] \in Nodes
    BY DEF Pools
  <1> HIDE DEF o, r2
  <1>6. o \in Pools
    BY <1>2, <1>3, <1>4, <1>5 DEF Pools
  <1> QED
    BY <1>3, <1>4, <1>5, <1>6 DEF o

\* At the same price.
LEMMA RenewedSame ==
    ASSUME NEW ord \in Pools, NEW i \in Slots, NEW n \in Nat
    PROVE  [ord EXCEPT ![i].qty = n, ![i].next = NULL_IDX] =
              Renewed(ord, i, n, ord[i].price)
  <1> DEFINE o1 == [ord EXCEPT ![i].qty = n, ![i].next = NULL_IDX]
             o2 == Renewed(ord, i, n, ord[i].price)
  <1>1. DOMAIN o1 = Slots /\ DOMAIN o2 = Slots
    BY DEF Renewed, Pools
  <1>2. ASSUME NEW s \in Slots
        PROVE  o1[s] = o2[s]
    BY DEF Renewed, Pools, Nodes
  <1>3. o1 = [s \in Slots |-> o1[s]] /\ o2 = [s \in Slots |-> o2[s]]
    BY DEF Renewed, Pools
  <1> HIDE DEF o1, o2
  <1>4. o1 = o2
    BY <1>1, <1>2, <1>3
  <1> QED
    BY <1>4 DEF o1, o2

\* The order of slot i, the k-th of its list, goes to the back of that of price q.
Replaced(ord, lev, L, ord2, b, p, q, k, i, n) ==
    /\ b \in BOOLEAN /\ p \in Prices /\ q \in Prices /\ n \in Nat
    /\ IsAt(L, b, p, k, i) /\ HeadReset(ord, k, i)
    /\ ord2 = Renewed(OnLink(ord, lev, b, p, q, i).pool, i, n, q)

LEMMA ReplacedMoved ==
    ASSUME NEW ord, NEW lev, NEW nf, NEW im, NEW R, NEW c, NEW L, NEW F, NEW X,
           BookOf(ord, lev, nf, im, R, c, L, F, X),
           NEW ord2, NEW b, NEW p, NEW q, NEW k, NEW i, NEW n,
           Replaced(ord, lev, L, ord2, b, p, q, k, i, n)
    PROVE  /\ Moved(ord, lev, L, ord2, b, p, q, k, i)
           /\ ord2 \in Pools /\ MovedLevels(ord, lev, b, p, q, i) \in Ladders
           /\ i \in Slots /\ OffLevels(ord, lev, b, p, i) \in Ladders
           /\ OnLink(ord, lev, b, p, q, i).level \in Levels
           /\ OnLink(ord, lev, b, p, q, i).level.head # NULL_IDX
           /\ \A s \in Slots : ord2[s].qty = IF s = i THEN n ELSE ord[s].qty
  <1> DEFINE op == OffPool(ord, lev, b, p, i)
             lev1 == OffLevels(ord, lev, b, p, i)
             L1 == OffLists(L, b, p, k)
             t == OnLink(ord, lev, b, p, q, i)
  <1>1. /\ b \in BOOLEAN /\ p \in Prices /\ q \in Prices /\ n \in Nat
        /\ IsAt(L, b, p, k, i) /\ HeadReset(ord, k, i)
        /\ ord2 = Renewed(t.pool, i, n, q)
        /\ ord \in Pools /\ lev \in Ladders
        /\ Rep(ord, lev, nf, L, F, X)
    BY DEF BookOf, Replaced
  <1>2. Delisted(L, L1, i) /\ i \in Slots /\ Listed(L, i)
    BY <1>1, ListedWithout DEF OffLists
  <1>3. Rep(op, lev1, nf, L1, F, X \cup {i})
    BY <1>1, RepUnlink DEF OffPool, OffLevels, OffLists
  <1>4. /\ op \in Pools /\ SameData(op, ord) /\ lev1 \in Ladders
    <2>1. lev[b][p] \in Levels
      BY <1>1 DEF Ladders
    <2>2. /\ op \in Pools /\ SameData(op, ord) /\ Unlink(ord, lev[b][p], i).level \in Levels
      BY <1>1, <1>2, <2>1, UnlinkFields DEF OffPool
    <2> QED
      BY <1>1, <2>2, PutType DEF OffLevels
  <1>5. t = Link(op, lev1[b][q], i)
    BY DEF OnLink
  <1>6. ord[i].is_buy = b
    <2>1. In(L[b][p], i)
      BY <1>1 DEF IsAt, In
    <2> QED
      BY <1>1, <1>2, <2>1 DEF Rep
  <1> HIDE DEF op, lev1, L1, t
  <1>7. IsLevel(op, lev1[b][q], L1[b][q]) /\ lev1[b][q] \in Levels
    BY <1>1, <1>3, <1>4 DEF Rep, Ladders
  <1>8. \A j \in 1..Len(L1[b][q]) : L1[b][q][j] # i
    <2>1. ~Listed(L1, i)
      BY <1>2 DEF Delisted
    <2> QED
      BY <1>1, <2>1 DEF Listed, In
  <1>9. Linkable(lev1[b][q]) /\ lev1[b][q].tail # i
    BY <1>2, <1>4, <1>7, <1>8, LinkLevel
  <1>10. /\ t.pool \in Pools /\ t.level \in Levels /\ SameData(t.pool, op)
         /\ t.level.head = IF lev1[b][q].head = NULL_IDX THEN i ELSE lev1[b][q].head
    BY <1>2, <1>4, <1>5, <1>7, <1>9, LinkFields
  <1>11. /\ ord2 \in Pools
         /\ \A s \in Slots :
                 /\ ord2[s].id = t.pool[s].id
                 /\ ord2[s].is_buy = t.pool[s].is_buy
                 /\ ord2[s].prev = t.pool[s].prev
                 /\ ord2[s].price = IF s = i THEN q ELSE t.pool[s].price
                 /\ ord2[s].qty = IF s = i THEN n ELSE t.pool[s].qty
                 /\ ord2[s].next = IF s = i THEN NULL_IDX ELSE t.pool[s].next
    BY <1>1, <1>2, <1>10, RenewedFields
  <1>12. \A s \in Slots : /\ ord2[s].id = ord[s].id
                          /\ ord2[s].qty = IF s = i THEN n ELSE ord[s].qty
    BY <1>4, <1>10, <1>11 DEF SameData
  <1>13. IsLinked(op, lev1, ord2, i, b, q)
    <2>1. ord2[i].is_buy = b
      BY <1>2, <1>4, <1>6, <1>10, <1>11 DEF SameData
    <2>2. \A s \in Slots : s # i => /\ ord2[s].is_buy = op[s].is_buy
                                    /\ ord2[s].price = op[s].price
      BY <1>10, <1>11 DEF SameData
    <2> QED
      BY <1>2, <1>5, <1>11, <2>1, <2>2 DEF IsLinked
  <1>14. Moved(ord, lev, L, ord2, b, p, q, k, i)
    BY <1>1, <1>12, <1>13 DEF Moved, op, lev1
  <1>15. MovedLevels(ord, lev, b, p, q, i) \in Ladders
    BY <1>1, <1>4, <1>10, PutType DEF MovedLevels, lev1, t
  <1> QED
    BY <1>2, <1>4, <1>10, <1>11, <1>12, <1>14, <1>15, SlotsNotNull DEF t, lev1

-----------------------------------------------------------------------------
(* Heads without a predecessor *)

\* No level has a promoted head: prev of every head is reset.
HeadsReset(ord, lev) ==
    \A b \in BOOLEAN, p \in Prices :
        lev[b][p].head # NULL_IDX => ord[lev[b][p].head].prev = NULL_IDX

\* A slot on no list is no head.
LEMMA UnlistedNoHead ==
    ASSUME NEW ord, NEW lev, NEW nf, NEW L, NEW F, NEW X,
           Rep(ord, lev, nf, L, F, X), NEW i \in Slots, ~Listed(L, i)
    PROVE  \A b \in BOOLEAN, p \in Prices : lev[b][p].head # i
  <1> SUFFICES ASSUME NEW b \in BOOLEAN, NEW p \in Prices, lev[b][p].head = i
               PROVE  FALSE
    OBVIOUS
  <1>1. IsHead(lev, b, p, i)
    BY SlotsNotNull DEF IsHead
  <1>2. IsAt(L, b, p, 1, i)
    BY <1>1, HeadIsAt
  <1> QED
    BY <1>2 DEF IsAt, Listed, In

\* The successor of a slot on a list is no head.
LEMMA NextNoHead ==
    ASSUME NEW ord, NEW lev, NEW nf, NEW L, NEW F, NEW X,
           Rep(ord, lev, nf, L, F, X), NEW b \in BOOLEAN, NEW p \in Prices,
           NEW k, NEW i, IsAt(L, b, p, k, i)
    PROVE  \A c \in BOOLEAN, q \in Prices :
              lev[c][q].head # NULL_IDX => lev[c][q].head # ord[i].next
  <1> SUFFICES ASSUME NEW c \in BOOLEAN, NEW q \in Prices, NEW h, h = lev[c][q].head,
                      h # NULL_IDX, h = ord[i].next
               PROVE  FALSE
    OBVIOUS
  <1>1. h \in Slots /\ IsAt(L, c, q, 1, h)
    <2>1. IsHead(lev, c, q, h)
      BY DEF IsHead
    <2> QED
      BY <2>1, HeadIsAt
  <1>2. IsChain(ord, lev[b][p].head, L[b][p])
    BY DEF Rep, IsLevel
  <1>3. /\ L[b][p] \in Seq(Slots) /\ Len(L[b][p]) \in Nat
        /\ k \in 1..Len(L[b][p]) /\ L[b][p][k] = i
    BY <1>2 DEF IsChain, IsAt
  <1>4. k + 1 \in 1..Len(L[b][p]) /\ L[b][p][k + 1] = h
    <2>1. ord[L[b][p][k]].next = IF k = Len(L[b][p]) THEN NULL_IDX ELSE L[b][p][k + 1]
      BY <1>2, <1>3 DEF IsChain
    <2> QED
      BY <1>3, <2>1
  <1>5. In(L[b][p], h) /\ In(L[c][q], h)
    BY <1>1, <1>4 DEF In, IsAt
  <1>6. b = c /\ p = q
    <2>1. ord[h].is_buy = b /\ ord[h].price = p
      BY <1>1, <1>5 DEF Rep
    <2>2. ord[h].is_buy = c /\ ord[h].price = q
      BY <1>1, <1>5 DEF Rep
    <2> QED
      BY <2>1, <2>2
  <1>7. k + 1 = 1
    <2>1. 1 \in 1..Len(L[b][p]) /\ L[b][p][1] = h
      BY <1>1, <1>6 DEF IsAt
    <2> QED
      BY <1>2, <1>4, <2>1 DEF IsChain
  <1> QED
    BY <1>3, <1>7

LEMMA UnlinkHeads ==
    ASSUME NEW ord \in Pools, NEW lev \in Ladders, NEW nf, NEW L, NEW F, NEW X,
           Rep(ord, lev, nf, L, F, X), NEW b \in BOOLEAN, NEW p \in Prices,
           NEW k, NEW i, IsAt(L, b, p, k, i), HeadsReset(ord, lev)
    PROVE  HeadsReset(Unlink(ord, lev[b][p], i).pool,
                      Put(lev, b, p, Unlink(ord, lev[b][p], i).level))
  <1> DEFINE u == Unlink(ord, lev[b][p], i)
             lev2 == Put(lev, b, p, u.level)
  <1> SUFFICES ASSUME NEW c \in BOOLEAN, NEW q \in Prices, lev2[c][q].head # NULL_IDX
               PROVE  u.pool[lev2[c][q].head].prev = NULL_IDX
    BY Zenon DEF HeadsReset
  <1>1. i \in Slots /\ lev[b][p] \in Levels
    BY ListedWithout, SlotsNotNull DEF Ladders
  <1>2. /\ u.level \in Levels
        /\ u.level.head = IF lev[b][p].head = i THEN ord[i].next ELSE lev[b][p].head
        /\ \A s \in Slots : u.pool[s].prev = IF s = ord[i].next THEN ord[i].prev
                                             ELSE ord[s].prev
    BY <1>1, UnlinkFields
  <1> HIDE DEF u
  <1>3. /\ lev2[b][p] = u.level
        /\ \A d \in BOOLEAN, r \in Prices : <<d, r>> # <<b, p>> => lev2[d][r] = lev[d][r]
    BY <1>2, PutType
  <1> HIDE DEF lev2
  <1>4. \A d \in BOOLEAN, r \in Prices : /\ lev[d][r].head \in Links
                                         /\ lev[d][r].head # NULL_IDX => lev[d][r].head # ord[i].next
    BY NextNoHead DEF Ladders, Levels
  <1>5. ord[i].next \in Links
    BY <1>1 DEF Pools, Nodes
  <1>6. CASE lev2[c][q].head = lev[c][q].head
    BY <1>2, <1>4, <1>6 DEF HeadsReset, Links
  <1>7. CASE lev2[c][q].head # lev[c][q].head
    <2>1. c = b /\ q = p /\ lev[b][p].head = i /\ lev2[c][q].head = ord[i].next
      BY <1>2, <1>3, <1>7
    <2>2. ord[i].prev = NULL_IDX
      BY <1>1, <2>1, SlotsNotNull DEF HeadsReset
    <2> QED
      BY <1>2, <1>5, <2>1, <2>2 DEF Links
  <1> QED
    BY <1>6, <1>7

\* Slot i goes to the back of a level; other fields of the pool may change.
LEMMA LinkHeads ==
    ASSUME NEW ord \in Pools, NEW lev \in Ladders, HeadsReset(ord, lev),
           NEW b \in BOOLEAN, NEW p \in Prices, NEW i \in Slots,
           Linkable(lev[b][p]), lev[b][p].tail # i,
           \A c \in BOOLEAN, q \in Prices : lev[c][q].head # i,
           NEW ord2, \A s \in Slots : ord2[s].prev = Link(ord, lev[b][p], i).pool[s].prev
    PROVE  HeadsReset(ord2, Put(lev, b, p, Link(ord, lev[b][p], i).level))
  <1> DEFINE t == Link(ord, lev[b][p], i)
             lev2 == Put(lev, b, p, t.level)
  <1> SUFFICES ASSUME NEW c \in BOOLEAN, NEW q \in Prices, lev2[c][q].head # NULL_IDX
               PROVE  ord2[lev2[c][q].head].prev = NULL_IDX
    BY Zenon DEF HeadsReset
  <1>1. lev[b][p] \in Levels
    BY DEF Ladders
  <1>2. /\ t.level \in Levels
        /\ t.level.head = IF lev[b][p].head = NULL_IDX THEN i ELSE lev[b][p].head
        /\ \A s \in Slots : t.pool[s].prev = IF s # i THEN ord[s].prev
                                             ELSE IF lev[b][p].head = NULL_IDX THEN NULL_IDX
                                             ELSE lev[b][p].tail
    BY <1>1, LinkFields
  <1>3. \A s \in Slots : ord2[s].prev = t.pool[s].prev
    OBVIOUS
  <1> HIDE DEF t
  <1>4. /\ lev2[b][p] = t.level
        /\ \A d \in BOOLEAN, r \in Prices : <<d, r>> # <<b, p>> => lev2[d][r] = lev[d][r]
    BY <1>2, PutType
  <1> HIDE DEF lev2
  <1>5. \A d \in BOOLEAN, r \in Prices : lev[d][r].head \in Links
    BY DEF Ladders, Levels
  <1>6. CASE lev2[c][q].head = lev[c][q].head
    BY <1>2, <1>3, <1>5, <1>6 DEF HeadsReset, Links
  <1>7. CASE lev2[c][q].head # lev[c][q].head
    <2>1. c = b /\ q = p /\ lev[b][p].head = NULL_IDX /\ lev2[c][q].head = i
      BY <1>2, <1>4, <1>7
    <2> QED
      BY <1>2, <1>3, <2>1
  <1> QED
    BY <1>6, <1>7

LEMMA MovedHeads ==
    ASSUME NEW ord, NEW lev, NEW nf, NEW im, NEW R, NEW c, NEW L, NEW F, NEW X,
           BookOf(ord, lev, nf, im, R, c, L, F, X),
           NEW ord2, NEW b, NEW p, NEW q, NEW k, NEW i, NEW n,
           Replaced(ord, lev, L, ord2, b, p, q, k, i, n), HeadsReset(ord, lev)
    PROVE  HeadsReset(ord2, MovedLevels(ord, lev, b, p, q, i))
  <1> DEFINE op == OffPool(ord, lev, b, p, i)
             lev1 == OffLevels(ord, lev, b, p, i)
             L1 == OffLists(L, b, p, k)
  <1>1. /\ b \in BOOLEAN /\ p \in Prices /\ q \in Prices /\ n \in Nat
        /\ IsAt(L, b, p, k, i) /\ HeadReset(ord, k, i)
        /\ ord2 = Renewed(Link(op, lev1[b][q], i).pool, i, n, q)
        /\ ord \in Pools /\ lev \in Ladders
        /\ Rep(ord, lev, nf, L, F, X)
    BY DEF BookOf, Replaced, OnLink
  <1>2. Delisted(L, L1, i) /\ i \in Slots
    BY <1>1, ListedWithout DEF OffLists
  <1>3. Rep(op, lev1, nf, L1, F, X \cup {i})
    BY <1>1, RepUnlink DEF OffPool, OffLevels, OffLists
  <1>4. op \in Pools /\ lev1 \in Ladders
    <2>1. lev[b][p] \in Levels
      BY <1>1 DEF Ladders
    <2>2. op \in Pools /\ Unlink(ord, lev[b][p], i).level \in Levels
      BY <1>1, <1>2, <2>1, UnlinkFields DEF OffPool
    <2> QED
      BY <1>1, <2>2, PutType DEF OffLevels
  <1>5. HeadsReset(op, lev1)
    BY <1>1, UnlinkHeads DEF OffPool, OffLevels
  <1>6. MovedLevels(ord, lev, b, p, q, i) =
           Put(lev1, b, q, Link(op, lev1[b][q], i).level)
    BY DEF MovedLevels, OnLink
  <1> HIDE DEF op, lev1, L1
  <1>7. ~Listed(L1, i)
    BY <1>2 DEF Delisted
  <1>8. \A d \in BOOLEAN, r \in Prices : lev1[d][r].head # i
    BY <1>2, <1>3, <1>7, UnlistedNoHead
  <1>9. IsLevel(op, lev1[b][q], L1[b][q]) /\ lev1[b][q] \in Levels
    BY <1>1, <1>3, <1>4 DEF Rep, Ladders
  <1>10. \A j \in 1..Len(L1[b][q]) : L1[b][q][j] # i
    BY <1>1, <1>7 DEF Listed, In
  <1>11. Linkable(lev1[b][q]) /\ lev1[b][q].tail # i
    BY <1>2, <1>4, <1>9, <1>10, LinkLevel
  <1>12. Link(op, lev1[b][q], i).pool \in Pools
    BY <1>2, <1>4, <1>9, <1>11, LinkFields
  <1>13. \A s \in Slots : ord2[s].prev = Link(op, lev1[b][q], i).pool[s].prev
    BY <1>1, <1>2, <1>12, RenewedFields
  <1> QED
    BY <1>1, <1>2, <1>4, <1>5, <1>6, <1>8, <1>11, <1>13, LinkHeads
=============================================================================
