------------------------- MODULE PriceBitsetProofs --------------------------
(***************************************************************************)
(* Proofs about PriceBitset for every word size and every ladder that      *)
(* three levels of such words can hold, the 64 bits and 100000 prices of   *)
(* the code among them.                                                    *)
(***************************************************************************)
EXTENDS PriceBitset, WellFoundedInduction, TLAPS

-----------------------------------------------------------------------------
(* When the Min and Max of FiniteSetsExt are what their names say *)

\* A non-empty set of naturals has a least element: Min is not arbitrary.
LEMMA MinExists ==
    ASSUME NEW S, S \subseteq Nat, S # {}
    PROVE  Min(S) \in S /\ \A y \in S : Min(S) <= y
  <1>1. \E x \in S : \A y \in S : ~ (<<y, x>> \in OpToRel(<, Nat))
    BY WFMin, NatLessThanWellFounded
  <1>2. \A a, b \in Nat : a < b => <<a, b>> \in OpToRel(<, Nat)
    <2> DEFINE R == {ss \in Nat \X Nat : ss[1] < ss[2]}
    <2>1. OpToRel(<, Nat) = R
      BY Zenon DEF OpToRel
    <2>2. \A a, b \in Nat : a < b => <<a, b>> \in R
      OBVIOUS
    <2> QED
      BY <2>1, <2>2, Zenon
  <1>3. \A a, b \in Nat : ~(b < a) => a <= b
    OBVIOUS
  <1>4. \E x \in S : \A y \in S : x <= y
    BY <1>1, <1>2, <1>3, Zenon
  <1> QED
    BY <1>4 DEF Min

\* A bounded non-empty set of naturals has a greatest element.
LEMMA MaxExists ==
    ASSUME NEW n \in Nat, NEW S, S \subseteq 0..n, S # {}
    PROVE  Max(S) \in S /\ \A y \in S : Max(S) >= y
  <1> DEFINE T == {t \in 0..n : n - t \in S}
  <1>1. \A x \in S : n - x \in T
    OBVIOUS
  <1>0. T \subseteq Nat /\ T # {}
    <2>1. PICK x \in S : TRUE
      OBVIOUS
    <2>2. n - x \in T
      BY <1>1
    <2>3. T \subseteq Nat
      OBVIOUS
    <2> QED
      BY <2>2, <2>3, Zenon
  <1>2. Min(T) \in T /\ \A y \in T : Min(T) <= y
    BY <1>0, MinExists
  <1>3. PICK x \in S : x = n - Min(T)
    BY <1>2
  <1>4. \A y \in S : x >= y
    BY <1>1, <1>2, <1>3
  <1> QED
    BY <1>4 DEF Max

\* An element that bounds a set of numbers from above is its Max.
LEMMA MaxUnique ==
    ASSUME NEW S, S \subseteq Int, NEW x \in S, \A y \in S : y <= x
    PROVE  Max(S) = x
  <1> DEFINE isMax(m) == m \in S /\ \A y \in S : m >= y
  <1>1. isMax(x)
    OBVIOUS
  <1>2. ASSUME NEW m, isMax(m)
        PROVE  m = x
    <2>1. m \in Int /\ x \in Int /\ m >= x /\ m <= x
      BY <1>2
    <2> QED
      BY <2>1
  <1> QED
    BY <1>1, <1>2, Zenon DEF Max

\* An element that bounds a set of numbers from below is its Min.
LEMMA MinUnique ==
    ASSUME NEW S, S \subseteq Int, NEW x \in S, \A y \in S : x <= y
    PROVE  Min(S) = x
  <1> DEFINE isMin(m) == m \in S /\ \A y \in S : m <= y
  <1>1. isMin(x)
    OBVIOUS
  <1>2. ASSUME NEW m, isMin(m)
        PROVE  m = x
    <2>1. m \in Int /\ x \in Int /\ m <= x /\ m >= x
      BY <1>2
    <2> QED
      BY <2>1
  <1> QED
    BY <1>1, <1>2, Zenon DEF Min


(* A position is the pair of its word and its bit. *)

\* A position is put together from its word and its bit.
LEMMA Decompose ==
    ASSUME NEW n \in Nat \ {0}, NEW i \in Nat
    PROVE  /\ i \div n \in Nat
           /\ i % n \in 0..(n - 1)
           /\ i = n * (i \div n) + (i % n)
  <1>1. i \div n \in Nat
    OBVIOUS
  <1>2. i % n \in 0..(n - 1)
    OBVIOUS
  <1>3. i = n * (i \div n) + (i % n)
    OBVIOUS
  <1> QED
    BY <1>1, <1>2, <1>3

\* Pairs of a word and a bit are ordered like their positions.
LEMMA PairOrder ==
    ASSUME NEW n \in Nat \ {0}, NEW q1 \in Nat, NEW q2 \in Nat,
           NEW r1 \in 0..(n - 1), NEW r2 \in 0..(n - 1),
           q1 < q2
    PROVE  n * q1 + r1 < n * q2 + r2
  OBVIOUS

\* The word and the bit of a position that was put together from them.
LEMMA Compose ==
    ASSUME NEW n \in Nat \ {0}, NEW q \in Nat, NEW r \in 0..(n - 1)
    PROVE  (n * q + r) \div n = q /\ (n * q + r) % n = r
  <1> DEFINE i == n * q + r
             d == i \div n
             m == i % n
  <1>1. i \in Nat
    OBVIOUS
  <1>2. d \in Nat /\ m \in 0..(n - 1) /\ i = n * d + m
    <2> HIDE DEF i
    <2> QED
      BY <1>1, Decompose
  <1> HIDE DEF d, m
  <1>3. d = q /\ m = r
    BY <1>2
  <1> QED
    BY <1>3 DEF d, m

\* Rounding up gives enough words.
LEMMA EnoughWords ==
    ASSUME NEW n \in Nat \ {0}, NEW k \in Nat, NEW i \in 0..(k - 1)
    PROVE  i \div n \in 0..(((k + n - 1) \div n) - 1)
  <1> DEFINE t == k + n - 1
             d == i \div n
             q == t \div n
  <1>1. t \in Nat /\ i \in Nat
    OBVIOUS
  <1>2. d \in Nat /\ i % n \in 0..(n - 1) /\ i = n * d + (i % n)
    BY <1>1, Decompose
  <1>3. q \in Nat /\ t % n \in 0..(n - 1) /\ t = n * q + (t % n)
    BY <1>1, Decompose
  <1>4. d < q
    <2> HIDE DEF d, q
    <2> QED
      BY <1>2, <1>3
  <1> QED
    BY <1>2, <1>3, <1>4
-----------------------------------------------------------------------------
(* The same for the levels of the bitset. *)

\* The sizes of the levels are numbers, and level 0 has a bit for each word of
\* level 1.
LEMMA Sizes ==
    /\ BLOCK_SIZE \in Nat \ {0} /\ MAX_PRICES \in Nat
    /\ L2_BLOCKS \in Nat /\ L1_BLOCKS \in Nat /\ L1_BLOCKS <= BLOCK_SIZE
  <1>1. L2_BLOCKS \in Nat
    BY BlockAssumption, PricesAssumption, Decompose DEF L2_BLOCKS
  <1>2. L1_BLOCKS \in Nat
    BY <1>1, BlockAssumption, Decompose DEF L1_BLOCKS
  <1> QED
    BY <1>1, <1>2, BlockAssumption, PricesAssumption, LevelsAssumption

\* A price has a bit in a word of level 2.
LEMMA PricePlace ==
    ASSUME NEW p \in Prices
    PROVE  /\ WordOf(p) \in 0..(L2_BLOCKS - 1) /\ BitOf(p) \in Bits
           /\ p = BLOCK_SIZE * WordOf(p) + BitOf(p)
  <1>1. p \in Nat /\ p \in 0..(MAX_PRICES - 1)
    BY Sizes DEF Prices
  <1>2. BitOf(p) \in Bits /\ p = BLOCK_SIZE * WordOf(p) + BitOf(p)
    BY <1>1, Sizes, Decompose DEF WordOf, BitOf, Bits
  <1>3. WordOf(p) \in 0..(L2_BLOCKS - 1)
    BY <1>1, Sizes, EnoughWords DEF WordOf, L2_BLOCKS
  <1> QED
    BY <1>2, <1>3

\* A word of level 2 has a bit in a word of level 1.
LEMMA WordPlace ==
    ASSUME NEW j \in 0..(L2_BLOCKS - 1)
    PROVE  /\ WordOf(j) \in 0..(L1_BLOCKS - 1) /\ BitOf(j) \in Bits
           /\ j = BLOCK_SIZE * WordOf(j) + BitOf(j)
  <1>1. j \in Nat
    BY Sizes
  <1>2. BitOf(j) \in Bits /\ j = BLOCK_SIZE * WordOf(j) + BitOf(j)
    BY <1>1, Sizes, Decompose DEF WordOf, BitOf, Bits
  <1>3. WordOf(j) \in 0..(L1_BLOCKS - 1)
    BY Sizes, EnoughWords DEF WordOf, L1_BLOCKS
  <1> QED
    BY <1>2, <1>3

\* Two positions with the same word and bit are the same.
LEMMA PlaceInjective ==
    ASSUME NEW i \in Nat, NEW j \in Nat,
           WordOf(i) = WordOf(j), BitOf(i) = BitOf(j)
    PROVE  i = j
  BY Sizes, Decompose DEF WordOf, BitOf

\* The word and the bit of the position that was put together from them.
LEMMA PlaceOf ==
    ASSUME NEW i \in Nat, NEW b \in Bits
    PROVE  WordOf(BLOCK_SIZE * i + b) = i /\ BitOf(BLOCK_SIZE * i + b) = b
  BY Sizes, Compose DEF WordOf, BitOf, Bits
-----------------------------------------------------------------------------
Inv == TypeOK /\ SummaryInv

\* set() keeps the summaries: the three bits it sets lie above each other.
LEMMA SetInv ==
    ASSUME Inv, NEW p \in Prices, set(p)
    PROVE  Inv'
  <1> DEFINE a == WordOf(p)
             c == WordOf(a)
  <1> USE Sizes
  <1>1. a \in 0..(L2_BLOCKS - 1) /\ BitOf(p) \in Bits /\ p = BLOCK_SIZE * a + BitOf(p)
    BY PricePlace
  <1>2. c \in 0..(L1_BLOCKS - 1) /\ BitOf(a) \in Bits /\ a = BLOCK_SIZE * c + BitOf(a)
    BY <1>1, WordPlace
  <1>3. /\ l2' = [l2 EXCEPT ![a] = @ \cup {BitOf(p)}]
        /\ l1' = [l1 EXCEPT ![c] = @ \cup {BitOf(a)}]
        /\ l0' = l0 \cup {c}
    BY DEF set
  <1> HIDE DEF a, c
  <1>4. TypeOK'
    BY <1>1, <1>2, <1>3 DEF Inv, TypeOK
  <1>5. ASSUME NEW j \in DOMAIN l2'
        PROVE  BitOf(j) \in l1'[WordOf(j)] <=> l2'[j] # {}
    <2>1. j \in 0..(L2_BLOCKS - 1) /\ j \in Nat /\ a \in Nat
      BY <1>1, <1>4 DEF TypeOK
    <2>2. WordOf(j) \in 0..(L1_BLOCKS - 1)
      BY <2>1, WordPlace
    <2>3. BitOf(j) \in l1[WordOf(j)] <=> l2[j] # {}
      BY <2>1 DEF Inv, TypeOK, SummaryInv
    <2>4. CASE j = a
      BY <1>1, <1>2, <1>3, <2>1, <2>4 DEF Inv, TypeOK, c
    <2>5. CASE j # a
      <3>1. WordOf(j) # c \/ BitOf(j) # BitOf(a)
        BY <2>1, <2>5, PlaceInjective DEF c
      <3> QED
        BY <1>1, <1>2, <1>3, <2>1, <2>2, <2>3, <2>5, <3>1 DEF Inv, TypeOK
    <2> QED
      BY <2>4, <2>5
  <1>6. \A i \in DOMAIN l1' : i \in l0' <=> l1'[i] # {}
    BY <1>2, <1>3 DEF Inv, TypeOK, SummaryInv
  <1>7. \A i \in DOMAIN l1' : \A b \in l1'[i] : BLOCK_SIZE * i + b \in DOMAIN l2'
    BY <1>1, <1>2, <1>3 DEF Inv, TypeOK, SummaryInv
  <1>8. \A j \in DOMAIN l2' : \A b \in l2'[j] : BLOCK_SIZE * j + b \in Prices
    BY <1>1, <1>2, <1>3 DEF Inv, TypeOK, SummaryInv
  <1> QED
    BY <1>4, <1>5, <1>6, <1>7, <1>8 DEF Inv, SummaryInv

\* clear() keeps the summaries: a parent bit goes when its word is zero, and
\* only then.
LEMMA ClearInv ==
    ASSUME Inv, NEW p \in Prices, clear(p)
    PROVE  Inv'
  <1> DEFINE a == WordOf(p)
             c == WordOf(a)
  <1> USE Sizes
  <1>1. a \in 0..(L2_BLOCKS - 1) /\ BitOf(p) \in Bits
    BY PricePlace
  <1>2. c \in 0..(L1_BLOCKS - 1) /\ BitOf(a) \in Bits
    BY <1>1, WordPlace
  <1>3. /\ l2' = [l2 EXCEPT ![a] = @ \ {BitOf(p)}]
        /\ l1' = IF l2'[a] = {} THEN [l1 EXCEPT ![c] = @ \ {BitOf(a)}] ELSE l1
        /\ l0' = IF l2'[a] = {} /\ l1'[c] = {} THEN l0 \ {c} ELSE l0
    BY DEF clear, Without, Emptied
  <1> HIDE DEF a, c
  <1>4. TypeOK'
    BY <1>1, <1>2, <1>3 DEF Inv, TypeOK
  <1>5. ASSUME NEW j \in DOMAIN l2'
        PROVE  BitOf(j) \in l1'[WordOf(j)] <=> l2'[j] # {}
    <2>1. j \in 0..(L2_BLOCKS - 1) /\ j \in Nat /\ a \in Nat
      BY <1>1, <1>4 DEF TypeOK
    <2>2. WordOf(j) \in 0..(L1_BLOCKS - 1)
      BY <2>1, WordPlace
    <2>3. BitOf(j) \in l1[WordOf(j)] <=> l2[j] # {}
      BY <2>1 DEF Inv, TypeOK, SummaryInv
    <2>4. CASE j = a
      <3>1. WordOf(j) = c /\ BitOf(j) = BitOf(a)
        BY <2>4 DEF c
      <3>2. CASE l2'[a] = {}
        BY <1>2, <1>3, <2>4, <3>1, <3>2 DEF Inv, TypeOK
      <3>3. CASE l2'[a] # {}
        BY <1>1, <1>2, <1>3, <2>1, <2>3, <2>4, <3>1, <3>3 DEF Inv, TypeOK
      <3> QED
        BY <3>2, <3>3
    <2>5. CASE j # a
      <3>1. WordOf(j) # c \/ BitOf(j) # BitOf(a)
        BY <2>1, <2>5, PlaceInjective DEF c
      <3>2. l2'[j] = l2[j]
        BY <1>1, <1>3, <2>1, <2>5 DEF Inv, TypeOK
      <3>3. BitOf(j) \in l1'[WordOf(j)] <=> BitOf(j) \in l1[WordOf(j)]
        BY <1>2, <1>3, <2>2, <3>1 DEF Inv, TypeOK
      <3> QED
        BY <2>3, <3>2, <3>3
    <2> QED
      BY <2>4, <2>5
  <1>6. \A i \in DOMAIN l1' : i \in l0' <=> l1'[i] # {}
    <2>1. CASE l2'[a] = {}
      BY <1>2, <1>3, <2>1 DEF Inv, TypeOK, SummaryInv
    <2>2. CASE l2'[a] # {}
      BY <1>3, <2>2 DEF Inv, TypeOK, SummaryInv
    <2> QED
      BY <2>1, <2>2
  <1>7. /\ DOMAIN l1' = DOMAIN l1 /\ \A i \in DOMAIN l1 : l1'[i] \subseteq l1[i]
        /\ DOMAIN l2' = DOMAIN l2 /\ \A j \in DOMAIN l2 : l2'[j] \subseteq l2[j]
    BY <1>1, <1>2, <1>3 DEF Inv, TypeOK
  <1>8. \A i \in DOMAIN l1' : \A b \in l1'[i] : BLOCK_SIZE * i + b \in DOMAIN l2'
    BY <1>7 DEF Inv, SummaryInv
  <1>9. \A j \in DOMAIN l2' : \A b \in l2'[j] : BLOCK_SIZE * j + b \in Prices
    BY <1>7 DEF Inv, SummaryInv
  <1> QED
    BY <1>4, <1>5, <1>6, <1>8, <1>9 DEF Inv, SummaryInv

\* The summaries are exact after any series of set(), clear() and
\* clear_all(): a bit of level 1 or 0 is set exactly when its word is not
\* zero, so clzll and ctzll never see a zero word.
THEOREM SummaryExact == Spec => [](TypeOK /\ SummaryInv)
  <1>1. Init => Inv
    <2> SUFFICES ASSUME Init PROVE Inv
      OBVIOUS
    <2>1. TypeOK
      BY Sizes DEF Init, TypeOK
    <2>2. \A j \in 0..(L2_BLOCKS - 1) : l1[WordOf(j)] = {}
      BY WordPlace DEF Init
    <2> QED
      BY <2>1, <2>2 DEF Init, Inv, SummaryInv
  <1>2. Inv /\ [Next]_vars => Inv'
    <2> SUFFICES ASSUME Inv, [Next]_vars PROVE Inv'
      OBVIOUS
    <2>1. CASE clear_all
      <3>1. TypeOK'
        BY <2>1 DEF clear_all, Inv, TypeOK
      <3>2. \A j \in 0..(L2_BLOCKS - 1) : l1'[WordOf(j)] = {}
        BY <2>1, WordPlace DEF clear_all, Inv, TypeOK
      <3> QED
        BY <2>1, <3>1, <3>2 DEF clear_all, Inv, TypeOK, SummaryInv
    <2>2. ASSUME NEW p \in Prices, set(p) PROVE Inv'
      BY <2>2, SetInv
    <2>3. ASSUME NEW p \in Prices, clear(p) PROVE Inv'
      BY <2>3, ClearInv
    <2>4. CASE UNCHANGED vars
      BY <2>4 DEF vars, Inv, TypeOK, SummaryInv
    <2> QED
      BY <2>1, <2>2, <2>3, <2>4 DEF Next
  <1> QED
    BY <1>1, <1>2, PTL DEF Spec, Inv
-----------------------------------------------------------------------------
\* An occupied price has its bit set on all three levels.
LEMMA OccupiedPath ==
    ASSUME Inv, NEW q \in occupied
    PROVE  LET j == WordOf(q)
               i == WordOf(j)
           IN  /\ j \in 0..(L2_BLOCKS - 1) /\ i \in 0..(L1_BLOCKS - 1)
               /\ BitOf(q) \in l2[j] /\ BitOf(j) \in l1[i] /\ i \in l0
               /\ BitOf(q) \in Bits /\ BitOf(j) \in Bits
               /\ q = BLOCK_SIZE * j + BitOf(q)
               /\ j = BLOCK_SIZE * i + BitOf(j)
  <1> DEFINE j == WordOf(q)
             i == WordOf(j)
  <1>1. q \in Prices /\ BitOf(q) \in l2[j]
    BY DEF occupied, test
  <1>2. j \in 0..(L2_BLOCKS - 1) /\ BitOf(q) \in Bits /\ q = BLOCK_SIZE * j + BitOf(q)
    BY <1>1, PricePlace
  <1>3. i \in 0..(L1_BLOCKS - 1) /\ BitOf(j) \in Bits /\ j = BLOCK_SIZE * i + BitOf(j)
    BY <1>2, WordPlace
  <1> HIDE DEF j
  <1>4. BitOf(j) \in l1[i]
    BY <1>1, <1>2 DEF Inv, TypeOK, SummaryInv
  <1>5. i \in l0
    BY <1>3, <1>4 DEF Inv, TypeOK, SummaryInv
  <1> QED
    BY <1>1, <1>2, <1>3, <1>4, <1>5 DEF j

\* A path of set bits from level 0 down leads to an occupied price.
LEMMA PathOccupied ==
    ASSUME Inv, NEW i \in l0, NEW b \in l1[i],
           NEW d \in l2[BLOCK_SIZE * i + b]
    PROVE  BLOCK_SIZE * (BLOCK_SIZE * i + b) + d \in occupied
  <1> DEFINE j == BLOCK_SIZE * i + b
             q == BLOCK_SIZE * j + d
  <1> USE Sizes
  <1>1. i \in 0..(L1_BLOCKS - 1) /\ i \in DOMAIN l1
    BY DEF Inv, TypeOK
  <1>2. j \in DOMAIN l2
    BY <1>1 DEF Inv, SummaryInv
  <1> HIDE DEF j
  <1>3. j \in Nat /\ d \in Bits
    BY <1>2 DEF Inv, TypeOK, j
  <1>4. q \in Prices
    BY <1>2 DEF Inv, SummaryInv, j
  <1>5. WordOf(q) = j /\ BitOf(q) = d
    BY <1>3, PlaceOf
  <1> HIDE DEF q
  <1>6. q \in occupied
    BY <1>4, <1>5 DEF occupied, test, j
  <1> QED
    BY <1>6 DEF q, j

\* A word that the level above announces is not zero.
LEMMA WordsNotZero ==
    ASSUME Inv, NEW i \in l0
    PROVE  /\ i \in 0..(L1_BLOCKS - 1)
           /\ l1[i] # {} /\ l1[i] \subseteq Bits
           /\ \A b \in l1[i] : /\ BLOCK_SIZE * i + b \in 0..(L2_BLOCKS - 1)
                               /\ l2[BLOCK_SIZE * i + b] # {}
                               /\ l2[BLOCK_SIZE * i + b] \subseteq Bits
  <1> USE Sizes
  <1>1. i \in 0..(L1_BLOCKS - 1) /\ l1[i] # {} /\ l1[i] \subseteq Bits
    BY DEF Inv, TypeOK, SummaryInv
  <1>2. ASSUME NEW b \in l1[i]
        PROVE  /\ BLOCK_SIZE * i + b \in 0..(L2_BLOCKS - 1)
               /\ l2[BLOCK_SIZE * i + b] # {}
               /\ l2[BLOCK_SIZE * i + b] \subseteq Bits
    <2> DEFINE j == BLOCK_SIZE * i + b
    <2>1. j \in 0..(L2_BLOCKS - 1)
      BY <1>1 DEF Inv, TypeOK, SummaryInv
    <2>2. WordOf(j) = i /\ BitOf(j) = b
      BY <1>1, PlaceOf
    <2> HIDE DEF j
    <2>3. l2[j] # {} /\ l2[j] \subseteq Bits
      BY <2>1, <2>2 DEF Inv, TypeOK, SummaryInv
    <2> QED
      BY <2>1, <2>3 DEF j
  <1> QED
    BY <1>1, <1>2

\* Comparing words first and bits second is comparing positions.
LEMMA Lexicographic ==
    ASSUME NEW n \in Nat \ {0}, NEW q1 \in Nat, NEW q2 \in Nat,
           NEW r1 \in 0..(n - 1), NEW r2 \in 0..(n - 1),
           q1 <= q2, q1 = q2 => r1 <= r2
    PROVE  n * q1 + r1 <= n * q2 + r2
  <1>1. CASE q1 = q2
    BY <1>1
  <1>2. CASE q1 < q2
    BY <1>2, PairOrder
  <1> QED
    BY <1>1, <1>2

\* Three lookups guided by the greatest bit lead to the greatest price.
LEMMA HighestIsMax ==
    ASSUME Inv, l0 # {}
    PROVE  occupied # {} /\ find_highest = Max(occupied)
  <1> DEFINE i == Max(l0)
             b == Max(l1[i])
             j == BLOCK_SIZE * i + b
             d == Max(l2[j])
             P == BLOCK_SIZE * j + d
  <1> USE Sizes
  <1>1. i \in l0 /\ \A y \in l0 : y <= i
    <2>1. l0 \subseteq 0..BLOCK_SIZE
      BY DEF Inv, TypeOK
    <2> QED
      BY <2>1, MaxExists
  <1> HIDE DEF i
  <1>2. i \in Nat /\ l1[i] # {} /\ l1[i] \subseteq 0..(BLOCK_SIZE - 1)
    BY <1>1, WordsNotZero DEF Bits
  <1>3. b \in l1[i] /\ \A y \in l1[i] : y <= b
    BY <1>2, MaxExists
  <1> HIDE DEF b
  <1>4. j \in Nat /\ l2[j] # {} /\ l2[j] \subseteq 0..(BLOCK_SIZE - 1)
    BY <1>1, <1>3, WordsNotZero DEF Bits
  <1>5. P \in occupied
    <2>1. d \in l2[j]
      BY <1>4, MaxExists
    <2> QED
      BY <1>1, <1>3, <2>1, PathOccupied
  <1>6. d \in l2[j] /\ \A y \in l2[j] : y <= d
    BY <1>4, MaxExists
  <1> HIDE DEF d
  <1>7. ASSUME NEW q \in occupied
        PROVE  q <= P
    <2> DEFINE k == WordOf(q)
               h == WordOf(k)
    <2>1. /\ k \in Nat /\ h \in Nat /\ h \in l0
          /\ BitOf(q) \in l2[k] /\ BitOf(k) \in l1[h]
          /\ BitOf(q) \in 0..(BLOCK_SIZE - 1) /\ BitOf(k) \in 0..(BLOCK_SIZE - 1)
          /\ q = BLOCK_SIZE * k + BitOf(q) /\ k = BLOCK_SIZE * h + BitOf(k)
      BY OccupiedPath DEF Bits
    <2> HIDE DEF k, h
    <2>2. h <= i /\ (h = i => BitOf(k) <= b)
      BY <1>1, <1>3, <2>1
    <2>3. BLOCK_SIZE * h + BitOf(k) <= j
      BY <1>2, <1>3, <2>1, <2>2, Lexicographic
    <2>4. k <= j /\ (k = j => BitOf(q) <= d)
      BY <1>6, <2>1, <2>3
    <2>5. BLOCK_SIZE * k + BitOf(q) <= P
      <3> HIDE DEF j
      <3> QED
        BY <1>4, <1>6, <2>1, <2>4, Lexicographic
    <2> QED
      BY <2>1, <2>5
  <1> HIDE DEF P
  <1>8. Max(occupied) = P
    <2>1. occupied \subseteq Int
      BY DEF occupied, Prices
    <2> QED
      BY <2>1, <1>5, <1>7, MaxUnique
  <1> QED
    BY <1>5, <1>8 DEF find_highest, P, d, j, b, i

\* Three lookups guided by the least bit lead to the least price.
LEMMA LowestIsMin ==
    ASSUME Inv, l0 # {}
    PROVE  occupied # {} /\ find_lowest = Min(occupied)
  <1> DEFINE i == Min(l0)
             b == Min(l1[i])
             j == BLOCK_SIZE * i + b
             d == Min(l2[j])
             P == BLOCK_SIZE * j + d
  <1> USE Sizes
  <1>1. i \in l0 /\ \A y \in l0 : i <= y
    <2>1. l0 \subseteq Nat
      BY DEF Inv, TypeOK
    <2> QED
      BY <2>1, MinExists
  <1> HIDE DEF i
  <1>2. i \in Nat /\ l1[i] # {} /\ l1[i] \subseteq 0..(BLOCK_SIZE - 1)
    BY <1>1, WordsNotZero DEF Bits
  <1>3. b \in l1[i] /\ \A y \in l1[i] : b <= y
    BY <1>2, MinExists
  <1> HIDE DEF b
  <1>4. j \in Nat /\ l2[j] # {} /\ l2[j] \subseteq 0..(BLOCK_SIZE - 1)
    BY <1>1, <1>3, WordsNotZero DEF Bits
  <1>5. d \in l2[j] /\ \A y \in l2[j] : d <= y
    BY <1>4, MinExists
  <1>6. P \in occupied
    BY <1>1, <1>3, <1>5, PathOccupied
  <1> HIDE DEF d
  <1>7. ASSUME NEW q \in occupied
        PROVE  P <= q
    <2> DEFINE k == WordOf(q)
               h == WordOf(k)
    <2>1. /\ k \in Nat /\ h \in Nat /\ h \in l0
          /\ BitOf(q) \in l2[k] /\ BitOf(k) \in l1[h]
          /\ BitOf(q) \in 0..(BLOCK_SIZE - 1) /\ BitOf(k) \in 0..(BLOCK_SIZE - 1)
          /\ q = BLOCK_SIZE * k + BitOf(q) /\ k = BLOCK_SIZE * h + BitOf(k)
      BY OccupiedPath DEF Bits
    <2> HIDE DEF k, h
    <2>2. i <= h /\ (i = h => b <= BitOf(k))
      BY <1>1, <1>3, <2>1
    <2>3. j <= BLOCK_SIZE * h + BitOf(k)
      BY <1>2, <1>3, <2>1, <2>2, Lexicographic
    <2>4. j <= k /\ (j = k => d <= BitOf(q))
      BY <1>5, <2>1, <2>3
    <2>5. P <= BLOCK_SIZE * k + BitOf(q)
      <3> HIDE DEF j
      <3> QED
        BY <1>4, <1>5, <2>1, <2>4, Lexicographic
    <2> QED
      BY <2>1, <2>5
  <1> HIDE DEF P
  <1>8. Min(occupied) = P
    <2>1. occupied \subseteq Int
      BY DEF occupied, Prices
    <2> QED
      BY <2>1, <1>6, <1>7, MinUnique
  <1> QED
    BY <1>6, <1>8 DEF find_lowest, ctzll, P, d, j, b, i

\* find_highest() and find_lowest() return the extreme occupied prices, for
\* every word size and every ladder three levels can hold.
THEOREM LookupsExact == Spec => []FindExact
  <1>1. Inv => FindExact
    <2> SUFFICES ASSUME Inv PROVE FindExact
      OBVIOUS
    <2>1. CASE l0 = {}
      <3>1. occupied = {}
        BY <2>1, OccupiedPath
      <3> QED
        BY <2>1, <3>1 DEF FindExact, empty, find_highest, find_lowest, ctzll
    <2>2. CASE l0 # {}
      BY <2>2, HighestIsMax, LowestIsMin DEF FindExact, empty
    <2> QED
      BY <2>1, <2>2
  <1> QED
    BY <1>1, SummaryExact, PTL DEF Inv

\* The bitset is a set of prices: set() adds its price, clear() removes it and
\* clear_all() removes them all; no other price appears or disappears.
THEOREM ImplementsPriceSet == Spec => PriceSetSpec
  <1> USE Sizes
  <1>1. Init => Abstract!Init
    BY PricePlace DEF Init, Abstract!Init, occupied, test
  <1>2. Inv /\ [Next]_vars => [Abstract!Next]_occupied
    <2> SUFFICES ASSUME Inv, [Next]_vars
                 PROVE  Abstract!Next \/ UNCHANGED occupied
      OBVIOUS
    <2>1. CASE clear_all
      <3>1. \A q \in Prices : l2'[WordOf(q)] = {}
        BY <2>1, PricePlace DEF clear_all, Inv, TypeOK
      <3>2. occupied' = {}
        BY <3>1 DEF occupied, test
      <3> QED
        BY <3>2 DEF Abstract!Next, Abstract!Clear
    <2>2. ASSUME NEW p \in Prices, set(p)
          PROVE  Abstract!Insert(p)
      <3>1. ASSUME NEW q \in Prices
            PROVE  BitOf(q) \in l2'[WordOf(q)] <=> q = p \/ BitOf(q) \in l2[WordOf(q)]
        <4>1. /\ WordOf(p) \in 0..(L2_BLOCKS - 1) /\ WordOf(q) \in 0..(L2_BLOCKS - 1)
              /\ p \in Nat /\ q \in Nat
          BY PricePlace DEF Prices
        <4>2. q = p \/ WordOf(q) # WordOf(p) \/ BitOf(q) # BitOf(p)
          BY <4>1, PlaceInjective
        <4>3. l2' = [l2 EXCEPT ![WordOf(p)] = @ \cup {BitOf(p)}]
          BY <2>2 DEF set
        <4> QED
          BY <4>1, <4>2, <4>3 DEF Inv, TypeOK
      <3> QED
        BY <3>1 DEF Abstract!Insert, occupied, test
    <2>3. ASSUME NEW p \in Prices, clear(p)
          PROVE  Abstract!Remove(p)
      <3>1. ASSUME NEW q \in Prices
            PROVE  BitOf(q) \in l2'[WordOf(q)] <=> q # p /\ BitOf(q) \in l2[WordOf(q)]
        <4>1. /\ WordOf(p) \in 0..(L2_BLOCKS - 1) /\ WordOf(q) \in 0..(L2_BLOCKS - 1)
              /\ p \in Nat /\ q \in Nat
          BY PricePlace DEF Prices
        <4>2. q = p \/ WordOf(q) # WordOf(p) \/ BitOf(q) # BitOf(p)
          BY <4>1, PlaceInjective
        <4>3. l2' = [l2 EXCEPT ![WordOf(p)] = @ \ {BitOf(p)}]
          BY <2>3 DEF clear, Without, Emptied
        <4> QED
          BY <4>1, <4>2, <4>3 DEF Inv, TypeOK
      <3> QED
        BY <3>1 DEF Abstract!Remove, occupied, test
    <2>4. CASE UNCHANGED vars
      BY <2>4 DEF vars, occupied, test
    <2> QED
      BY <2>1, <2>2, <2>3, <2>4 DEF Next, Abstract!Next
  <1> QED
    BY <1>1, <1>2, SummaryExact, PTL DEF Spec, Inv, PriceSetSpec, Abstract!Spec
=============================================================================
