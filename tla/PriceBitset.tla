---------------------------- MODULE PriceBitset -----------------------------
(***************************************************************************)
(* The three-level bitset of src/engine/price_bitset.h.  A word is the set *)
(* of the positions of its one bits, so `|=' is a union with one bit,      *)
(* `&= ~' a difference, `== 0' the empty set, 63 - clzll the maximum and   *)
(* ctzll the minimum.  BLOCK_SIZE is 64 in the code.                       *)
(***************************************************************************)
EXTENDS Integers, FiniteSets, FiniteSetsExt

CONSTANTS
    BLOCK_SIZE,     \* bits in a word
    MAX_PRICES      \* prices are 0..MAX_PRICES-1

L2_BLOCKS == (MAX_PRICES + BLOCK_SIZE - 1) \div BLOCK_SIZE
L1_BLOCKS == (L2_BLOCKS + BLOCK_SIZE - 1) \div BLOCK_SIZE

ASSUME BlockAssumption == BLOCK_SIZE \in Nat \ {0}
ASSUME PricesAssumption == MAX_PRICES \in Nat \ {0}
\* The words of level 1 fit into the bits of the one word of level 0.
ASSUME LevelsAssumption == L1_BLOCKS <= BLOCK_SIZE

VARIABLES l0, l1, l2

vars == <<l0, l1, l2>>

Prices == 0..(MAX_PRICES - 1)
Bits   == 0..(BLOCK_SIZE - 1)

\* Where the bit of position i of one level is: the word and the bit in it.
WordOf(i) == i \div BLOCK_SIZE

BitOf(i) == i % BLOCK_SIZE

nullopt == -1
-----------------------------------------------------------------------------
Init ==
    /\ l0 = {}
    /\ l1 = [i \in 0..(L1_BLOCKS - 1) |-> {}]
    /\ l2 = [j \in 0..(L2_BLOCKS - 1) |-> {}]

\* set()
set(p) ==
    LET l2_idx == WordOf(p)
        l1_idx == WordOf(l2_idx)
    IN  /\ l2' = [l2 EXCEPT ![l2_idx] = @ \cup {BitOf(p)}]
        /\ l1' = [l1 EXCEPT ![l1_idx] = @ \cup {BitOf(l2_idx)}]
        /\ l0' = l0 \cup {l1_idx}

\* Mutant: an empty word is cleared as a whole instead of one bit of it.
WithoutAll(word, b) == {}

Without(word, b) == word \ {b}

\* Mutant: the parent bits are cleared with every child bit.
EmptiedAlways(word) == TRUE

Emptied(word) == word = {}

clear(p) ==
    LET l2_idx == WordOf(p)
        l1_idx == WordOf(l2_idx)
    IN  /\ l2' = [l2 EXCEPT ![l2_idx] = Without(@, BitOf(p))]
        /\ l1' = IF Emptied(l2'[l2_idx])
                 THEN [l1 EXCEPT ![l1_idx] = @ \ {BitOf(l2_idx)}]
                 ELSE l1
        /\ l0' = IF Emptied(l2'[l2_idx]) /\ Emptied(l1'[l1_idx])
                 THEN l0 \ {l1_idx}
                 ELSE l0

clear_all ==
    /\ l0' = {}
    /\ l1' = [i \in DOMAIN l1 |-> {}]
    /\ l2' = [j \in DOMAIN l2 |-> {}]

Next == clear_all \/ \E p \in Prices : set(p) \/ clear(p)

Spec == Init /\ [][Next]_vars
-----------------------------------------------------------------------------
test(p) == BitOf(p) \in l2[WordOf(p)]

empty == l0 = {}

\* Three lookups, each guided by the extreme bit of the level above.
find_highest ==
    IF l0 = {} THEN nullopt
    ELSE LET l1_idx == Max(l0)
             l2_idx == BLOCK_SIZE * l1_idx + Max(l1[l1_idx])
         IN  BLOCK_SIZE * l2_idx + Max(l2[l2_idx])

\* Mutant: the bits are counted from the other end.
ctzll_WrongEnd(word) == Max(word)

ctzll(word) == Min(word)

find_lowest ==
    IF l0 = {} THEN nullopt
    ELSE LET l1_idx == ctzll(l0)
             l2_idx == BLOCK_SIZE * l1_idx + ctzll(l1[l1_idx])
         IN  BLOCK_SIZE * l2_idx + ctzll(l2[l2_idx])
-----------------------------------------------------------------------------
\* Every word is a set of bits of a word, on all three levels of the bitset.
TypeOK ==
    /\ l0 \subseteq 0..(L1_BLOCKS - 1)
    /\ l1 \in [0..(L1_BLOCKS - 1) -> SUBSET Bits]
    /\ l2 \in [0..(L2_BLOCKS - 1) -> SUBSET Bits]

\* "A parent bit being 1 means at least one child bit is still set", and the
\* other way round: a summary bit is set exactly when its word is not zero.
\* find_highest() and find_lowest() call clzll and ctzll, which are undefined
\* for zero, on words that the level above says are not zero.  No bit is set
\* beyond the last word or the last price.
SummaryInv ==
    /\ \A j \in DOMAIN l2 : BitOf(j) \in l1[WordOf(j)] <=> l2[j] # {}
    /\ \A i \in DOMAIN l1 : i \in l0 <=> l1[i] # {}
    /\ \A i \in DOMAIN l1 : \A b \in l1[i] : BLOCK_SIZE * i + b \in DOMAIN l2
    /\ \A j \in DOMAIN l2 : \A b \in l2[j] : BLOCK_SIZE * j + b \in Prices

occupied == {p \in Prices : test(p)}

\* The three fixed-depth lookups of find_highest() and find_lowest() return
\* the extreme occupied prices, and empty() the absence of any.
FindExact ==
    /\ empty <=> occupied = {}
    /\ find_highest = IF occupied = {} THEN nullopt ELSE Max(occupied)
    /\ find_lowest = IF occupied = {} THEN nullopt ELSE Min(occupied)

\* A step adds one price to the occupied ones, takes one away or takes all of
\* them away, as the order book expects of set(), clear() and clear_all() of
\* its index.
Abstract == INSTANCE PriceSet WITH prices <- occupied
PriceSetSpec == Abstract!Spec
=============================================================================
