----------------------------- MODULE PriceBitset -----------------------------
(***************************************************************************)
(* src/core/price_bitset.h: the three-tier occupancy bitset over the price *)
(* range.  A word is the set of its bit positions that are 1.  The code    *)
(* has WordBits = 64 (i >> 6, i & 63) and PRICE_LEVELS = 1,000,000; here   *)
(* both are parameters, so that a small instance has several words in      *)
(* every tier.                                                             *)
(***************************************************************************)
EXTENDS Integers, FiniteSetsExt

CONSTANTS WordBits, PRICE_LEVELS

ASSUME WordBitsAssumption == WordBits \in Nat \ {0}
ASSUME LevelsAssumption == PRICE_LEVELS \in Nat \ {0}

VARIABLES l0,   \* one bit per price level
          l1,   \* one bit per word of l0
          l2    \* one bit per word of l1

vars == <<l0, l1, l2>>

WordsFor(n) == (n + WordBits - 1) \div WordBits
L0_WORDS == WordsFor(PRICE_LEVELS)
L1_WORDS == WordsFor(L0_WORDS)
L2_WORDS == WordsFor(L1_WORDS)

Index == 0 .. PRICE_LEVELS - 1
Word  == SUBSET (0 .. WordBits - 1)
W(i) == i \div WordBits      \* i >> 6: the word a bit is in
B(i) == i % WordBits         \* i & 63: its position there
NONE == -1                   \* numeric_limits<size_t>::max()

Init == /\ l0 = [w \in 0 .. L0_WORDS - 1 |-> {}]
        /\ l1 = [w \in 0 .. L1_WORDS - 1 |-> {}]
        /\ l2 = [w \in 0 .. L2_WORDS - 1 |-> {}]

-----------------------------------------------------------------------------
set(i) ==
  LET w0 == W(i)
      w1 == W(w0)
  IN  /\ l0' = [l0 EXCEPT ![w0] = @ \cup {B(i)}]
      /\ l1' = [l1 EXCEPT ![w1] = @ \cup {B(w0)}]
      /\ l2' = [l2 EXCEPT ![W(w1)] = @ \cup {B(w1)}]

\* Variant of clear that drops the summary bit of a word still occupied.
clear_eager(i) ==
  LET w0 == W(i)
      w1 == W(w0)
      left1 == l1[w1] \ {B(w0)}
  IN  /\ l0' = [l0 EXCEPT ![w0] = @ \ {B(i)}]
      /\ l1' = [l1 EXCEPT ![w1] = left1]
      /\ l2' = IF left1 # {} THEN l2 ELSE [l2 EXCEPT ![W(w1)] = @ \ {B(w1)}]

\* A tier is touched only if the word below it became zero.
clear(i) ==
  LET w0 == W(i)
      w1 == W(w0)
      left0 == l0[w0] \ {B(i)}
      left1 == l1[w1] \ {B(w0)}
  IN  /\ l0' = [l0 EXCEPT ![w0] = left0]
      /\ l1' = IF left0 # {} THEN l1 ELSE [l1 EXCEPT ![w1] = left1]
      /\ l2' = IF left0 # {} \/ left1 # {} THEN l2
               ELSE [l2 EXCEPT ![W(w1)] = @ \ {B(w1)}]

test(i) == B(i) \in l0[W(i)]

\* Variant of highest that starts the descent from the lowest tier-2 word.
highest_wrong_word ==
  LET busy == {w \in 0 .. L2_WORDS - 1 : l2[w] # {}}
      w2 == Min(busy)
      w1 == w2 * WordBits + Max(l2[w2])
      w0 == w1 * WordBits + Max(l1[w1])
  IN  IF busy = {} THEN NONE ELSE w0 * WordBits + Max(l0[w0])

\* The loop over the tier-2 words stops at the last one that is non-zero;
\* Max is top_bit.
highest ==
  LET busy == {w \in 0 .. L2_WORDS - 1 : l2[w] # {}}
      w2 == Max(busy)
      w1 == w2 * WordBits + Max(l2[w2])
      w0 == w1 * WordBits + Max(l1[w1])
  IN  IF busy = {} THEN NONE ELSE w0 * WordBits + Max(l0[w0])

\* Variant of lowest that takes the top bit of the last word it reaches.
lowest_top_bit ==
  LET busy == {w \in 0 .. L2_WORDS - 1 : l2[w] # {}}
      w2 == Min(busy)
      w1 == w2 * WordBits + Min(l2[w2])
      w0 == w1 * WordBits + Min(l1[w1])
  IN  IF busy = {} THEN NONE ELSE w0 * WordBits + Max(l0[w0])

\* The loop stops at the first non-zero tier-2 word; Min is __builtin_ctzll.
lowest ==
  LET busy == {w \in 0 .. L2_WORDS - 1 : l2[w] # {}}
      w2 == Min(busy)
      w1 == w2 * WordBits + Min(l2[w2])
      w0 == w1 * WordBits + Min(l1[w1])
  IN  IF busy = {} THEN NONE ELSE w0 * WordBits + Min(l0[w0])

Next == \E i \in Index : set(i) \/ clear(i)

Spec == Init /\ [][Next]_vars

-----------------------------------------------------------------------------
\* Every tier is an array of words of WordBits bits.
TypeOK == /\ l0 \in [0 .. L0_WORDS - 1 -> Word]
          /\ l1 \in [0 .. L1_WORDS - 1 -> Word]
          /\ l2 \in [0 .. L2_WORDS - 1 -> Word]

\* price_bitset.h:16: an L1 bit is set iff its L0 word is non-zero; likewise
\* L2 over L1.  No bit past the last word of a tier is ever set.
TiersExact ==
  /\ \A w \in 0 .. L1_WORDS - 1, b \in 0 .. WordBits - 1 :
       b \in l1[w] <=> /\ w * WordBits + b < L0_WORDS
                       /\ l0[w * WordBits + b] # {}
  /\ \A w \in 0 .. L2_WORDS - 1, b \in 0 .. WordBits - 1 :
       b \in l2[w] <=> /\ w * WordBits + b < L1_WORDS
                       /\ l1[w * WordBits + b] # {}

\* The price levels marked occupied, read bit by bit.
Occupied == {i \in Index : test(i)}

\* The constant-time descent finds what a scan over every price would find:
\* the highest occupied level, or NONE exactly when there is none.
HighestExact ==
  highest = IF Occupied = {} THEN NONE ELSE Max(Occupied)

\* Likewise for the lowest occupied level.
LowestExact ==
  lowest = IF Occupied = {} THEN NONE ELSE Min(Occupied)
=============================================================================
