------------------------- MODULE PriceBitset_proofs -------------------------
(***************************************************************************)
(* Proofs about PriceBitset for every word width and number of levels.     *)
(***************************************************************************)
EXTENDS PriceBitset, DataLemmas

-----------------------------------------------------------------------------
(* Arithmetic of words and bit positions. *)

\* The word and the position of an index determine it.
LEMMA Split ==
  ASSUME NEW i \in Nat
  PROVE  /\ W(i) \in Nat /\ B(i) \in 0 .. WordBits - 1
         /\ i = W(i) * WordBits + B(i)
BY WordBitsAssumption DEF W, B

\* Every word and position are those of some index.
LEMMA Join ==
  ASSUME NEW w \in Nat, NEW b \in 0 .. WordBits - 1
  PROVE  /\ w * WordBits + b \in Nat
         /\ W(w * WordBits + b) = w
         /\ B(w * WordBits + b) = b
<1> DEFINE i == w * WordBits + b
<1>1. i \in Nat
  BY WordBitsAssumption
<1>2. /\ W(i) \in Nat /\ B(i) \in 0 .. WordBits - 1
      /\ i = W(i) * WordBits + B(i)
  BY <1>1, Split
<1>3. W(i) = w
  <2>1. CASE W(i) < w
    <3>1. w - W(i) >= 1
      BY <2>1, <1>2
    <3>2. (w - W(i)) * WordBits >= WordBits
      BY <3>1, <1>2, WordBitsAssumption
    <3>3. QED
      BY <3>2, <1>2, WordBitsAssumption
  <2>2. CASE W(i) > w
    <3>1. W(i) - w >= 1
      BY <2>2, <1>2
    <3>2. (W(i) - w) * WordBits >= WordBits
      BY <3>1, <1>2, WordBitsAssumption
    <3>3. QED
      BY <3>2, <1>2, WordBitsAssumption
  <2>3. QED
    BY <2>1, <2>2, <1>2
<1>4. QED
  BY <1>1, <1>2, <1>3, WordBitsAssumption

\* The tier above n words has a word for each of them.
LEMMA WordInRange ==
  ASSUME NEW n \in Nat, NEW i \in 0 .. n - 1
  PROVE  W(i) \in 0 .. WordsFor(n) - 1
<1>1. /\ W(i) \in Nat /\ B(i) \in 0 .. WordBits - 1
      /\ i = W(i) * WordBits + B(i)
  BY Split
<1>2. WordsFor(n) = W(n + WordBits - 1)
  BY DEF WordsFor, W
<1>3. n + WordBits - 1 \in Nat
  BY WordBitsAssumption
<1>4. /\ WordsFor(n) \in Nat /\ B(n + WordBits - 1) \in 0 .. WordBits - 1
      /\ n + WordBits - 1 = WordsFor(n) * WordBits + B(n + WordBits - 1)
  BY <1>2, <1>3, Split
<1>5. WordsFor(n) > W(i)
  <2>1. SUFFICES ASSUME W(i) >= WordsFor(n) PROVE FALSE
    BY <1>1, <1>4
  <2>2. (W(i) - WordsFor(n)) * WordBits >= 0
    BY <2>1, <1>1, <1>4, WordBitsAssumption
  <2>3. QED
    BY <2>2, <1>1, <1>4, WordBitsAssumption
<1>6. QED
  BY <1>1, <1>4, <1>5
-----------------------------------------------------------------------------
(* One tier over another. *)

\* The words of upper mark exactly the n words of lower that are not zero.
Summary(upper, lower, n) ==
  \A w \in 0 .. WordsFor(n) - 1, b \in 0 .. WordBits - 1 :
    b \in upper[w] <=> /\ w * WordBits + b < n
                       /\ lower[w * WordBits + b] # {}

\* Writing a word of lower and the bit for it in upper keeps the summary.
LEMMA SummaryStep ==
  ASSUME NEW n \in Nat,
         NEW lower \in [0 .. n - 1 -> Word],
         NEW upper \in [0 .. WordsFor(n) - 1 -> Word],
         Summary(upper, lower, n),
         NEW j \in 0 .. n - 1, NEW X \in Word, NEW Y \in Word,
         \A b \in 0 .. WordBits - 1 :
           b \in Y <=> IF b = B(j) THEN X # {} ELSE b \in upper[W(j)]
  PROVE  Summary([upper EXCEPT ![W(j)] = Y], [lower EXCEPT ![j] = X], n)
<1> DEFINE up == [upper EXCEPT ![W(j)] = Y]
           lo == [lower EXCEPT ![j] = X]
<1>1. SUFFICES ASSUME NEW w \in 0 .. WordsFor(n) - 1,
                      NEW b \in 0 .. WordBits - 1
               PROVE  b \in up[w] <=> /\ w * WordBits + b < n
                                      /\ lo[w * WordBits + b] # {}
  BY DEF Summary
<1> DEFINE k == w * WordBits + b
<1>2. w \in Nat /\ k \in Nat /\ W(k) = w /\ B(k) = b
  <2>1. w \in Nat
    OBVIOUS
  <2>2. QED
    BY <2>1, Join
<1>3. j \in Nat /\ W(j) \in 0 .. WordsFor(n) - 1
  BY WordInRange
<1>4. b \in upper[w] <=> k < n /\ lower[k] # {}
  BY DEF Summary
<1>5. CASE k = j
  <2>1. w = W(j) /\ b = B(j)
    BY <1>2, <1>5
  <2>2. up[w] = Y /\ lo[k] = X /\ k < n
    BY <2>1, <1>3, <1>5
  <2>3. QED
    BY <2>1, <2>2
<1>6. CASE k # j
  <2>1. k < n => lo[k] = lower[k]
    BY <1>2, <1>6
  <2>2. CASE w = W(j)
    <3>1. b # B(j)
      <4>1. SUFFICES ASSUME b = B(j) PROVE k = j
        BY <1>6
      <4>2. j = W(j) * WordBits + B(j)
        BY <1>3, Split
      <4>3. QED
        BY <4>1, <4>2, <2>2
    <3>2. up[w] = Y
      BY <1>3, <2>2
    <3>3. QED
      BY <3>1, <3>2, <2>1, <2>2, <1>4
  <2>3. CASE w # W(j)
    <3>1. up[w] = upper[w]
      BY <2>3, <1>3
    <3>2. QED
      BY <3>1, <2>1, <1>4
  <2>4. QED
    BY <2>2, <2>3
<1>7. QED
  BY <1>5, <1>6

-----------------------------------------------------------------------------
(***************************************************************************)
(* The inductive invariant: no bit past the last price level is set, and   *)
(* each tier summarises the one below.                                     *)
(***************************************************************************)
InRange == \A w \in 0 .. L0_WORDS - 1 : \A b \in l0[w] :
             w * WordBits + b < PRICE_LEVELS

IInv == /\ TypeOK /\ InRange
        /\ Summary(l1, l0, L0_WORDS) /\ Summary(l2, l1, L1_WORDS)

\* The tiers have as many words as they need.
LEMMA TierSizes ==
  /\ L0_WORDS \in Nat /\ L1_WORDS \in Nat /\ L2_WORDS \in Nat
  /\ L1_WORDS = WordsFor(L0_WORDS) /\ L2_WORDS = WordsFor(L1_WORDS)
<1>1. \A n \in Nat : WordsFor(n) \in Nat
  BY WordBitsAssumption DEF WordsFor
<1>2. L0_WORDS \in Nat
  BY <1>1, LevelsAssumption DEF L0_WORDS
<1>3. L1_WORDS \in Nat
  BY <1>1, <1>2 DEF L1_WORDS
<1>4. L2_WORDS \in Nat
  BY <1>1, <1>3 DEF L2_WORDS
<1>5. QED
  BY <1>2, <1>3, <1>4 DEF L1_WORDS, L2_WORDS

\* The words that index i touches in the three tiers.
LEMMA Path ==
  ASSUME NEW i \in Index
  PROVE  /\ i \in Nat /\ W(i) \in 0 .. L0_WORDS - 1
         /\ W(W(i)) \in 0 .. L1_WORDS - 1
         /\ W(W(W(i))) \in 0 .. L2_WORDS - 1
         /\ B(i) \in 0 .. WordBits - 1 /\ B(W(i)) \in 0 .. WordBits - 1
         /\ B(W(W(i))) \in 0 .. WordBits - 1
<1>1. i \in 0 .. PRICE_LEVELS - 1 /\ PRICE_LEVELS \in Nat
  BY LevelsAssumption DEF Index
<1>2. W(i) \in 0 .. L0_WORDS - 1
  BY <1>1, WordInRange DEF L0_WORDS
<1>3. W(W(i)) \in 0 .. L1_WORDS - 1
  BY <1>2, TierSizes, WordInRange
<1>4. W(W(W(i))) \in 0 .. L2_WORDS - 1
  BY <1>3, TierSizes, WordInRange
<1>5. i \in Nat /\ W(i) \in Nat /\ W(W(i)) \in Nat
  BY <1>1, <1>2, <1>3
<1>6. QED
  BY <1>2, <1>3, <1>4, <1>5, Split

\* All tiers start at zero.
LEMMA InitIInv == Init => IInv
<1>1. SUFFICES ASSUME Init PROVE IInv
  OBVIOUS
<1>2. TypeOK
  BY <1>1 DEF Init, TypeOK, Word
<1>3. InRange
  BY <1>1 DEF Init, InRange
<1>4. ASSUME NEW n \in Nat, NEW lower, NEW upper,
             lower = [w \in 0 .. n - 1 |-> {}],
             upper = [w \in 0 .. WordsFor(n) - 1 |-> {}]
      PROVE  Summary(upper, lower, n)
  <2>1. SUFFICES ASSUME NEW w \in 0 .. WordsFor(n) - 1,
                        NEW b \in 0 .. WordBits - 1
                 PROVE  b \in upper[w] <=> /\ w * WordBits + b < n
                                           /\ lower[w * WordBits + b] # {}
    BY DEF Summary
  <2>2. w * WordBits + b \in Nat
    <3>1. w \in Nat
      OBVIOUS
    <3>2. QED
      BY <3>1, Join
  <2>3. QED
    BY <1>4, <2>2
<1>5. QED
  BY <1>1, <1>2, <1>3, <1>4, TierSizes DEF Init, IInv

\* What a summary says of one word of the tier below.
LEMMA SummaryAt ==
  ASSUME NEW n \in Nat, NEW lower, NEW upper, Summary(upper, lower, n),
         NEW j \in 0 .. n - 1
  PROVE  B(j) \in upper[W(j)] <=> lower[j] # {}
<1>1. W(j) \in 0 .. WordsFor(n) - 1
  BY WordInRange
<1>2. B(j) \in 0 .. WordBits - 1 /\ j = W(j) * WordBits + B(j)
  <2>1. j \in Nat
    OBVIOUS
  <2>2. QED
    BY <2>1, Split
<1>3. QED
  BY <1>1, <1>2 DEF Summary

\* set preserves the invariant.
LEMMA SetIInv == ASSUME IInv, NEW i \in Index, set(i) PROVE IInv'
<1> DEFINE w0 == W(i)
           w1 == W(w0)
           w2 == W(w1)
           X0 == l0[w0] \cup {B(i)}
           Y1 == l1[w1] \cup {B(w0)}
           Y2 == l2[w2] \cup {B(w1)}
<1>1. /\ i \in Nat /\ w0 \in 0 .. L0_WORDS - 1 /\ w1 \in 0 .. L1_WORDS - 1
      /\ w2 \in 0 .. L2_WORDS - 1
      /\ B(i) \in 0 .. WordBits - 1 /\ B(w0) \in 0 .. WordBits - 1
      /\ B(w1) \in 0 .. WordBits - 1
  BY Path
<1>2. /\ l0' = [l0 EXCEPT ![w0] = X0] /\ l1' = [l1 EXCEPT ![w1] = Y1]
      /\ l2' = [l2 EXCEPT ![w2] = Y2]
  BY DEF set
<1>3. /\ l0 \in [0 .. L0_WORDS - 1 -> Word] /\ l1 \in [0 .. L1_WORDS - 1 -> Word]
      /\ l2 \in [0 .. L2_WORDS - 1 -> Word]
      /\ Summary(l1, l0, L0_WORDS) /\ Summary(l2, l1, L1_WORDS)
  BY DEF IInv, TypeOK
<1>4. X0 \in Word /\ Y1 \in Word /\ Y2 \in Word /\ X0 # {} /\ Y1 # {}
  BY <1>1, <1>3 DEF Word
<1> HIDE DEF w0, w1, w2
<1>5. TypeOK'
  BY <1>2, <1>3, <1>4 DEF TypeOK
<1>6. InRange'
  <2>1. SUFFICES ASSUME NEW w \in 0 .. L0_WORDS - 1, NEW b \in l0'[w]
                 PROVE  w * WordBits + b < PRICE_LEVELS
    BY DEF InRange
  <2>2. CASE b \in l0[w]
    BY <2>2 DEF IInv, InRange
  <2>3. CASE b \notin l0[w]
    <3>1. w = w0 /\ b = B(i)
      BY <2>3, <1>1, <1>2, <1>3
    <3>2. i = w * WordBits + b
      BY <3>1, <1>1, Split DEF w0
    <3>3. QED
      BY <3>2, LevelsAssumption DEF Index
  <2>4. QED
    BY <2>2, <2>3
<1>7. Summary(l1', l0', L0_WORDS)
  <2>1. w1 = W(w0)
    BY DEF w1
  <2>2. \A b \in 0 .. WordBits - 1 :
          b \in Y1 <=> IF b = B(w0) THEN X0 # {} ELSE b \in l1[W(w0)]
    BY <1>4, <2>1
  <2>3. Summary([l1 EXCEPT ![W(w0)] = Y1], [l0 EXCEPT ![w0] = X0], L0_WORDS)
    <3> HIDE DEF X0, Y1
    <3>1. QED
      BY <1>1, <1>3, <1>4, <2>2, TierSizes, SummaryStep
  <2>4. QED
    BY <2>1, <2>3, <1>2
<1>8. Summary(l2', l1', L1_WORDS)
  <2>1. w2 = W(w1)
    BY DEF w2
  <2>2. \A b \in 0 .. WordBits - 1 :
          b \in Y2 <=> IF b = B(w1) THEN Y1 # {} ELSE b \in l2[W(w1)]
    BY <1>4, <2>1
  <2>3. Summary([l2 EXCEPT ![W(w1)] = Y2], [l1 EXCEPT ![w1] = Y1], L1_WORDS)
    <3> HIDE DEF Y1, Y2
    <3>1. QED
      BY <1>1, <1>3, <1>4, <2>2, TierSizes, SummaryStep
  <2>4. QED
    BY <2>1, <2>3, <1>2
<1>9. QED
  BY <1>5, <1>6, <1>7, <1>8 DEF IInv

\* clear preserves the invariant.  The early returns leave a summary alone
\* exactly when the word below keeps a bit.
LEMMA ClearIInv == ASSUME IInv, NEW i \in Index, clear(i) PROVE IInv'
<1> DEFINE w0 == W(i)
           w1 == W(w0)
           w2 == W(w1)
           X0 == l0[w0] \ {B(i)}
           left1 == l1[w1] \ {B(w0)}
           Y1 == IF X0 # {} THEN l1[w1] ELSE left1
           Y2 == IF X0 # {} \/ left1 # {} THEN l2[w2] ELSE l2[w2] \ {B(w1)}
<1>1. /\ i \in Nat /\ w0 \in 0 .. L0_WORDS - 1 /\ w1 \in 0 .. L1_WORDS - 1
      /\ w2 \in 0 .. L2_WORDS - 1
      /\ B(i) \in 0 .. WordBits - 1 /\ B(w0) \in 0 .. WordBits - 1
      /\ B(w1) \in 0 .. WordBits - 1
  BY Path
<1>2. /\ l0 \in [0 .. L0_WORDS - 1 -> Word] /\ l1 \in [0 .. L1_WORDS - 1 -> Word]
      /\ l2 \in [0 .. L2_WORDS - 1 -> Word]
      /\ Summary(l1, l0, L0_WORDS) /\ Summary(l2, l1, L1_WORDS)
  BY DEF IInv, TypeOK
<1>3. /\ l0' = [l0 EXCEPT ![w0] = X0]
      /\ l1' = IF X0 # {} THEN l1 ELSE [l1 EXCEPT ![w1] = left1]
      /\ l2' = IF X0 # {} \/ left1 # {} THEN l2
               ELSE [l2 EXCEPT ![w2] = l2[w2] \ {B(w1)}]
  BY DEF clear
<1>4. X0 \in Word /\ left1 \in Word /\ Y1 \in Word /\ Y2 \in Word
  BY <1>1, <1>2 DEF Word
<1>5. B(w0) \in l1[w1] <=> l0[w0] # {}
  BY <1>1, <1>2, TierSizes, SummaryAt
<1>6. B(w1) \in l2[w2] <=> l1[w1] # {}
  BY <1>1, <1>2, TierSizes, SummaryAt
<1> HIDE DEF w0, w1, w2
<1>7. l1' = [l1 EXCEPT ![w1] = Y1]
  BY <1>1, <1>2, <1>3
<1>8. l2' = [l2 EXCEPT ![w2] = Y2]
  BY <1>1, <1>2, <1>3
<1>9. TypeOK'
  BY <1>1, <1>2, <1>3, <1>4, <1>7, <1>8 DEF TypeOK
<1>10. InRange'
  <2>1. SUFFICES ASSUME NEW w \in 0 .. L0_WORDS - 1, NEW b \in l0'[w]
                 PROVE  w * WordBits + b < PRICE_LEVELS
    BY DEF InRange
  <2>2. b \in l0[w]
    BY <1>1, <1>2, <1>3
  <2>3. QED
    BY <2>2 DEF IInv, InRange
<1>11. Summary(l1', l0', L0_WORDS)
  <2>1. w1 = W(w0)
    BY DEF w1
  <2>2. \A b \in 0 .. WordBits - 1 :
          b \in Y1 <=> IF b = B(w0) THEN X0 # {} ELSE b \in l1[W(w0)]
    BY <1>5, <2>1
  <2>3. Summary([l1 EXCEPT ![W(w0)] = Y1], [l0 EXCEPT ![w0] = X0], L0_WORDS)
    <3> HIDE DEF X0, Y1
    <3>1. QED
      BY <1>1, <1>2, <1>4, <2>2, TierSizes, SummaryStep
  <2>4. QED
    BY <2>1, <2>3, <1>3, <1>7
<1>12. Summary(l2', l1', L1_WORDS)
  <2>1. w2 = W(w1)
    BY DEF w2
  <2>2. \A b \in 0 .. WordBits - 1 :
          b \in Y2 <=> IF b = B(w1) THEN Y1 # {} ELSE b \in l2[W(w1)]
    <3>1. CASE X0 # {}
      <4>1. Y1 # {}
        BY <3>1, <1>5
      <4>2. QED
        BY <3>1, <4>1, <1>6, <2>1
    <3>2. CASE X0 = {} /\ left1 # {}
      BY <3>2, <1>6, <2>1
    <3>3. CASE X0 = {} /\ left1 = {}
      BY <3>3, <2>1
    <3>4. QED
      BY <3>1, <3>2, <3>3
  <2>3. Summary([l2 EXCEPT ![W(w1)] = Y2], [l1 EXCEPT ![w1] = Y1], L1_WORDS)
    <3> HIDE DEF Y1, Y2
    <3>1. QED
      BY <1>1, <1>2, <1>4, <2>2, TierSizes, SummaryStep
  <2>4. QED
    BY <2>1, <2>3, <1>7, <1>8
<1>13. QED
  BY <1>9, <1>10, <1>11, <1>12 DEF IInv

\* The invariant holds in every reachable state, whatever the order of the
\* calls of set and clear.
THEOREM IInvHolds == Spec => []IInv
<1>1. IInv /\ [Next]_vars => IInv'
  <2>1. SUFFICES ASSUME IInv, [Next]_vars PROVE IInv'
    OBVIOUS
  <2>2. ASSUME NEW i \in Index, set(i) PROVE IInv'
    BY <2>1, <2>2, SetIInv
  <2>3. ASSUME NEW i \in Index, clear(i) PROVE IInv'
    BY <2>1, <2>3, ClearIInv
  <2>4. CASE UNCHANGED vars
    BY <2>1, <2>4 DEF vars, IInv, TypeOK, InRange, Summary
  <2>5. QED
    BY <2>1, <2>2, <2>3, <2>4 DEF Next
<1>2. QED
  BY <1>1, InitIInv, PTL DEF Spec

\* Type correctness of price_bitset.h for every width and number of levels.
THEOREM TypeCorrect == Spec => []TypeOK
<1>1. IInv => TypeOK
  BY DEF IInv
<1>2. QED
  BY <1>1, IInvHolds, PTL

\* The invariant stated at price_bitset.h:16 holds after every set and clear.
THEOREM TiersAgree == Spec => []TiersExact
<1>1. IInv => TiersExact
  BY TierSizes DEF IInv, Summary, TiersExact
<1>2. QED
  BY <1>1, IInvHolds, PTL

-----------------------------------------------------------------------------
(* The two descents. *)

\* A word has a highest and a lowest bit.
LEMMA WordBounds ==
  ASSUME NEW x \in Word, x # {}
  PROVE  /\ Max(x) \in x /\ \A b \in x : Max(x) >= b
         /\ Min(x) \in x /\ \A b \in x : Min(x) <= b
<1>1. x \in SUBSET (0 .. WordBits - 1) /\ WordBits - 1 \in Nat
  BY WordBitsAssumption DEF Word
<1>2. x \in SUBSET Nat
  BY <1>1
<1>3. QED
  BY <1>1, <1>2, MinNat, MaxNat

\* One step down from the greatest word: no marked index lies above it.
LEMMA DescendMax ==
  ASSUME NEW u \in Nat, NEW x \in Word, x # {}, NEW a \in Nat,
         W(a) <= u, W(a) = u => B(a) \in x
  PROVE  a <= u * WordBits + Max(x)
<1>1. /\ W(a) \in Nat /\ B(a) \in 0 .. WordBits - 1
      /\ a = W(a) * WordBits + B(a)
  BY Split
<1>2. Max(x) \in 0 .. WordBits - 1 /\ \A b \in x : Max(x) >= b
  BY WordBounds DEF Word
<1>3. CASE W(a) = u
  BY <1>1, <1>2, <1>3, WordBitsAssumption
<1>4. CASE W(a) < u
  <2>1. u - W(a) >= 1
    BY <1>1, <1>4
  <2>2. (u - W(a)) * WordBits >= WordBits
    BY <2>1, <1>1, WordBitsAssumption
  <2>3. QED
    BY <2>2, <1>1, <1>2, WordBitsAssumption
<1>5. QED
  BY <1>1, <1>3, <1>4

\* One step down from the least word: no marked index lies below it.
LEMMA DescendMin ==
  ASSUME NEW u \in Nat, NEW x \in Word, x # {}, NEW a \in Nat,
         W(a) >= u, W(a) = u => B(a) \in x
  PROVE  u * WordBits + Min(x) <= a
<1>1. /\ W(a) \in Nat /\ B(a) \in 0 .. WordBits - 1
      /\ a = W(a) * WordBits + B(a)
  BY Split
<1>2. Min(x) \in 0 .. WordBits - 1 /\ \A b \in x : Min(x) <= b
  BY WordBounds DEF Word
<1>3. CASE W(a) = u
  BY <1>1, <1>2, <1>3, WordBitsAssumption
<1>4. CASE W(a) > u
  <2>1. W(a) - u >= 1
    BY <1>1, <1>4
  <2>2. (W(a) - u) * WordBits >= WordBits
    BY <2>1, <1>1, WordBitsAssumption
  <2>3. QED
    BY <2>2, <1>1, <1>2, WordBitsAssumption
<1>5. QED
  BY <1>1, <1>3, <1>4

\* The bit of an occupied level is marked in every tier.
LEMMA Marked ==
  ASSUME IInv, NEW j \in Occupied
  PROVE  /\ j \in Nat /\ W(j) \in Nat /\ W(W(j)) \in Nat
         /\ B(j) \in l0[W(j)] /\ B(W(j)) \in l1[W(W(j))]
         /\ B(W(W(j))) \in l2[W(W(W(j)))]
         /\ W(W(W(j))) \in {w \in 0 .. L2_WORDS - 1 : l2[w] # {}}
<1>1. j \in Index /\ B(j) \in l0[W(j)]
  BY DEF Occupied, test
<1>2. /\ j \in Nat /\ W(j) \in 0 .. L0_WORDS - 1
      /\ W(W(j)) \in 0 .. L1_WORDS - 1
      /\ W(W(W(j))) \in 0 .. L2_WORDS - 1
  BY <1>1, Path
<1>3. B(W(j)) \in l1[W(W(j))]
  <2>1. l0[W(j)] # {}
    BY <1>1
  <2>2. QED
    BY <2>1, <1>2, TierSizes, SummaryAt DEF IInv
<1>4. B(W(W(j))) \in l2[W(W(W(j)))]
  <2>1. l1[W(W(j))] # {}
    BY <1>3
  <2>2. QED
    BY <2>1, <1>2, TierSizes, SummaryAt DEF IInv
<1>5. QED
  BY <1>1, <1>2, <1>3, <1>4

\* A marked bit leads to a non-zero word of the tier below, or to a level.
LEMMA Below ==
  ASSUME IInv
  PROVE  /\ \A w \in 0 .. L2_WORDS - 1 : \A b \in l2[w] :
              /\ w * WordBits + b \in Nat
              /\ w * WordBits + b \in 0 .. L1_WORDS - 1
              /\ l1[w * WordBits + b] # {}
         /\ \A w \in 0 .. L1_WORDS - 1 : \A b \in l1[w] :
              /\ w * WordBits + b \in Nat
              /\ w * WordBits + b \in 0 .. L0_WORDS - 1
              /\ l0[w * WordBits + b] # {}
         /\ \A w \in 0 .. L0_WORDS - 1 : \A b \in l0[w] :
              w * WordBits + b \in Occupied
<1>1. /\ \A w \in 0 .. L0_WORDS - 1 : l0[w] \in Word
      /\ \A w \in 0 .. L1_WORDS - 1 : l1[w] \in Word
      /\ \A w \in 0 .. L2_WORDS - 1 : l2[w] \in Word
  BY DEF IInv, TypeOK
<1>2. \A w \in Nat, b \in 0 .. WordBits - 1 :
        /\ w * WordBits + b \in Nat
        /\ W(w * WordBits + b) = w /\ B(w * WordBits + b) = b
  BY Join
<1>3. ASSUME NEW w \in 0 .. L2_WORDS - 1, NEW b \in l2[w]
      PROVE  /\ w * WordBits + b \in Nat
             /\ w * WordBits + b \in 0 .. L1_WORDS - 1
             /\ l1[w * WordBits + b] # {}
  <2>1. b \in 0 .. WordBits - 1 /\ w \in Nat
    BY <1>1 DEF Word
  <2>2. w * WordBits + b < L1_WORDS /\ l1[w * WordBits + b] # {}
    BY <2>1, TierSizes DEF IInv, Summary
  <2>3. w * WordBits + b \in Nat
    BY <2>1, <1>2
  <2>4. QED
    BY <2>2, <2>3, TierSizes
<1>4. ASSUME NEW w \in 0 .. L1_WORDS - 1, NEW b \in l1[w]
      PROVE  /\ w * WordBits + b \in Nat
             /\ w * WordBits + b \in 0 .. L0_WORDS - 1
             /\ l0[w * WordBits + b] # {}
  <2>1. b \in 0 .. WordBits - 1 /\ w \in Nat
    BY <1>1 DEF Word
  <2>2. w * WordBits + b < L0_WORDS /\ l0[w * WordBits + b] # {}
    BY <2>1, TierSizes DEF IInv, Summary
  <2>3. w * WordBits + b \in Nat
    BY <2>1, <1>2
  <2>4. QED
    BY <2>2, <2>3, TierSizes
<1>5. ASSUME NEW w \in 0 .. L0_WORDS - 1, NEW b \in l0[w]
      PROVE  w * WordBits + b \in Occupied
  <2>1. b \in 0 .. WordBits - 1 /\ w \in Nat
    BY <1>1 DEF Word
  <2>2. w * WordBits + b < PRICE_LEVELS
    BY DEF IInv, InRange
  <2>3. w * WordBits + b \in Index
    BY <2>1, <2>2, <1>2, LevelsAssumption DEF Index
  <2>4. test(w * WordBits + b)
    BY <2>1, <1>2 DEF test
  <2>5. QED
    BY <2>3, <2>4 DEF Occupied
<1>6. QED
  BY <1>3, <1>4, <1>5

\* A marked word of the top tier means that some level is occupied.
LEMMA BusyOccupied ==
  ASSUME IInv, NEW w \in 0 .. L2_WORDS - 1, l2[w] # {}
  PROVE  Occupied # {}
<1>1. PICK b \in l2[w] : TRUE
  OBVIOUS
<1>2. PICK v \in 0 .. L1_WORDS - 1 : l1[v] # {}
  BY <1>1, Below
<1>3. PICK c \in l1[v] : TRUE
  BY <1>2
<1>4. PICK u \in 0 .. L0_WORDS - 1 : l0[u] # {}
  BY <1>3, Below
<1>5. PICK d \in l0[u] : TRUE
  BY <1>4
<1>6. QED
  BY <1>5, Below

\* The descent of highest ends at the highest occupied level.
LEMMA HighestExactHolds == IInv => HighestExact
<1>1. SUFFICES ASSUME IInv PROVE HighestExact
  OBVIOUS
<1> DEFINE busy == {w \in 0 .. L2_WORDS - 1 : l2[w] # {}}
           w2 == Max(busy)
           w1 == w2 * WordBits + Max(l2[w2])
           w0 == w1 * WordBits + Max(l1[w1])
           i == w0 * WordBits + Max(l0[w0])
<1>2. highest = IF busy = {} THEN NONE ELSE i
  BY DEF highest
<1>3. CASE Occupied = {}
  <2>1. busy = {}
    <3>1. SUFFICES ASSUME NEW w \in busy PROVE FALSE
      OBVIOUS
    <3>2. PICK j \in Occupied : TRUE
      BY <1>1, <3>1, BusyOccupied
    <3>3. QED
      BY <3>2, <1>3
  <2>2. QED
    BY <2>1, <1>2, <1>3 DEF HighestExact
<1>4. CASE Occupied # {}
  <2>1. \A j \in Occupied : W(W(W(j))) \in busy
    BY <1>1, Marked
  <2>2. busy # {}
    BY <2>1, <1>4
  <2>3. w2 \in busy /\ \A w \in busy : w <= w2
    <3>1. L2_WORDS - 1 \in Nat /\ busy \in SUBSET (0 .. L2_WORDS - 1)
      BY <2>2, TierSizes
    <3> HIDE DEF busy
    <3>2. Max(busy) \in busy /\ \A w \in busy : Max(busy) >= w
      BY <2>2, <3>1, MaxNat
    <3>3. \A w \in busy : w \in Int
      BY <3>1
    <3>4. QED
      BY <3>1, <3>2, <3>3
  <2>4. w2 \in 0 .. L2_WORDS - 1 /\ l2[w2] # {} /\ w2 \in Nat
    BY <2>3, TierSizes
  <2> HIDE DEF w2, busy
  <2>5. /\ l2[w2] \in Word /\ Max(l2[w2]) \in l2[w2]
    BY <1>1, <2>4, WordBounds DEF IInv, TypeOK
  <2>6. w1 \in 0 .. L1_WORDS - 1 /\ l1[w1] # {} /\ w1 \in Nat
    BY <1>1, <2>4, <2>5, Below
  <2> HIDE DEF w1
  <2>7. /\ l1[w1] \in Word /\ Max(l1[w1]) \in l1[w1]
    BY <1>1, <2>6, WordBounds DEF IInv, TypeOK
  <2>8. w0 \in 0 .. L0_WORDS - 1 /\ l0[w0] # {} /\ w0 \in Nat
    BY <1>1, <2>6, <2>7, Below
  <2> HIDE DEF w0
  <2>9. /\ l0[w0] \in Word /\ Max(l0[w0]) \in l0[w0]
    BY <1>1, <2>8, WordBounds DEF IInv, TypeOK
  <2>10. i \in Occupied
    BY <1>1, <2>8, <2>9, Below
  <2>11. ASSUME NEW j \in Occupied PROVE j <= i
    <3>1. /\ j \in Nat /\ W(j) \in Nat /\ W(W(j)) \in Nat
          /\ B(j) \in l0[W(j)] /\ B(W(j)) \in l1[W(W(j))]
          /\ B(W(W(j))) \in l2[W(W(W(j)))]
      BY <1>1, Marked
    <3>2. W(W(W(j))) <= w2
      BY <2>1, <2>3
    <3>3. W(W(j)) <= w1
      BY <3>1, <3>2, <2>4, <2>5, DescendMax DEF w1
    <3>4. W(j) <= w0
      BY <3>1, <3>3, <2>6, <2>7, DescendMax DEF w0
    <3>5. QED
      BY <3>1, <3>4, <2>8, <2>9, DescendMax
  <2> HIDE DEF i
  <2>12. Max(Occupied) \in Occupied /\ \A j \in Occupied : j <= Max(Occupied)
    BY <1>4, LevelsAssumption, MaxNat DEF Occupied, Index
  <2>13. \A j \in Occupied : j \in Nat
    BY DEF Occupied, Index
  <2>14. i = Max(Occupied)
    BY <2>10, <2>11, <2>12, <2>13
  <2>15. QED
    BY <2>2, <2>14, <1>2, <1>4 DEF HighestExact
<1>5. QED
  BY <1>3, <1>4

\* highest returns what a scan over all price levels would find, for every width
\* and number of levels.
THEOREM HighestFound == Spec => []HighestExact
BY HighestExactHolds, IInvHolds, PTL

\* The descent of lowest ends at the lowest occupied level.
LEMMA LowestExactHolds == IInv => LowestExact
<1>1. SUFFICES ASSUME IInv PROVE LowestExact
  OBVIOUS
<1> DEFINE busy == {w \in 0 .. L2_WORDS - 1 : l2[w] # {}}
           w2 == Min(busy)
           w1 == w2 * WordBits + Min(l2[w2])
           w0 == w1 * WordBits + Min(l1[w1])
           i == w0 * WordBits + Min(l0[w0])
<1>2. lowest = IF busy = {} THEN NONE ELSE i
  BY DEF lowest
<1>3. CASE Occupied = {}
  <2>1. busy = {}
    <3>1. SUFFICES ASSUME NEW w \in busy PROVE FALSE
      OBVIOUS
    <3>2. PICK j \in Occupied : TRUE
      BY <1>1, <3>1, BusyOccupied
    <3>3. QED
      BY <3>2, <1>3
  <2>2. QED
    BY <2>1, <1>2, <1>3 DEF LowestExact
<1>4. CASE Occupied # {}
  <2>1. \A j \in Occupied : W(W(W(j))) \in busy
    BY <1>1, Marked
  <2>2. busy # {}
    BY <2>1, <1>4
  <2>3. w2 \in busy /\ \A w \in busy : w >= w2
    <3>1. busy \in SUBSET Nat
      BY <2>2, TierSizes
    <3> HIDE DEF busy
    <3>2. Min(busy) \in busy /\ \A w \in busy : Min(busy) <= w
      BY <2>2, <3>1, MinNat
    <3>3. \A w \in busy : w \in Int
      BY <3>1
    <3>4. QED
      BY <3>1, <3>2, <3>3
  <2>4. w2 \in 0 .. L2_WORDS - 1 /\ l2[w2] # {} /\ w2 \in Nat
    BY <2>3, TierSizes
  <2> HIDE DEF w2, busy
  <2>5. /\ l2[w2] \in Word /\ Min(l2[w2]) \in l2[w2]
    BY <1>1, <2>4, WordBounds DEF IInv, TypeOK
  <2>6. w1 \in 0 .. L1_WORDS - 1 /\ l1[w1] # {} /\ w1 \in Nat
    BY <1>1, <2>4, <2>5, Below
  <2> HIDE DEF w1
  <2>7. /\ l1[w1] \in Word /\ Min(l1[w1]) \in l1[w1]
    BY <1>1, <2>6, WordBounds DEF IInv, TypeOK
  <2>8. w0 \in 0 .. L0_WORDS - 1 /\ l0[w0] # {} /\ w0 \in Nat
    BY <1>1, <2>6, <2>7, Below
  <2> HIDE DEF w0
  <2>9. /\ l0[w0] \in Word /\ Min(l0[w0]) \in l0[w0]
    BY <1>1, <2>8, WordBounds DEF IInv, TypeOK
  <2>10. i \in Occupied
    BY <1>1, <2>8, <2>9, Below
  <2>11. ASSUME NEW j \in Occupied PROVE i <= j
    <3>1. /\ j \in Nat /\ W(j) \in Nat /\ W(W(j)) \in Nat
          /\ B(j) \in l0[W(j)] /\ B(W(j)) \in l1[W(W(j))]
          /\ B(W(W(j))) \in l2[W(W(W(j)))]
      BY <1>1, Marked
    <3>2. W(W(W(j))) >= w2
      BY <2>1, <2>3
    <3>3. w1 <= W(W(j))
      BY <3>1, <3>2, <2>4, <2>5, DescendMin DEF w1
    <3>4. w0 <= W(j)
      BY <3>1, <3>3, <2>6, <2>7, DescendMin DEF w0
    <3>5. QED
      BY <3>1, <3>4, <2>8, <2>9, DescendMin
  <2> HIDE DEF i
  <2>12. Min(Occupied) \in Occupied /\ \A j \in Occupied : j >= Min(Occupied)
    BY <1>4, LevelsAssumption, MinNat DEF Occupied, Index
  <2>13. \A j \in Occupied : j \in Nat
    BY DEF Occupied, Index
  <2>14. i = Min(Occupied)
    BY <2>10, <2>11, <2>12, <2>13
  <2>15. QED
    BY <2>2, <2>14, <1>2, <1>4 DEF LowestExact
<1>5. QED
  BY <1>3, <1>4

\* lowest returns what a scan over all price levels would find, for every width
\* and number of levels.
THEOREM LowestFound == Spec => []LowestExact
BY LowestExactHolds, IInvHolds, PTL

=============================================================================
