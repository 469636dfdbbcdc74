----------------------------- MODULE DataLemmas -----------------------------
(***************************************************************************)
(* Facts about the library operators the modules are built from: Min and  *)
(* Max of sets of integers, sequences without repetition, remainders,     *)
(* sums, concatenations, prefixes and numerals.  Induction is by least    *)
(* counterexample (MinNat).                                               *)
(***************************************************************************)
EXTENDS Integers, Sequences, SequencesExt, PrefixSums, Numerals, SequenceTheorems,
        WellFoundedInduction, TLAPS

\* A non-empty set of naturals has a least element (the order is well
\* founded), and Min denotes it.
LEMMA MinNat ==
  ASSUME NEW S \in SUBSET Nat, S # {}
  PROVE  Min(S) \in S /\ \A y \in S : Min(S) <= y
<1>1. PICK x \in S : \A y \in S : ~(<<y, x>> \in OpToRel(<, Nat))
  BY NatLessThanWellFounded, WFMin
<1>2. ASSUME NEW y \in S PROVE ~(y < x)
  <2>1. SUFFICES ASSUME y < x PROVE <<y, x>> \in OpToRel(<, Nat)
    BY <1>1
  <2>2. <<y, x>> \in Nat \X Nat
    OBVIOUS
  <2>3. <<y, x>>[1] < <<y, x>>[2]
    BY <2>1
  <2>4. QED
    BY <2>2, <2>3, Zenon DEF OpToRel
<1>3. \A y \in S : x <= y
  <2>1. SUFFICES ASSUME NEW y \in S PROVE x <= y
    OBVIOUS
  <2>2. ~(y < x)
    BY <1>2
  <2>3. QED
    BY <2>2, SMT
<1>4. \E z \in S : \A y \in S : z <= y
  BY <1>3
<1>5. QED
  BY <1>4, Zenon DEF Min

\* A non-empty set of naturals with an upper bound has a greatest element,
\* and Max denotes it.
LEMMA MaxNat ==
  ASSUME NEW n \in Nat, NEW S \in SUBSET (0 .. n), S # {}
  PROVE  Max(S) \in S /\ \A y \in S : Max(S) >= y
<1> DEFINE T == {n - y : y \in S}
<1>0. \A y \in S : y \in Nat /\ y <= n
  OBVIOUS
<1>1. T \in SUBSET Nat /\ T # {}
  <2>1. \A y \in S : n - y \in Nat
    BY <1>0
  <2>2. \A t \in T : t \in Nat
    BY <2>1
  <2>3. PICK y \in S : TRUE
    OBVIOUS
  <2>4. n - y \in T
    OBVIOUS
  <2>5. QED
    BY <2>2, <2>4
<1>2. Min(T) \in T /\ \A t \in T : Min(T) <= t
  BY <1>1, MinNat
<1>3. PICK x \in S : Min(T) = n - x
  BY <1>2
<1>4. \A y \in S : x >= y
  <2>1. SUFFICES ASSUME NEW y \in S PROVE x >= y
    OBVIOUS
  <2>2. n - y \in T
    OBVIOUS
  <2>3. n - x <= n - y
    BY <1>2, <1>3, <2>2
  <2>4. QED
    BY <1>0, <2>3
<1>5. \E z \in S : \A y \in S : z >= y
  BY <1>4
<1>6. QED
  BY <1>5, Zenon DEF Max

-----------------------------------------------------------------------------
\* A non-empty sequence contains its first element, which is its Head; the
\* empty one contains nothing.
LEMMA ContainsHead ==
  ASSUME NEW S, NEW q \in Seq(S)
  PROVE  /\ q # <<>> => /\ Len(q) >= 1 /\ q[1] = Head(q)
                        /\ Head(q) \in S /\ Contains(q, Head(q))
         /\ q = <<>> => \A m : ~Contains(q, m)
<1>1. ASSUME q # <<>>
      PROVE  Len(q) >= 1 /\ q[1] = Head(q) /\ Head(q) \in S
  BY <1>1, EmptySeq, HeadTailProperties, LenProperties
<1>2. q # <<>> => Contains(q, Head(q))
  BY <1>1, LenProperties DEF Contains
<1>3. ASSUME q = <<>> PROVE \A m : ~Contains(q, m)
  BY <1>3, EmptySeq DEF Contains
<1>4. QED
  BY <1>1, <1>2, <1>3

\* A function on 1 .. n is a sequence of length n.
LEMMA FunctionSeq ==
  ASSUME NEW S, NEW n \in Nat, NEW w \in [1 .. n -> S]
  PROVE  w \in Seq(S) /\ Len(w) = n
<1>1. w \in Seq(S)
  BY SeqDef, Zenon
<1>2. Len(w) \in Nat /\ 1 .. Len(w) = 1 .. n
  BY <1>1, LenProperties
<1>3. ~(Len(w) < n) /\ ~(n < Len(w))
  BY <1>2
<1>4. QED
  BY <1>1, <1>2, <1>3

\* Appending a new element.
LEMMA AppendDistinct ==
  ASSUME NEW S, NEW q \in Seq(S), NEW x \in S
  PROVE  /\ Append(q, x) \in Seq(S)
         /\ Append(q, x) # <<>>
         /\ \A m : Contains(Append(q, x), m) <=> Contains(q, m) \/ m = x
         /\ IsInjective(q) /\ ~Contains(q, x) => IsInjective(Append(q, x))
<1> DEFINE a == Append(q, x)
<1>1. /\ a \in Seq(S) /\ Len(a) = Len(q) + 1 /\ Len(q) \in Nat
      /\ \A i \in 1 .. Len(q) : a[i] = q[i]
      /\ a[Len(q) + 1] = x
  BY AppendProperties, LenProperties
<1>2. DOMAIN a = 1 .. Len(q) + 1 /\ DOMAIN q = 1 .. Len(q)
  BY <1>1, LenProperties
<1> HIDE DEF a
<1>3. a # <<>>
  BY <1>1, EmptySeq
<1>4. \A m : Contains(a, m) <=> Contains(q, m) \/ m = x
  BY <1>1 DEF Contains
<1>5. IsInjective(q) /\ ~Contains(q, x) => IsInjective(a)
  BY <1>1, <1>2 DEF Contains, IsInjective
<1>6. QED
  BY <1>1, <1>3, <1>4, <1>5 DEF a

\* Taking the k-th element out of a sequence: where the others end up.
LEMMA RemoveAtProperties ==
  ASSUME NEW S, NEW q \in Seq(S), NEW k \in 1 .. Len(q)
  PROVE  /\ RemoveAt(q, k) \in Seq(S)
         /\ Len(RemoveAt(q, k)) = Len(q) - 1
         /\ \A i \in 1 .. Len(q) - 1 :
              RemoveAt(q, k)[i] = IF i < k THEN q[i] ELSE q[i + 1]
<1>1. Len(q) \in Nat /\ \A i \in 1 .. Len(q) : q[i] \in S
  BY LenProperties, ElementOfSeq
<1> DEFINE f == SubSeq(q, 1, k - 1)
           b == SubSeq(q, k + 1, Len(q))
<1>2. /\ f \in Seq(S) /\ Len(f) = k - 1
      /\ \A i \in 1 .. k - 1 : f[i] = q[i]
  <2>1. \A i \in 1 .. k - 1 : q[i] \in S
    BY <1>1
  <2>2. k - 1 \in Int /\ 1 \in Int
    BY <1>1
  <2>3. /\ f \in Seq(S) /\ Len(f) = IF 1 <= k - 1 THEN k - 1 - 1 + 1 ELSE 0
        /\ \A i \in 1 .. k - 1 - 1 + 1 : f[i] = q[1 + i - 1]
    BY <2>1, <2>2, SubSeqProperties
  <2>4. QED
    BY <1>1, <2>3
<1>3. /\ b \in Seq(S) /\ Len(b) = Len(q) - k
      /\ \A i \in 1 .. Len(q) - k : b[i] = q[k + i]
  <2>1. \A i \in k + 1 .. Len(q) : q[i] \in S
    BY <1>1
  <2>2. k + 1 \in Int /\ Len(q) \in Int
    BY <1>1
  <2>3. /\ b \in Seq(S)
        /\ Len(b) = IF k + 1 <= Len(q) THEN Len(q) - (k + 1) + 1 ELSE 0
        /\ \A i \in 1 .. Len(q) - (k + 1) + 1 : b[i] = q[k + 1 + i - 1]
    BY <2>1, <2>2, SubSeqProperties
  <2>4. QED
    BY <1>1, <2>3
<1> HIDE DEF f, b
<1>4. /\ f \o b \in Seq(S) /\ Len(f \o b) = Len(f) + Len(b)
      /\ \A i \in 1 .. Len(f) + Len(b) :
           (f \o b)[i] = IF i <= Len(f) THEN f[i] ELSE b[i - Len(f)]
  BY <1>2, <1>3, ConcatProperties
<1>5. RemoveAt(q, k) = f \o b
  BY DEF RemoveAt, f, b
<1>6. ASSUME NEW i \in 1 .. Len(q) - 1
      PROVE  (f \o b)[i] = IF i < k THEN q[i] ELSE q[i + 1]
  <2>1. i \in 1 .. Len(f) + Len(b)
    BY <1>1, <1>2, <1>3
  <2>2. CASE i < k
    BY <1>1, <1>2, <1>4, <2>1, <2>2
  <2>3. CASE ~(i < k)
    <3>1. i - Len(f) \in 1 .. Len(q) - k /\ k + (i - Len(f)) = i + 1
      BY <1>1, <1>2, <2>3
    <3>2. (f \o b)[i] = b[i - Len(f)]
      BY <1>1, <1>2, <1>4, <2>1, <2>3
    <3>3. QED
      BY <1>3, <2>3, <3>1, <3>2
  <2>4. QED
    BY <2>2, <2>3
<1>7. Len(f \o b) = Len(q) - 1
  BY <1>1, <1>2, <1>3, <1>4
<1>8. QED
  BY <1>4, <1>5, <1>6, <1>7

\* Taking an element out of a sequence without repetition removes exactly
\* that element.
LEMMA RemoveAtDistinct ==
  ASSUME NEW S, NEW q \in Seq(S), NEW k \in 1 .. Len(q), IsInjective(q)
  PROVE  /\ RemoveAt(q, k) \in Seq(S)
         /\ RemoveAt(q, k) = <<>> <=> Len(q) = 1
         /\ \A m : Contains(RemoveAt(q, k), m) <=> Contains(q, m) /\ m # q[k]
         /\ IsInjective(RemoveAt(q, k))
<1> DEFINE r == RemoveAt(q, k)
<1>1. /\ r \in Seq(S) /\ Len(r) = Len(q) - 1 /\ Len(q) \in Nat
      /\ \A i \in 1 .. Len(q) - 1 : r[i] = IF i < k THEN q[i] ELSE q[i + 1]
  BY RemoveAtProperties, LenProperties
<1>2. DOMAIN r = 1 .. Len(q) - 1 /\ DOMAIN q = 1 .. Len(q)
  BY <1>1, LenProperties
<1> HIDE DEF r
<1>3. r = <<>> <=> Len(q) = 1
  BY <1>1, EmptySeq
<1>4. ASSUME NEW m, Contains(r, m) PROVE Contains(q, m) /\ m # q[k]
  BY <1>1, <1>2, <1>4 DEF Contains, IsInjective
<1>5. ASSUME NEW m, Contains(q, m), m # q[k] PROVE Contains(r, m)
  <2>1. PICK i \in 1 .. Len(q) : q[i] = m
    BY <1>5 DEF Contains
  <2>2. CASE i < k
    BY <1>1, <2>1, <2>2 DEF Contains
  <2>3. CASE i > k
    <3>1. i - 1 \in 1 .. Len(q) - 1 /\ ~(i - 1 < k) /\ (i - 1) + 1 = i
      BY <1>1, <2>3
    <3>2. r[i - 1] = m
      BY <1>1, <2>1, <3>1
    <3>3. QED
      BY <1>1, <3>1, <3>2 DEF Contains
  <2>4. QED
    BY <1>1, <1>5, <2>1, <2>2, <2>3
<1>6. IsInjective(r)
  <2>1. SUFFICES ASSUME NEW i \in 1 .. Len(q) - 1, NEW j \in 1 .. Len(q) - 1,
                        r[i] = r[j]
                 PROVE  i = j
    BY <1>2 DEF IsInjective
  <2>2. \A x, y \in 1 .. Len(q) : q[x] = q[y] => x = y
    BY <1>2 DEF IsInjective
  <2>3. PICK x \in 1 .. Len(q) : r[i] = q[x] /\ x = IF i < k THEN i ELSE i + 1
    BY <1>1
  <2>4. PICK y \in 1 .. Len(q) : r[j] = q[y] /\ y = IF j < k THEN j ELSE j + 1
    BY <1>1
  <2>5. x = y
    BY <2>1, <2>2, <2>3, <2>4
  <2>6. QED
    BY <1>1, <2>3, <2>4, <2>5
<1>7. QED
  BY <1>1, <1>3, <1>4, <1>5, <1>6 DEF r

\* Popping the last element of a non-empty sequence without repetition.
LEMMA FrontDistinct ==
  ASSUME NEW S, NEW q \in Seq(S), q # <<>>, IsInjective(q)
  PROVE  /\ Front(q) \in Seq(S)
         /\ Last(q) \in S /\ Contains(q, Last(q))
         /\ \A m : Contains(Front(q), m) <=> Contains(q, m) /\ m # Last(q)
         /\ IsInjective(Front(q))
<1> DEFINE f == Front(q)
<1>0. Len(q) \in Nat /\ Len(q) >= 1
  BY EmptySeq, LenProperties
<1>1. Len(q) \in Nat \ {0} /\ \A i \in 1 .. Len(q) : q[i] \in S
  BY EmptySeq, LenProperties, ElementOfSeq
<1>2. /\ f \in Seq(S) /\ Len(f) = Len(q) - 1
      /\ \A i \in 1 .. Len(q) - 1 : f[i] = q[i]
  <2>1. \A i \in 1 .. Len(q) - 1 : q[i] \in S
    BY <1>1
  <2>2. Len(q) - 1 \in Int /\ 1 \in Int
    BY <1>1
  <2>3. /\ f \in Seq(S)
        /\ Len(f) = IF 1 <= Len(q) - 1 THEN Len(q) - 1 - 1 + 1 ELSE 0
        /\ \A i \in 1 .. Len(q) - 1 - 1 + 1 : f[i] = q[1 + i - 1]
    BY <2>1, <2>2, SubSeqProperties DEF Front
  <2> HIDE DEF f
  <2>4. Len(f) = Len(q) - 1
    <3>1. CASE Len(q) = 1
      BY <2>3, <3>1
    <3>2. CASE Len(q) # 1
      <4>1. \A l \in Nat : l >= 1 /\ l # 1 => 1 <= l - 1 /\ l - 1 - 1 + 1 = l - 1
        OBVIOUS
      <4>2. 1 <= Len(q) - 1 /\ Len(q) - 1 - 1 + 1 = Len(q) - 1
        BY <1>0, <3>2, <4>1, Zenon
      <4>3. QED
        BY <2>3, <4>2
    <3>3. QED
      BY <3>1, <3>2
  <2>5. ASSUME NEW i \in 1 .. Len(q) - 1 PROVE f[i] = q[i]
    <3>1. i \in 1 .. Len(q) - 1 - 1 + 1 /\ 1 + i - 1 = i
      BY <1>1
    <3>2. QED
      BY <2>3, <3>1
  <2>6. QED
    BY <2>3, <2>4, <2>5
<1>3. DOMAIN f = 1 .. Len(q) - 1 /\ DOMAIN q = 1 .. Len(q)
  BY <1>2, LenProperties
<1>4. Last(q) = q[Len(q)]
  BY DEF Last
<1> HIDE DEF f
<1>5. Last(q) \in S /\ Contains(q, Last(q))
  BY <1>1, <1>4 DEF Contains
<1>6. \A m : Contains(f, m) <=> Contains(q, m) /\ m # Last(q)
  BY <1>1, <1>2, <1>3, <1>4 DEF Contains, IsInjective
<1>7. IsInjective(f)
  BY <1>1, <1>2, <1>3 DEF IsInjective
<1>8. QED
  BY <1>2, <1>5, <1>6, <1>7 DEF f
-----------------------------------------------------------------------------
\* Division with remainder.
LEMMA DivMod ==
  ASSUME NEW a \in Int, NEW M \in Nat \ {0}
  PROVE  /\ a \div M \in Int /\ a % M \in 0 .. M - 1
         /\ a = M * (a \div M) + (a % M)
  OBVIOUS

\* Quotient and remainder are the only ones in their range.
LEMMA ModUnique ==
  ASSUME NEW M \in Nat \ {0}, NEW k \in Int, NEW r \in 0 .. M - 1
  PROVE  (M * k + r) % M = r /\ (M * k + r) \div M = k
  OBVIOUS

\* Numbers that differ by a multiple of M have the same remainder.
LEMMA ModShift ==
  ASSUME NEW M \in Nat \ {0}, NEW a \in Int, NEW k \in Int
  PROVE  (a + M * k) % M = a % M
<1> DEFINE d == a \div M
           r == a % M
<1>1. d \in Int /\ r \in 0 .. M - 1 /\ a = M * d + r
  BY DivMod
<1> HIDE DEF d, r
<1>2. a + M * k = M * (d + k) + r /\ d + k \in Int
  BY <1>1
<1>3. (M * (d + k) + r) % M = r
  BY <1>1, <1>2, ModUnique
<1>4. QED
  BY <1>2, <1>3 DEF r

\* A remainder may be taken early.
LEMMA ModAdd ==
  ASSUME NEW M \in Nat \ {0}, NEW a \in Int, NEW b \in Int
  PROVE  ((a % M) + b) % M = (a + b) % M
<1> DEFINE d == a \div M
           r == a % M
<1>1. d \in Int /\ r \in 0 .. M - 1 /\ a = M * d + r
  BY DivMod
<1> HIDE DEF d, r
<1>2. a + b = (r + b) + M * d /\ r + b \in Int
  BY <1>1
<1>3. ((r + b) + M * d) % M = (r + b) % M
  BY <1>1, <1>2, ModShift
<1>4. QED
  BY <1>2, <1>3 DEF r

-----------------------------------------------------------------------------
\* f is the table of the sums of v up to n.
Sums(f, v, n) == f = [i \in 0 .. n |-> IF i = 0 THEN 0 ELSE f[i - 1] + v[i]]

\* What a table says of its entries.
LEMMA SumsEntries ==
  ASSUME NEW n \in Nat, NEW v, NEW f, Sums(f, v, n)
  PROVE  /\ DOMAIN f = 0 .. n
         /\ f[0] = 0
         /\ \A i \in 1 .. n : f[i] = f[i - 1] + v[i]
<1> DEFINE e(i) == IF i = 0 THEN 0 ELSE f[i - 1] + v[i]
<1>1. f = [i \in 0 .. n |-> e(i)]
  BY Zenon DEF Sums
<1>2. DOMAIN f = 0 .. n /\ \A i \in 0 .. n : f[i] = e(i)
  BY <1>1, Zenon
<1>3. 0 \in 0 .. n /\ \A i \in 1 .. n : i \in 0 .. n /\ i # 0
  OBVIOUS
<1>4. QED
  BY <1>2, <1>3, Zenon

\* Two tables agree as far as both go (least counterexample).
LEMMA SumsAgree ==
  ASSUME NEW n \in Nat, NEW m \in Nat, n <= m, NEW v, NEW f, NEW g,
         Sums(f, v, n), Sums(g, v, m)
  PROVE  \A i \in 0 .. n : f[i] = g[i]
<1> DEFINE Bad == {i \in 0 .. n : f[i] # g[i]}
<1>1. SUFFICES ASSUME Bad # {} PROVE FALSE
  OBVIOUS
<1>2. Bad \in SUBSET Nat
  OBVIOUS
<1>3. PICK k \in Bad : \A j \in Bad : k <= j
  BY <1>1, <1>2, MinNat
<1>4. k \in 0 .. n /\ f[k] # g[k] /\ \A j \in 0 .. n : j < k => f[j] = g[j]
  BY <1>3
<1> HIDE DEF Bad
<1>5. /\ f[0] = 0 /\ \A i \in 1 .. n : f[i] = f[i - 1] + v[i]
      /\ g[0] = 0 /\ \A i \in 1 .. m : g[i] = g[i - 1] + v[i]
  BY SumsEntries
<1>6. k # 0
  BY <1>4, <1>5
<1>7. k \in 1 .. n /\ k \in 1 .. m /\ k - 1 \in 0 .. n /\ k - 1 < k
  BY <1>4, <1>6
<1>8. f[k] = f[k - 1] + v[k] /\ g[k] = g[k - 1] + v[k] /\ f[k - 1] = g[k - 1]
  BY <1>4, <1>5, <1>7
<1>9. QED
  BY <1>4, <1>8

\* There is a table for every length (least counterexample).
LEMMA SumsExist ==
  ASSUME NEW n \in Nat, NEW v
  PROVE  \E f : Sums(f, v, n)
<1> DEFINE Bad == {i \in Nat : ~ \E f : Sums(f, v, i)}
<1>1. SUFFICES ASSUME Bad # {} PROVE FALSE
  OBVIOUS
<1>2. Bad \in SUBSET Nat
  OBVIOUS
<1>3. PICK k \in Bad : \A j \in Bad : k <= j
  BY <1>1, <1>2, MinNat
<1>4. k \in Nat /\ (~ \E f : Sums(f, v, k))
  BY <1>3
<1>5. \A j \in Nat : j < k => \E f : Sums(f, v, j)
  BY <1>3, <1>4
<1> HIDE DEF Bad
<1>6. k # 0
  <2>1. SUFFICES ASSUME k = 0 PROVE FALSE
    OBVIOUS
  <2> DEFINE z == [i \in 0 .. 0 |-> 0]
  <2>2. z = [i \in 0 .. 0 |-> IF i = 0 THEN 0 ELSE z[i - 1] + v[i]]
    OBVIOUS
  <2> HIDE DEF z
  <2>3. Sums(z, v, k)
    BY <2>1, <2>2 DEF Sums
  <2>4. QED
    BY <1>4, <2>3
<1>7. k - 1 \in Nat /\ k - 1 < k
  BY <1>4, <1>6
<1>8. PICK f : Sums(f, v, k - 1)
  BY <1>5, <1>7
<1>9. f[0] = 0 /\ \A i \in 1 .. k - 1 : f[i] = f[i - 1] + v[i]
  BY <1>7, <1>8, SumsEntries
<1> DEFINE g == [i \in 0 .. k |-> IF i = k THEN f[k - 1] + v[k] ELSE f[i]]
           h == [i \in 0 .. k |-> IF i = 0 THEN 0 ELSE g[i - 1] + v[i]]
<1>10. ASSUME NEW i \in 0 .. k PROVE g[i] = h[i]
  <2>1. CASE i = 0
    BY <1>4, <1>6, <1>9, <2>1
  <2>2. CASE i = k
    <3>1. k - 1 \in 0 .. k /\ k - 1 # k /\ k \in 0 .. k /\ k # 0
      BY <1>4, <1>6, <1>7
    <3>2. g[k - 1] = f[k - 1]
      BY <3>1
    <3>3. QED
      BY <2>2, <3>1, <3>2
  <2>3. CASE i # 0 /\ i # k
    <3>1. i \in 1 .. k - 1 /\ i - 1 \in 0 .. k /\ i - 1 # k
      BY <1>4, <2>3
    <3>2. g[i] = f[i] /\ g[i - 1] = f[i - 1] /\ f[i] = f[i - 1] + v[i]
      BY <1>9, <2>3, <3>1
    <3>3. QED
      BY <2>3, <3>2
  <2>4. QED
    BY <2>1, <2>2, <2>3
<1>11. g = h
  BY <1>10
<1>12. Sums(g, v, k)
  <2>1. g = [i \in 0 .. k |-> IF i = 0 THEN 0 ELSE g[i - 1] + v[i]]
    BY <1>11, Zenon
  <2> HIDE DEF g
  <2>2. QED
    BY <2>1, Zenon DEF Sums
<1>13. QED
  BY <1>4, <1>12, Zenon

\* PrefixSum is the last entry of a table, and so of every table.
LEMMA PrefixSumTable ==
  ASSUME NEW n \in Nat, NEW v, NEW f, Sums(f, v, n)
  PROVE  PrefixSum(v, n) = f[n]
<1> DEFINE s == CHOOSE g : g = [i \in 0 .. n |-> IF i = 0 THEN 0
                                                 ELSE g[i - 1] + v[i]]
<1>1. \E g : g = [i \in 0 .. n |-> IF i = 0 THEN 0 ELSE g[i - 1] + v[i]]
  BY Zenon DEF Sums
<1>2. Sums(s, v, n)
  BY <1>1, Zenon DEF Sums
<1>3. PrefixSum(v, n) = s[n]
  BY Zenon DEF PrefixSum
<1> HIDE DEF s
<1>4. \A i \in 0 .. n : s[i] = f[i]
  BY <1>2, SumsAgree
<1>5. QED
  BY <1>3, <1>4

\* The recursion of PrefixSum.
LEMMA PrefixSumStep ==
  ASSUME NEW v
  PROVE  /\ PrefixSum(v, 0) = 0
         /\ \A n \in Nat : PrefixSum(v, n + 1) = PrefixSum(v, n) + v[n + 1]
<1>1. PrefixSum(v, 0) = 0
  <2>1. PICK f : Sums(f, v, 0)
    BY SumsExist
  <2>2. QED
    BY <2>1, SumsEntries, PrefixSumTable
<1>2. ASSUME NEW n \in Nat
      PROVE  PrefixSum(v, n + 1) = PrefixSum(v, n) + v[n + 1]
  <2>1. n + 1 \in Nat /\ n <= n + 1 /\ n \in 0 .. n /\ n + 1 \in 1 .. n + 1
        /\ (n + 1) - 1 = n
    OBVIOUS
  <2>2. PICK f : Sums(f, v, n)
    BY SumsExist
  <2>3. PICK g : Sums(g, v, n + 1)
    BY <2>1, SumsExist
  <2>4. f[n] = g[n]
    BY <2>1, <2>2, <2>3, SumsAgree
  <2>5. g[n + 1] = g[n] + v[n + 1]
    BY <2>1, <2>3, SumsEntries
  <2>6. PrefixSum(v, n) = f[n] /\ PrefixSum(v, n + 1) = g[n + 1]
    BY <2>1, <2>2, <2>3, PrefixSumTable
  <2>7. QED
    BY <2>4, <2>5, <2>6
<1>3. QED
  BY <1>1, <1>2

\* Whatever satisfies the recursion is the sum (least counterexample).
LEMMA PrefixSumUnique ==
  ASSUME NEW n \in Nat, NEW v, NEW g, g[0] = 0,
         \A i \in 1 .. n : g[i] = g[i - 1] + v[i]
  PROVE  PrefixSum(v, n) = g[n]
<1> DEFINE Bad == {i \in 0 .. n : PrefixSum(v, i) # g[i]}
<1>1. SUFFICES ASSUME Bad # {} PROVE FALSE
  OBVIOUS
<1>2. Bad \in SUBSET Nat
  OBVIOUS
<1>3. PICK k \in Bad : \A j \in Bad : k <= j
  BY <1>1, <1>2, MinNat
<1>4. /\ k \in 0 .. n /\ PrefixSum(v, k) # g[k]
      /\ \A j \in 0 .. n : j < k => PrefixSum(v, j) = g[j]
  BY <1>3
<1> HIDE DEF Bad
<1>5. k # 0
  BY <1>4, PrefixSumStep
<1>6. k \in 1 .. n /\ k - 1 \in 0 .. n /\ k - 1 \in Nat /\ k - 1 < k
      /\ (k - 1) + 1 = k
  BY <1>4, <1>5
<1>7. PrefixSum(v, (k - 1) + 1) = PrefixSum(v, k - 1) + v[(k - 1) + 1]
  BY <1>6, PrefixSumStep
<1>8. PrefixSum(v, k) = PrefixSum(v, k - 1) + v[k]
  BY <1>6, <1>7
<1>9. QED
  BY <1>4, <1>6, <1>8

\* A sum of integers is an integer, and one of naturals a natural (least
\* counterexample).
LEMMA PrefixSumType ==
  ASSUME NEW n \in Nat, NEW v, NEW T \in {Int, Nat},
         \A i \in 1 .. n : v[i] \in T
  PROVE  \A i \in 0 .. n : PrefixSum(v, i) \in T
<1> DEFINE Bad == {i \in 0 .. n : PrefixSum(v, i) \notin T}
<1>1. SUFFICES ASSUME Bad # {} PROVE FALSE
  OBVIOUS
<1>2. Bad \in SUBSET Nat
  OBVIOUS
<1>3. PICK k \in Bad : \A j \in Bad : k <= j
  BY <1>1, <1>2, MinNat
<1>4. /\ k \in 0 .. n /\ PrefixSum(v, k) \notin T
      /\ \A j \in 0 .. n : j < k => PrefixSum(v, j) \in T
  BY <1>3
<1> HIDE DEF Bad
<1>5. k # 0
  BY <1>4, PrefixSumStep
<1>6. k \in 1 .. n /\ k - 1 \in 0 .. n /\ k - 1 \in Nat /\ k - 1 < k
      /\ (k - 1) + 1 = k
  BY <1>4, <1>5
<1>7. PrefixSum(v, (k - 1) + 1) = PrefixSum(v, k - 1) + v[(k - 1) + 1]
  BY <1>6, PrefixSumStep
<1>8. PrefixSum(v, k) = PrefixSum(v, k - 1) + v[k]
  BY <1>6, <1>7
<1>9. \A x, y \in T : x + y \in T
  OBVIOUS
<1>10. QED
  BY <1>4, <1>6, <1>8, <1>9

\* Equal terms have equal sums.
LEMMA PrefixSumSame ==
  ASSUME NEW n \in Nat, NEW v, NEW w, \A i \in 1 .. n : v[i] = w[i]
  PROVE  PrefixSum(v, n) = PrefixSum(w, n)
<1> DEFINE g == [i \in 0 .. n |-> PrefixSum(w, i)]
<1>1. g[0] = 0
  BY PrefixSumStep
<1>2. ASSUME NEW i \in 1 .. n PROVE g[i] = g[i - 1] + v[i]
  <2>1. i \in 0 .. n /\ i - 1 \in 0 .. n /\ i - 1 \in Nat /\ (i - 1) + 1 = i
    OBVIOUS
  <2>2. PrefixSum(w, (i - 1) + 1) = PrefixSum(w, i - 1) + w[(i - 1) + 1]
    BY <2>1, PrefixSumStep
  <2>3. QED
    BY <2>1, <2>2
<1>3. g[n] = PrefixSum(w, n)
  OBVIOUS
<1> HIDE DEF g
<1>4. QED
  BY <1>1, <1>2, <1>3, PrefixSumUnique

-----------------------------------------------------------------------------
(* Concatenations *)

\* f[i] is the concatenation of the first i of the sequences v.
Joins(f, v, n) ==
  f[0] = <<>> /\ \A i \in 1 .. n : f[i] = f[i - 1] \o v[i]

\* Concatenation as an operator whose definition can be hidden.
Cat(s, t) == s \o t

\* Three sequences in a row.
Spliced(A, q, B) == A \o (q \o B)

\* Concatenation is associative.
LEMMA CatAssociative ==
  ASSUME NEW S
  PROVE  \A s, t, u \in Seq(S) : Cat(Cat(s, t), u) = Cat(s, Cat(t, u))
<1>1. SUFFICES ASSUME NEW s \in Seq(S), NEW t \in Seq(S), NEW u \in Seq(S)
               PROVE  (s \o t) \o u = s \o (t \o u)
  BY Zenon DEF Cat
<1>2. QED
  BY ConcatAssociative

\* What a concatenation contains.
LEMMA ContainsConcat ==
  ASSUME NEW S, NEW s \in Seq(S), NEW t \in Seq(S), NEW x
  PROVE  Contains(s \o t, x) <=> Contains(s, x) \/ Contains(t, x)
<1>1. /\ Len(s) \in Nat /\ Len(t) \in Nat /\ Len(s \o t) = Len(s) + Len(t)
      /\ \A i \in 1 .. Len(s) + Len(t) :
           (s \o t)[i] = IF i <= Len(s) THEN s[i] ELSE t[i - Len(s)]
  BY ConcatProperties, LenProperties
<1>2. ASSUME NEW i \in 1 .. Len(s), s[i] = x
      PROVE  i \in 1 .. Len(s \o t) /\ (s \o t)[i] = x
  BY <1>1, <1>2
<1>3. ASSUME NEW i \in 1 .. Len(t), t[i] = x
      PROVE  Len(s) + i \in 1 .. Len(s \o t) /\ (s \o t)[Len(s) + i] = x
  <2>1. /\ Len(s) + i \in 1 .. Len(s) + Len(t) /\ ~(Len(s) + i <= Len(s))
        /\ (Len(s) + i) - Len(s) = i
    BY <1>1
  <2>2. QED
    BY <1>1, <1>3, <2>1
<1>4. ASSUME NEW i \in 1 .. Len(s \o t), (s \o t)[i] = x
      PROVE  Contains(s, x) \/ Contains(t, x)
  <2>1. CASE i <= Len(s)
    BY <1>1, <1>4, <2>1 DEF Contains
  <2>2. CASE ~(i <= Len(s))
    <3>1. i - Len(s) \in 1 .. Len(t) /\ t[i - Len(s)] = x
      BY <1>1, <1>4, <2>2
    <3>2. QED
      BY <3>1 DEF Contains
  <2>3. QED
    BY <2>1, <2>2
<1>5. Contains(s, x) => Contains(s \o t, x)
  BY <1>2 DEF Contains
<1>6. Contains(t, x) => Contains(s \o t, x)
  BY <1>3 DEF Contains
<1>7. Contains(s \o t, x) => Contains(s, x) \/ Contains(t, x)
  <2>1. SUFFICES ASSUME Contains(s \o t, x)
                 PROVE  Contains(s, x) \/ Contains(t, x)
    OBVIOUS
  <2>2. PICK i \in 1 .. Len(s \o t) : (s \o t)[i] = x
    BY <2>1 DEF Contains
  <2>3. QED
    BY <1>4, <2>2
<1>8. QED
  BY <1>5, <1>6, <1>7

\* The sequences joined determine the joins (least counterexample).
LEMMA JoinsAgree ==
  ASSUME NEW n \in Nat, NEW v, NEW f, NEW g, Joins(f, v, n), Joins(g, v, n)
  PROVE  \A i \in 0 .. n : f[i] = g[i]
<1> DEFINE Bad == {i \in 0 .. n : f[i] # g[i]}
<1>1. SUFFICES ASSUME Bad # {} PROVE FALSE
  OBVIOUS
<1>2. Bad \in SUBSET Nat
  OBVIOUS
<1>3. PICK k \in Bad : \A j \in Bad : k <= j
  BY <1>1, <1>2, MinNat
<1>4. k \in 0 .. n /\ f[k] # g[k] /\ \A j \in 0 .. n : j < k => f[j] = g[j]
  BY <1>3
<1> HIDE DEF Bad
<1>5. k # 0
  BY <1>4 DEF Joins
<1>6. k \in 1 .. n /\ k - 1 \in 0 .. n /\ k - 1 < k
  BY <1>4, <1>5
<1>7. f[k] = f[k - 1] \o v[k] /\ g[k] = g[k - 1] \o v[k] /\ f[k - 1] = g[k - 1]
  BY <1>4, <1>6 DEF Joins
<1>8. QED
  BY <1>4, <1>7

\* Any number of sequences can be joined (least counterexample).
LEMMA JoinsExist ==
  ASSUME NEW n \in Nat, NEW S, NEW v, \A i \in 1 .. n : v[i] \in Seq(S)
  PROVE  \E f \in [0 .. n -> Seq(S)] : Joins(f, v, n)
<1> DEFINE Bad == {i \in 0 .. n : ~ \E f \in [0 .. i -> Seq(S)] : Joins(f, v, i)}
<1>1. SUFFICES ASSUME Bad # {} PROVE FALSE
  OBVIOUS
<1>2. Bad \in SUBSET Nat
  OBVIOUS
<1>3. PICK k \in Bad : \A j \in Bad : k <= j
  BY <1>1, <1>2, MinNat
<1>4. k \in 0 .. n /\ ~ \E f \in [0 .. k -> Seq(S)] : Joins(f, v, k)
  BY <1>3
<1>5. \A j \in 0 .. n : j < k => \E f \in [0 .. j -> Seq(S)] : Joins(f, v, j)
  BY <1>3, <1>4
<1> HIDE DEF Bad
<1>6. k # 0
  <2>1. SUFFICES ASSUME k = 0 PROVE FALSE
    OBVIOUS
  <2> DEFINE z == [i \in 0 .. 0 |-> <<>>]
  <2>2. <<>> \in Seq(S)
    BY EmptySeq
  <2>3. z \in [0 .. 0 -> Seq(S)] /\ z[0] = <<>>
    BY <2>2
  <2> HIDE DEF z
  <2>4. Joins(z, v, 0)
    BY <2>3 DEF Joins
  <2>5. QED
    BY <1>4, <2>1, <2>3, <2>4
<1>7. k \in 1 .. n /\ k - 1 \in 0 .. n /\ k - 1 < k /\ k - 1 \in 0 .. k - 1
  BY <1>4, <1>6
<1>8. PICK f \in [0 .. k - 1 -> Seq(S)] : Joins(f, v, k - 1)
  BY <1>5, <1>7
<1>9. f[k - 1] \o v[k] \in Seq(S)
  BY <1>7, ConcatProperties
<1> DEFINE w == f[k - 1] \o v[k]
           g == [i \in 0 .. k |-> IF i = k THEN w ELSE f[i]]
<1> HIDE DEF w
<1>10. g \in [0 .. k -> Seq(S)]
  BY <1>7, <1>9 DEF w
<1>11. g[k] = w /\ \A i \in 0 .. k - 1 : g[i] = f[i]
  BY <1>7
<1> HIDE DEF g
<1>12. ASSUME NEW i \in 1 .. k PROVE g[i] = g[i - 1] \o v[i]
  <2>1. CASE i = k
    BY <1>7, <1>11, <2>1 DEF w
  <2>2. CASE i # k
    <3>1. i \in 1 .. k - 1 /\ i \in 0 .. k - 1 /\ i - 1 \in 0 .. k - 1
      BY <1>7, <2>2
    <3>2. QED
      BY <1>8, <1>11, <3>1 DEF Joins
  <2>3. QED
    BY <2>1, <2>2
<1>13. g[0] = <<>>
  BY <1>7, <1>8, <1>11 DEF Joins
<1>14. Joins(g, v, k)
  BY <1>12, <1>13 DEF Joins
<1>15. QED
  BY <1>4, <1>10, <1>14

\* Every element of a join comes from one of the sequences joined (least
\* counterexample).
LEMMA JoinsElements ==
  ASSUME NEW n \in Nat, NEW S, NEW v, \A i \in 1 .. n : v[i] \in Seq(S),
         NEW f \in [0 .. n -> Seq(S)], Joins(f, v, n), NEW x
  PROVE  \A i \in 0 .. n : Contains(f[i], x) => \E l \in 1 .. i : Contains(v[l], x)
<1> DEFINE From(i) == \E l \in 1 .. i : Contains(v[l], x)
           Bad == {i \in 0 .. n : Contains(f[i], x) /\ ~From(i)}
<1>1. SUFFICES ASSUME Bad # {} PROVE FALSE
  OBVIOUS
<1>2. Bad \in SUBSET Nat
  OBVIOUS
<1>3. PICK k \in Bad : \A j \in Bad : k <= j
  BY <1>1, <1>2, MinNat
<1>4. /\ k \in 0 .. n /\ Contains(f[k], x) /\ ~From(k)
      /\ \A j \in 0 .. n : j < k => (Contains(f[j], x) => From(j))
  <2> HIDE DEF From
  <2>1. QED
    BY <1>3
<1> HIDE DEF Bad
<1>5. k # 0
  <2>1. SUFFICES ASSUME k = 0 PROVE FALSE
    OBVIOUS
  <2>2. Contains(<<>>, x)
    BY <1>4, <2>1 DEF Joins
  <2>3. <<>> \in Seq(S)
    BY EmptySeq
  <2>4. QED
    BY <2>2, <2>3, ContainsHead
<1>6. /\ k \in 1 .. n /\ k - 1 \in 0 .. n /\ k - 1 < k /\ k \in 1 .. k
      /\ \A l \in 1 .. k - 1 : l \in 1 .. k
  BY <1>4, <1>5
<1>7. f[k] = f[k - 1] \o v[k] /\ f[k - 1] \in Seq(S) /\ v[k] \in Seq(S)
  BY <1>6 DEF Joins
<1>8. Contains(f[k - 1], x) \/ Contains(v[k], x)
  BY <1>4, <1>7, ContainsConcat
<1>9. CASE Contains(f[k - 1], x)
  BY <1>4, <1>6, <1>9
<1>10. CASE Contains(v[k], x)
  BY <1>4, <1>6, <1>10
<1>11. QED
  BY <1>8, <1>9, <1>10

\* FlattenSeq is the last join.
LEMMA FlattenJoins ==
  ASSUME NEW n \in Nat \ {0}, NEW S, NEW v \in [1 .. n -> Seq(S)],
         NEW f \in [0 .. n -> Seq(S)], Joins(f, v, n)
  PROVE  FlattenSeq(v) = f[n]
<1> DEFINE e(g) == [i \in 1 .. n |-> IF i = 1 THEN v[i] ELSE g[i - 1] \o v[i]]
           c == CHOOSE g : g = e(g)
           h == [i \in 1 .. n |-> f[i]]
<1>1. Len(v) = n
  BY FunctionSeq
<1>2. <<>> \o v[1] = v[1] /\ 1 \in 1 .. n
  BY ConcatEmptySeq
<1>3. h = e(h)
  <2>1. ASSUME NEW i \in 1 .. n PROVE h[i] = e(h)[i]
    <3>1. CASE i = 1
      <4>1. 1 - 1 = 0
        OBVIOUS
      <4>2. f[1] = f[0] \o v[1] /\ f[0] = <<>>
        BY <1>2, <4>1, Zenon DEF Joins
      <4>3. f[1] = v[1]
        BY <1>2, <4>2, Zenon
      <4>4. QED
        BY <3>1, <4>3
    <3>2. CASE i # 1
      <4>1. i - 1 \in 1 .. n
        BY <3>2
      <4>2. QED
        BY <3>2, <4>1 DEF Joins
    <3>3. QED
      BY <3>1, <3>2
  <2>2. QED
    BY <2>1
<1>4. c = e(c)
  BY <1>3, Zenon
<1>5. FlattenSeq(v) = c[n]
  <2>1. ~(Len(v) = 0)
    BY <1>1
  <2>2. FlattenSeq(v) = LET d == CHOOSE g : g = [i \in 1 .. Len(v) |->
                              IF i = 1 THEN v[i] ELSE g[i - 1] \o v[i]]
                        IN  d[Len(v)]
    BY <2>1, Zenon DEF FlattenSeq
  <2>3. QED
    BY <1>1, <2>2, Zenon
<1>6. c[1] = v[1] /\ \A i \in 1 .. n : i # 1 => c[i] = c[i - 1] \o v[i]
  <2> HIDE DEF c
  <2>1. QED
    BY <1>2, <1>4
<1> HIDE DEF c
<1> DEFINE g == [i \in 0 .. n |-> IF i = 0 THEN <<>> ELSE c[i]]
<1>7. g[0] = <<>> /\ \A i \in 1 .. n : g[i] = c[i]
  OBVIOUS
<1> HIDE DEF g
<1>8. ASSUME NEW i \in 1 .. n PROVE g[i] = g[i - 1] \o v[i]
  <2>1. CASE i = 1
    <3>1. g[1] = v[1] /\ 1 - 1 = 0
      BY <1>2, <1>6, <1>7
    <3>2. QED
      BY <1>2, <1>7, <2>1, <3>1
  <2>2. CASE i # 1
    <3>1. i - 1 \in 1 .. n
      BY <2>2
    <3>2. QED
      BY <1>6, <1>7, <2>2, <3>1
  <2>3. QED
    BY <2>1, <2>2
<1>9. Joins(g, v, n)
  BY <1>7, <1>8 DEF Joins
<1>10. f[n] = g[n]
  BY <1>9, JoinsAgree
<1>11. QED
  BY <1>5, <1>7, <1>10

\* The j-th of the sequences v joined by FlattenSeq is the stretch of the
\* result between A and B; A comes from the sequences before the j-th, B from
\* the ones after it.
SplitsAt(v, n, S, j, A, B) ==
  /\ \A q \in Seq(S) : FlattenSeq([v EXCEPT ![j] = q]) = Spliced(A, q, B)
  /\ \A x : Contains(A, x) => \E l \in 1 .. j - 1 : Contains(v[l], x)
  /\ \A x : Contains(B, x) => \E l \in j + 1 .. n : Contains(v[l], x)

\* Replacing one of the sequences replaces one stretch of the result.
LEMMA FlattenSplit ==
  ASSUME NEW n \in Nat \ {0}, NEW S, NEW v \in [1 .. n -> Seq(S)],
         NEW j \in 1 .. n
  PROVE  \E A \in Seq(S), B \in Seq(S) : SplitsAt(v, n, S, j, A, B)
<1> DEFINE w == [i \in 1 .. n - j |-> v[j + i]]
<1>0. n \in Nat /\ n - j \in Nat /\ j - 1 \in 0 .. n /\ n - j \in 0 .. n - j
  OBVIOUS
<1>1. \A i \in 1 .. n - j : w[i] = v[j + i] /\ w[i] \in Seq(S)
  OBVIOUS
<1> HIDE DEF w
<1>2. \A i \in 1 .. n : v[i] \in Seq(S)
  OBVIOUS
<1>3. PICK f \in [0 .. n -> Seq(S)] : Joins(f, v, n)
  BY <1>0, <1>2, JoinsExist
<1>4. PICK g \in [0 .. n - j -> Seq(S)] : Joins(g, w, n - j)
  BY <1>0, <1>1, JoinsExist
<1> DEFINE A == f[j - 1]
           B == g[n - j]
<1>5. A \in Seq(S) /\ B \in Seq(S)
  BY <1>0
<1>6. ASSUME NEW x, Contains(A, x)
      PROVE  \E l \in 1 .. j - 1 : Contains(v[l], x)
  BY <1>0, <1>2, <1>3, <1>6, JoinsElements
<1>7. ASSUME NEW x, Contains(B, x)
      PROVE  \E l \in j + 1 .. n : Contains(v[l], x)
  <2>1. PICK i \in 1 .. n - j : Contains(w[i], x)
    BY <1>0, <1>1, <1>4, <1>7, JoinsElements
  <2>2. j + i \in j + 1 .. n
    BY <1>0
  <2>3. QED
    BY <1>1, <2>1, <2>2
<1>8. ASSUME NEW q \in Seq(S)
      PROVE  FlattenSeq([v EXCEPT ![j] = q]) = Spliced(A, q, B)
  <2> DEFINE u == [v EXCEPT ![j] = q]
             m == A \o q
             h == [i \in 0 .. n |-> IF i < j THEN f[i] ELSE m \o g[i - j]]
  <2>1. u \in [1 .. n -> Seq(S)] /\ u[j] = q
        /\ \A i \in 1 .. n : i # j => u[i] = v[i]
    OBVIOUS
  <2>2. m \in Seq(S) /\ \A t \in Seq(S) : m \o t \in Seq(S)
    BY <1>5, ConcatProperties
  <2> HIDE DEF u, m
  <2>3. \A i \in 0 .. n : ~(i < j) => i - j \in 0 .. n - j
    BY <1>0
  <2>4. h \in [0 .. n -> Seq(S)]
    BY <2>2, <2>3
  <2>5. \A i \in 0 .. n : /\ i < j => h[i] = f[i]
                          /\ ~(i < j) => h[i] = m \o g[i - j]
    OBVIOUS
  <2> HIDE DEF h
  <2>6. h[0] = <<>>
    <3>1. 0 \in 0 .. n /\ 0 < j
      BY <1>0
    <3>2. QED
      BY <1>3, <2>5, <3>1, Zenon DEF Joins
  <2>7. ASSUME NEW i \in 1 .. n PROVE h[i] = h[i - 1] \o u[i]
    <3>0. i \in 0 .. n /\ i - 1 \in 0 .. n /\ j \in Nat /\ i \in Nat
      OBVIOUS
    <3>1. CASE i < j
      <4>1. i - 1 < j /\ i # j
        BY <3>0, <3>1
      <4>2. h[i] = f[i] /\ h[i - 1] = f[i - 1] /\ u[i] = v[i]
        BY <2>1, <2>5, <3>0, <3>1, <4>1
      <4>3. QED
        BY <1>3, <4>2 DEF Joins
    <3>2. CASE i = j
      <4>1. j - 1 < j /\ ~(j < j) /\ j - j = 0
        BY <3>0
      <4>2. g[0] = <<>>
        BY <1>4 DEF Joins
      <4>3. h[j] = m \o <<>> /\ h[j - 1] = A
        BY <2>5, <3>0, <3>2, <4>1, <4>2
      <4>4. m \o <<>> = m
        BY <2>2, ConcatEmptySeq
      <4>5. QED
        BY <2>1, <3>2, <4>3, <4>4 DEF m
    <3>3. CASE j < i
      <4>1. /\ ~(i < j) /\ ~(i - 1 < j) /\ i # j /\ i - j \in 1 .. n - j
            /\ (i - 1) - j = (i - j) - 1 /\ j + (i - j) = i
            /\ (i - j) - 1 \in 0 .. n - j
        BY <3>0, <3>3
      <4>2. h[i] = m \o g[i - j] /\ h[i - 1] = m \o g[(i - j) - 1]
        BY <2>5, <3>0, <4>1
      <4>3. g[i - j] = g[(i - j) - 1] \o w[i - j] /\ w[i - j] = v[i]
        BY <1>1, <1>4, <4>1 DEF Joins
      <4>4. g[(i - j) - 1] \in Seq(S) /\ v[i] \in Seq(S) /\ u[i] = v[i]
        BY <2>1, <4>1
      <4>5. m \o (g[(i - j) - 1] \o v[i]) = (m \o g[(i - j) - 1]) \o v[i]
        <5>1. PICK a \in Seq(S), b \in Seq(S), c \in Seq(S) :
                a = g[(i - j) - 1] /\ b = v[i] /\ c = m
          BY <2>2, <4>4, Zenon
        <5>2. Cat(Cat(c, a), b) = Cat(c, Cat(a, b))
          BY CatAssociative
        <5>3. QED
          BY <5>1, <5>2, Zenon DEF Cat
      <4>6. QED
        BY <4>2, <4>3, <4>4, <4>5
    <3>4. i < j \/ i = j \/ j < i
      BY <3>0
    <3>5. QED
      BY <3>1, <3>2, <3>3, <3>4, Zenon
  <2>8. Joins(h, u, n)
    BY <2>6, <2>7 DEF Joins
  <2>9. FlattenSeq(u) = h[n]
    BY <2>1, <2>4, <2>8, FlattenJoins
  <2>10. h[n] = m \o B
    BY <1>0, <2>5
  <2>11. m \o B = A \o (q \o B)
    <3>1. PICK a \in Seq(S), b \in Seq(S) : a = A /\ b = B
      BY <1>5, Zenon
    <3>2. Cat(Cat(a, q), b) = Cat(a, Cat(q, b))
      BY CatAssociative
    <3>3. QED
      BY <3>1, <3>2, Zenon DEF m, Cat
  <2>12. QED
    BY <2>9, <2>10, <2>11, Zenon DEF u, Spliced
<1> HIDE DEF A, B
<1>9. SplitsAt(v, n, S, j, A, B)
  BY <1>6, <1>7, <1>8, Zenon DEF SplitsAt
<1>10. QED
  BY <1>5, <1>9, Zenon

\* A join of empty sequences is empty.
LEMMA FlattenEmpty ==
  ASSUME NEW n \in Nat \ {0}, NEW S, NEW v \in [1 .. n -> Seq(S)],
         \A i \in 1 .. n : v[i] = <<>>
  PROVE  FlattenSeq(v) = <<>>
<1>1. PICK f \in [0 .. n -> Seq(S)] : Joins(f, v, n)
  BY JoinsExist
<1>2. FlattenSeq(v) = f[n]
  BY <1>1, FlattenJoins, Zenon
<1>3. \A x : ~Contains(<<>>, x)
  BY EmptySeq, ContainsHead
<1>4. n \in Nat /\ n \in 0 .. n /\ f[n] \in Seq(S)
  OBVIOUS
<1>5. ASSUME NEW x PROVE ~Contains(f[n], x)
  <2>1. \A i \in 1 .. n : v[i] \in Seq(S)
    OBVIOUS
  <2>2. \A i \in 0 .. n : Contains(f[i], x) => \E l \in 1 .. i : Contains(v[l], x)
    BY <1>1, <1>4, <2>1, JoinsElements, Zenon
  <2>3. QED
    BY <1>3, <1>4, <2>2, Zenon
<1>6. QED
  BY <1>2, <1>4, <1>5, ContainsHead

\* d has the elements of A, then those of q, then those of B.
InRow(d, A, q, B) ==
  /\ Len(d) = Len(A) + Len(q) + Len(B)
  /\ \A i \in 1 .. Len(A) + Len(q) + Len(B) :
       d[i] = IF i <= Len(A) THEN A[i]
              ELSE IF i <= Len(A) + Len(q) THEN q[i - Len(A)]
              ELSE B[i - Len(A) - Len(q)]

\* d is q with x as its k-th element.
Inserted(d, q, k, x) ==
  /\ Len(d) = Len(q) + 1
  /\ \A i \in 1 .. Len(q) + 1 :
       d[i] = IF i < k THEN q[i] ELSE IF i = k THEN x ELSE q[i - 1]

\* The elements of three sequences in a row.
LEMMA Splice ==
  ASSUME NEW S, NEW A \in Seq(S), NEW q \in Seq(S), NEW B \in Seq(S)
  PROVE  /\ Spliced(A, q, B) \in Seq(S)
         /\ Len(A) \in Nat /\ Len(q) \in Nat /\ Len(B) \in Nat
         /\ InRow(Spliced(A, q, B), A, q, B)
         /\ \A x : Contains(Spliced(A, q, B), x) <=>
                     Contains(A, x) \/ Contains(q, x) \/ Contains(B, x)
<1> DEFINE c == q \o B
<1>1. Len(A) \in Nat /\ Len(q) \in Nat /\ Len(B) \in Nat
  BY LenProperties
<1>2. /\ c \in Seq(S) /\ Len(c) = Len(q) + Len(B)
      /\ \A i \in 1 .. Len(q) + Len(B) :
           c[i] = IF i <= Len(q) THEN q[i] ELSE B[i - Len(q)]
      /\ \A x : Contains(c, x) <=> Contains(q, x) \/ Contains(B, x)
  BY ConcatProperties, ContainsConcat
<1> HIDE DEF c
<1> DEFINE d == A \o c
<1>3. /\ d \in Seq(S) /\ Len(d) = Len(A) + Len(c)
      /\ \A i \in 1 .. Len(A) + Len(c) :
           d[i] = IF i <= Len(A) THEN A[i] ELSE c[i - Len(A)]
      /\ \A x : Contains(d, x) <=> Contains(A, x) \/ Contains(c, x)
  <2>1. /\ d \in Seq(S) /\ Len(d) = Len(A) + Len(c)
        /\ \A i \in 1 .. Len(A) + Len(c) :
             d[i] = IF i <= Len(A) THEN A[i] ELSE c[i - Len(A)]
    <3>1. c \in Seq(S)
      BY <1>2
    <3>2. \A t \in Seq(S) :
             /\ A \o t \in Seq(S) /\ Len(A \o t) = Len(A) + Len(t)
             /\ \A i \in 1 .. Len(A) + Len(t) :
                  (A \o t)[i] = IF i <= Len(A) THEN A[i] ELSE t[i - Len(A)]
      BY ConcatProperties
    <3>3. QED
      BY <3>1, <3>2, Zenon
  <2>2. \A x : Contains(d, x) <=> Contains(A, x) \/ Contains(c, x)
    BY <1>2, ContainsConcat, Zenon
  <2>3. QED
    BY <2>1, <2>2
<1> HIDE DEF d
<1>4. Len(d) = Len(A) + Len(q) + Len(B)
  BY <1>1, <1>2, <1>3
<1>5. ASSUME NEW i \in 1 .. Len(A) + Len(q) + Len(B)
      PROVE  d[i] = IF i <= Len(A) THEN A[i]
                    ELSE IF i <= Len(A) + Len(q) THEN q[i - Len(A)]
                    ELSE B[i - Len(A) - Len(q)]
  <2>1. i \in 1 .. Len(A) + Len(c)
    BY <1>1, <1>2
  <2>2. CASE i <= Len(A)
    BY <1>3, <2>1, <2>2
  <2>3. CASE ~(i <= Len(A))
    <3>1. i - Len(A) \in 1 .. Len(q) + Len(B) /\ d[i] = c[i - Len(A)]
      BY <1>1, <1>3, <2>1, <2>3
    <3>2. c[i - Len(A)] = IF i - Len(A) <= Len(q) THEN q[i - Len(A)]
                          ELSE B[i - Len(A) - Len(q)]
      BY <1>2, <3>1
    <3>3. i - Len(A) <= Len(q) <=> i <= Len(A) + Len(q)
      BY <1>1
    <3>4. QED
      BY <2>3, <3>1, <3>2, <3>3
  <2>4. QED
    BY <2>2, <2>3
<1>6. \A x : Contains(d, x) <=>
               Contains(A, x) \/ Contains(q, x) \/ Contains(B, x)
  BY <1>2, <1>3
<1>7. InRow(d, A, q, B)
  BY <1>4, <1>5 DEF InRow
<1>8. d = Spliced(A, q, B)
  BY Zenon DEF c, d, Spliced
<1>9. QED
  BY <1>1, <1>3, <1>6, <1>7, <1>8, Zenon

\* Removing an element of the stretch q.
LEMMA SpliceRemove ==
  ASSUME NEW S, NEW A \in Seq(S), NEW q \in Seq(S), NEW B \in Seq(S),
         NEW k \in 1 .. Len(q)
  PROVE  /\ Len(A) + k \in 1 .. Len(Spliced(A, q, B))
         /\ RemoveAt(Spliced(A, q, B), Len(A) + k) = Spliced(A, RemoveAt(q, k), B)
<1> DEFINE d == Spliced(A, q, B)
           K == Len(A) + k
           r == RemoveAt(q, k)
           e == Spliced(A, r, B)
           f == RemoveAt(d, K)
<1>1. /\ d \in Seq(S) /\ Len(A) \in Nat /\ Len(q) \in Nat /\ Len(B) \in Nat
      /\ Len(d) = Len(A) + Len(q) + Len(B)
      /\ \A i \in 1 .. Len(A) + Len(q) + Len(B) :
           d[i] = IF i <= Len(A) THEN A[i]
                  ELSE IF i <= Len(A) + Len(q) THEN q[i - Len(A)]
                  ELSE B[i - Len(A) - Len(q)]
  <2>1. /\ Spliced(A, q, B) \in Seq(S) /\ InRow(Spliced(A, q, B), A, q, B)
        /\ Len(A) \in Nat /\ Len(q) \in Nat /\ Len(B) \in Nat
    BY Splice, Zenon
  <2>2. QED
    BY <2>1 DEF InRow
<1>2. /\ r \in Seq(S) /\ Len(r) = Len(q) - 1
      /\ \A i \in 1 .. Len(q) - 1 : r[i] = IF i < k THEN q[i] ELSE q[i + 1]
  BY RemoveAtProperties
<1> HIDE DEF r
<1>3. /\ e \in Seq(S) /\ Len(e) = Len(A) + Len(r) + Len(B)
      /\ \A i \in 1 .. Len(A) + Len(r) + Len(B) :
           e[i] = IF i <= Len(A) THEN A[i]
                  ELSE IF i <= Len(A) + Len(r) THEN r[i - Len(A)]
                  ELSE B[i - Len(A) - Len(r)]
  <2>1. Spliced(A, r, B) \in Seq(S) /\ InRow(Spliced(A, r, B), A, r, B)
    BY <1>2, Splice, Zenon
  <2>2. QED
    BY <2>1 DEF InRow
<1> HIDE DEF d, e
<1>4. K \in 1 .. Len(d)
  BY <1>1
<1> HIDE DEF K
<1>5. /\ f \in Seq(S) /\ Len(f) = Len(d) - 1
      /\ \A i \in 1 .. Len(d) - 1 : f[i] = IF i < K THEN d[i] ELSE d[i + 1]
  BY <1>1, <1>4, RemoveAtProperties
<1> HIDE DEF f
<1>6. Len(f) = Len(e)
  BY <1>1, <1>2, <1>3, <1>5
<1>7. ASSUME NEW i \in 1 .. Len(f) PROVE f[i] = e[i]
  <2>1. /\ i \in Nat /\ i \in 1 .. Len(A) + Len(q) + Len(B) - 1
        /\ i \in 1 .. Len(A) + Len(r) + Len(B)
        /\ i \in 1 .. Len(A) + Len(q) + Len(B)
        /\ i + 1 \in 1 .. Len(A) + Len(q) + Len(B)
    BY <1>1, <1>2, <1>5
  <2>2. f[i] = IF i < K THEN d[i] ELSE d[i + 1]
    BY <1>1, <1>5, <2>1
  <2>3. CASE i <= Len(A)
    <3>1. i < K
      BY <1>1, <2>1, <2>3 DEF K
    <3>2. QED
      BY <1>1, <1>3, <2>1, <2>2, <2>3, <3>1
  <2>4. CASE ~(i <= Len(A)) /\ i < K
    <3>1. /\ i <= Len(A) + Len(q) /\ i <= Len(A) + Len(r)
          /\ i - Len(A) \in 1 .. Len(q) - 1 /\ i - Len(A) < k
      BY <1>1, <1>2, <2>1, <2>4 DEF K
    <3>2. d[i] = q[i - Len(A)] /\ e[i] = r[i - Len(A)]
      BY <1>1, <1>3, <2>1, <2>4, <3>1
    <3>3. r[i - Len(A)] = q[i - Len(A)]
      BY <1>2, <3>1
    <3>4. QED
      BY <2>2, <2>4, <3>2, <3>3
  <2>5. CASE ~(i < K) /\ i <= Len(A) + Len(r)
    <3>1. /\ i + 1 <= Len(A) + Len(q) /\ ~(i <= Len(A)) /\ ~(i + 1 <= Len(A))
          /\ i - Len(A) \in 1 .. Len(q) - 1 /\ ~(i - Len(A) < k)
          /\ (i + 1) - Len(A) = (i - Len(A)) + 1
      BY <1>1, <1>2, <2>1, <2>5 DEF K
    <3>2. d[i + 1] = q[(i - Len(A)) + 1] /\ e[i] = r[i - Len(A)]
      BY <1>1, <1>3, <2>1, <2>5, <3>1
    <3>3. r[i - Len(A)] = q[(i - Len(A)) + 1]
      BY <1>2, <3>1
    <3>4. QED
      BY <2>2, <2>5, <3>2, <3>3
  <2>6. CASE ~(i <= Len(A) + Len(r))
    <3>1. /\ ~(i + 1 <= Len(A) + Len(q)) /\ ~(i <= Len(A))
          /\ ~(i + 1 <= Len(A)) /\ ~(i < K)
          /\ (i + 1) - Len(A) - Len(q) = i - Len(A) - Len(r)
      BY <1>1, <1>2, <2>1, <2>6 DEF K
    <3>2. d[i + 1] = B[i - Len(A) - Len(r)]
      BY <1>1, <2>1, <3>1
    <3>3. e[i] = B[i - Len(A) - Len(r)]
      BY <1>3, <2>1, <2>6, <3>1
    <3>4. QED
      BY <2>2, <3>1, <3>2, <3>3
  <2>7. QED
    BY <2>3, <2>4, <2>5, <2>6
<1>8. f = e
  BY <1>3, <1>5, <1>6, <1>7, SeqEqual
<1>9. QED
  BY <1>4, <1>8 DEF d, e, f, r, K

\* What InsertAt returns.
LEMMA InsertAtProperties ==
  ASSUME NEW S, NEW q \in Seq(S), NEW k \in 1 .. Len(q) + 1, NEW x \in S
  PROVE  /\ InsertAt(q, k, x) \in Seq(S)
         /\ Inserted(InsertAt(q, k, x), q, k, x)
<1>1. Len(q) \in Nat /\ \A i \in 1 .. Len(q) : q[i] \in S
  BY LenProperties, ElementOfSeq
<1> DEFINE f == SubSeq(q, 1, k - 1)
           o == <<x>>
           g == SubSeq(q, k, Len(q))
           d == Spliced(f, o, g)
<1>2. /\ f \in Seq(S) /\ Len(f) = k - 1
      /\ \A i \in 1 .. k - 1 : f[i] = q[i]
  <2>1. \A i \in 1 .. k - 1 : q[i] \in S
    BY <1>1
  <2>2. /\ f \in Seq(S)
        /\ Len(f) = IF 1 <= k - 1 THEN (k - 1) - 1 + 1 ELSE 0
        /\ \A i \in 1 .. (k - 1) - 1 + 1 : f[i] = q[1 + i - 1]
    BY <1>1, <2>1, SubSeqProperties
  <2>3. QED
    BY <1>1, <2>2
<1>3. /\ g \in Seq(S) /\ Len(g) = Len(q) - k + 1
      /\ \A i \in 1 .. Len(q) - k + 1 : g[i] = q[k + i - 1]
  <2>1. \A i \in k .. Len(q) : q[i] \in S
    BY <1>1
  <2>2. /\ g \in Seq(S)
        /\ Len(g) = IF k <= Len(q) THEN Len(q) - k + 1 ELSE 0
        /\ \A i \in 1 .. Len(q) - k + 1 : g[i] = q[k + i - 1]
    BY <1>1, <2>1, SubSeqProperties
  <2>3. QED
    BY <1>1, <2>2
<1>4. o \in Seq(S) /\ Len(o) = 1 /\ o[1] = x
  OBVIOUS
<1>5. InsertAt(q, k, x) = d
  <2>1. PICK a \in Seq(S), b \in Seq(S), c \in Seq(S) : a = f /\ b = o /\ c = g
    BY <1>2, <1>3, <1>4, Zenon
  <2>2. Cat(Cat(a, b), c) = Cat(a, Cat(b, c))
    BY CatAssociative
  <2>3. QED
    BY <2>1, <2>2, Zenon DEF InsertAt, Cat, Spliced
<1> HIDE DEF f, o, g
<1>6. /\ d \in Seq(S) /\ Len(d) = Len(f) + Len(o) + Len(g)
      /\ \A i \in 1 .. Len(f) + Len(o) + Len(g) :
           d[i] = IF i <= Len(f) THEN f[i]
                  ELSE IF i <= Len(f) + Len(o) THEN o[i - Len(f)]
                  ELSE g[i - Len(f) - Len(o)]
  <2>1. Spliced(f, o, g) \in Seq(S) /\ InRow(Spliced(f, o, g), f, o, g)
    BY <1>2, <1>3, <1>4, Splice, Zenon
  <2>2. QED
    BY <2>1 DEF InRow
<1> HIDE DEF d
<1>7. ASSUME NEW i \in 1 .. Len(q) + 1
      PROVE  d[i] = IF i < k THEN q[i] ELSE IF i = k THEN x ELSE q[i - 1]
  <2>0. i \in 1 .. Len(f) + Len(o) + Len(g)
    BY <1>1, <1>2, <1>3, <1>4
  <2>1. CASE i < k
    <3>1. i <= Len(f) /\ i \in 1 .. k - 1
      BY <1>1, <1>2, <2>1
    <3>2. QED
      BY <1>2, <1>6, <2>0, <2>1, <3>1
  <2>2. CASE i = k
    <3>1. ~(i <= Len(f)) /\ i <= Len(f) + Len(o) /\ i - Len(f) = 1
      BY <1>1, <1>2, <1>4, <2>2
    <3>2. d[i] = o[i - Len(f)]
      BY <1>6, <2>0, <3>1
    <3>3. ~(k < k)
      BY <1>1
    <3>4. QED
      BY <1>4, <2>2, <3>1, <3>2, <3>3
  <2>3. CASE i > k
    <3>1. /\ ~(i <= Len(f)) /\ ~(i <= Len(f) + Len(o))
          /\ i - Len(f) - Len(o) \in 1 .. Len(q) - k + 1
          /\ k + (i - Len(f) - Len(o)) - 1 = i - 1 /\ ~(i < k) /\ i # k
      BY <1>1, <1>2, <1>4, <2>3
    <3>2. d[i] = g[i - Len(f) - Len(o)]
      BY <1>6, <2>0, <3>1
    <3>3. g[i - Len(f) - Len(o)] = q[i - 1]
      BY <1>3, <3>1
    <3>4. QED
      BY <3>1, <3>2, <3>3
  <2>4. QED
    BY <1>1, <2>1, <2>2, <2>3
<1>8. Len(d) = Len(q) + 1
  BY <1>1, <1>2, <1>3, <1>4, <1>6
<1>9. Inserted(d, q, k, x)
  BY <1>7, <1>8 DEF Inserted
<1>10. QED
  BY <1>5, <1>6, <1>9, Zenon

\* Appending to the stretch q.
LEMMA SpliceInsert ==
  ASSUME NEW S, NEW A \in Seq(S), NEW q \in Seq(S), NEW B \in Seq(S),
         NEW x \in S
  PROVE  InsertAt(Spliced(A, q, B), Len(A) + Len(q) + 1, x)
           = Spliced(A, Append(q, x), B)
<1> DEFINE d == Spliced(A, q, B)
           K == Len(A) + Len(q) + 1
           r == Append(q, x)
           e == Spliced(A, r, B)
           f == InsertAt(d, K, x)
<1>1. /\ d \in Seq(S) /\ Len(A) \in Nat /\ Len(q) \in Nat /\ Len(B) \in Nat
      /\ Len(d) = Len(A) + Len(q) + Len(B)
      /\ \A i \in 1 .. Len(A) + Len(q) + Len(B) :
           d[i] = IF i <= Len(A) THEN A[i]
                  ELSE IF i <= Len(A) + Len(q) THEN q[i - Len(A)]
                  ELSE B[i - Len(A) - Len(q)]
  <2>1. /\ Spliced(A, q, B) \in Seq(S) /\ InRow(Spliced(A, q, B), A, q, B)
        /\ Len(A) \in Nat /\ Len(q) \in Nat /\ Len(B) \in Nat
    BY Splice, Zenon
  <2>2. QED
    BY <2>1 DEF InRow
<1>2. /\ r \in Seq(S) /\ Len(r) = Len(q) + 1
      /\ \A i \in 1 .. Len(q) : r[i] = q[i]
      /\ r[Len(q) + 1] = x
  BY AppendProperties
<1> HIDE DEF r
<1>3. /\ e \in Seq(S) /\ Len(e) = Len(A) + Len(r) + Len(B)
      /\ \A i \in 1 .. Len(A) + Len(r) + Len(B) :
           e[i] = IF i <= Len(A) THEN A[i]
                  ELSE IF i <= Len(A) + Len(r) THEN r[i - Len(A)]
                  ELSE B[i - Len(A) - Len(r)]
  <2>1. Spliced(A, r, B) \in Seq(S) /\ InRow(Spliced(A, r, B), A, r, B)
    BY <1>2, Splice, Zenon
  <2>2. QED
    BY <2>1 DEF InRow
<1> HIDE DEF d, e
<1>4. K \in 1 .. Len(d) + 1
  BY <1>1
<1> HIDE DEF K
<1>5. /\ f \in Seq(S) /\ Len(f) = Len(d) + 1
      /\ \A i \in 1 .. Len(d) + 1 :
           f[i] = IF i < K THEN d[i] ELSE IF i = K THEN x ELSE d[i - 1]
  <2>1. f \in Seq(S) /\ Inserted(f, d, K, x)
    BY <1>1, <1>4, InsertAtProperties, Zenon
  <2> HIDE DEF f
  <2>2. QED
    BY <2>1 DEF Inserted
<1> HIDE DEF f
<1>6. Len(f) = Len(e)
  BY <1>1, <1>2, <1>3, <1>5
<1>7. ASSUME NEW i \in 1 .. Len(f) PROVE f[i] = e[i]
  <2>1. /\ i \in Nat /\ i \in 1 .. Len(A) + Len(q) + Len(B) + 1
        /\ i \in 1 .. Len(A) + Len(r) + Len(B)
    BY <1>1, <1>2, <1>5
  <2>2. f[i] = IF i < K THEN d[i] ELSE IF i = K THEN x ELSE d[i - 1]
    BY <1>1, <1>5, <2>1
  <2>3. CASE i <= Len(A)
    <3>1. i < K /\ i \in 1 .. Len(A) + Len(q) + Len(B)
      BY <1>1, <2>1, <2>3 DEF K
    <3>2. QED
      BY <1>1, <1>3, <2>1, <2>2, <2>3, <3>1
  <2>4. CASE ~(i <= Len(A)) /\ i < K
    <3>1. /\ i <= Len(A) + Len(q) /\ i <= Len(A) + Len(r)
          /\ i - Len(A) \in 1 .. Len(q)
          /\ i \in 1 .. Len(A) + Len(q) + Len(B)
      BY <1>1, <1>2, <2>1, <2>4 DEF K
    <3>2. d[i] = q[i - Len(A)] /\ e[i] = r[i - Len(A)]
      BY <1>1, <1>3, <2>1, <2>4, <3>1
    <3>3. r[i - Len(A)] = q[i - Len(A)]
      BY <1>2, <3>1
    <3>4. QED
      BY <2>2, <2>4, <3>2, <3>3
  <2>5. CASE i = K
    <3>1. /\ i <= Len(A) + Len(r) /\ ~(i <= Len(A)) /\ ~(i < K)
          /\ i - Len(A) = Len(q) + 1
      BY <1>1, <1>2, <2>1, <2>5 DEF K
    <3>2. e[i] = r[i - Len(A)]
      BY <1>3, <2>1, <3>1
    <3>3. QED
      BY <1>2, <2>2, <2>5, <3>1, <3>2
  <2>6. CASE i > K
    <3>1. /\ ~(i - 1 <= Len(A)) /\ ~(i - 1 <= Len(A) + Len(q))
          /\ ~(i <= Len(A)) /\ ~(i <= Len(A) + Len(r))
          /\ ~(i < K) /\ i # K
          /\ (i - 1) - Len(A) - Len(q) = i - Len(A) - Len(r)
          /\ i - 1 \in 1 .. Len(A) + Len(q) + Len(B)
      BY <1>1, <1>2, <2>1, <2>6 DEF K
    <3>2. d[i - 1] = B[i - Len(A) - Len(r)]
      BY <1>1, <3>1
    <3>3. e[i] = B[i - Len(A) - Len(r)]
      BY <1>3, <2>1, <3>1
    <3>4. QED
      BY <2>2, <3>1, <3>2, <3>3
  <2>7. K \in Nat
    BY <1>1 DEF K
  <2>8. i <= Len(A) \/ (~(i <= Len(A)) /\ i < K) \/ i = K \/ i > K
    BY <2>1, <2>7
  <2>9. QED
    BY <2>3, <2>4, <2>5, <2>6, <2>8, Zenon
<1>8. f = e
  BY <1>3, <1>5, <1>6, <1>7, SeqEqual
<1>9. QED
  BY <1>8, Zenon DEF d, e, f, r, K

\* Taking the first element out.
LEMMA RemoveFirstIsTail ==
  ASSUME NEW S, NEW q \in Seq(S), q # <<>>
  PROVE  RemoveAt(q, 1) = <<>> \o Tail(q)
<1>1. Tail(q) = SubSeq(q, 2, Len(q)) /\ 1 + 1 = 2
  BY TailIsSubSeq
<1>2. SubSeq(q, 1, 0) = <<>> /\ 1 - 1 = 0
  BY SubSeqEmpty
<1>3. QED
  BY <1>1, <1>2, Zenon DEF RemoveAt

\* The last join is determined by the sequences.
LEMMA JoinsEnd ==
  ASSUME NEW n \in Nat, NEW v, NEW f, NEW g, Joins(f, v, n), Joins(g, v, n)
  PROVE  f[n] = g[n]
<1>1. n \in 0 .. n
  OBVIOUS
<1>2. QED
  BY <1>1, JoinsAgree

\* FlattenSeq is the last join, of no sequences too.
LEMMA FlattenIsJoin ==
  ASSUME NEW n \in Nat, NEW S, NEW v \in [1 .. n -> Seq(S)]
  PROVE  \E f \in [0 .. n -> Seq(S)] : Joins(f, v, n) /\ FlattenSeq(v) = f[n]
<1>1. \A i \in 1 .. n : v[i] \in Seq(S)
  OBVIOUS
<1>2. PICK f \in [0 .. n -> Seq(S)] : Joins(f, v, n)
  BY <1>1, JoinsExist
<1>3. CASE n # 0
  <2>1. n \in Nat \ {0}
    BY <1>3
  <2>2. FlattenSeq(v) = f[n]
    BY <1>2, <2>1, FlattenJoins, Zenon
  <2>3. QED
    BY <1>2, <2>2, Zenon
<1>4. CASE n = 0
  <2>1. v \in Seq(Seq(S)) /\ Len(v) = 0
    BY <1>4, FunctionSeq
  <2>2. v = <<>>
    BY <2>1, EmptySeq
  <2>3. FlattenSeq(v) = v
    BY <2>1, Zenon DEF FlattenSeq
  <2>4. f[n] = <<>>
    BY <1>2, <1>4 DEF Joins
  <2>5. QED
    BY <1>2, <2>2, <2>3, <2>4, Zenon
<1>5. QED
  BY <1>3, <1>4

\* A join of sequences over S is one.
LEMMA FlattenType ==
  ASSUME NEW n \in Nat, NEW S, NEW v \in [1 .. n -> Seq(S)]
  PROVE  FlattenSeq(v) \in Seq(S)
<1>1. PICK f \in [0 .. n -> Seq(S)] : Joins(f, v, n) /\ FlattenSeq(v) = f[n]
  BY FlattenIsJoin, Zenon
<1>2. n \in 0 .. n
  OBVIOUS
<1>3. QED
  BY <1>1, <1>2

\* Nothing joined is nothing.
LEMMA FlattenNone ==
  ASSUME NEW S, NEW v \in [1 .. 0 -> Seq(S)]
  PROVE  FlattenSeq(v) = <<>>
<1>1. PICK f \in [0 .. 0 -> Seq(S)] : Joins(f, v, 0) /\ FlattenSeq(v) = f[0]
  BY FlattenIsJoin, Zenon
<1>2. QED
  BY <1>1 DEF Joins

\* One more sequence at the end.
LEMMA FlattenLast ==
  ASSUME NEW n \in Nat, NEW S, NEW v \in [1 .. n + 1 -> Seq(S)],
         NEW w \in [1 .. n -> Seq(S)], \A i \in 1 .. n : w[i] = v[i]
  PROVE  FlattenSeq(v) = FlattenSeq(w) \o v[n + 1]
<1>0. n + 1 \in Nat /\ n \in 0 .. n /\ n + 1 \in 1 .. n + 1 /\ (n + 1) - 1 = n
  OBVIOUS
<1>1. PICK f \in [0 .. n + 1 -> Seq(S)] :
         Joins(f, v, n + 1) /\ FlattenSeq(v) = f[n + 1]
  BY <1>0, FlattenIsJoin, Zenon
<1>2. PICK g \in [0 .. n -> Seq(S)] : Joins(g, w, n) /\ FlattenSeq(w) = g[n]
  BY FlattenIsJoin, Zenon
<1>3. Joins(f, w, n)
  <2>1. \A i \in 1 .. n : i \in 1 .. n + 1
    OBVIOUS
  <2>2. f[0] = <<>> /\ \A i \in 1 .. n + 1 : f[i] = f[i - 1] \o v[i]
    BY <1>1 DEF Joins
  <2>3. \A i \in 1 .. n : f[i] = f[i - 1] \o w[i]
    BY <2>1, <2>2, Zenon
  <2>4. QED
    BY <2>2, <2>3, Zenon DEF Joins
<1>4. g[n] = f[n]
  BY <1>2, <1>3, JoinsEnd, Zenon
<1>5. f[n + 1] = f[(n + 1) - 1] \o v[n + 1]
  BY <1>0, <1>1, Zenon DEF Joins
<1>6. QED
  BY <1>0, <1>1, <1>2, <1>4, <1>5, Zenon

\* w is what follows the first of the sequences v over S.
Shifted(w, v, n, S) ==
  /\ v \in [1 .. n + 1 -> Seq(S)] /\ w \in [1 .. n -> Seq(S)]
  /\ \A i \in 1 .. n : w[i] = v[i + 1]

\* One more sequence at the front.
LEMMA FlattenFirst ==
  ASSUME NEW n \in Nat, NEW S, NEW v, NEW w, Shifted(w, v, n, S)
  PROVE  FlattenSeq(v) = v[1] \o FlattenSeq(w)
<1>a. /\ v \in [1 .. n + 1 -> Seq(S)] /\ w \in [1 .. n -> Seq(S)]
      /\ \A i \in 1 .. n : w[i] = v[i + 1]
  BY Zenon DEF Shifted
<1>0. n + 1 \in Nat /\ n \in 0 .. n /\ n + 1 \in 0 .. n + 1 /\ n + 1 # 0
      /\ (n + 1) - 1 = n /\ 1 \in 1 .. n + 1
  OBVIOUS
<1>1. PICK f \in [0 .. n + 1 -> Seq(S)] :
         Joins(f, v, n + 1) /\ FlattenSeq(v) = f[n + 1]
  BY <1>0, <1>a, FlattenIsJoin, Zenon
<1>2. PICK g \in [0 .. n -> Seq(S)] : Joins(g, w, n) /\ FlattenSeq(w) = g[n]
  BY <1>a, FlattenIsJoin, Zenon
<1> DEFINE h == [i \in 0 .. n + 1 |-> IF i = 0 THEN <<>> ELSE v[1] \o g[i - 1]]
<1>3. h[0] = <<>> /\ \A i \in 1 .. n + 1 : h[i] = v[1] \o g[i - 1]
  <2>1. 0 \in 0 .. n + 1 /\ \A i \in 1 .. n + 1 : i \in 0 .. n + 1 /\ i # 0
    OBVIOUS
  <2>2. QED
    BY <2>1, Zenon
<1>4. h[n + 1] = v[1] \o g[n]
  BY <1>0, Zenon
<1> HIDE DEF h
<1>5. ASSUME NEW i \in 1 .. n + 1 PROVE h[i] = h[i - 1] \o v[i]
  <2>0. v[1] \in Seq(S)
    BY <1>0, <1>a
  <2>1. CASE i = 1
    <3>1. h[1] = v[1] \o g[0] /\ g[0] = <<>>
      <4>1. g[0] = <<>>
        BY <1>2, Zenon DEF Joins
      <4>2. h[1] = v[1] \o g[1 - 1]
        BY <1>0, <1>3, Zenon
      <4>3. 1 - 1 = 0
        OBVIOUS
      <4>4. QED
        BY <4>1, <4>2, <4>3, Zenon
    <3>2. v[1] \o <<>> = v[1] /\ <<>> \o v[1] = v[1]
      BY <2>0, ConcatEmptySeq
    <3>3. h[1] = <<>> \o v[1]
      BY <3>1, <3>2, Zenon
    <3>4. i - 1 = 0
      BY <2>1
    <3>5. QED
      BY <1>3, <2>1, <3>3, <3>4, Zenon
  <2>2. CASE i # 1
    <3>1. /\ i - 1 \in 1 .. n /\ i - 1 \in 1 .. n + 1 /\ (i - 1) + 1 = i
          /\ (i - 1) - 1 \in 0 .. n
      BY <2>2
    <3>2. g[i - 1] = g[(i - 1) - 1] \o w[i - 1] /\ w[i - 1] = v[i]
      BY <1>a, <1>2, <3>1 DEF Joins
    <3>3. h[i] = v[1] \o g[i - 1] /\ h[i - 1] = v[1] \o g[(i - 1) - 1]
      BY <1>3, <3>1
    <3>4. g[(i - 1) - 1] \in Seq(S) /\ v[i] \in Seq(S)
      BY <1>a, <3>1
    <3>5. v[1] \o (g[(i - 1) - 1] \o v[i]) = (v[1] \o g[(i - 1) - 1]) \o v[i]
      <4>1. PICK a \in Seq(S), b \in Seq(S), c \in Seq(S) :
               a = v[1] /\ b = g[(i - 1) - 1] /\ c = v[i]
        BY <2>0, <3>4, Zenon
      <4>2. Cat(Cat(a, b), c) = Cat(a, Cat(b, c))
        BY CatAssociative
      <4>3. QED
        BY <4>1, <4>2, Zenon DEF Cat
    <3>6. QED
      BY <3>2, <3>3, <3>5, Zenon
  <2>3. QED
    BY <2>1, <2>2
<1>6. Joins(h, v, n + 1)
  BY <1>3, <1>5 DEF Joins
<1>7. h[n + 1] = f[n + 1]
  BY <1>0, <1>1, <1>6, JoinsEnd, Zenon
<1>8. QED
  BY <1>1, <1>2, <1>4, <1>7, Zenon

-----------------------------------------------------------------------------
(* Beginnings of sequences *)

\* Two ways to cut a sequence in two: the longer first part starts with the
\* shorter one.
LEMMA Overlap ==
  ASSUME NEW S, NEW a \in Seq(S), NEW b \in Seq(S), NEW c \in Seq(S),
         NEW d \in Seq(S), Cat(a, b) = Cat(c, d), Len(c) <= Len(a)
  PROVE  /\ SubSeq(a, Len(c) + 1, Len(a)) \in Seq(S)
         /\ a = Cat(c, SubSeq(a, Len(c) + 1, Len(a)))
         /\ d = Cat(SubSeq(a, Len(c) + 1, Len(a)), b)
<1> DEFINE e == SubSeq(a, Len(c) + 1, Len(a))
           z == a \o b
<1>0. a \o b = c \o d
  BY Zenon DEF Cat
<1>1. Len(a) \in Nat /\ Len(b) \in Nat /\ Len(c) \in Nat /\ Len(d) \in Nat
  BY LenProperties
<1>2. /\ Len(z) = Len(a) + Len(b) /\ Len(z) = Len(c) + Len(d)
      /\ \A i \in 1 .. Len(a) + Len(b) :
           z[i] = IF i <= Len(a) THEN a[i] ELSE b[i - Len(a)]
      /\ \A i \in 1 .. Len(c) + Len(d) :
           z[i] = IF i <= Len(c) THEN c[i] ELSE d[i - Len(c)]
  BY <1>0, ConcatProperties
<1> HIDE DEF z
<1>3. \A i \in 1 .. Len(a) : a[i] \in S
  BY ElementOfSeq
<1>4. /\ e \in Seq(S) /\ Len(e) = Len(a) - Len(c)
      /\ \A i \in 1 .. Len(a) - Len(c) : e[i] = a[Len(c) + i]
  <2>1. \A i \in Len(c) + 1 .. Len(a) : a[i] \in S
    BY <1>1, <1>3
  <2>2. /\ e \in Seq(S)
        /\ Len(e) = IF Len(c) + 1 <= Len(a) THEN Len(a) - (Len(c) + 1) + 1 ELSE 0
        /\ \A i \in 1 .. Len(a) - (Len(c) + 1) + 1 :
             e[i] = a[(Len(c) + 1) + i - 1]
    BY <1>1, <2>1, SubSeqProperties
  <2>3. QED
    BY <1>1, <2>2
<1> HIDE DEF e
<1>5. a = c \o e
  <2> DEFINE y == c \o e
  <2>1. /\ y \in Seq(S) /\ Len(y) = Len(c) + Len(e)
        /\ \A i \in 1 .. Len(c) + Len(e) :
             y[i] = IF i <= Len(c) THEN c[i] ELSE e[i - Len(c)]
    BY <1>4, ConcatProperties
  <2> HIDE DEF y
  <2>2. Len(y) = Len(a)
    BY <1>1, <1>4, <2>1
  <2>3. ASSUME NEW i \in 1 .. Len(a) PROVE a[i] = y[i]
    <3>1. z[i] = a[i]
      BY <1>1, <1>2
    <3>2. CASE i <= Len(c)
      <4>1. i \in 1 .. Len(c) + Len(e) /\ i \in 1 .. Len(c) + Len(d)
        BY <1>1, <1>2, <1>4, <3>2
      <4>2. z[i] = c[i] /\ y[i] = c[i]
        BY <1>2, <2>1, <3>2, <4>1, Zenon
      <4>3. QED
        BY <3>1, <4>2, Zenon
    <3>3. CASE ~(i <= Len(c))
      <4>1. i - Len(c) \in 1 .. Len(a) - Len(c) /\ Len(c) + (i - Len(c)) = i
        BY <1>1, <3>3
      <4>2. e[i - Len(c)] = a[i]
        BY <1>4, <4>1
      <4>3. QED
        BY <1>1, <1>4, <2>1, <3>3, <4>2
    <3>4. QED
      BY <3>2, <3>3
  <2>4. a = y
    BY <2>1, <2>2, <2>3, SeqEqual
  <2>5. QED
    BY <2>4 DEF y
<1>6. d = e \o b
  <2>1. (c \o e) \o b = c \o (e \o b)
    <3>1. PICK x \in Seq(S) : x = e
      BY <1>4, Zenon
    <3>2. Cat(Cat(c, x), b) = Cat(c, Cat(x, b))
      BY CatAssociative
    <3>3. QED
      BY <3>1, <3>2, Zenon DEF Cat
  <2>2. c \o d = c \o (e \o b)
    BY <1>0, <1>5, <2>1
  <2>3. e \o b \in Seq(S)
    BY <1>4, ConcatProperties
  <2>4. QED
    BY <2>2, <2>3, ConcatSimplifications
<1>7. QED
  BY <1>4, <1>5, <1>6, Zenon DEF e, Cat

\* What comes first in a concatenation is a prefix of it, and every prefix is
\* what comes first.
LEMMA PrefixConcat ==
  ASSUME NEW S, NEW s \in Seq(S), NEW t \in Seq(S)
  PROVE  IsPrefix(s, t) <=> \E u \in Seq(S) : t = s \o u
<1>1. Len(s) \in Nat /\ Len(t) \in Nat
  BY LenProperties
<1>2. SubSeq(s, 1, Len(s)) = s
  BY SubSeqFull
<1>3. ASSUME IsPrefix(s, t) PROVE \E u \in Seq(S) : t = s \o u
  <2>1. Len(s) <= Len(t) /\ SubSeq(t, 1, Len(s)) = s
    BY <1>2, <1>3 DEF IsPrefix
  <2>2. SubSeq(t, 1, Len(s)) \o SubSeq(t, Len(s) + 1, Len(t)) = SubSeq(t, 1, Len(t))
    <3>1. 1 \in 1 .. Len(t) + 1 /\ Len(s) \in 1 - 1 .. Len(t)
          /\ Len(t) \in Len(s) .. Len(t)
      BY <1>1, <2>1
    <3>2. QED
      BY <3>1, ConcatAdjacentSubSeq
  <2>3. SubSeq(t, 1, Len(t)) = t
    BY SubSeqFull
  <2>4. SubSeq(t, Len(s) + 1, Len(t)) \in Seq(S)
    <3>1. \A i \in Len(s) + 1 .. Len(t) : t[i] \in S
      BY <1>1, ElementOfSeq
    <3>2. QED
      BY <1>1, <3>1, SubSeqProperties
  <2>5. QED
    BY <2>1, <2>2, <2>3, <2>4
<1>4. ASSUME NEW u \in Seq(S), t = s \o u PROVE IsPrefix(s, t)
  <2>1. /\ Len(u) \in Nat /\ Len(t) = Len(s) + Len(u)
        /\ \A i \in 1 .. Len(s) + Len(u) :
             t[i] = IF i <= Len(s) THEN s[i] ELSE u[i - Len(s)]
    BY <1>4, ConcatProperties, LenProperties
  <2> DEFINE p == SubSeq(t, 1, Len(s))
  <2>2. \A i \in 1 .. Len(s) : t[i] \in S /\ t[i] = s[i]
    BY <1>1, <2>1, ElementOfSeq
  <2>3. /\ p \in Seq(S) /\ Len(p) = IF 1 <= Len(s) THEN Len(s) - 1 + 1 ELSE 0
        /\ \A i \in 1 .. Len(s) - 1 + 1 : p[i] = t[1 + i - 1]
    BY <1>1, <2>2, SubSeqProperties
  <2> HIDE DEF p
  <2>4. Len(p) = Len(s) /\ \A i \in 1 .. Len(s) : p[i] = s[i]
    BY <1>1, <2>2, <2>3
  <2>5. p = s
    BY <2>3, <2>4, SeqEqual
  <2>6. QED
    BY <1>1, <1>2, <2>1, <2>5 DEF IsPrefix, p
<1>5. QED
  BY <1>3, <1>4

\* A prefix stays one when more comes.
LEMMA PrefixMore ==
  ASSUME NEW S, NEW s \in Seq(S), NEW t \in Seq(S), NEW u \in Seq(S),
         IsPrefix(s, t)
  PROVE  IsPrefix(s, t \o u)
<1>1. PICK r \in Seq(S) : t = s \o r
  BY PrefixConcat
<1>2. t \o u \in Seq(S) /\ r \o u \in Seq(S)
  BY ConcatProperties
<1>3. (s \o r) \o u = s \o (r \o u)
  BY ConcatAssociative
<1>4. QED
  BY <1>1, <1>2, <1>3, PrefixConcat

\* A prefix of a prefix is a prefix, and a prefix stays one when more comes.
LEMMA PrefixGrows ==
  ASSUME NEW S, NEW s \in Seq(S), NEW t \in Seq(S), NEW u \in Seq(S),
         IsPrefix(s, t)
  PROVE  /\ IsPrefix(s, t \o u) /\ IsPrefix(s, s)
         /\ IsPrefix(t, u) => IsPrefix(s, u)
<1>1. IsPrefix(s, t \o u)
  BY PrefixMore
<1>2. s = s \o <<>> /\ <<>> \in Seq(S)
  BY ConcatEmptySeq, EmptySeq
<1>3. IsPrefix(s, s)
  BY <1>2, PrefixConcat
<1>4. ASSUME IsPrefix(t, u) PROVE IsPrefix(s, u)
  <2>1. PICK x \in Seq(S) : u = t \o x
    BY <1>4, PrefixConcat
  <2>2. IsPrefix(s, t \o x)
    BY PrefixMore
  <2>3. QED
    BY <2>1, <2>2, Zenon
<1>5. QED
  BY <1>1, <1>3, <1>4

\* Concatenation and its unit.
LEMMA CatFacts ==
  ASSUME NEW S
  PROVE  /\ <<>> \in Seq(S)
         /\ \A a, b \in Seq(S) : Cat(a, b) \in Seq(S)
         /\ \A a \in Seq(S) : Cat(a, <<>>) = a /\ Cat(<<>>, a) = a
<1>1. <<>> \in Seq(S)
  OBVIOUS
<1>2. ASSUME NEW a \in Seq(S), NEW b \in Seq(S) PROVE Cat(a, b) \in Seq(S)
  <2>1. a \o b \in Seq(S)
    BY ConcatProperties
  <2>2. QED
    BY <2>1, Zenon DEF Cat
<1>3. ASSUME NEW a \in Seq(S) PROVE Cat(a, <<>>) = a /\ Cat(<<>>, a) = a
  <2>1. a \o <<>> = a /\ <<>> \o a = a
    BY ConcatEmptySeq
  <2>2. QED
    BY <2>1, Zenon DEF Cat
<1>4. QED
  BY <1>1, <1>2, <1>3, Zenon

\* The elements of a concatenation.
LEMMA CatElements ==
  ASSUME NEW S, NEW a \in Seq(S), NEW b \in Seq(S)
  PROVE  /\ Len(a) \in Nat /\ Len(b) \in Nat /\ Len(Cat(a, b)) = Len(a) + Len(b)
         /\ \A i \in 1 .. Len(a) : Cat(a, b)[i] = a[i]
         /\ \A i \in 1 .. Len(b) : Cat(a, b)[Len(a) + i] = b[i]
<1>1. PICK z : z = a \o b
  OBVIOUS
<1>2. /\ Len(a) \in Nat /\ Len(b) \in Nat /\ Len(z) = Len(a) + Len(b)
      /\ \A i \in 1 .. Len(a) + Len(b) :
           z[i] = IF i <= Len(a) THEN a[i] ELSE b[i - Len(a)]
  BY <1>1, ConcatProperties, LenProperties
<1>3. \A i \in 1 .. Len(a) : z[i] = a[i]
  BY <1>2
<1>4. ASSUME NEW i \in 1 .. Len(b) PROVE z[Len(a) + i] = b[i]
  <2>1. /\ Len(a) + i \in 1 .. Len(a) + Len(b) /\ ~(Len(a) + i <= Len(a))
        /\ (Len(a) + i) - Len(a) = i
    BY <1>2
  <2>2. QED
    BY <1>2, <2>1, Zenon
<1>5. Cat(a, b) = z
  BY <1>1, Zenon DEF Cat
<1>6. QED
  BY <1>2, <1>3, <1>4, <1>5, Zenon

\* A sequence is its first n elements and the others.
LEMMA CatSplit ==
  ASSUME NEW S, NEW w \in Seq(S), NEW n \in 1 .. Len(w)
  PROVE  /\ SubSeq(w, 1, n) \in Seq(S) /\ SubSeq(w, n + 1, Len(w)) \in Seq(S)
         /\ Cat(SubSeq(w, 1, n), SubSeq(w, n + 1, Len(w))) = w
<1>0. Len(w) \in Nat
  BY LenProperties
<1>1. SubSeq(w, 1, n) \o SubSeq(w, n + 1, Len(w)) = SubSeq(w, 1, Len(w))
  <2>1. 1 \in 1 .. Len(w) + 1 /\ n \in 1 - 1 .. Len(w) /\ Len(w) \in n .. Len(w)
    BY <1>0
  <2>2. QED
    BY <2>1, ConcatAdjacentSubSeq
<1>2. SubSeq(w, 1, Len(w)) = w
  BY SubSeqFull
<1>3. SubSeq(w, 1, n) \in Seq(S) /\ SubSeq(w, n + 1, Len(w)) \in Seq(S)
  <2>1. \A i \in 1 .. Len(w) : w[i] \in S
    BY ElementOfSeq
  <2>2. (\A i \in 1 .. n : w[i] \in S) /\ (\A i \in n + 1 .. Len(w) : w[i] \in S)
    BY <1>0, <2>1
  <2>3. n \in Int /\ n + 1 \in Int /\ Len(w) \in Int /\ 1 \in Int
    BY <1>0
  <2>4. QED
    BY <2>2, <2>3, SubSeqProperties
<1>4. QED
  BY <1>1, <1>2, <1>3, Zenon DEF Cat

\* Appending to a sequence, in terms of its elements.
LEMMA AppendElements ==
  ASSUME NEW S, NEW s \in Seq(S), NEW x \in S
  PROVE  /\ Append(s, x) \in Seq(S) /\ Len(s) \in Nat
         /\ Len(Append(s, x)) = Len(s) + 1
         /\ \A i \in 1 .. Len(s) : Append(s, x)[i] = s[i] /\ s[i] \in S
         /\ Append(s, x)[Len(s) + 1] = x
BY AppendProperties, LenProperties, ElementOfSeq

\* One element is a sequence.
LEMMA Single ==
  ASSUME NEW S, NEW x \in S
  PROVE  /\ <<x>> \in Seq(S) /\ Len(<<x>>) = 1 /\ <<x>>[1] = x
         /\ <<>> \in Seq(S) /\ Len(<<>>) = 0
OBVIOUS

\* A prefix followed by the next element is a prefix.
LEMMA PrefixNext ==
  ASSUME NEW S, NEW s \in Seq(S), NEW t \in Seq(S), IsPrefix(s, t),
         Len(s) + 1 \in 1 .. Len(t)
  PROVE  IsPrefix(Append(s, t[Len(s) + 1]), t)
<1>1. PICK u \in Seq(S) : t = s \o u
  BY PrefixConcat
<1>2. /\ Len(s) \in Nat /\ Len(u) \in Nat /\ Len(t) = Len(s) + Len(u)
      /\ t[Len(s) + 1] = u[(Len(s) + 1) - Len(s)]
  BY <1>1, ConcatProperties, LenProperties
<1>3. u # <<>> /\ t[Len(s) + 1] = u[1]
  BY <1>2
<1>4. PICK h \in S, l \in Seq(S) : h = u[1] /\ u = Cat(<<h>>, l)
  <2>1. Head(u) \in S /\ Tail(u) \in Seq(S) /\ u = <<Head(u)>> \o Tail(u) /\ Head(u) = u[1]
    BY <1>3, HeadTailProperties
  <2>2. QED
    BY <2>1, Zenon DEF Cat
<1>5. PICK x \in Seq(S) : x = <<h>>
  BY Single
<1>6. Cat(Cat(s, x), l) = Cat(s, Cat(x, l))
  BY CatAssociative
<1>7. Append(s, h) = s \o <<h>> /\ Append(s, h) \in Seq(S)
  BY AppendIsConcat, AppendProperties
<1>8. t = Append(s, h) \o l
  BY <1>1, <1>4, <1>5, <1>6, <1>7, Zenon DEF Cat
<1>9. IsPrefix(Append(s, h), t)
  BY <1>7, <1>8, PrefixConcat
<1>10. QED
  BY <1>3, <1>4, <1>9, Zenon

\* f is the table of the numbers that the first digits of v make up.
Places(f, v, b, n) == f = [i \in 0 .. n |-> IF i = 0 THEN 0 ELSE f[i - 1] * b + v[i]]

\* What a table says of its entries.
LEMMA PlacesEntries ==
  ASSUME NEW n \in Nat, NEW v, NEW b, NEW f, Places(f, v, b, n)
  PROVE  /\ DOMAIN f = 0 .. n
         /\ f[0] = 0
         /\ \A i \in 1 .. n : f[i] = f[i - 1] * b + v[i]
<1> DEFINE e(i) == IF i = 0 THEN 0 ELSE f[i - 1] * b + v[i]
<1>1. f = [i \in 0 .. n |-> e(i)]
  BY Zenon DEF Places
<1>2. DOMAIN f = 0 .. n /\ \A i \in 0 .. n : f[i] = e(i)
  BY <1>1, Zenon
<1>3. 0 \in 0 .. n /\ \A i \in 1 .. n : i \in 0 .. n /\ i # 0
  OBVIOUS
<1>4. QED
  BY <1>2, <1>3, Zenon

\* Two tables agree as far as both go (least counterexample).
LEMMA PlacesAgree ==
  ASSUME NEW n \in Nat, NEW m \in Nat, n <= m, NEW v, NEW b, NEW f, NEW g,
         Places(f, v, b, n), Places(g, v, b, m)
  PROVE  \A i \in 0 .. n : f[i] = g[i]
<1> DEFINE Bad == {i \in 0 .. n : f[i] # g[i]}
<1>1. SUFFICES ASSUME Bad # {} PROVE FALSE
  OBVIOUS
<1>2. Bad \in SUBSET Nat
  OBVIOUS
<1>3. PICK k \in Bad : \A j \in Bad : k <= j
  BY <1>1, <1>2, MinNat
<1>4. k \in 0 .. n /\ f[k] # g[k] /\ \A j \in 0 .. n : j < k => f[j] = g[j]
  BY <1>3
<1> HIDE DEF Bad
<1>5. /\ f[0] = 0 /\ \A i \in 1 .. n : f[i] = f[i - 1] * b + v[i]
      /\ g[0] = 0 /\ \A i \in 1 .. m : g[i] = g[i - 1] * b + v[i]
  BY PlacesEntries
<1>6. k # 0
  BY <1>4, <1>5
<1>7. k \in 1 .. n /\ k \in 1 .. m /\ k - 1 \in 0 .. n /\ k - 1 < k
  BY <1>4, <1>6
<1>8. f[k] = f[k - 1] * b + v[k] /\ g[k] = g[k - 1] * b + v[k] /\ f[k - 1] = g[k - 1]
  BY <1>4, <1>5, <1>7
<1>9. QED
  BY <1>4, <1>8

\* There is a table for every length (least counterexample).
LEMMA PlacesExist ==
  ASSUME NEW n \in Nat, NEW v, NEW b
  PROVE  \E f : Places(f, v, b, n)
<1> DEFINE Bad == {i \in Nat : ~ \E f : Places(f, v, b, i)}
<1>1. SUFFICES ASSUME Bad # {} PROVE FALSE
  OBVIOUS
<1>2. Bad \in SUBSET Nat
  OBVIOUS
<1>3. PICK k \in Bad : \A j \in Bad : k <= j
  BY <1>1, <1>2, MinNat
<1>4. k \in Nat /\ (~ \E f : Places(f, v, b, k))
  BY <1>3
<1>5. \A j \in Nat : j < k => \E f : Places(f, v, b, j)
  BY <1>3, <1>4
<1> HIDE DEF Bad
<1>6. k # 0
  <2>1. SUFFICES ASSUME k = 0 PROVE FALSE
    OBVIOUS
  <2> DEFINE z == [i \in 0 .. 0 |-> 0]
  <2>2. z = [i \in 0 .. 0 |-> IF i = 0 THEN 0 ELSE z[i - 1] * b + v[i]]
    OBVIOUS
  <2> HIDE DEF z
  <2>3. Places(z, v, b, k)
    BY <2>1, <2>2 DEF Places
  <2>4. QED
    BY <1>4, <2>3
<1>7. k - 1 \in Nat /\ k - 1 < k
  BY <1>4, <1>6
<1>8. PICK f : Places(f, v, b, k - 1)
  BY <1>5, <1>7
<1>9. f[0] = 0 /\ \A i \in 1 .. k - 1 : f[i] = f[i - 1] * b + v[i]
  BY <1>7, <1>8, PlacesEntries
<1> DEFINE g == [i \in 0 .. k |-> IF i = k THEN f[k - 1] * b + v[k] ELSE f[i]]
           h == [i \in 0 .. k |-> IF i = 0 THEN 0 ELSE g[i - 1] * b + v[i]]
<1>10. ASSUME NEW i \in 0 .. k PROVE g[i] = h[i]
  <2>1. CASE i = 0
    BY <1>4, <1>6, <1>9, <2>1
  <2>2. CASE i = k
    <3>1. k - 1 \in 0 .. k /\ k - 1 # k /\ k \in 0 .. k /\ k # 0
      BY <1>4, <1>6, <1>7
    <3>2. g[k - 1] = f[k - 1]
      BY <3>1
    <3>3. QED
      BY <2>2, <3>1, <3>2
  <2>3. CASE i # 0 /\ i # k
    <3>1. i \in 1 .. k - 1 /\ i - 1 \in 0 .. k /\ i - 1 # k
      BY <1>4, <2>3
    <3>2. g[i] = f[i] /\ g[i - 1] = f[i - 1] /\ f[i] = f[i - 1] * b + v[i]
      BY <1>9, <2>3, <3>1
    <3>3. QED
      BY <2>3, <3>2
  <2>4. QED
    BY <2>1, <2>2, <2>3
<1>11. g = h
  BY <1>10
<1>12. Places(g, v, b, k)
  <2>1. g = [i \in 0 .. k |-> IF i = 0 THEN 0 ELSE g[i - 1] * b + v[i]]
    BY <1>11, Zenon
  <2> HIDE DEF g
  <2>2. QED
    BY <2>1, Zenon DEF Places
<1>13. QED
  BY <1>4, <1>12, Zenon

\* Numeral is the last entry of a table, and so of every table.
LEMMA NumeralTable ==
  ASSUME NEW n \in Nat, NEW v, NEW b, NEW f, Places(f, v, b, n)
  PROVE  Numeral(v, b, n) = f[n]
<1> DEFINE s == CHOOSE g : g = [i \in 0 .. n |-> IF i = 0 THEN 0
                                                 ELSE g[i - 1] * b + v[i]]
<1>1. \E g : g = [i \in 0 .. n |-> IF i = 0 THEN 0 ELSE g[i - 1] * b + v[i]]
  BY Zenon DEF Places
<1>2. Places(s, v, b, n)
  BY <1>1, Zenon DEF Places
<1>3. Numeral(v, b, n) = s[n]
  BY Zenon DEF Numeral
<1> HIDE DEF s
<1>4. \A i \in 0 .. n : s[i] = f[i]
  BY <1>2, PlacesAgree
<1>5. QED
  BY <1>3, <1>4

\* The recursion of Numeral.
LEMMA NumeralStep ==
  ASSUME NEW v, NEW b
  PROVE  /\ Numeral(v, b, 0) = 0
         /\ \A n \in Nat : Numeral(v, b, n + 1) = Numeral(v, b, n) * b + v[n + 1]
<1>1. Numeral(v, b, 0) = 0
  <2>1. PICK f : Places(f, v, b, 0)
    BY PlacesExist
  <2>2. QED
    BY <2>1, PlacesEntries, NumeralTable
<1>2. ASSUME NEW n \in Nat
      PROVE  Numeral(v, b, n + 1) = Numeral(v, b, n) * b + v[n + 1]
  <2>1. n + 1 \in Nat /\ n <= n + 1 /\ n \in 0 .. n /\ n + 1 \in 1 .. n + 1
        /\ (n + 1) - 1 = n
    OBVIOUS
  <2>2. PICK f : Places(f, v, b, n)
    BY PlacesExist
  <2>3. PICK g : Places(g, v, b, n + 1)
    BY <2>1, PlacesExist
  <2>4. f[n] = g[n]
    BY <2>1, <2>2, <2>3, PlacesAgree
  <2>5. g[n + 1] = g[n] * b + v[n + 1]
    BY <2>1, <2>3, PlacesEntries
  <2>6. Numeral(v, b, n) = f[n] /\ Numeral(v, b, n + 1) = g[n + 1]
    BY <2>1, <2>2, <2>3, NumeralTable
  <2>7. QED
    BY <2>4, <2>5, <2>6
<1>3. QED
  BY <1>1, <1>2

\* Whatever satisfies the recursion is the number (least counterexample).
LEMMA NumeralUnique ==
  ASSUME NEW n \in Nat, NEW v, NEW b, NEW g, g[0] = 0,
         \A i \in 1 .. n : g[i] = g[i - 1] * b + v[i]
  PROVE  Numeral(v, b, n) = g[n]
<1> DEFINE Bad == {i \in 0 .. n : Numeral(v, b, i) # g[i]}
<1>1. SUFFICES ASSUME Bad # {} PROVE FALSE
  OBVIOUS
<1>2. Bad \in SUBSET Nat
  OBVIOUS
<1>3. PICK k \in Bad : \A j \in Bad : k <= j
  BY <1>1, <1>2, MinNat
<1>4. /\ k \in 0 .. n /\ Numeral(v, b, k) # g[k]
      /\ \A j \in 0 .. n : j < k => Numeral(v, b, j) = g[j]
  BY <1>3
<1> HIDE DEF Bad
<1>5. k # 0
  BY <1>4, NumeralStep
<1>6. k \in 1 .. n /\ k - 1 \in 0 .. n /\ k - 1 \in Nat /\ k - 1 < k
      /\ (k - 1) + 1 = k
  BY <1>4, <1>5
<1>7. Numeral(v, b, (k - 1) + 1) = Numeral(v, b, k - 1) * b + v[(k - 1) + 1]
  BY <1>6, NumeralStep
<1>8. Numeral(v, b, k) = Numeral(v, b, k - 1) * b + v[k]
  BY <1>6, <1>7
<1>9. QED
  BY <1>4, <1>6, <1>8

\* Equal digits make equal numbers.
LEMMA NumeralSame ==
  ASSUME NEW n \in Nat, NEW v, NEW b, NEW w, \A i \in 1 .. n : v[i] = w[i]
  PROVE  Numeral(v, b, n) = Numeral(w, b, n)
<1> DEFINE g == [i \in 0 .. n |-> Numeral(w, b, i)]
<1>1. g[0] = 0
  BY NumeralStep
<1>2. ASSUME NEW i \in 1 .. n PROVE g[i] = g[i - 1] * b + v[i]
  <2>1. i \in 0 .. n /\ i - 1 \in 0 .. n /\ i - 1 \in Nat /\ (i - 1) + 1 = i
    OBVIOUS
  <2>2. Numeral(w, b, (i - 1) + 1) = Numeral(w, b, i - 1) * b + w[(i - 1) + 1]
    BY <2>1, NumeralStep
  <2>3. QED
    BY <2>1, <2>2
<1>3. g[n] = Numeral(w, b, n)
  OBVIOUS
<1> HIDE DEF g
<1>4. QED
  BY <1>1, <1>2, <1>3, NumeralUnique

-----------------------------------------------------------------------------
(* Concatenations *)

\* The powers of a positive base are positive, each b times the one before
\* (least counterexample).
LEMMA PowerStep ==
  ASSUME NEW b \in Nat \ {0}
  PROVE  /\ Power(b, 0) = 1
         /\ \A k \in Nat : /\ Power(b, k + 1) = Power(b, k) * b
                           /\ Power(b, k) \in Nat \ {0}
<1> DEFINE z(k) == [i \in 1 .. k + 1 |-> IF i = 1 THEN 1 ELSE 0]
<1>1. ASSUME NEW k \in Nat PROVE Power(b, k) = Numeral(z(k), b, k + 1)
  BY Zenon DEF Power
<1>2. Power(b, 0) = 1
  <2>1. Power(b, 0) = Numeral(z(0), b, 0 + 1) /\ 0 \in Nat
    BY <1>1
  <2>2. Numeral(z(0), b, 0 + 1) = Numeral(z(0), b, 0) * b + z(0)[0 + 1]
        /\ Numeral(z(0), b, 0) = 0
    BY <2>1, NumeralStep, Zenon
  <2>3. z(0)[0 + 1] = 1
    OBVIOUS
  <2>4. QED
    BY <2>1, <2>2, <2>3
<1>3. ASSUME NEW k \in Nat PROVE Power(b, k + 1) = Power(b, k) * b + 0
  <2>1. k + 1 \in Nat /\ (k + 1) + 1 \in 1 .. (k + 1) + 1 /\ (k + 1) + 1 # 1
        /\ \A i \in 1 .. k + 1 : i \in 1 .. (k + 1) + 1
    OBVIOUS
  <2>2. Power(b, k + 1) = Numeral(z(k + 1), b, (k + 1) + 1)
    BY <1>1, <2>1, Zenon
  <2>3. Numeral(z(k + 1), b, (k + 1) + 1)
          = Numeral(z(k + 1), b, k + 1) * b + z(k + 1)[(k + 1) + 1]
    BY <2>1, NumeralStep, Zenon
  <2>4. z(k + 1)[(k + 1) + 1] = 0
    BY <2>1, Zenon
  <2>5. \A i \in 1 .. k + 1 : z(k + 1)[i] = z(k)[i]
    BY <2>1, Zenon
  <2>6. Numeral(z(k + 1), b, k + 1) = Numeral(z(k), b, k + 1)
    <3>1. PICK x, y : x = z(k + 1) /\ y = z(k)
      OBVIOUS
    <3>2. \A i \in 1 .. k + 1 : x[i] = y[i]
      BY <2>5, <3>1, Zenon
    <3>3. Numeral(x, b, k + 1) = Numeral(y, b, k + 1)
      BY <2>1, <3>2, NumeralSame, Zenon
    <3>4. QED
      BY <3>1, <3>3, Zenon
  <2>7. QED
    BY <1>1, <2>2, <2>3, <2>4, <2>6, Zenon
<1> HIDE DEF z
<1>4. ASSUME NEW k \in Nat PROVE Power(b, k) \in Nat \ {0}
  <2> DEFINE Bad == {i \in Nat : Power(b, i) \notin Nat \ {0}}
  <2>1. SUFFICES ASSUME Bad # {} PROVE FALSE
    OBVIOUS
  <2>2. Bad \in SUBSET Nat
    OBVIOUS
  <2>3. PICK m \in Bad : \A j \in Bad : m <= j
    BY <2>1, <2>2, MinNat
  <2>4. /\ m \in Nat /\ Power(b, m) \notin Nat \ {0}
        /\ \A j \in Nat : j < m => Power(b, j) \in Nat \ {0}
    BY <2>3
  <2> HIDE DEF Bad
  <2>5. m # 0
    BY <1>2, <2>4
  <2>6. m - 1 \in Nat /\ m - 1 < m /\ (m - 1) + 1 = m
    BY <2>4, <2>5
  <2>7. Power(b, (m - 1) + 1) = Power(b, m - 1) * b + 0
    BY <1>3, <2>6, Zenon
  <2>8. \A x \in Nat \ {0} : x * b + 0 \in Nat \ {0}
    OBVIOUS
  <2>9. QED
    BY <2>4, <2>6, <2>7, <2>8
<1>5. ASSUME NEW k \in Nat PROVE Power(b, k + 1) = Power(b, k) * b
  BY <1>3, <1>4
<1>6. QED
  BY <1>2, <1>4, <1>5

\* Dividing twice is dividing once.
LEMMA DivDiv ==
  ASSUME NEW n \in Nat, NEW P \in Nat \ {0}, NEW b \in Nat \ {0}
  PROVE  n \div (P * b) = (n \div P) \div b
<1> DEFINE q == n \div P
           r == n % P
           Q == q \div b
           R == q % b
<1>1. q \in Int /\ r \in 0 .. P - 1 /\ n = P * q + r
  BY DivMod
<1> HIDE DEF q, r
<1>2. Q \in Int /\ R \in 0 .. b - 1 /\ q = b * Q + R
  BY <1>1, DivMod
<1> HIDE DEF Q, R
<1>3. P * b \in Nat \ {0}
  OBVIOUS
<1>4. n = (P * b) * Q + (P * R + r)
  <2>1. P * (b * Q + R) = (P * b) * Q + P * R
    BY <1>2
  <2>2. P * R \in Int /\ (P * b) * Q \in Int
    BY <1>2
  <2>3. QED
    BY <1>1, <1>2, <2>1, <2>2
<1>5. P * R + r \in 0 .. (P * b) - 1
  <2>1. P * R <= P * (b - 1) /\ P * R >= 0 /\ P * R \in Int
    BY <1>2
  <2>2. P * (b - 1) = P * b - P
    OBVIOUS
  <2>3. QED
    BY <1>1, <2>1, <2>2
<1>6. n \div (P * b) = Q
  <2>1. PICK M \in Nat \ {0} : M = P * b
    BY <1>3
  <2>2. PICK k \in 0 .. M - 1 : k = P * R + r
    BY <1>5, <2>1
  <2>3. (M * Q + k) \div M = Q
    BY <1>2, ModUnique
  <2>4. QED
    BY <1>4, <2>1, <2>2, <2>3, Zenon
<1>7. QED
  BY <1>6 DEF Q, q

\* The digits of n to base b make up n.
LEMMA DigitsMakeUp ==
  ASSUME NEW b \in Nat \ {0}, NEW d \in Nat, NEW n \in 0 .. Power(b, d) - 1,
         NEW v, \A k \in 1 .. d : v[k] = (n \div Power(b, d - k)) % b
  PROVE  Numeral(v, b, d) = n
<1> DEFINE g == [i \in 0 .. d |-> n \div Power(b, d - i)]
<1>0. n \in Nat
  <2>1. Power(b, d) \in Nat
    BY PowerStep
  <2>2. QED
    BY <2>1
<1>1. g[0] = 0
  <2>1. PICK M \in Nat \ {0} : M = Power(b, d)
    BY PowerStep
  <2>2. n \in 0 .. M - 1
    BY <2>1
  <2>3. \A x \in 0 .. M - 1 : x \div M = 0
    OBVIOUS
  <2>4. n \div M = 0
    BY <2>2, <2>3
  <2>5. g[0] = n \div Power(b, d - 0) /\ d - 0 = d
    OBVIOUS
  <2>6. QED
    BY <2>1, <2>4, <2>5
<1>2. g[d] = n
  <2>1. g[d] = n \div Power(b, d - d) /\ d - d = 0
    OBVIOUS
  <2>2. Power(b, 0) = 1
    BY PowerStep
  <2>3. n \div 1 = n
    BY <1>0
  <2>4. QED
    BY <2>1, <2>2, <2>3
<1>3. ASSUME NEW i \in 1 .. d PROVE g[i] = g[i - 1] * b + v[i]
  <2>1. /\ i \in 0 .. d /\ i - 1 \in 0 .. d /\ d - i \in Nat
        /\ d - (i - 1) = (d - i) + 1
    OBVIOUS
  <2>2. g[i] = n \div Power(b, d - i) /\ g[i - 1] = n \div Power(b, (d - i) + 1)
    BY <2>1
  <2>3. PICK P \in Nat \ {0} : P = Power(b, d - i)
    BY <2>1, PowerStep
  <2>4. Power(b, (d - i) + 1) = P * b
    BY <2>1, <2>3, PowerStep
  <2> HIDE DEF g
  <2>5. n \div P \in Int
    BY <1>0, DivMod
  <2>6. PICK q \in Int : q = n \div P
    BY <2>5
  <2>7. n \div (P * b) = q \div b
    BY <1>0, <2>6, DivDiv
  <2>8. q = b * (q \div b) + (q % b) /\ q \div b \in Int
    BY DivMod
  <2>9. b * (q \div b) = (q \div b) * b
    BY <2>8
  <2>10. v[i] = q % b
    BY <2>3, <2>6
  <2>11. QED
    BY <2>2, <2>3, <2>4, <2>6, <2>7, <2>8, <2>9, <2>10
<1> HIDE DEF g
<1>4. QED
  BY <1>1, <1>2, <1>3, NumeralUnique
=============================================================================
