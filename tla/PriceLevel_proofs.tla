-------------------------- MODULE PriceLevel_proofs --------------------------
(***************************************************************************)
(* The price level, for every pool of orders and every width: the pointers *)
(* stand for the queue, and the running total is the sum of its orders.    *)
(***************************************************************************)
EXTENDS PriceLevel, DataLemmas

\* Each part needs the others: the links say which order a removal takes out
\* of the total, and the types make the arithmetic one of integers.
IInv == TypeOK /\ ListExact /\ TotalExact

\* Position i of queue q, null outside of it.
At(q, i) == IF i \in 1 .. Len(q) THEN q[i] ELSE NULL

\* The links nx and pv, from h to t, stand for queue q.
Chain(q, h, t, nx, pv) ==
  /\ h = At(q, 1) /\ t = At(q, Len(q))
  /\ \A i \in 1 .. Len(q) : nx[q[i]] = At(q, i + 1) /\ pv[q[i]] = At(q, i - 1)
  /\ \A o \in Orders : ~Contains(q, o) => nx[o] = NULL /\ pv[o] = NULL

\* ListExact, with its local definition made visible.
LEMMA ListExactChain ==
  ListExact <=> /\ IsInjective(queue) /\ count = Len(queue)
                /\ Chain(queue, head, tail, next, prev)
  BY Zenon DEF ListExact, Chain, At

LEMMA ListExactChainPrime ==
  ListExact' <=> /\ IsInjective(queue') /\ count' = Len(queue')
                 /\ Chain(queue', head', tail', next', prev')
  BY Zenon DEF ListExact, Chain, At

\* What queue q adds up to when l is left of each order.
OpenQty(q, l) == PrefixSum([i \in 1 .. Len(q) |-> l[q[i]]], Len(q))

LEMMA TotalExactOpen ==
  /\ TotalExact <=> total_qty = OpenQty(queue, left) % Modulus
  /\ TotalExact' <=> total_qty' = OpenQty(queue', left') % Modulus
  BY Zenon DEF TotalExact, OpenQty

-----------------------------------------------------------------------------
(* The list *)

\* push links an order of no level behind the tail.
LEMMA PushChain ==
  ASSUME NEW o \in Orders, NEW q, TypeOK, ListExact, push(o, q)
  PROVE  ListExact' /\ queue' \in Seq(Orders)
<1> DEFINE n == Len(queue)
<1>1. /\ n \in Nat /\ queue \in Seq(Orders)
      /\ \A i \in 1 .. n : queue[i] \in Orders
  BY LenProperties, ElementOfSeq DEF TypeOK
<1>2. /\ IsInjective(queue) /\ count = n
      /\ Chain(queue, head, tail, next, prev)
  BY ListExactChain
<1>3. /\ queue' \in Seq(Orders) /\ Len(queue') = n + 1
      /\ \A i \in 1 .. n : queue'[i] = queue[i]
      /\ queue'[n + 1] = o
  BY <1>1, AppendProperties DEF push
<1>4. IsInjective(queue') /\ \A m : Contains(queue', m) <=> Contains(queue, m) \/ m = o
  BY <1>1, <1>2, AppendDistinct DEF push
<1>5. /\ \A i \in 1 .. n : queue[i] # o
      /\ \A i, j \in 1 .. n : queue[i] = queue[j] => i = j
  <2>1. DOMAIN queue = 1 .. n
    BY <1>1, LenProperties
  <2>2. QED
    BY <1>2, <2>1 DEF push, Contains, IsInjective
<1> HIDE DEF n
<1>6. /\ tail = IF n = 0 THEN NULL ELSE queue[n]
      /\ head = IF n = 0 THEN NULL ELSE queue[1]
      /\ \A i \in 1 .. n : /\ next[queue[i]] = IF i = n THEN NULL ELSE queue[i + 1]
                           /\ prev[queue[i]] = IF i = 1 THEN NULL ELSE queue[i - 1]
  BY <1>1, <1>2 DEF Chain, At, n
<1>7. /\ prev \in [Orders -> Link] /\ next \in [Orders -> Link]
      /\ prev' = [prev EXCEPT ![o] = tail]
      /\ next' = [m \in Orders |-> IF m = o THEN NULL
                                   ELSE IF m = tail THEN o ELSE next[m]]
      /\ head' = IF tail = NULL THEN o ELSE head
      /\ tail' = o
  BY DEF push, TypeOK
<1>8. /\ head' = At(queue', 1) /\ tail' = At(queue', Len(queue'))
  <2>1. n # 0 => tail \in Orders
    BY <1>1, <1>6
  <2>2. QED
    BY <1>1, <1>3, <1>6, <1>7, <2>1, NullAssumption DEF At
<1>9. ASSUME NEW i \in 1 .. Len(queue')
      PROVE  /\ next'[queue'[i]] = At(queue', i + 1)
             /\ prev'[queue'[i]] = At(queue', i - 1)
  <2>1. CASE i = n + 1
    BY <1>1, <1>3, <1>6, <1>7, <2>1 DEF At
  <2>2. CASE i # n + 1
    <3>1. i \in 1 .. n /\ queue'[i] = queue[i] /\ queue[i] \in Orders
          /\ queue[i] # o /\ n # 0
      BY <1>1, <1>3, <1>5, <2>2
    <3>2. next'[queue[i]] = IF i = n THEN o ELSE queue[i + 1]
      BY <1>1, <1>5, <1>6, <1>7, <3>1
    <3>3. prev'[queue[i]] = IF i = 1 THEN NULL ELSE queue[i - 1]
      BY <1>6, <1>7, <3>1
    <3>4. At(queue', i + 1) = IF i = n THEN o ELSE queue[i + 1]
      BY <1>1, <1>3, <3>1 DEF At
    <3>5. At(queue', i - 1) = IF i = 1 THEN NULL ELSE queue[i - 1]
      BY <1>1, <1>3, <3>1 DEF At
    <3>6. QED
      BY <3>1, <3>2, <3>3, <3>4, <3>5
  <2>3. QED
    BY <2>1, <2>2
<1>10. ASSUME NEW p \in Orders, ~Contains(queue', p)
       PROVE  next'[p] = NULL /\ prev'[p] = NULL
  <2>1. ~Contains(queue, p) /\ p # o
    BY <1>4, <1>10
  <2>2. next[p] = NULL /\ prev[p] = NULL
    BY <1>2, <2>1 DEF Chain
  <2>3. p # tail
    <3>1. \A i \in 1 .. n : queue[i] # p
      BY <2>1 DEF Contains, n
    <3>2. QED
      BY <1>1, <1>6, <3>1, NullAssumption
  <2>4. QED
    BY <1>7, <2>1, <2>2, <2>3
<1>11. Chain(queue', head', tail', next', prev')
  BY <1>8, <1>9, <1>10 DEF Chain
<1>12. count' = Len(queue')
  BY <1>2, <1>3 DEF push
<1>13. QED
  BY <1>3, <1>4, <1>11, <1>12, ListExactChainPrime

\* remove takes the order at any position out of the list.
LEMMA UnlinkChain ==
  ASSUME TypeOK, ListExact, NEW k \in 1 .. Len(queue), unlink(queue[k]),
         queue' = RemoveAt(queue, k)
  PROVE  ListExact' /\ queue' \in Seq(Orders)
<1> DEFINE n == Len(queue)
           o == queue[k]
<1>1. /\ n \in Nat /\ queue \in Seq(Orders) /\ k \in 1 .. n
      /\ \A i \in 1 .. n : queue[i] \in Orders
  BY LenProperties, ElementOfSeq DEF TypeOK
<1>2. /\ IsInjective(queue) /\ count = n
      /\ Chain(queue, head, tail, next, prev)
  BY ListExactChain
<1>3. /\ queue' \in Seq(Orders) /\ Len(queue') = n - 1
      /\ \A i \in 1 .. n - 1 : queue'[i] = IF i < k THEN queue[i] ELSE queue[i + 1]
  BY <1>1, RemoveAtProperties
<1>4. IsInjective(queue') /\ \A m : Contains(queue', m) <=> Contains(queue, m) /\ m # o
  BY <1>1, <1>2, RemoveAtDistinct
<1>5. \A i, j \in 1 .. n : queue[i] = queue[j] => i = j
  <2>1. DOMAIN queue = 1 .. n
    BY <1>1, LenProperties
  <2>2. QED
    BY <1>2, <2>1 DEF IsInjective
<1>6. /\ tail = IF n = 0 THEN NULL ELSE queue[n]
      /\ head = IF n = 0 THEN NULL ELSE queue[1]
      /\ \A i \in 1 .. n : /\ next[queue[i]] = IF i = n THEN NULL ELSE queue[i + 1]
                           /\ prev[queue[i]] = IF i = 1 THEN NULL ELSE queue[i - 1]
  BY <1>1, <1>2 DEF Chain, At
<1>7. /\ prev \in [Orders -> Link] /\ next \in [Orders -> Link]
      /\ next' = [m \in Orders |-> IF m = o THEN NULL
                                   ELSE IF m = prev[o] THEN next[o] ELSE next[m]]
      /\ prev' = [m \in Orders |-> IF m = o THEN NULL
                                   ELSE IF m = next[o] THEN prev[o] ELSE prev[m]]
      /\ head' = IF prev[o] = NULL THEN next[o] ELSE head
      /\ tail' = IF next[o] = NULL THEN prev[o] ELSE tail
      /\ count' = count - 1
  BY DEF unlink, TypeOK
<1>8. o \in Orders /\ \A i \in 1 .. n : i # k => queue[i] # o
  BY <1>1, <1>5
<1>9. /\ prev[o] = IF k = 1 THEN NULL ELSE queue[k - 1]
      /\ next[o] = IF k = n THEN NULL ELSE queue[k + 1]
  BY <1>1, <1>6
<1> HIDE DEF n, o
<1>10. head' = At(queue', 1) /\ tail' = At(queue', Len(queue'))
  <2>1. k # 1 => queue[k - 1] \in Orders
    BY <1>1
  <2>2. k # n => queue[k + 1] \in Orders
    BY <1>1
  <2>3. head' = At(queue', 1)
    BY <1>1, <1>3, <1>6, <1>7, <1>9, <2>1, NullAssumption DEF At
  <2>4. tail' = At(queue', Len(queue'))
    BY <1>1, <1>3, <1>6, <1>7, <1>9, <2>2, NullAssumption DEF At
  <2>5. QED
    BY <2>3, <2>4
<1>11. ASSUME NEW i \in 1 .. Len(queue')
       PROVE  /\ next'[queue'[i]] = At(queue', i + 1)
              /\ prev'[queue'[i]] = At(queue', i - 1)
  <2>1. i \in 1 .. n - 1
    BY <1>3
  <2> DEFINE j == IF i < k THEN i ELSE i + 1
  <2>2. /\ j \in 1 .. n /\ j # k /\ queue'[i] = queue[j]
        /\ queue[j] \in Orders /\ queue[j] # o
    BY <1>1, <1>3, <1>8, <2>1
  <2>3. /\ j = k - 1 <=> i = k - 1
        /\ j = k + 1 <=> i = k
    BY <1>1, <2>1
  <2>4. prev[o] = queue[j] <=> i = k - 1
    <3>1. CASE k = 1
      BY <1>1, <1>9, <2>1, <2>2, <3>1, NullAssumption
    <3>2. CASE k # 1
      BY <1>1, <1>5, <1>9, <2>2, <2>3, <3>2
    <3>3. QED
      BY <3>1, <3>2
  <2>5. next[o] = queue[j] <=> i = k
    <3>1. CASE k = n
      BY <1>1, <1>9, <2>1, <2>2, <3>1, NullAssumption
    <3>2. CASE k # n
      BY <1>1, <1>5, <1>9, <2>2, <2>3, <3>2
    <3>3. QED
      BY <3>1, <3>2
  <2>6. next'[queue'[i]] = IF i = k - 1 THEN next[o] ELSE next[queue[j]]
    BY <1>7, <2>2, <2>4
  <2>7. prev'[queue'[i]] = IF i = k THEN prev[o] ELSE prev[queue[j]]
    BY <1>7, <2>2, <2>5
  <2>8. /\ next[queue[j]] = IF j = n THEN NULL ELSE queue[j + 1]
        /\ prev[queue[j]] = IF j = 1 THEN NULL ELSE queue[j - 1]
    BY <1>6, <2>2
  <2>9. /\ At(queue', i + 1) = IF i = n - 1 THEN NULL
                               ELSE IF i + 1 < k THEN queue[i + 1] ELSE queue[i + 2]
        /\ At(queue', i - 1) = IF i = 1 THEN NULL
                               ELSE IF i - 1 < k THEN queue[i - 1] ELSE queue[i]
    BY <1>1, <1>3, <2>1 DEF At
  <2>10. next'[queue'[i]] = At(queue', i + 1)
    <3>1. CASE i = k - 1
      BY <1>1, <1>9, <2>1, <2>6, <2>9, <3>1
    <3>2. CASE i < k - 1
      BY <1>1, <2>1, <2>6, <2>8, <2>9, <3>2
    <3>3. CASE i >= k
      BY <1>1, <2>1, <2>6, <2>8, <2>9, <3>3
    <3>4. QED
      BY <1>1, <2>1, <3>1, <3>2, <3>3
  <2>11. prev'[queue'[i]] = At(queue', i - 1)
    <3>1. CASE i = k
      BY <1>1, <1>9, <2>1, <2>7, <2>9, <3>1
    <3>2. CASE i < k
      BY <1>1, <2>1, <2>7, <2>8, <2>9, <3>2
    <3>3. CASE i > k
      BY <1>1, <2>1, <2>7, <2>8, <2>9, <3>3
    <3>4. QED
      BY <1>1, <2>1, <3>1, <3>2, <3>3
  <2>12. QED
    BY <2>10, <2>11
<1>12. ASSUME NEW p \in Orders, ~Contains(queue', p)
       PROVE  next'[p] = NULL /\ prev'[p] = NULL
  <2>1. CASE p = o
    BY <1>7, <2>1
  <2>2. CASE p # o
    <3>1. ~Contains(queue, p)
      BY <1>4, <1>12, <2>2
    <3>2. next[p] = NULL /\ prev[p] = NULL
      BY <1>2, <3>1 DEF Chain
    <3>3. \A i \in 1 .. n : queue[i] # p
      BY <3>1 DEF Contains, n
    <3>4. p # prev[o] /\ p # next[o]
      BY <1>1, <1>9, <3>3, NullAssumption
    <3>5. QED
      BY <1>7, <2>2, <3>2, <3>4
  <2>3. QED
    BY <2>1, <2>2
<1>13. Chain(queue', head', tail', next', prev')
  BY <1>10, <1>11, <1>12 DEF Chain
<1>14. count' = Len(queue')
  BY <1>2, <1>3, <1>7
<1>15. QED
  BY <1>3, <1>4, <1>13, <1>14, ListExactChainPrime

-----------------------------------------------------------------------------
(* The total *)

\* OpenQty as a table of partial sums, and from any such table.
LEMMA OpenTable ==
  ASSUME NEW q \in Seq(Orders), NEW l \in [Orders -> Quantity]
  PROVE  \E s \in [0 .. Len(q) -> Int] :
           /\ s[0] = 0 /\ s[Len(q)] = OpenQty(q, l)
           /\ \A i \in 1 .. Len(q) : s[i] = s[i - 1] + l[q[i]]
<1> DEFINE n == Len(q)
           v == [i \in 1 .. n |-> l[q[i]]]
           s == [i \in 0 .. n |-> PrefixSum(v, i)]
<1>1. n \in Nat /\ \A i \in 1 .. n : q[i] \in Orders
  BY LenProperties, ElementOfSeq
<1>2. \A i \in 1 .. n : v[i] = l[q[i]] /\ v[i] \in Int
  BY <1>1, ModulusAssumption DEF Quantity
<1>3. OpenQty(q, l) = PrefixSum(v, n)
  BY DEF OpenQty
<1> HIDE DEF n, v
<1>4. \A i \in 0 .. n : PrefixSum(v, i) \in Int
  BY <1>1, <1>2, PrefixSumType
<1>5. s \in [0 .. n -> Int] /\ s[0] = 0 /\ s[n] = OpenQty(q, l)
  BY <1>1, <1>3, <1>4, PrefixSumStep
<1>6. ASSUME NEW i \in 1 .. n PROVE s[i] = s[i - 1] + l[q[i]]
  <2>1. i - 1 \in Nat /\ (i - 1) + 1 = i /\ i - 1 \in 0 .. n /\ i \in 0 .. n
    BY <1>1
  <2>2. PrefixSum(v, (i - 1) + 1) = PrefixSum(v, i - 1) + v[(i - 1) + 1]
    BY <2>1, PrefixSumStep
  <2>3. QED
    BY <1>2, <2>1, <2>2
<1> HIDE DEF s
<1>7. QED
  BY <1>5, <1>6 DEF n

LEMMA OpenUnique ==
  ASSUME NEW q \in Seq(Orders), NEW l, NEW g, g[0] = 0,
         \A i \in 1 .. Len(q) : g[i] = g[i - 1] + l[q[i]]
  PROVE  OpenQty(q, l) = g[Len(q)]
<1> DEFINE n == Len(q)
           v == [i \in 1 .. n |-> l[q[i]]]
<1>1. n \in Nat
  BY LenProperties
<1>2. \A i \in 1 .. n : v[i] = l[q[i]]
  OBVIOUS
<1>3. OpenQty(q, l) = PrefixSum(v, n)
  BY DEF OpenQty
<1> HIDE DEF v
<1>4. \A i \in 1 .. n : g[i] = g[i - 1] + v[i]
  BY <1>2
<1> HIDE DEF n
<1>5. PrefixSum(v, n) = g[n]
  <2>1. g[0] = 0
    OBVIOUS
  <2>2. QED
    BY ONLY <1>1, <1>4, <2>1, PrefixSumUnique, Zenon
<1>6. QED
  BY <1>3, <1>5 DEF n

\* An order of the queue counts only once: changing what is left of another
\* order changes nothing, and taking one out takes its quantity off.
LEMMA PushOpen ==
  ASSUME NEW q \in Seq(Orders), NEW l \in [Orders -> Quantity],
         NEW o \in Orders, ~Contains(q, o), NEW x \in Quantity
  PROVE  OpenQty(Append(q, o), [l EXCEPT ![o] = x]) = OpenQty(q, l) + x
<1> DEFINE n == Len(q)
           a == Append(q, o)
           m == [l EXCEPT ![o] = x]
<1>1. n \in Nat /\ \A i \in 1 .. n : q[i] \in Orders /\ q[i] # o
  BY LenProperties, ElementOfSeq DEF Contains
<1>2. /\ a \in Seq(Orders) /\ Len(a) = n + 1 /\ a[n + 1] = o
      /\ \A i \in 1 .. n : a[i] = q[i]
  BY AppendProperties
<1>3. PICK s \in [0 .. n -> Int] :
        /\ s[0] = 0 /\ s[n] = OpenQty(q, l)
        /\ \A i \in 1 .. n : s[i] = s[i - 1] + l[q[i]]
  BY OpenTable
<1>4. m[o] = x /\ \A i \in 1 .. n : m[q[i]] = l[q[i]]
  BY <1>1
<1> DEFINE g == [i \in 0 .. n + 1 |-> IF i = n + 1 THEN s[n] + x ELSE s[i]]
<1> HIDE DEF n, a, m
<1>5. ASSUME NEW i \in 1 .. n + 1 PROVE g[i] = g[i - 1] + m[a[i]]
  <2>1. CASE i = n + 1
    BY <1>1, <1>2, <1>4, <2>1
  <2>2. CASE i # n + 1
    <3>1. i \in 1 .. n /\ i - 1 \in 0 .. n + 1 /\ i - 1 # n + 1
      BY <1>1, <2>2
    <3>2. g[i] = s[i] /\ g[i - 1] = s[i - 1] /\ m[a[i]] = l[q[i]]
      BY <1>2, <1>4, <2>2, <3>1
    <3>3. QED
      BY <1>3, <3>1, <3>2
  <2>3. QED
    BY <2>1, <2>2
<1>6. g[0] = 0 /\ g[n + 1] = s[n] + x
  BY <1>1, <1>3
<1> HIDE DEF g
<1>7. OpenQty(a, m) = g[n + 1]
  <2>1. \A i \in 1 .. Len(a) : g[i] = g[i - 1] + m[a[i]]
    BY <1>2, <1>5, Zenon
  <2>2. a \in Seq(Orders) /\ g[0] = 0
    BY <1>2, <1>6
  <2>3. OpenQty(a, m) = g[Len(a)]
    BY <2>1, <2>2, OpenUnique, Zenon
  <2>4. QED
    BY <1>2, <2>3
<1>8. QED
  BY <1>3, <1>6, <1>7 DEF a, m

LEMMA RemoveOpen ==
  ASSUME NEW q \in Seq(Orders), NEW l \in [Orders -> Quantity],
         NEW k \in 1 .. Len(q), IsInjective(q),
         NEW m \in [Orders -> Quantity],
         \A o \in Orders : o # q[k] => m[o] = l[o]
  PROVE  OpenQty(RemoveAt(q, k), m) = OpenQty(q, l) - l[q[k]]
<1> DEFINE n == Len(q)
           r == RemoveAt(q, k)
           x == l[q[k]]
<1>1. n \in Nat /\ k \in 1 .. n /\ \A i \in 1 .. n : q[i] \in Orders
  BY LenProperties, ElementOfSeq
<1>2. /\ r \in Seq(Orders) /\ Len(r) = n - 1
      /\ \A i \in 1 .. n - 1 : r[i] = IF i < k THEN q[i] ELSE q[i + 1]
  BY RemoveAtProperties
<1>3. PICK s \in [0 .. n -> Int] :
        /\ s[0] = 0 /\ s[n] = OpenQty(q, l)
        /\ \A i \in 1 .. n : s[i] = s[i - 1] + l[q[i]]
  BY OpenTable
<1>4. \A i, j \in 1 .. n : q[i] = q[j] => i = j
  <2>1. DOMAIN q = 1 .. n
    BY LenProperties
  <2>2. QED
    BY <2>1 DEF IsInjective
<1>5. \A i \in 1 .. n : i # k => m[q[i]] = l[q[i]]
  BY <1>1, <1>4
<1>6. x \in Int /\ s[k] = s[k - 1] + x
  BY <1>1, <1>3, ModulusAssumption DEF Quantity
<1> DEFINE g == [i \in 0 .. n - 1 |-> IF i < k THEN s[i] ELSE s[i + 1] - x]
<1> HIDE DEF n, r, x
<1>7. ASSUME NEW i \in 1 .. n - 1 PROVE g[i] = g[i - 1] + m[r[i]]
  <2>1. CASE i < k
    <3>1. i \in 1 .. n /\ i - 1 \in 0 .. n - 1 /\ i - 1 < k /\ i # k
      BY <1>1, <2>1
    <3>2. g[i] = s[i] /\ g[i - 1] = s[i - 1] /\ m[r[i]] = l[q[i]]
      BY <1>2, <1>5, <2>1, <3>1
    <3>3. QED
      BY <1>3, <3>1, <3>2
  <2>2. CASE i >= k
    <3>1. /\ i + 1 \in 1 .. n /\ i + 1 # k /\ i - 1 \in 0 .. n - 1
          /\ (i + 1) - 1 = i
      BY <1>1, <2>2
    <3>2. g[i] = s[i + 1] - x /\ m[r[i]] = l[q[i + 1]]
      BY <1>1, <1>2, <1>5, <2>2, <3>1
    <3>3. s[i + 1] = s[i] + l[q[i + 1]]
      BY <1>3, <3>1
    <3>4. g[i - 1] = s[i] - x
      <4>1. CASE i = k
        BY <1>1, <1>3, <1>6, <3>1, <4>1
      <4>2. CASE i # k
        BY <1>1, <2>2, <3>1, <4>2
      <4>3. QED
        BY <4>1, <4>2
    <3>5. l[q[i + 1]] \in Int /\ s[i] \in Int /\ s[i + 1] \in Int
      <4>1. q[i + 1] \in Orders
        BY <1>1, <3>1
      <4>2. l[q[i + 1]] \in Int
        BY <4>1, ModulusAssumption DEF Quantity
      <4>3. QED
        BY <1>1, <3>1, <4>2
    <3>6. QED
      BY <1>6, <3>2, <3>3, <3>4, <3>5
  <2>3. QED
    BY <1>1, <2>1, <2>2
<1>8. g[0] = 0 /\ g[n - 1] = s[n] - x
  BY <1>1, <1>3, <1>6
<1> HIDE DEF g
<1>9. OpenQty(r, m) = g[n - 1]
  <2>1. \A i \in 1 .. Len(r) : g[i] = g[i - 1] + m[r[i]]
    BY <1>2, <1>7, Zenon
  <2>2. r \in Seq(Orders) /\ g[0] = 0
    BY <1>2, <1>8
  <2>3. OpenQty(r, m) = g[Len(r)]
    BY <2>1, <2>2, OpenUnique, Zenon
  <2>4. QED
    BY <1>2, <2>3
<1>10. QED
  BY <1>3, <1>8, <1>9 DEF r, x

\* A fill of the front order.
LEMMA FillOpen ==
  ASSUME NEW q \in Seq(Orders), NEW l \in [Orders -> Quantity],
         Len(q) > 0, IsInjective(q), NEW x \in 1 .. l[q[1]]
  PROVE  OpenQty(q, [l EXCEPT ![q[1]] = @ - x]) = OpenQty(q, l) - x
<1> DEFINE n == Len(q)
           m == [l EXCEPT ![q[1]] = @ - x]
<1>1. n \in Nat /\ n > 0 /\ \A i \in 1 .. n : q[i] \in Orders
  BY LenProperties, ElementOfSeq
<1>2. \A i \in 1 .. n : i # 1 => q[i] # q[1]
  <2>1. DOMAIN q = 1 .. n
    BY LenProperties
  <2>2. QED
    BY <1>1, <2>1 DEF IsInjective
<1>3. PICK s \in [0 .. n -> Int] :
        /\ s[0] = 0 /\ s[n] = OpenQty(q, l)
        /\ \A i \in 1 .. n : s[i] = s[i - 1] + l[q[i]]
  BY OpenTable
<1>4. q[1] \in Orders /\ l[q[1]] \in Int /\ x \in Int
  BY <1>1, ModulusAssumption DEF Quantity
<1>5. m[q[1]] = l[q[1]] - x /\ \A i \in 1 .. n : i # 1 => m[q[i]] = l[q[i]]
  BY <1>1, <1>2, <1>4
<1> DEFINE g == [i \in 0 .. n |-> IF i = 0 THEN 0 ELSE s[i] - x]
<1> HIDE DEF n, m
<1>6. ASSUME NEW i \in 1 .. n PROVE g[i] = g[i - 1] + m[q[i]]
  <2>1. CASE i = 1
    BY <1>1, <1>3, <1>4, <1>5, <2>1
  <2>2. CASE i # 1
    <3>1. g[i] = s[i] - x /\ g[i - 1] = s[i - 1] - x /\ i - 1 \in 0 .. n
      BY <1>1, <2>2
    <3>2. l[q[i]] \in Int
      BY <1>1, ModulusAssumption DEF Quantity
    <3>3. s[i] = s[i - 1] + l[q[i]] /\ s[i] \in Int /\ s[i - 1] \in Int
      BY <1>3, <3>1
    <3>4. QED
      BY <1>4, <1>5, <2>2, <3>1, <3>2, <3>3
  <2>3. QED
    BY <2>1, <2>2
<1>7. g[0] = 0 /\ g[n] = s[n] - x
  BY <1>1
<1> HIDE DEF g
<1>8. OpenQty(q, m) = g[n]
  BY <1>6, <1>7, OpenUnique, Zenon DEF n
<1>9. QED
  BY <1>3, <1>7, <1>8 DEF m

\* The signed cast of adjust_qty is a shift by the modulus.
LEMMA AdjustedExact ==
  ASSUME NEW t \in Int, NEW x \in Quantity, total_qty = t % Modulus
  PROVE  adjusted(x) = (t - x) % Modulus
<1>1. x \in Int /\ Signed(x) \in Int
  BY ModulusAssumption DEF Quantity, Signed
<1>2. adjusted(x) = (t - Signed(x)) % Modulus
  <2> DEFINE d == -Signed(x)
  <2>0. d \in Int
    BY <1>1
  <2> HIDE DEF d
  <2>1. ((t % Modulus) + d) % Modulus = (t + d) % Modulus
    BY <2>0, ModAdd, ModulusAssumption
  <2>2. t % Modulus \in Int
    BY DivMod, ModulusAssumption
  <2>3. /\ (t % Modulus) + d = (t % Modulus) - Signed(x)
        /\ t + d = t - Signed(x)
    BY <1>1, <2>2 DEF d
  <2>4. QED
    BY <2>1, <2>3 DEF adjusted
<1>3. CASE Signed(x) = x
  BY <1>2, <1>3
<1>4. CASE Signed(x) = x - Modulus
  <2> DEFINE u == t - x
  <2>1. t - Signed(x) = u + Modulus * 1 /\ u \in Int /\ 1 \in Int
    BY <1>1, <1>4, ModulusAssumption
  <2> HIDE DEF u
  <2>2. (u + Modulus * 1) % Modulus = u % Modulus
    BY <2>1, ModShift, ModulusAssumption, Zenon
  <2>3. QED
    BY <1>2, <2>1, <2>2 DEF u
<1>5. QED
  BY <1>3, <1>4 DEF Signed

-----------------------------------------------------------------------------
LEMMA InitIInv == Init => IInv
<1> SUFFICES ASSUME Init PROVE IInv
  OBVIOUS
<1>1. queue = <<>> /\ queue \in Seq(Orders) /\ Len(queue) = 0
  BY EmptySeq DEF Init
<1>2. TypeOK
  BY <1>1, ModulusAssumption DEF Init, TypeOK, Link, Quantity
<1>3. ListExact
  <2>1. IsInjective(queue)
    <3>1. DOMAIN queue = 1 .. 0
      BY <1>1, LenProperties
    <3>2. QED
      BY <3>1 DEF IsInjective
  <2>2. Chain(queue, head, tail, next, prev)
    BY <1>1 DEF Init, Chain, At
  <2>3. QED
    BY <1>1, <2>1, <2>2, ListExactChain DEF Init
<1>4. TotalExact
  <2>1. OpenQty(queue, left) = 0
    BY <1>1, PrefixSumStep DEF OpenQty
  <2>2. 0 % Modulus = 0
    <3>1. 0 \in 0 .. Modulus - 1 /\ Modulus * 0 + 0 = 0
      BY ModulusAssumption
    <3>2. (Modulus * 0 + 0) % Modulus = 0
      BY <3>1, ModUnique, ModulusAssumption
    <3>3. QED
      BY <3>1, <3>2
  <2>3. QED
    BY <2>1, <2>2, TotalExactOpen DEF Init
<1>5. QED
  BY <1>2, <1>3, <1>4 DEF IInv

LEMMA OpenInt ==
  ASSUME TypeOK PROVE OpenQty(queue, left) \in Int
<1>1. /\ queue \in Seq(Orders) /\ left \in [Orders -> Quantity]
      /\ Len(queue) \in Nat
  BY LenProperties DEF TypeOK
<1>2. QED
  BY <1>1, OpenTable

\* total_qty' = (total_qty + d) % Modulus keeps the total exact.
LEMMA TotalMoves ==
  ASSUME NEW t \in Int, NEW d \in Int, total_qty = t % Modulus
  PROVE  (total_qty + d) % Modulus = (t + d) % Modulus
  BY ModAdd, ModulusAssumption

LEMMA PushIInv ==
  ASSUME IInv, NEW o \in Orders, NEW q \in Quantity \ {0}, push(o, q)
  PROVE  IInv'
<1>1. TypeOK /\ ListExact /\ TotalExact /\ q \in Int /\ q \in Quantity
  BY ModulusAssumption DEF IInv, Quantity
<1>2. ListExact' /\ queue' \in Seq(Orders)
  BY <1>1, PushChain
<1>3. TypeOK'
  <2>1. total_qty \in Int /\ (total_qty + q) \in Int
    BY <1>1, ModulusAssumption DEF TypeOK, Quantity
  <2>2. total_qty' \in Quantity
    BY <2>1, DivMod, ModulusAssumption DEF push, Quantity
  <2>3. /\ prev' \in [Orders -> Link] /\ next' \in [Orders -> Link]
        /\ head' \in Link /\ tail' \in Link
    <3>1. /\ prev' \in [Orders -> Link]
          /\ head' \in Link /\ tail' \in Link
      BY <1>1 DEF TypeOK, push, Link
    <3>2. next' \in [Orders -> Link]
      BY <1>1 DEF TypeOK, push, Link
    <3>3. QED
      BY <3>1, <3>2
  <2>4. left' \in [Orders -> Quantity] /\ count' \in Nat
    BY <1>1 DEF TypeOK, push
  <2>5. QED
    BY <1>2, <2>2, <2>3, <2>4 DEF TypeOK
<1>4. TotalExact'
  <2>1. OpenQty(queue', left') = OpenQty(queue, left) + q
    <3>1. /\ queue \in Seq(Orders) /\ left \in [Orders -> Quantity]
          /\ ~Contains(queue, o) /\ queue' = Append(queue, o)
          /\ left' = [left EXCEPT ![o] = q]
      BY <1>1 DEF push, TypeOK
    <3>2. OpenQty(Append(queue, o), [left EXCEPT ![o] = q])
            = OpenQty(queue, left) + q
      BY <1>1, <3>1, PushOpen, Zenon
    <3>3. QED
      BY <3>1, <3>2, Zenon
  <2>2. QED
    BY <1>1, <2>1, OpenInt, TotalExactOpen, TotalMoves DEF push
<1>5. QED
  BY <1>2, <1>3, <1>4 DEF IInv

\* The links of an unlinked order are links.
LEMMA UnlinkType ==
  ASSUME TypeOK, NEW o \in Orders, unlink(o), count - 1 \in Nat
  PROVE  /\ head' \in Link /\ tail' \in Link /\ count' \in Nat
         /\ prev' \in [Orders -> Link] /\ next' \in [Orders -> Link]
  BY DEF TypeOK, unlink, Link

LEMMA RemoveIInv ==
  ASSUME IInv, NEW k \in 1 .. Len(queue), remove(k)
  PROVE  IInv'
<1>1. TypeOK /\ ListExact /\ TotalExact /\ queue \in Seq(Orders)
  BY DEF IInv, TypeOK
<1>2. /\ queue[k] \in Orders /\ Len(queue) \in Nat /\ k \in Nat
      /\ left[queue[k]] \in Int /\ left[queue[k]] \in Quantity
  BY <1>1, ElementOfSeq, LenProperties, ModulusAssumption DEF TypeOK, Quantity
<1>3. unlink(queue[k]) /\ queue' = RemoveAt(queue, k) /\ left' = left
      /\ total_qty' = (total_qty - left[queue[k]]) % Modulus
  BY DEF remove
<1>4. ListExact' /\ queue' \in Seq(Orders)
  BY <1>1, <1>3, UnlinkChain
<1>5. IsInjective(queue) /\ count = Len(queue)
  BY <1>1, ListExactChain
<1>6. total_qty \in Int
  BY <1>1, ModulusAssumption DEF TypeOK, Quantity
<1>7. TypeOK'
  <2>1. total_qty' \in Quantity
    BY <1>2, <1>3, <1>6, DivMod, ModulusAssumption DEF Quantity
  <2>2. count - 1 \in Nat
    BY <1>2, <1>5
  <2>3. QED
    BY <1>1, <1>2, <1>3, <1>4, <2>1, <2>2, UnlinkType DEF TypeOK
<1>8. TotalExact'
  <2>1. OpenQty(queue', left') = OpenQty(queue, left) - left[queue[k]]
    BY <1>1, <1>3, <1>5, RemoveOpen DEF TypeOK
  <2> DEFINE t == OpenQty(queue, left)
             d == -left[queue[k]]
  <2>2. t \in Int /\ d \in Int /\ total_qty = t % Modulus
    BY <1>1, <1>2, OpenInt, TotalExactOpen
  <2>3. t - left[queue[k]] = t + d /\ total_qty - left[queue[k]] = total_qty + d
    BY <1>2, <1>6, <2>2
  <2> HIDE DEF t, d
  <2>4. (total_qty + d) % Modulus = (t + d) % Modulus
    BY <2>2, TotalMoves
  <2>5. QED
    BY <1>3, <2>1, <2>3, <2>4, TotalExactOpen DEF t
<1>9. QED
  BY <1>4, <1>7, <1>8 DEF IInv

LEMMA FillIInv ==
  ASSUME IInv, NEW q \in Quantity, fill_front(q)
  PROVE  IInv'
<1>1. TypeOK /\ ListExact /\ TotalExact /\ queue \in Seq(Orders)
      /\ left \in [Orders -> Quantity]
  BY DEF IInv, TypeOK
<1>2. /\ IsInjective(queue) /\ count = Len(queue)
      /\ Chain(queue, head, tail, next, prev)
  BY <1>1, ListExactChain
<1>3. Len(queue) \in Nat /\ Len(queue) > 0 /\ 1 \in 1 .. Len(queue)
  BY <1>1, <1>2, LenProperties DEF fill_front
<1>4. head = queue[1] /\ head \in Orders
  BY <1>1, <1>2, <1>3, ElementOfSeq DEF Chain, At
<1>5. q \in Int /\ left[head] \in Int /\ left[head] \in Quantity
      /\ 0 <= left[head] - q /\ q \in 1 .. left[head]
  BY <1>1, <1>4, ModulusAssumption DEF Quantity, fill_front
<1>6. left' = [left EXCEPT ![head] = @ - q] /\ total_qty' = adjusted(q)
  BY DEF fill_front
<1>7. left' \in [Orders -> Quantity]
  <2>1. left[head] - q \in Quantity
    BY <1>5, ModulusAssumption DEF Quantity
  <2>2. QED
    BY <1>1, <1>4, <1>6, <2>1
<1> DEFINE t == OpenQty(queue, left)
<1>8. t \in Int /\ total_qty = t % Modulus
  BY <1>1, OpenInt, TotalExactOpen
<1>9. total_qty' = (t - q) % Modulus
  BY <1>6, <1>8, AdjustedExact
<1>10. t - q \in Int
  BY <1>5, <1>8
<1>11. total_qty' \in Quantity
  BY <1>9, <1>10, DivMod, ModulusAssumption DEF Quantity
<1> HIDE DEF t
<1>12. CASE q = left[head]
  <2>1. unlink(queue[1]) /\ queue' = RemoveAt(queue, 1)
    BY <1>4, <1>12 DEF fill_front
  <2>2. ListExact' /\ queue' \in Seq(Orders)
    BY <1>1, <1>3, <2>1, UnlinkChain
  <2>3. \A o \in Orders : o # queue[1] => left'[o] = left[o]
    BY <1>1, <1>4, <1>6
  <2>4. OpenQty(queue', left') = t - q
    BY <1>1, <1>2, <1>3, <1>4, <1>7, <1>12, <2>1, <2>3, RemoveOpen DEF t
  <2>5. count - 1 \in Nat
    BY <1>2, <1>3
  <2>6. TypeOK'
    BY <1>1, <1>4, <1>7, <1>11, <2>1, <2>2, <2>5, UnlinkType DEF TypeOK
  <2>7. QED
    BY <1>9, <2>2, <2>4, <2>6, TotalExactOpen DEF IInv
<1>13. CASE q # left[head]
  <2>1. UNCHANGED <<head, tail, count, prev, next, queue>>
    BY <1>13 DEF fill_front
  <2>2. ListExact'
    BY <1>1, <1>2, <2>1, ListExactChainPrime
  <2>3. OpenQty(queue', left') = t - q
    <3>1. q \in 1 .. left[queue[1]] /\ left' = [left EXCEPT ![queue[1]] = @ - q]
      BY <1>4, <1>5, <1>6
    <3>2. QED
      BY <1>1, <1>2, <1>3, <2>1, <3>1, FillOpen DEF t
  <2>4. TypeOK'
    BY <1>1, <1>7, <1>11, <2>1 DEF TypeOK
  <2>5. QED
    BY <1>9, <2>2, <2>3, <2>4, TotalExactOpen DEF IInv
<1>14. QED
  BY <1>12, <1>13

\* IInv holds in every state.
THEOREM IInvHolds == Spec => []IInv
<1>1. Init => IInv
  BY InitIInv
<1>2. IInv /\ [Next]_vars => IInv'
  <2> SUFFICES ASSUME IInv, [Next]_vars PROVE IInv'
    OBVIOUS
  <2>1. CASE \E o \in Orders, q \in Quantity \ {0} : push(o, q)
    BY <2>1, PushIInv
  <2>2. CASE \E k \in 1 .. Len(queue) : remove(k)
    BY <2>2, RemoveIInv
  <2>3. CASE \E q \in Quantity : fill_front(q)
    BY <2>3, FillIInv
  <2>4. CASE UNCHANGED vars
    <3>1. TypeOK'
      BY <2>4 DEF IInv, TypeOK, vars
    <3>2. ListExact'
      BY <2>4, ListExactChain, ListExactChainPrime DEF IInv, vars
    <3>3. TotalExact'
      BY <2>4, TotalExactOpen DEF IInv, vars
    <3>4. QED
      BY <3>1, <3>2, <3>3 DEF IInv
  <2>5. QED
    BY <2>1, <2>2, <2>3, <2>4 DEF Next
<1>3. QED
  BY <1>1, <1>2, PTL DEF Spec

\* The pointers of a level stand for its queue, forwards and backwards, after
\* any sequence of pushes, fills and removals (price_level.h).
THEOREM PointersExact == Spec => []ListExact
<1>1. IInv => ListExact
  BY DEF IInv
<1>2. QED
  BY <1>1, IInvHolds, PTL

\* total_qty_ is what remains of the queued orders modulo the width, whatever
\* the signed cast of adjust_qty does to a large fill.
THEOREM TotalNeverDrifts == Spec => []TotalExact
<1>1. IInv => TotalExact
  BY DEF IInv
<1>2. QED
  BY <1>1, IInvHolds, PTL
=============================================================================
