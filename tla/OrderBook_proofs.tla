-------------------------- MODULE OrderBook_proofs --------------------------
(***************************************************************************)
(* Proofs about OrderBook for every pool size, table size, price range,    *)
(* set of clients and bound on quantities and ids.                         *)
(***************************************************************************)
EXTENDS OrderBookRefinement, DataLemmas, FiniteSetTheorems

-----------------------------------------------------------------------------
(* Helpers *)

\* A table index is in range.
LEMMA HashInRange ==
  ASSUME NEW id \in Nat
  PROVE  Hash(id) \in 0 .. MAX_ORDERS - 1
BY TableAssumption DEF Hash

\* scan_best finds the best price of a set, or the sentinel of an empty one.
LEMMA ScanBest ==
  ASSUME NEW s \in Sides, NEW B \in SUBSET Prices
  PROVE  /\ scan_best(s, B) \in AnyPrice
         /\ B = {} => scan_best(s, B) = NoPrice(s)
         /\ B # {} => /\ scan_best(s, B) \in B
                      /\ \A p \in B : ~Better(s, p, scan_best(s, B))
<1>0. \A p \in B : p \in Nat /\ p \in AnyPrice
  BY PriceAssumption DEF AnyPrice, Prices, MIN_PRICE
<1>1. CASE B = {}
  BY <1>1, PriceAssumption
     DEF scan_best, NoPrice, AnyPrice, INVALID_PRICE
<1>2. CASE B # {} /\ s = "Buy"
  <2>1. B \in SUBSET (0 .. MAX_PRICE)
    BY PriceAssumption DEF Prices, MIN_PRICE
  <2>2. Max(B) \in B /\ \A y \in B : Max(B) >= y
    BY <1>2, <2>1, MaxNat, PriceAssumption
  <2>3. scan_best(s, B) = Max(B)
    BY <1>2 DEF scan_best
  <2>4. Max(B) \in AnyPrice
    BY <1>0, <2>2
  <2>5. ASSUME NEW p \in B PROVE ~Better(s, p, Max(B))
    <3>1. p \in Nat /\ Max(B) \in Nat /\ Max(B) >= p
      BY <1>0, <2>2
    <3>2. QED
      BY <1>2, <3>1 DEF Better
  <2>6. QED
    BY <1>2, <2>2, <2>3, <2>4, <2>5
<1>3. CASE B # {} /\ s = "Sell"
  <2>1. B \in SUBSET Nat
    BY PriceAssumption DEF Prices, MIN_PRICE
  <2>2. Min(B) \in B /\ \A y \in B : Min(B) <= y
    BY <1>3, <2>1, MinNat
  <2>3. scan_best(s, B) = Min(B)
    BY <1>3 DEF scan_best
  <2>4. Min(B) \in AnyPrice
    BY <1>0, <2>2
  <2>5. ASSUME NEW p \in B PROVE ~Better(s, p, Min(B))
    <3>1. p \in Nat /\ Min(B) \in Nat /\ Min(B) <= p
      BY <1>0, <2>2
    <3>2. QED
      BY <1>3, <3>1 DEF Better
  <2>6. QED
    BY <1>3, <2>2, <2>3, <2>4, <2>5
<1>4. QED
  BY <1>1, <1>2, <1>3 DEF Sides

\* The sentinels are no prices, and no price is worse than a sentinel.
LEMMA Sentinel ==
  ASSUME NEW s \in Sides
  PROVE  /\ NoPrice(s) \in AnyPrice /\ NoPrice(s) \notin Prices
         /\ \A p \in AnyPrice : ~Better(s, NoPrice(s), p)
         /\ \A p \in Prices : Better(s, p, NoPrice(s))
BY PriceAssumption
   DEF NoPrice, AnyPrice, Prices, Better, MIN_PRICE, INVALID_PRICE, Sides

WithFilled(o, v) == [o EXCEPT !.filled_qty = v]

\* Setting filled_qty keeps an order an order, and its other fields.
LEMMA SetFilled ==
  ASSUME NEW o \in Order, NEW v \in Nat
  PROVE  /\ WithFilled(o, v) \in Order
         /\ WithFilled(o, v).id = o.id
         /\ WithFilled(o, v).side = o.side
         /\ WithFilled(o, v).type = o.type
         /\ WithFilled(o, v).price = o.price
         /\ WithFilled(o, v).quantity = o.quantity
         /\ WithFilled(o, v).filled_qty = v
BY DEF Order, WithFilled

\* What unlink does to the price side of the book.
LEMMA Unlinked ==
  ASSUME TypeOK, BboExact, NotCrossed, PoolPartition, RestingSound,
         NEW s \in Sides, NEW p \in Prices,
         NEW k \in 1 .. Len(levels[s][p]),
         unlink(s, p, k)
  PROVE  /\ levels' \in [Sides -> [Prices -> Seq(Node)]]
         /\ bits' \in [Sides -> SUBSET Prices]
         /\ best' \in [Sides -> AnyPrice]
         /\ levels[s][p][k] \in Node
         /\ Contains(levels[s][p], levels[s][p][k])
         /\ \A t \in Sides, u \in Prices, m \in Node :
              Contains(levels'[t][u], m) <=>
                Contains(levels[t][u], m) /\ m # levels[s][p][k]
         /\ \A t \in Sides, u \in Prices : IsInjective(levels'[t][u])
         /\ BboExact'
         /\ NotCrossed'
<1> DEFINE q == levels[s][p]
           n == q[k]
           left == bits[s] \ {p}
<1>1. q \in Seq(Node) /\ IsInjective(q)
  BY DEF TypeOK, PoolPartition
<1>2. n \in Node /\ Contains(q, n)
  BY <1>1, ElementOfSeq DEF Contains
<1>3. /\ RemoveAt(q, k) \in Seq(Node)
      /\ RemoveAt(q, k) = <<>> <=> Len(q) = 1
      /\ \A m : Contains(RemoveAt(q, k), m) <=> Contains(q, m) /\ m # q[k]
      /\ IsInjective(RemoveAt(q, k))
  BY <1>1, RemoveAtDistinct
<1>4. /\ levels' = [levels EXCEPT ![s][p] = RemoveAt(q, k)]
      /\ bits' = IF Len(q) = 1 THEN [bits EXCEPT ![s] = left] ELSE bits
      /\ best' = IF Len(q) = 1 /\ p = best[s]
                   THEN [best EXCEPT ![s] = scan_best(s, left)]
                   ELSE best
  BY DEF unlink
<1>5. left \in SUBSET Prices
  BY DEF TypeOK
<1>6. /\ scan_best(s, left) \in AnyPrice
      /\ left = {} => scan_best(s, left) = NoPrice(s)
      /\ left # {} => /\ scan_best(s, left) \in left
                      /\ \A u \in left : ~Better(s, u, scan_best(s, left))
  BY <1>5, ScanBest
<1>7. q # <<>> /\ p \in bits[s] /\ best[s] # NoPrice(s)
  <2>1. q # <<>>
    BY <1>1, <1>2, ContainsHead
  <2>2. QED
    BY <2>1 DEF BboExact
<1> HIDE DEF q, n, left
<1>8. /\ levels' \in [Sides -> [Prices -> Seq(Node)]]
      /\ bits' \in [Sides -> SUBSET Prices]
      /\ best' \in [Sides -> AnyPrice]
  BY <1>3, <1>4, <1>5, <1>6 DEF TypeOK
<1>9. /\ levels'[s][p] = RemoveAt(q, k)
      /\ \A t \in Sides, u \in Prices :
           t # s \/ u # p => levels'[t][u] = levels[t][u]
  BY <1>4 DEF TypeOK
<1>10. ASSUME NEW t \in Sides, NEW u \in Prices, t # s \/ u # p
       PROVE  ~Contains(levels[t][u], n)
  <2>1. arena[n].side = s /\ arena[n].price = p
    BY <1>2 DEF RestingSound, q
  <2>2. QED
    BY <1>2, <1>10, <2>1 DEF RestingSound
<1>11. ASSUME NEW t \in Sides, NEW u \in Prices, NEW m \in Node
       PROVE  Contains(levels'[t][u], m) <=>
                Contains(levels[t][u], m) /\ m # n
  <2>1. CASE t = s /\ u = p
    BY <1>3, <1>9, <2>1 DEF q, n
  <2>2. CASE t # s \/ u # p
    BY <1>9, <1>10, <2>2
  <2>3. QED
    BY <2>1, <2>2
<1>12. ASSUME NEW t \in Sides, NEW u \in Prices
       PROVE  IsInjective(levels'[t][u])
  <2>1. CASE t = s /\ u = p
    BY <1>3, <1>9, <2>1
  <2>2. CASE t # s \/ u # p
    <3>1. levels'[t][u] = levels[t][u]
      BY <1>9, <2>2
    <3>2. IsInjective(levels[t][u])
      BY DEF PoolPartition
    <3>3. QED
      BY <3>1, <3>2, Zenon
  <2>3. QED
    BY <2>1, <2>2
<1>13. /\ bits'[s] = IF Len(q) = 1 THEN left ELSE bits[s]
       /\ best'[s] = IF Len(q) = 1 /\ p = best[s] THEN scan_best(s, left)
                     ELSE best[s]
       /\ \A t \in Sides : t # s => bits'[t] = bits[t] /\ best'[t] = best[t]
  BY <1>4 DEF TypeOK
<1>14. BboExact'
  <2>1. SUFFICES ASSUME NEW t \in Sides
        PROVE  /\ \A u \in Prices : u \in bits'[t] <=> levels'[t][u] # <<>>
               /\ best'[t] = NoPrice(t) => bits'[t] = {}
               /\ best'[t] # NoPrice(t) =>
                    /\ best'[t] \in bits'[t]
                    /\ \A u \in bits'[t] : ~Better(t, u, best'[t])
    BY DEF BboExact, NoPrice, INVALID_PRICE, Better
  <2>2. CASE t # s
    BY <1>9, <1>13, <2>2 DEF BboExact
  <2>3. CASE t = s
    <3>1. \A u \in Prices : u \in bits'[s] <=> levels'[s][u] # <<>>
      <4>1. SUFFICES ASSUME NEW u \in Prices
                     PROVE  u \in bits'[s] <=> levels'[s][u] # <<>>
        OBVIOUS
      <4>2. CASE u = p
        BY <1>3, <1>7, <1>9, <1>13, <4>2 DEF left
      <4>3. CASE u # p
        BY <1>9, <1>13, <4>3 DEF left, BboExact
      <4>4. QED
        BY <4>2, <4>3
    <3>2. CASE Len(q) = 1 /\ p = best[s]
      <4>1. bits'[s] = left /\ best'[s] = scan_best(s, left)
        BY <1>13, <3>2
      <4>2. left \subseteq Prices /\ NoPrice(s) \notin Prices
        BY <1>5, Sentinel
      <4>3. QED
        BY <1>6, <2>3, <3>1, <4>1, <4>2
    <3>3. CASE Len(q) = 1 /\ p # best[s]
      <4>1. bits'[s] = left /\ best'[s] = best[s]
        BY <1>13, <3>3
      <4>2. best[s] \in left /\ \A u \in left : ~Better(s, u, best[s])
        BY <1>7, <3>3 DEF BboExact, left
      <4>3. QED
        BY <1>7, <2>3, <3>1, <4>1, <4>2
    <3>4. CASE Len(q) # 1
      BY <1>13, <2>3, <3>1, <3>4 DEF BboExact
    <3>5. QED
      BY <3>2, <3>3, <3>4
  <2>4. QED
    BY <2>2, <2>3
<1>15. \A t \in Sides : ~Better(t, best'[t], best[t])
  <2>1. SUFFICES ASSUME NEW t \in Sides PROVE ~Better(t, best'[t], best[t])
    OBVIOUS
  <2>2. best[t] \in AnyPrice
    BY DEF TypeOK
  <2>3. CASE best'[t] = best[t]
    BY <2>2, <2>3, PriceAssumption DEF Better, AnyPrice
  <2>4. CASE best'[t] # best[t]
    <3>1. t = s /\ best'[t] = scan_best(s, left)
      BY <1>13, <2>4
    <3>2. CASE left = {}
      BY <1>6, <2>2, <3>1, <3>2, Sentinel
    <3>3. CASE left # {}
      BY <1>6, <1>7, <3>1, <3>3 DEF BboExact, left
    <3>4. QED
      BY <3>2, <3>3
  <2>5. QED
    BY <2>3, <2>4
<1>16. NotCrossed'
  <2>1. /\ best["Buy"] \in AnyPrice /\ best["Sell"] \in AnyPrice
        /\ best'["Buy"] \in AnyPrice /\ best'["Sell"] \in AnyPrice
    BY <1>8 DEF TypeOK, Sides
  <2>2. ~(best'["Buy"] > best["Buy"]) /\ ~(best'["Sell"] < best["Sell"])
    BY <1>15 DEF Better, Sides
  <2>3. QED
    BY <2>1, <2>2, PriceAssumption DEF NotCrossed, AnyPrice
<1>17. QED
  BY <1>2, <1>8, <1>11, <1>12, <1>14, <1>16 DEF q, n

\* What release does to the pool and the table: the node becomes free, and no
\* table entry is left that names it.
LEMMA Released ==
  ASSUME TypeOK, PoolPartition, TableSound,
         NEW n \in Node, ~IsFree(n), release(n)
  PROVE  /\ free_list' \in Seq(Node) /\ free_list' # <<>>
         /\ IsInjective(free_list')
         /\ \A m \in Node : IsFree(m)' <=> IsFree(m) \/ m = n
         /\ order_table' \in [0 .. MAX_ORDERS - 1 -> Node \cup {NULL}]
         /\ \A h \in 0 .. MAX_ORDERS - 1 : order_table'[h] # NULL =>
              order_table'[h] = order_table[h] /\ order_table[h] # n
<1>1. /\ free_list' = Append(free_list, n)
      /\ order_table' = [order_table EXCEPT ![Hash(arena[n].id)] = NULL]
  BY DEF release
<1>2. /\ free_list \in Seq(Node) /\ IsInjective(free_list)
      /\ ~Contains(free_list, n)
  BY DEF TypeOK, PoolPartition, IsFree
<1>3. /\ free_list' \in Seq(Node) /\ free_list' # <<>>
      /\ \A m : Contains(free_list', m) <=> Contains(free_list, m) \/ m = n
      /\ IsInjective(free_list')
  BY <1>1, <1>2, AppendDistinct
<1>4. arena[n].id \in Nat /\ Hash(arena[n].id) \in 0 .. MAX_ORDERS - 1
  BY HashInRange DEF TypeOK, Order
<1>5. order_table' \in [0 .. MAX_ORDERS - 1 -> Node \cup {NULL}]
  BY <1>1, <1>4 DEF TypeOK
<1>6. ASSUME NEW h \in 0 .. MAX_ORDERS - 1, order_table'[h] # NULL
      PROVE  order_table'[h] = order_table[h] /\ order_table[h] # n
  BY <1>1, <1>4, <1>6 DEF TypeOK, TableSound
<1>7. QED
  BY <1>3, <1>5, <1>6 DEF IsFree

\* Taking a resting order out of the book, whatever the step does to the
\* filled quantities of that order and of the aggressor.
LEMMA TakenOut ==
  ASSUME IInv,
         NEW s \in Sides, NEW p \in Prices,
         NEW k \in 1 .. Len(levels[s][p]),
         unlink(s, p, k), release(levels[s][p][k]),
         UNCHANGED aggressor,
         \A m \in Node : arena'[m].id = arena[m].id,
         \A m \in Node : m # levels[s][p][k] /\ m # aggressor =>
                           arena'[m] = arena[m]
  PROVE  /\ levels' \in [Sides -> [Prices -> Seq(Node)]]
         /\ bits' \in [Sides -> SUBSET Prices]
         /\ best' \in [Sides -> AnyPrice]
         /\ free_list' \in Seq(Node)
         /\ order_table' \in [0 .. MAX_ORDERS - 1 -> Node \cup {NULL}]
         /\ \A m \in Node : IsFree(m)' <=> IsFree(m) \/ m = levels[s][p][k]
         /\ BboExact' /\ NotCrossed' /\ PoolPartition' /\ RestingSound'
         /\ TableSound' /\ LiveIdsUnique' /\ NeverWedged'
<1> DEFINE n == levels[s][p][k]
<1>1. /\ levels' \in [Sides -> [Prices -> Seq(Node)]]
      /\ bits' \in [Sides -> SUBSET Prices]
      /\ best' \in [Sides -> AnyPrice]
      /\ n \in Node /\ Contains(levels[s][p], n)
      /\ \A t \in Sides, u \in Prices, m \in Node :
           Contains(levels'[t][u], m) <=> Contains(levels[t][u], m) /\ m # n
      /\ \A t \in Sides, u \in Prices : IsInjective(levels'[t][u])
      /\ BboExact' /\ NotCrossed'
  BY Unlinked DEF IInv
<1> HIDE DEF n
<1>2. OnBook(n) /\ ~IsFree(n) /\ n # aggressor
  BY <1>1 DEF OnBook, IInv, PoolPartition
<1>3. /\ free_list' \in Seq(Node) /\ free_list' # <<>>
      /\ IsInjective(free_list')
      /\ \A m \in Node : IsFree(m)' <=> IsFree(m) \/ m = n
      /\ order_table' \in [0 .. MAX_ORDERS - 1 -> Node \cup {NULL}]
      /\ \A h \in 0 .. MAX_ORDERS - 1 : order_table'[h] # NULL =>
           order_table'[h] = order_table[h] /\ order_table[h] # n
  <2>1. release(n)
    BY DEF n
  <2>2. QED
    BY <1>1, <1>2, <2>1, Released DEF IInv
<1>4. \A m \in Node : OnBook(m)' <=> OnBook(m) /\ m # n
  BY <1>1 DEF OnBook
<1>5. PoolPartition'
  <2>1. \A m \in Node : /\ IsFree(m)' \/ OnBook(m)' \/ m = aggressor'
                        /\ ~(IsFree(m)' /\ OnBook(m)')
                        /\ m = aggressor' => ~IsFree(m)' /\ ~OnBook(m)'
    BY <1>2, <1>3, <1>4 DEF IInv, PoolPartition
  <2>2. QED
    BY <1>1, <1>3, <2>1 DEF PoolPartition
<1>6. RestingSound'
  <2>1. SUFFICES ASSUME NEW t \in Sides, NEW u \in Prices, NEW m \in Node,
                        Contains(levels'[t][u], m)
        PROVE  /\ arena'[m].side = t /\ arena'[m].price = u
               /\ arena'[m].type = "Limit" /\ ~is_filled(arena'[m])
    BY DEF RestingSound, is_filled
  <2>2. Contains(levels[t][u], m) /\ m # n
    BY <1>1, <2>1
  <2>3. m # aggressor
    BY <2>2 DEF IInv, PoolPartition, OnBook
  <2>4. arena'[m] = arena[m]
    BY <2>2, <2>3 DEF n
  <2>5. QED
    BY <2>2, <2>4 DEF IInv, RestingSound
<1>7. TableSound'
  <2>1. SUFFICES ASSUME NEW h \in 0 .. MAX_ORDERS - 1, order_table'[h] # NULL
        PROVE  /\ ~Contains(free_list', order_table'[h])
               /\ Hash(arena'[order_table'[h]].id) = h
    BY DEF TableSound, IsFree
  <2>2. order_table'[h] = order_table[h] /\ order_table[h] # n
    BY <1>3, <2>1
  <2>3. order_table[h] \in Node
    BY <2>1, <2>2 DEF IInv, TypeOK
  <2>4. ~IsFree(order_table[h]) /\ Hash(arena[order_table[h]].id) = h
    BY <2>1, <2>2 DEF IInv, TableSound
  <2>5. PICK m \in Node : m = order_table[h]
    BY <2>3
  <2>6. ~IsFree(m)'
    BY <1>3, <2>2, <2>4, <2>5
  <2>7. ~Contains(free_list', order_table'[h])
    BY <2>2, <2>5, <2>6 DEF IsFree
  <2>8. QED
    BY <2>2, <2>4, <2>5, <2>7
<1>8. LiveIdsUnique'
  BY <1>3 DEF IInv, LiveIdsUnique
<1>9. NeverWedged'
  BY <1>3 DEF NeverWedged
<1>10. QED
  BY <1>1, <1>3, <1>5, <1>6, <1>7, <1>8, <1>9 DEF n

-----------------------------------------------------------------------------
(* The inductive invariant *)

\* What only depends on the book and the aggressor survives a step that
\* leaves them alone.
LEMMA BookUnchanged ==
  ASSUME IInv, UNCHANGED <<book, aggressor>>
  PROVE  /\ BboExact' /\ NotCrossed' /\ PoolPartition' /\ RestingSound'
         /\ TableSound' /\ LiveIdsUnique' /\ NeverWedged'
         /\ \A m \in Node : IsFree(m)' <=> IsFree(m)
<1> USE DEF IInv, book
<1>1. BboExact' /\ NotCrossed'
  BY DEF BboExact, NotCrossed
<1>2. PoolPartition'
  BY DEF PoolPartition, IsFree, OnBook
<1>3. RestingSound'
  BY DEF RestingSound
<1>4. TableSound' /\ LiveIdsUnique' /\ NeverWedged'
  BY DEF TableSound, LiveIdsUnique, NeverWedged, IsFree, lookup
<1>5. \A m \in Node : IsFree(m)' <=> IsFree(m)
  BY DEF IsFree
<1>6. QED
  BY <1>1, <1>2, <1>3, <1>4, <1>5

\* The empty book satisfies the invariant.
LEMMA InitIInv == Init => IInv
<1> SUFFICES ASSUME Init PROVE IInv
  OBVIOUS
<1>1. /\ free_list \in Seq(Node) /\ free_list # <<>>
      /\ Len(free_list) = PoolCapacity
      /\ \A i \in 1 .. PoolCapacity : free_list[i] = PoolCapacity + 1 - i
  <2>1. \A i \in 1 .. PoolCapacity : PoolCapacity + 1 - i \in Node
    BY PoolAssumption DEF Node
  <2>2. free_list = [i \in 1 .. PoolCapacity |-> PoolCapacity + 1 - i]
    BY DEF Init
  <2>3. free_list \in Seq(Node) /\ Len(free_list) = PoolCapacity
    BY <2>1, <2>2, PoolAssumption
  <2>4. QED
    BY <2>2, <2>3, PoolAssumption, EmptySeq
<1>2. \A n \in Node : IsFree(n)
  <2>1. SUFFICES ASSUME NEW n \in Node PROVE Contains(free_list, n)
    BY DEF IsFree
  <2>2. PICK i \in 1 .. PoolCapacity : i = PoolCapacity + 1 - n
    BY PoolAssumption DEF Node
  <2>3. free_list[i] = n
    BY <1>1, <2>2, PoolAssumption DEF Node
  <2>4. QED
    BY <1>1, <2>3 DEF Contains
<1>3. IsInjective(free_list)
  <2>1. DOMAIN free_list = 1 .. PoolCapacity
    BY <1>1, LenProperties
  <2>2. QED
    BY <1>1, <2>1, PoolAssumption DEF IsInjective
<1>4. \A s \in Sides, p \in Prices : levels[s][p] = <<>>
  BY DEF Init
<1>5. \A n : ~Contains(<<>>, n)
  BY EmptySeq DEF Contains
<1>6. IsInjective(<<>>)
  <2>1. DOMAIN <<>> = 1 .. 0
    OBVIOUS
  <2>2. QED
    BY <2>1 DEF IsInjective
<1>7. TypeOK
  <2>1. arena \in [Node -> Order]
    BY PriceAssumption DEF Init, Order, Sides, OrderTypes, AnyPrice, NULL
  <2>2. \A n \in Node : arena[n].filled_qty <= arena[n].quantity
    BY DEF Init
  <2>3. /\ levels \in [Sides -> [Prices -> Seq(Node)]]
        /\ bits \in [Sides -> SUBSET Prices]
        /\ order_table \in [0 .. MAX_ORDERS - 1 -> Node \cup {NULL}]
        /\ fills \in Seq(FillRecord)
        /\ next_id \in Nat /\ ret \in BOOLEAN
        /\ pc = "idle" /\ aggressor = NULL
    BY DEF Init
  <2>4. best \in [Sides -> AnyPrice]
    BY Sentinel DEF Init
  <2>5. req \in Request
    BY PriceAssumption DEF Init, NoRequest, Request, Sides, OrderTypes,
                           AnyPrice, NULL
  <2>6. QED
    BY <1>1, <2>1, <2>2, <2>3, <2>4, <2>5 DEF TypeOK
<1>8. BboExact /\ NotCrossed
  BY <1>4, PriceAssumption
     DEF Init, BboExact, NotCrossed, NoPrice, INVALID_PRICE, Sides
<1>9. PoolPartition
  <2>1. \A n \in Node : ~OnBook(n)
    BY <1>4, <1>5 DEF OnBook
  <2>2. aggressor \notin Node
    BY DEF Init, NULL, Node
  <2>3. \A s \in Sides, p \in Prices : IsInjective(levels[s][p])
    BY <1>4, <1>6
  <2>4. QED
    BY <1>2, <1>3, <2>1, <2>2, <2>3 DEF PoolPartition
<1>10. RestingSound
  BY <1>4, <1>5 DEF RestingSound
<1>11. TableSound /\ LiveIdsUnique /\ NeverWedged
  BY <1>1, <1>2 DEF Init, TableSound, LiveIdsUnique, NeverWedged
<1>12. IdsGivenOut /\ AggressorValid
  BY <1>2 DEF Init, IdsGivenOut, AggressorValid
<1>13. QED
  BY <1>7, <1>8, <1>9, <1>10, <1>11, <1>12 DEF IInv

\* A new order: its id was never given out before.
LEMMA NewOrderIInv ==
  ASSUME IInv,
         NEW c \in Clients, NEW s \in Sides, NEW t \in OrderTypes,
         NEW p \in AnyPrice, NEW q \in AnyQty,
         new_order(c, s, t, p, q)
  PROVE  IInv'
<1> USE DEF new_order
<1>1. UNCHANGED <<book, aggressor>>
  OBVIOUS
<1>2. /\ BboExact' /\ NotCrossed' /\ PoolPartition' /\ RestingSound'
      /\ TableSound' /\ LiveIdsUnique' /\ NeverWedged'
      /\ \A m \in Node : IsFree(m)' <=> IsFree(m)
  BY <1>1, BookUnchanged
<1>3. next_id \in Nat /\ next_id' = next_id + 1 /\ req'.id = next_id
  BY DEF IInv, TypeOK
<1>4. TypeOK'
  <2>1. req' \in Request
    BY <1>3, BoundAssumption DEF Request, AnyQty
  <2>2. fills' \in Seq(FillRecord)
    OBVIOUS
  <2>3. aggressor = NULL
    BY DEF IInv, TypeOK
  <2>4. QED
    BY <1>1, <1>3, <2>1, <2>2, <2>3 DEF IInv, TypeOK, book
<1>5. IdsGivenOut'
  <2>1. \A n \in Node : arena[n].id \in Nat /\ arena'[n] = arena[n]
    BY <1>1 DEF IInv, TypeOK, Order, book
  <2>2. QED
    BY <1>2, <1>3, <2>1 DEF IInv, IdsGivenOut
<1>6. AggressorValid'
  BY DEF AggressorValid
<1>7. QED
  BY <1>2, <1>4, <1>5, <1>6 DEF IInv

\* A rejected add_order leaves the book alone.
LEMMA RejectIInv ==
  ASSUME IInv, reject_order
  PROVE  IInv'
<1> USE DEF reject_order
<1>1. UNCHANGED <<book, aggressor>>
  OBVIOUS
<1>2. /\ BboExact' /\ NotCrossed' /\ PoolPartition' /\ RestingSound'
      /\ TableSound' /\ LiveIdsUnique' /\ NeverWedged'
      /\ \A m \in Node : IsFree(m)' <=> IsFree(m)
  BY <1>1, BookUnchanged
<1>3. TypeOK'
  <2>1. req' \in Request
    BY PriceAssumption DEF NoRequest, Request, Sides, OrderTypes, AnyPrice,
                           NULL
  <2>2. aggressor = NULL
    BY DEF IInv, TypeOK
  <2>3. QED
    BY <1>1, <2>1, <2>2 DEF IInv, TypeOK, book
<1>4. IdsGivenOut'
  <2>1. \A n \in Node : arena'[n] = arena[n]
    BY <1>1 DEF book
  <2>2. QED
    BY <1>2, <2>1 DEF IInv, IdsGivenOut
<1>5. AggressorValid'
  BY DEF AggressorValid
<1>6. QED
  BY <1>2, <1>3, <1>4, <1>5 DEF IInv

\* What lookup finds between calls is a resting order with that id.
LEMMA LookupFinds ==
  ASSUME IInv, pc = "idle", NEW id \in Nat, lookup(id) # NULL
  PROVE  /\ lookup(id) \in Node
         /\ arena[lookup(id)].id = id
         /\ ~IsFree(lookup(id))
         /\ arena[lookup(id)].side \in Sides
         /\ arena[lookup(id)].price \in Prices
<1>1. Hash(id) \in 0 .. MAX_ORDERS - 1
  BY HashInRange
<1>2. /\ lookup(id) = order_table[Hash(id)] /\ arena[lookup(id)].id = id
      /\ lookup(id) \in Node
  BY <1>1 DEF lookup, IInv, TypeOK
<1>3. ~IsFree(lookup(id))
  BY <1>1, <1>2 DEF IInv, TableSound
<1>4. lookup(id) # aggressor
  BY DEF IInv, TypeOK
<1>5. OnBook(lookup(id))
  BY <1>2, <1>3, <1>4 DEF IInv, PoolPartition
<1>6. arena[lookup(id)].side \in Sides /\ arena[lookup(id)].price \in Prices
  BY <1>2, <1>5 DEF OnBook, IInv, RestingSound
<1>7. QED
  BY <1>2, <1>3, <1>6

\* Cancelling an order that lookup found, for cancel_order and modify_order.
LEMMA CancelFound ==
  ASSUME IInv, pc = "idle", NEW id \in Nat, lookup(id) # NULL,
         NEW k \in 1 .. PoolCapacity, take_out(lookup(id), k),
         UNCHANGED aggressor
  PROVE  /\ BboExact' /\ NotCrossed' /\ PoolPartition' /\ RestingSound'
         /\ TableSound' /\ LiveIdsUnique' /\ NeverWedged'
         /\ arena' \in [Node -> Order]
         /\ \A m \in Node : arena'[m].filled_qty <= arena'[m].quantity
         /\ levels' \in [Sides -> [Prices -> Seq(Node)]]
         /\ bits' \in [Sides -> SUBSET Prices]
         /\ best' \in [Sides -> AnyPrice]
         /\ free_list' \in Seq(Node)
         /\ order_table' \in [0 .. MAX_ORDERS - 1 -> Node \cup {NULL}]
         /\ \A m \in Node : IsFree(m)' <=> IsFree(m) \/ m = lookup(id)
         /\ \A m \in Node : arena'[m].id = arena[m].id
<1> DEFINE n == lookup(id)
           o == arena[n]
<1>1. n \in Node /\ o.side \in Sides /\ o.price \in Prices
  BY LookupFinds
<1>2. /\ k \in 1 .. Len(levels[o.side][o.price])
      /\ levels[o.side][o.price][k] = n
      /\ unlink(o.side, o.price, k)
      /\ release(n)
      /\ arena' = [arena EXCEPT ![n].filled_qty = 0]
  BY DEF take_out
<1> HIDE DEF n, o
<1>3. /\ arena' \in [Node -> Order]
      /\ \A m \in Node : arena'[m].id = arena[m].id
      /\ \A m \in Node : m # n => arena'[m] = arena[m]
      /\ \A m \in Node : arena'[m].filled_qty <= arena'[m].quantity
  <2>1. \A m \in Node : /\ arena[m] \in Order
                        /\ arena[m].filled_qty <= arena[m].quantity
    BY DEF IInv, TypeOK
  <2>2. \A m \in Node : arena'[m] =
          IF m = n THEN WithFilled(arena[m], 0) ELSE arena[m]
    BY <1>1, <1>2 DEF IInv, TypeOK, WithFilled
  <2>3. \A m \in Node : arena'[m] \in Order
    BY <2>1, <2>2, SetFilled
  <2>4. arena' \in [Node -> Order]
    <3>1. DOMAIN arena' = Node /\ arena' = [m \in DOMAIN arena' |-> arena'[m]]
      BY <1>2 DEF IInv, TypeOK
    <3>2. QED
      BY <2>3, <3>1
  <2>5. \A m \in Node : arena[m].quantity \in Nat
    BY <2>1 DEF Order
  <2>6. ASSUME NEW m \in Node
        PROVE  /\ arena'[m].id = arena[m].id
               /\ m # n => arena'[m] = arena[m]
               /\ arena'[m].filled_qty <= arena'[m].quantity
    <3>1. CASE m = n
      <4>0. arena'[m] = WithFilled(arena[m], 0) /\ arena[m] \in Order
        BY <2>1, <2>2, <3>1
      <4>1. /\ arena'[m].id = arena[m].id
            /\ arena'[m].filled_qty = 0 /\ arena'[m].quantity = arena[m].quantity
        BY <4>0, SetFilled
      <4>2. QED
        BY <2>5, <3>1, <4>1
    <3>2. CASE m # n
      BY <2>1, <2>2, <3>2
    <3>3. QED
      BY <3>1, <3>2
  <2>7. QED
    BY <2>4, <2>6
<1>4. /\ levels' \in [Sides -> [Prices -> Seq(Node)]]
      /\ bits' \in [Sides -> SUBSET Prices]
      /\ best' \in [Sides -> AnyPrice]
      /\ free_list' \in Seq(Node)
      /\ order_table' \in [0 .. MAX_ORDERS - 1 -> Node \cup {NULL}]
      /\ \A m \in Node : IsFree(m)' <=> IsFree(m) \/ m = n
      /\ BboExact' /\ NotCrossed' /\ PoolPartition' /\ RestingSound'
      /\ TableSound' /\ LiveIdsUnique' /\ NeverWedged'
  BY <1>1, <1>2, <1>3, TakenOut
<1>5. QED
  BY <1>3, <1>4 DEF n

\* A cancel.
LEMMA CancelIInv ==
  ASSUME IInv, NEW id \in 1 .. MaxId, cancel_order(id)
  PROVE  IInv'
<1>0. id \in Nat
  BY BoundAssumption
<1>1. /\ pc = "idle" /\ pc' = pc /\ aggressor = NULL
      /\ UNCHANGED <<fills, next_id, req, aggressor>>
      /\ ret' \in BOOLEAN
  BY DEF cancel_order, IInv, TypeOK
<1>2. AggressorValid'
  BY <1>1 DEF AggressorValid
<1>3. CASE lookup(id) = NULL
  <2>1. UNCHANGED <<book, aggressor>>
    BY <1>3 DEF cancel_order
  <2>2. /\ BboExact' /\ NotCrossed' /\ PoolPartition' /\ RestingSound'
        /\ TableSound' /\ LiveIdsUnique' /\ NeverWedged'
        /\ \A m \in Node : IsFree(m)' <=> IsFree(m)
    BY <2>1, BookUnchanged
  <2>3. TypeOK'
    BY <1>1, <2>1 DEF IInv, TypeOK, book
  <2>4. IdsGivenOut'
    BY <1>1, <2>1, <2>2 DEF IInv, IdsGivenOut, book
  <2>5. QED
    BY <1>2, <2>2, <2>3, <2>4 DEF IInv
<1>4. CASE lookup(id) # NULL
  <2>1. PICK k \in 1 .. PoolCapacity : take_out(lookup(id), k)
    BY <1>4 DEF cancel_order
  <2>2. /\ BboExact' /\ NotCrossed' /\ PoolPartition' /\ RestingSound'
        /\ TableSound' /\ LiveIdsUnique' /\ NeverWedged'
        /\ arena' \in [Node -> Order]
        /\ \A m \in Node : arena'[m].filled_qty <= arena'[m].quantity
        /\ levels' \in [Sides -> [Prices -> Seq(Node)]]
        /\ bits' \in [Sides -> SUBSET Prices]
        /\ best' \in [Sides -> AnyPrice]
        /\ free_list' \in Seq(Node)
        /\ order_table' \in [0 .. MAX_ORDERS - 1 -> Node \cup {NULL}]
        /\ \A m \in Node : IsFree(m)' <=> IsFree(m) \/ m = lookup(id)
        /\ \A m \in Node : arena'[m].id = arena[m].id
    BY <1>0, <1>1, <1>4, <2>1, CancelFound
  <2>3. TypeOK'
    BY <1>1, <2>2 DEF IInv, TypeOK
  <2>4. IdsGivenOut'
    BY <1>1, <2>2 DEF IInv, IdsGivenOut
  <2>5. QED
    BY <1>2, <2>2, <2>3, <2>4 DEF IInv
<1>5. QED
  BY <1>3, <1>4

\* A modify: the order is out of the book when add_order takes its id over.
LEMMA ModifyIInv ==
  ASSUME IInv, NEW id \in 1 .. MaxId, NEW p \in AnyPrice, NEW q \in AnyQty,
         modify_order(id, p, q)
  PROVE  IInv'
<1>0. id \in Nat
  BY BoundAssumption
<1>1. /\ pc = "idle" /\ aggressor = NULL
      /\ UNCHANGED <<next_id, aggressor>>
      /\ fills' \in Seq(FillRecord)
      /\ pc' \in {"idle", "add"}
  BY DEF modify_order, IInv, TypeOK
<1>2. AggressorValid'
  BY <1>1 DEF AggressorValid
<1>3. CASE lookup(id) = NULL
  <2>1. UNCHANGED <<book, aggressor>> /\ pc' = pc /\ req' = req /\ ret' = FALSE
    BY <1>1, <1>3 DEF modify_order
  <2>2. /\ BboExact' /\ NotCrossed' /\ PoolPartition' /\ RestingSound'
        /\ TableSound' /\ LiveIdsUnique' /\ NeverWedged'
        /\ \A m \in Node : IsFree(m)' <=> IsFree(m)
    BY <2>1, BookUnchanged
  <2>3. TypeOK'
    BY <1>1, <2>1 DEF IInv, TypeOK, book
  <2>4. IdsGivenOut'
    BY <1>1, <2>1, <2>2 DEF IInv, IdsGivenOut, book
  <2>5. QED
    BY <1>2, <2>2, <2>3, <2>4 DEF IInv
<1>4. CASE lookup(id) # NULL
  <2>1. PICK k \in 1 .. PoolCapacity : take_out(lookup(id), k)
    BY <1>4 DEF modify_order
  <2>2. /\ BboExact' /\ NotCrossed' /\ PoolPartition' /\ RestingSound'
        /\ TableSound' /\ LiveIdsUnique' /\ NeverWedged'
        /\ arena' \in [Node -> Order]
        /\ \A m \in Node : arena'[m].filled_qty <= arena'[m].quantity
        /\ levels' \in [Sides -> [Prices -> Seq(Node)]]
        /\ bits' \in [Sides -> SUBSET Prices]
        /\ best' \in [Sides -> AnyPrice]
        /\ free_list' \in Seq(Node)
        /\ order_table' \in [0 .. MAX_ORDERS - 1 -> Node \cup {NULL}]
        /\ \A m \in Node : IsFree(m)' <=> IsFree(m) \/ m = lookup(id)
        /\ \A m \in Node : arena'[m].id = arena[m].id
    BY <1>0, <1>1, <1>4, <2>1, CancelFound
  <2>3. /\ lookup(id) \in Node /\ arena[lookup(id)].id = id
        /\ ~IsFree(lookup(id)) /\ arena[lookup(id)].side \in Sides
    BY <1>0, <1>1, <1>4, LookupFinds
  <2>4. /\ req' = [id |-> id, client |-> arena[lookup(id)].client,
                   side |-> arena[lookup(id)].side, type |-> "Limit",
                   price |-> p, qty |-> q]
        /\ pc' = "add" /\ ret' = ret
    BY <1>4 DEF modify_order
  <2>5. req' \in Request
    <3>1. arena[lookup(id)].client \in Clients \cup {NULL}
      BY <2>3 DEF IInv, TypeOK, Order
    <3>2. q \in Nat /\ "Limit" \in OrderTypes
      BY BoundAssumption DEF AnyQty, OrderTypes
    <3>3. QED
      BY <1>0, <2>3, <2>4, <3>1, <3>2 DEF Request
  <2>6. TypeOK'
    BY <1>1, <2>2, <2>4, <2>5 DEF IInv, TypeOK
  <2>7. IdsGivenOut'
    <3>1. req'.id = id
      BY <2>4
    <3>2. id < next_id
      BY <2>3 DEF IInv, IdsGivenOut
    <3>3. ASSUME NEW m \in Node, ~IsFree(m)' PROVE arena'[m].id # id
      <4>1. ~IsFree(m) /\ m # lookup(id) /\ arena'[m].id = arena[m].id
        BY <2>2, <3>3
      <4>2. QED
        BY <2>3, <4>1 DEF IInv, LiveIdsUnique
    <3>4. ASSUME NEW m \in Node, ~IsFree(m)' PROVE arena'[m].id < next_id'
      BY <1>1, <2>2, <3>4 DEF IInv, IdsGivenOut
    <3>5. QED
      BY <1>1, <3>1, <3>2, <3>3, <3>4 DEF IdsGivenOut
  <2>8. QED
    BY <1>2, <2>2, <2>6, <2>7 DEF IInv
<1>5. QED
  BY <1>3, <1>4

\* add_order: the top of the free list becomes the aggressor, and the table
\* entry it overwrites, if any, is not one the invariant relies on.
LEMMA AddOrderIInv ==
  ASSUME IInv, add_order
  PROVE  IInv'
<1> DEFINE n == Last(free_list)
           o == [id |-> req.id, client |-> req.client, side |-> req.side,
                 type |-> req.type, price |-> req.price,
                 quantity |-> req.qty, filled_qty |-> 0]
<1>1. /\ pc = "add" /\ pc' = "match" /\ ~Rejected
      /\ free_list' = Front(free_list)
      /\ arena' = [arena EXCEPT ![n] = o]
      /\ order_table' = [order_table EXCEPT ![Hash(req.id)] = n]
      /\ aggressor' = n /\ req' = NoRequest
      /\ UNCHANGED <<levels, bits, best, fills, next_id, ret>>
  BY DEF add_order
<1>2. /\ free_list \in Seq(Node) /\ free_list # <<>> /\ IsInjective(free_list)
      /\ req \in Request /\ aggressor = NULL
  BY <1>1 DEF IInv, TypeOK, PoolPartition, Rejected
<1>3. /\ free_list' \in Seq(Node) /\ IsInjective(free_list')
      /\ n \in Node /\ IsFree(n)
      /\ \A m : IsFree(m)' <=> IsFree(m) /\ m # n
  BY <1>1, <1>2, FrontDistinct DEF IsFree
<1>4. o \in Order /\ o.id = req.id /\ o.filled_qty <= o.quantity
  BY <1>2 DEF Request, Order
<1>5. Hash(req.id) \in 0 .. MAX_ORDERS - 1 /\ req.id \in Nat
  BY <1>2, HashInRange DEF Request
<1>6. /\ o.type = "Limit" => o.price \in Prices
  BY <1>1, <1>2, PriceAssumption
     DEF Rejected, Prices, Request, AnyPrice, MIN_PRICE
<1> HIDE DEF n, o
<1>7. arena' \in [Node -> Order] /\ arena'[n] = o
      /\ \A m \in Node : m # n => arena'[m] = arena[m]
  BY <1>1, <1>3, <1>4 DEF IInv, TypeOK
<1>8. \A m \in Node : OnBook(m)' <=> OnBook(m)
  BY <1>1 DEF OnBook
<1>9. ~OnBook(n)
  BY <1>3 DEF IInv, PoolPartition
<1>10. TypeOK'
  <2>1. order_table' \in [0 .. MAX_ORDERS - 1 -> Node \cup {NULL}]
    BY <1>1, <1>3, <1>5 DEF IInv, TypeOK
  <2>2. req' \in Request
    BY <1>1, PriceAssumption
       DEF NoRequest, Request, Sides, OrderTypes, AnyPrice, NULL
  <2>3. \A m \in Node : arena'[m].filled_qty <= arena'[m].quantity
    BY <1>4, <1>7 DEF IInv, TypeOK
  <2>4. n # NULL
    BY <1>3 DEF Node, NULL
  <2>5. QED
    BY <1>1, <1>3, <1>7, <2>1, <2>2, <2>3, <2>4 DEF IInv, TypeOK
<1>11. BboExact' /\ NotCrossed'
  BY <1>1 DEF IInv, BboExact, NotCrossed
<1>12. PoolPartition'
  <2>1. \A m \in Node : /\ IsFree(m)' \/ OnBook(m)' \/ m = aggressor'
                        /\ ~(IsFree(m)' /\ OnBook(m)')
                        /\ m = aggressor' => ~IsFree(m)' /\ ~OnBook(m)'
    <3>1. \A m \in Node : m # aggressor
      BY <1>2 DEF Node, NULL
    <3>2. QED
      BY <1>1, <1>3, <1>8, <1>9, <3>1 DEF IInv, PoolPartition
  <2>2. \A s \in Sides, p \in Prices : IsInjective(levels'[s][p])
    BY <1>1 DEF IInv, PoolPartition
  <2>3. QED
    BY <1>3, <2>1, <2>2 DEF PoolPartition
<1>13. RestingSound'
  <2>1. SUFFICES ASSUME NEW t \in Sides, NEW u \in Prices, NEW m \in Node,
                        Contains(levels[t][u], m)
        PROVE  /\ arena'[m].side = t /\ arena'[m].price = u
               /\ arena'[m].type = "Limit" /\ ~is_filled(arena'[m])
    BY <1>1 DEF RestingSound, is_filled
  <2>2. m # n
    BY <1>9, <2>1 DEF OnBook
  <2>3. QED
    BY <1>7, <2>1, <2>2 DEF IInv, RestingSound
<1>14. TableSound'
  <2>1. SUFFICES ASSUME NEW h \in 0 .. MAX_ORDERS - 1, order_table'[h] # NULL
        PROVE  /\ ~Contains(free_list', order_table'[h])
               /\ Hash(arena'[order_table'[h]].id) = h
    BY DEF TableSound, IsFree
  <2>2. CASE h = Hash(req.id)
    <3>1. order_table'[h] = n
      BY <1>1, <2>2 DEF IInv, TypeOK
    <3>2. ~Contains(free_list', n)
      BY <1>3 DEF IsFree
    <3>3. QED
      BY <1>4, <1>7, <2>2, <3>1, <3>2
  <2>3. CASE h # Hash(req.id)
    <3>1. order_table'[h] = order_table[h]
      BY <1>1, <2>3 DEF IInv, TypeOK
    <3>2. PICK m \in Node : m = order_table[h]
      BY <2>1, <3>1 DEF IInv, TypeOK
    <3>3. ~IsFree(m) /\ Hash(arena[m].id) = h
      BY <2>1, <3>1, <3>2 DEF IInv, TableSound
    <3>4. m # n
      BY <1>3, <3>3
    <3>5. ~Contains(free_list', m)
      BY <1>3, <3>3 DEF IsFree
    <3>6. QED
      BY <1>7, <3>1, <3>2, <3>3, <3>4, <3>5
  <2>4. QED
    BY <2>2, <2>3
<1>15. \A m \in Node : ~IsFree(m) => arena[m].id # req.id
  BY <1>1 DEF IInv, IdsGivenOut
<1>16. LiveIdsUnique'
  <2>1. SUFFICES ASSUME NEW m1 \in Node, NEW m2 \in Node, ~IsFree(m1)',
                        ~IsFree(m2)', arena'[m1].id = arena'[m2].id
                 PROVE  m1 = m2
    BY DEF LiveIdsUnique
  <2>2. CASE m1 # n /\ m2 # n
    <3>1. ~IsFree(m1) /\ ~IsFree(m2) /\ arena[m1].id = arena[m2].id
      BY <1>3, <1>7, <2>1, <2>2
    <3>2. QED
      BY <3>1 DEF IInv, LiveIdsUnique
  <2>3. CASE m1 = n \/ m2 = n
    BY <1>3, <1>4, <1>7, <1>15, <2>1, <2>3
  <2>4. QED
    BY <2>2, <2>3
<1>17. NeverWedged'
  <2>1. order_table'[Hash(arena'[n].id)] = n
    BY <1>1, <1>4, <1>5, <1>7 DEF IInv, TypeOK
  <2>2. n # NULL
    BY <1>3 DEF Node, NULL
  <2>3. \E m \in Node : order_table'[Hash(arena'[m].id)] = m /\ m # NULL
    BY <1>3, <2>1, <2>2
  <2>4. QED
    BY <2>3 DEF NeverWedged, lookup
<1>18. IdsGivenOut'
  BY <1>1, <1>3, <1>4, <1>7 DEF IInv, IdsGivenOut
<1>19. AggressorValid'
  BY <1>1, <1>6, <1>7 DEF AggressorValid
<1>20. QED
  BY <1>10, <1>11, <1>12, <1>13, <1>14, <1>16, <1>17, <1>18, <1>19 DEF IInv

\* Discard: the aggressor goes back to the pool.
LEMMA DiscardIInv ==
  ASSUME IInv, Discard
  PROVE  IInv'
<1> DEFINE n == aggressor
<1>1. /\ pc = "match" /\ pc' = "idle" /\ aggressor' = NULL /\ ret' = TRUE
      /\ release(n)
      /\ arena' = [arena EXCEPT ![n].filled_qty = 0]
      /\ UNCHANGED <<levels, bits, best, fills, next_id, req>>
  BY DEF Discard
<1>2. n \in Node
  BY <1>1 DEF IInv, TypeOK
<1>3. ~IsFree(n) /\ ~OnBook(n)
  BY <1>2 DEF IInv, PoolPartition
<1> HIDE DEF n
<1>4. /\ free_list' \in Seq(Node) /\ free_list' # <<>>
      /\ IsInjective(free_list')
      /\ \A m \in Node : IsFree(m)' <=> IsFree(m) \/ m = n
      /\ order_table' \in [0 .. MAX_ORDERS - 1 -> Node \cup {NULL}]
      /\ \A h \in 0 .. MAX_ORDERS - 1 : order_table'[h] # NULL =>
           order_table'[h] = order_table[h] /\ order_table[h] # n
  BY <1>1, <1>2, <1>3, Released DEF IInv
<1>5. /\ \A m \in Node : arena'[m] =
           IF m = n THEN WithFilled(arena[m], 0) ELSE arena[m]
      /\ \A m \in Node : /\ arena[m] \in Order /\ arena[m].quantity \in Nat
                         /\ arena[m].filled_qty <= arena[m].quantity
  BY <1>1, <1>2 DEF IInv, TypeOK, WithFilled, Order
<1>6. ASSUME NEW m \in Node
      PROVE  /\ arena'[m] \in Order
             /\ arena'[m].id = arena[m].id
             /\ m # n => arena'[m] = arena[m]
             /\ arena'[m].filled_qty <= arena'[m].quantity
  <2>1. CASE m = n
    <3>0. arena'[m] = WithFilled(arena[m], 0) /\ arena[m] \in Order
      BY <1>5, <2>1
    <3>1. /\ arena'[m] \in Order /\ arena'[m].id = arena[m].id
          /\ arena'[m].filled_qty = 0 /\ arena'[m].quantity = arena[m].quantity
      BY <3>0, SetFilled
    <3>2. QED
      BY <1>5, <2>1, <3>1
  <2>2. CASE m # n
    BY <1>5, <2>2
  <2>3. QED
    BY <2>1, <2>2
<1>7. TypeOK'
  <2>1. arena' \in [Node -> Order]
    <3>1. DOMAIN arena' = Node /\ arena' = [m \in DOMAIN arena' |-> arena'[m]]
      BY <1>1 DEF IInv, TypeOK
    <3>2. QED
      BY <1>6, <3>1
  <2>2. QED
    BY <1>1, <1>4, <1>6, <2>1 DEF IInv, TypeOK
<1>8. BboExact' /\ NotCrossed'
  BY <1>1 DEF IInv, BboExact, NotCrossed
<1>9. PoolPartition'
  <2>1. \A m \in Node : OnBook(m)' <=> OnBook(m)
    BY <1>1 DEF OnBook
  <2>2. \A m \in Node : m # aggressor'
    BY <1>1 DEF Node, NULL
  <2>3. \A m \in Node : IsFree(m)' \/ OnBook(m)'
    BY <1>4, <2>1 DEF IInv, PoolPartition, n
  <2>4. \A m \in Node : ~(IsFree(m)' /\ OnBook(m)')
    BY <1>3, <1>4, <2>1 DEF IInv, PoolPartition
  <2>5. \A s \in Sides, p \in Prices : IsInjective(levels'[s][p])
    BY <1>1 DEF IInv, PoolPartition
  <2>6. QED
    BY <1>4, <2>2, <2>3, <2>4, <2>5 DEF PoolPartition
<1>10. RestingSound'
  <2>1. SUFFICES ASSUME NEW t \in Sides, NEW u \in Prices, NEW m \in Node,
                        Contains(levels[t][u], m)
        PROVE  /\ arena'[m].side = t /\ arena'[m].price = u
               /\ arena'[m].type = "Limit" /\ ~is_filled(arena'[m])
    BY <1>1 DEF RestingSound, is_filled
  <2>2. m # n
    BY <1>3, <2>1 DEF OnBook
  <2>3. arena'[m] = arena[m]
    BY <1>6, <2>2
  <2>4. QED
    BY <2>1, <2>3 DEF IInv, RestingSound
<1>11. TableSound'
  <2>1. SUFFICES ASSUME NEW h \in 0 .. MAX_ORDERS - 1, order_table'[h] # NULL
        PROVE  /\ ~Contains(free_list', order_table'[h])
               /\ Hash(arena'[order_table'[h]].id) = h
    BY DEF TableSound, IsFree
  <2>2. order_table'[h] = order_table[h] /\ order_table[h] # n
    BY <1>4, <2>1
  <2>3. PICK m \in Node : m = order_table[h]
    BY <2>1, <2>2 DEF IInv, TypeOK
  <2>4. ~IsFree(m) /\ Hash(arena[m].id) = h
    BY <2>1, <2>2, <2>3 DEF IInv, TableSound
  <2>5. ~Contains(free_list', m)
    BY <1>4, <2>2, <2>3, <2>4 DEF IsFree
  <2>6. QED
    BY <1>6, <2>2, <2>3, <2>4, <2>5
<1>12. LiveIdsUnique'
  BY <1>4, <1>6 DEF IInv, LiveIdsUnique
<1>13. NeverWedged'
  BY <1>4 DEF NeverWedged
<1>14. IdsGivenOut'
  BY <1>1, <1>4, <1>6 DEF IInv, IdsGivenOut
<1>15. AggressorValid'
  BY <1>1 DEF AggressorValid
<1>16. QED
  BY <1>7, <1>8, <1>9, <1>10, <1>11, <1>12, <1>13, <1>14, <1>15 DEF IInv

\* Rest: the aggressor joins a level it does not cross.
LEMMA RestIInv ==
  ASSUME IInv, Rest
  PROVE  IInv'
<1> DEFINE n == aggressor
           s == arena[n].side
           p == arena[n].price
           q == levels[s][p]
<1>1. /\ pc = "match" /\ pc' = "idle" /\ aggressor' = NULL /\ ret' = TRUE
      /\ ~Crosses /\ ~is_filled(arena[n]) /\ arena[n].type = "Limit"
      /\ levels' = [levels EXCEPT ![s][p] = Append(q, n)]
      /\ bits' = IF q = <<>> THEN [bits EXCEPT ![s] = @ \cup {p}] ELSE bits
      /\ best' = IF Better(s, p, best[s]) THEN [best EXCEPT ![s] = p] ELSE best
      /\ UNCHANGED <<arena, free_list, order_table, fills, next_id, req>>
  BY DEF Rest
<1>2. n \in Node /\ arena[n] \in Order
  BY <1>1 DEF IInv, TypeOK
<1>3. s \in Sides /\ p \in Prices /\ p \in AnyPrice
  BY <1>1, <1>2 DEF IInv, AggressorValid, Order
<1>4. ~IsFree(n) /\ ~OnBook(n)
  BY <1>2 DEF IInv, PoolPartition
<1>5. q \in Seq(Node) /\ IsInjective(q) /\ ~Contains(q, n)
  BY <1>3, <1>4 DEF IInv, TypeOK, PoolPartition, OnBook
<1>6. /\ Append(q, n) \in Seq(Node) /\ Append(q, n) # <<>>
      /\ \A m : Contains(Append(q, n), m) <=> Contains(q, m) \/ m = n
      /\ IsInjective(Append(q, n))
  <2> HIDE DEF n, s, p, q
  <2>1. QED
    BY <1>2, <1>5, AppendDistinct
\* The aggressor stopped: the opposite best price is beyond its limit.
<1>7. best[Opposite(s)] = NoPrice(Opposite(s)) \/ Better(Opposite(s), p, best[Opposite(s)])
  BY <1>1 DEF Crosses
<1> HIDE DEF n, s, p, q
<1>8. /\ levels'[s][p] = Append(q, n)
      /\ \A t \in Sides, u \in Prices :
           t # s \/ u # p => levels'[t][u] = levels[t][u]
  BY <1>1, <1>3 DEF IInv, TypeOK
<1>9. /\ bits'[s] = IF q = <<>> THEN bits[s] \cup {p} ELSE bits[s]
      /\ best'[s] = IF Better(s, p, best[s]) THEN p ELSE best[s]
      /\ \A t \in Sides : t # s => bits'[t] = bits[t] /\ best'[t] = best[t]
  BY <1>1, <1>3 DEF IInv, TypeOK
<1>10. /\ levels' \in [Sides -> [Prices -> Seq(Node)]]
       /\ bits' \in [Sides -> SUBSET Prices]
       /\ best' \in [Sides -> AnyPrice]
  BY <1>1, <1>3, <1>6 DEF IInv, TypeOK
<1>11. TypeOK'
  BY <1>1, <1>10 DEF IInv, TypeOK
<1>12. bits'[s] = bits[s] \cup {p}
  <2>1. q # <<>> => p \in bits[s]
    BY <1>3 DEF IInv, BboExact, q
  <2>2. QED
    BY <1>9, <2>1
<1>13. BboExact'
  <2>1. SUFFICES ASSUME NEW t \in Sides
        PROVE  /\ \A u \in Prices : u \in bits'[t] <=> levels'[t][u] # <<>>
               /\ best'[t] = NoPrice(t) => bits'[t] = {}
               /\ best'[t] # NoPrice(t) =>
                    /\ best'[t] \in bits'[t]
                    /\ \A u \in bits'[t] : ~Better(t, u, best'[t])
    BY DEF BboExact, NoPrice, INVALID_PRICE, Better
  <2>2. CASE t # s
    BY <1>8, <1>9, <2>2 DEF IInv, BboExact
  <2>3. CASE t = s
    <3>1. \A u \in Prices : u \in bits'[s] <=> levels'[s][u] # <<>>
      BY <1>3, <1>6, <1>8, <1>12 DEF IInv, BboExact
    <3>2. /\ best[s] \in AnyPrice /\ bits[s] \subseteq Prices
          /\ NoPrice(s) \notin Prices /\ Better(s, p, NoPrice(s))
      BY <1>3, Sentinel DEF IInv, TypeOK
    <3>3. CASE Better(s, p, best[s])
      <4>1. best'[s] = p /\ p # NoPrice(s)
        BY <1>3, <1>9, <3>2, <3>3
      <4>2. ASSUME NEW u \in bits[s] PROVE ~Better(s, u, p)
        <5>1. best[s] # NoPrice(s) /\ ~Better(s, u, best[s])
          BY <1>3 DEF IInv, BboExact
        <5>2. QED
          BY <1>3, <3>2, <3>3, <5>1, PriceAssumption
             DEF Better, Prices, AnyPrice, MIN_PRICE
      <4>3. ~Better(s, p, p)
        BY <1>3, PriceAssumption DEF Better, Prices, MIN_PRICE
      <4>4. QED
        BY <1>12, <2>3, <3>1, <4>1, <4>2, <4>3
    <3>4. CASE ~Better(s, p, best[s])
      <4>1. best'[s] = best[s] /\ best[s] # NoPrice(s)
        BY <1>9, <3>2, <3>4
      <4>2. best[s] \in bits[s] /\ \A u \in bits[s] : ~Better(s, u, best[s])
        BY <1>3, <4>1 DEF IInv, BboExact
      <4>3. QED
        BY <1>12, <2>3, <3>1, <3>4, <4>1, <4>2
    <3>5. QED
      BY <3>3, <3>4
  <2>4. QED
    BY <2>2, <2>3
<1>14. NotCrossed'
  <2>1. best["Buy"] \in AnyPrice /\ best["Sell"] \in AnyPrice
    BY DEF IInv, TypeOK, Sides
  <2>2. best["Buy"] < best["Sell"]
    BY DEF IInv, NotCrossed
  <2>3. CASE s = "Buy"
    <3>1. best'["Sell"] = best["Sell"] /\ best'["Buy"] \in {best["Buy"], p}
      BY <1>9, <2>3 DEF Sides
    <3>2. p < best["Sell"]
      BY <1>3, <1>7, <2>1, <2>3, PriceAssumption
         DEF Opposite, NoPrice, Better, Prices, MIN_PRICE
    <3>3. QED
      BY <2>2, <3>1, <3>2 DEF NotCrossed
  <2>4. CASE s = "Sell"
    <3>1. best'["Buy"] = best["Buy"] /\ best'["Sell"] \in {best["Sell"], p}
      BY <1>9, <2>4 DEF Sides
    <3>2. best["Buy"] < p
      BY <1>3, <1>7, <2>1, <2>4, PriceAssumption
         DEF Opposite, NoPrice, Better, Prices, AnyPrice, MIN_PRICE,
             INVALID_PRICE
    <3>3. QED
      BY <2>2, <3>1, <3>2 DEF NotCrossed
  <2>5. QED
    BY <1>3, <2>3, <2>4 DEF Sides
<1>15. \A t \in Sides, u \in Prices, m \in Node :
         Contains(levels'[t][u], m) <=>
           Contains(levels[t][u], m) \/ (t = s /\ u = p /\ m = n)
  BY <1>6, <1>8 DEF q
<1>16. PoolPartition'
  <2>1. \A m \in Node : OnBook(m)' <=> OnBook(m) \/ m = n
    BY <1>3, <1>15 DEF OnBook
  <2>2. \A m \in Node : m # aggressor'
    BY <1>1 DEF Node, NULL
  <2>3. \A m \in Node : IsFree(m)' <=> IsFree(m)
    BY <1>1 DEF IsFree
  <2>4. \A m \in Node : /\ IsFree(m)' \/ OnBook(m)'
                        /\ ~(IsFree(m)' /\ OnBook(m)')
    BY <1>4, <2>1, <2>3 DEF IInv, PoolPartition, n
  <2>5. ASSUME NEW t \in Sides, NEW u \in Prices
        PROVE  IsInjective(levels'[t][u])
    <3>1. CASE t = s /\ u = p
      BY <1>6, <1>8, <3>1
    <3>2. CASE t # s \/ u # p
      <4>1. levels'[t][u] = levels[t][u] /\ IsInjective(levels[t][u])
        BY <1>8, <3>2 DEF IInv, PoolPartition
      <4>2. QED
        BY <4>1, Zenon
    <3>3. QED
      BY <3>1, <3>2
  <2>6. IsInjective(free_list')
    BY <1>1 DEF IInv, PoolPartition
  <2>7. QED
    BY <2>2, <2>4, <2>5, <2>6 DEF PoolPartition
<1>17. RestingSound'
  <2>1. SUFFICES ASSUME NEW t \in Sides, NEW u \in Prices, NEW m \in Node,
                        Contains(levels'[t][u], m)
        PROVE  /\ arena[m].side = t /\ arena[m].price = u
               /\ arena[m].type = "Limit" /\ ~is_filled(arena[m])
    BY <1>1 DEF RestingSound, is_filled
  <2>2. CASE Contains(levels[t][u], m)
    BY <2>2 DEF IInv, RestingSound
  <2>3. CASE t = s /\ u = p /\ m = n
    BY <1>1, <2>3 DEF s, p
  <2>4. QED
    BY <1>15, <2>1, <2>2, <2>3
<1>18. TableSound' /\ LiveIdsUnique' /\ NeverWedged'
  BY <1>1 DEF IInv, TableSound, LiveIdsUnique, NeverWedged, IsFree, lookup
<1>19. IdsGivenOut'
  BY <1>1 DEF IInv, IdsGivenOut, IsFree
<1>20. AggressorValid'
  BY <1>1 DEF AggressorValid
<1>21. QED
  BY <1>11, <1>13, <1>14, <1>16, <1>17, <1>18, <1>19, <1>20 DEF IInv

\* The parties of the next fill: the aggressor, the order at the head of the
\* best opposite level, what they trade and what that leaves filled.
Taker == arena[aggressor]
TakenSide == Opposite(Taker.side)
TakenPrice == best[TakenSide]
MakerNode == Head(levels[TakenSide][TakenPrice])
Maker == arena[MakerNode]
Traded == IF remaining(Taker) <= remaining(Maker) THEN remaining(Taker)
          ELSE remaining(Maker)
MakerFilled == IF Traded = remaining(Maker) THEN 0
               ELSE Maker.filled_qty + Traded

\* What a fill does to its two parties, and to nobody else.
LEMMA FillFacts ==
  ASSUME IInv, Fill
  PROVE  /\ pc = "match" /\ Crosses
         /\ UNCHANGED <<next_id, pc, req, aggressor, ret>>
         /\ aggressor \in Node /\ Taker \in Order
         /\ TakenSide \in Sides /\ TakenPrice \in Prices
         /\ MakerNode \in Node /\ Maker \in Order /\ MakerNode # aggressor
         /\ Contains(levels[TakenSide][TakenPrice], MakerNode)
         /\ 1 \in 1 .. Len(levels[TakenSide][TakenPrice])
         /\ levels[TakenSide][TakenPrice][1] = MakerNode
         /\ Maker.quantity \in Nat
         /\ Traded \in Nat /\ MakerFilled \in Nat
         /\ Taker.filled_qty \in Nat /\ Taker.filled_qty + Traded \in Nat
         /\ Taker.filled_qty + Traded <= Taker.quantity
         /\ MakerFilled <= Maker.quantity
         /\ Traded # remaining(Maker) => MakerFilled < Maker.quantity
         /\ Traded = remaining(Maker) =>
              unlink(TakenSide, TakenPrice, 1) /\ release(MakerNode)
         /\ Traded # remaining(Maker) =>
              UNCHANGED <<free_list, levels, bits, best, order_table>>
         /\ \A m \in Node : arena'[m] =
              IF m = aggressor THEN WithFilled(Taker, Taker.filled_qty + Traded)
              ELSE IF m = MakerNode THEN WithFilled(Maker, MakerFilled)
              ELSE arena[m]
         /\ DOMAIN arena' = Node /\ arena' = [m \in DOMAIN arena' |-> arena'[m]]
         /\ NewFill(Taker, Maker, Traded) \in FillRecord
         /\ fills' = Append(fills, NewFill(Taker, Maker, Traded))
         /\ fills' \in Seq(FillRecord)
<1> DEFINE a == arena[aggressor]
           s == Opposite(a.side)
           p == best[s]
           n == Head(levels[s][p])
           r == arena[n]
           q == IF remaining(a) <= remaining(r) THEN remaining(a)
                ELSE remaining(r)
           left == IF q = remaining(r) THEN 0 ELSE r.filled_qty + q
<1>1. /\ pc = "match" /\ Crosses /\ levels[s][p] # <<>>
      /\ fills' = Append(fills, NewFill(a, r, q))
      /\ UNCHANGED <<next_id, pc, req, aggressor, ret>>
  BY DEF Fill
<1>2. q = remaining(r) => unlink(s, p, 1) /\ release(n)
  BY DEF Fill
<1>3. q # remaining(r) =>
        UNCHANGED <<free_list, levels, bits, best, order_table>>
  BY DEF Fill
<1>5. aggressor \in Node /\ a \in Order /\ a.side \in Sides
  BY <1>1 DEF IInv, TypeOK, Order
<1>6. s \in Sides /\ p \in Prices
  <2>1. s \in Sides /\ p # NoPrice(s)
    BY <1>1, <1>5 DEF Opposite, Sides, Crosses
  <2>2. QED
    BY <2>1 DEF IInv, BboExact, TypeOK
<1>7. levels[s][p] \in Seq(Node)
  BY <1>6 DEF IInv, TypeOK
<1>8. /\ n \in Node /\ Contains(levels[s][p], n)
      /\ 1 \in 1 .. Len(levels[s][p]) /\ levels[s][p][1] = n
  <2>1. /\ Len(levels[s][p]) >= 1 /\ levels[s][p][1] = n
        /\ n \in Node /\ Contains(levels[s][p], n)
    BY <1>1, <1>7, ContainsHead
  <2>2. Len(levels[s][p]) \in Nat
    BY <1>7, LenProperties
  <2> HIDE DEF a, s, p, n
  <2>3. 1 \in 1 .. Len(levels[s][p])
    BY <2>1, <2>2
  <2>4. QED
    BY <2>1, <2>3
<1>9. n # aggressor
  <2> HIDE DEF a, s, p, n
  <2>1. OnBook(n)
    BY <1>6, <1>8 DEF OnBook
  <2>2. QED
    BY <1>8, <2>1 DEF IInv, PoolPartition
<1>10. /\ r \in Order /\ ~is_filled(a) /\ ~is_filled(r)
       /\ a.filled_qty \in Nat /\ a.quantity \in Nat
       /\ r.filled_qty \in Nat /\ r.quantity \in Nat
  <2>1. ~is_filled(a)
    BY <1>1 DEF Crosses
  <2>2. ~is_filled(r)
    BY <1>6, <1>8 DEF IInv, RestingSound
  <2>3. r \in Order
    BY <1>8 DEF IInv, TypeOK
  <2>4. \A o \in Order : o.filled_qty \in Nat /\ o.quantity \in Nat
    BY DEF Order
  <2>5. QED
    BY <1>5, <2>1, <2>2, <2>3, <2>4
<1>11. /\ q \in Nat /\ left \in Nat /\ a.filled_qty + q \in Nat
       /\ a.filled_qty + q <= a.quantity
       /\ left <= r.quantity
       /\ q # remaining(r) => left < r.quantity
  <2> HIDE DEF a, r
  <2>1. ~(a.filled_qty >= a.quantity) /\ ~(r.filled_qty >= r.quantity)
    BY <1>10 DEF is_filled
  <2>2. PICK x \in Nat : x = remaining(a) /\ a.filled_qty + x = a.quantity
    BY <1>10, <2>1 DEF remaining
  <2>3. PICK y \in Nat : y = remaining(r) /\ r.filled_qty + y = r.quantity
    BY <1>10, <2>1 DEF remaining
  <2>4. q = (IF x <= y THEN x ELSE y) /\ left = IF q = y THEN 0 ELSE r.filled_qty + q
    BY <2>2, <2>3
  <2> HIDE DEF q, left
  <2>5. q \in Nat /\ q <= x /\ q <= y
    BY <2>4
  <2>6. left \in Nat /\ left <= r.quantity /\ (q # y => left < r.quantity)
    BY <1>10, <2>3, <2>4, <2>5
  <2>7. QED
    BY <1>10, <2>2, <2>3, <2>5, <2>6
<1>12. \A m \in Node : arena'[m] =
         IF m = aggressor THEN WithFilled(a, a.filled_qty + q)
         ELSE IF m = n THEN WithFilled(r, left)
         ELSE arena[m]
  <2>1. arena \in [Node -> Order]
    BY DEF IInv, TypeOK
  <2>2. CASE q = remaining(r)
    <3>1. arena' = [arena EXCEPT ![aggressor].filled_qty = @ + q,
                                 ![n].filled_qty = 0]
      BY <2>2 DEF Fill
    <3>2. QED
      BY <1>5, <1>8, <1>9, <2>1, <2>2, <3>1 DEF WithFilled
  <2>3. CASE q # remaining(r)
    <3>1. arena' = [arena EXCEPT ![aggressor].filled_qty = @ + q,
                                 ![n].filled_qty = @ + q]
      BY <2>3 DEF Fill
    <3>2. QED
      BY <1>5, <1>8, <1>9, <2>1, <2>3, <3>1 DEF WithFilled
  <2>4. QED
    BY <2>2, <2>3
<1>13. DOMAIN arena' = Node /\ arena' = [m \in DOMAIN arena' |-> arena'[m]]
  BY DEF Fill, IInv, TypeOK
<1>14. /\ NewFill(a, r, q) \in FillRecord
       /\ fills' \in Seq(FillRecord)
  <2>1. NewFill(a, r, q) \in FillRecord
    BY <1>5, <1>10, <1>11 DEF NewFill, FillRecord, Order
  <2>2. fills \in Seq(FillRecord)
    BY DEF IInv, TypeOK
  <2> DEFINE f == NewFill(a, r, q)
  <2>3. f \in FillRecord /\ fills' = Append(fills, f)
    BY <1>1, <2>1
  <2> HIDE DEF f
  <2>4. fills' \in Seq(FillRecord)
    BY <2>2, <2>3, AppendProperties
  <2>5. QED
    BY <2>1, <2>4
<1>15. /\ a = Taker /\ s = TakenSide /\ p = TakenPrice /\ n = MakerNode
       /\ r = Maker /\ q = Traded /\ left = MakerFilled
  BY DEF Taker, TakenSide, TakenPrice, MakerNode, Maker, Traded, MakerFilled
<1> HIDE DEF a, s, p, n, r, q, left
<1>16. QED
  BY <1>1, <1>2, <1>3, <1>5, <1>6, <1>8, <1>9, <1>10, <1>11, <1>12, <1>13,
     <1>14, <1>15

\* Fill: one trade between the aggressor and the front of the best level.
LEMMA FillIInv ==
  ASSUME IInv, Fill
  PROVE  IInv'
<1> DEFINE a == Taker
           s == TakenSide
           p == TakenPrice
           n == MakerNode
           r == Maker
           q == Traded
           left == MakerFilled
<1>1. pc = "match" /\ UNCHANGED <<next_id, pc, req, aggressor, ret>>
  BY FillFacts
<1>2. q = remaining(r) => unlink(s, p, 1) /\ release(n)
  BY FillFacts
<1>3. q # remaining(r) =>
        UNCHANGED <<free_list, levels, bits, best, order_table>>
  BY FillFacts
<1>5. aggressor \in Node /\ a \in Order
  BY FillFacts
<1>6. s \in Sides /\ p \in Prices
  BY FillFacts
<1>8. /\ n \in Node /\ Contains(levels[s][p], n)
      /\ 1 \in 1 .. Len(levels[s][p]) /\ levels[s][p][1] = n
  BY FillFacts
<1>9. n # aggressor
  BY FillFacts
<1>10. r \in Order /\ r.quantity \in Nat
  BY FillFacts
<1>11. /\ q \in Nat /\ left \in Nat /\ a.filled_qty + q \in Nat
       /\ a.filled_qty + q <= a.quantity
       /\ left <= r.quantity
       /\ q # remaining(r) => left < r.quantity
  BY FillFacts
<1>12. \A m \in Node : arena'[m] =
         IF m = aggressor THEN WithFilled(a, a.filled_qty + q)
         ELSE IF m = n THEN WithFilled(r, left)
         ELSE arena[m]
  BY FillFacts
<1>13. DOMAIN arena' = Node /\ arena' = [m \in DOMAIN arena' |-> arena'[m]]
  BY FillFacts
<1>14. fills' \in Seq(FillRecord)
  BY FillFacts
<1> HIDE DEF a, s, p, n, r, q, left
<1>15. ASSUME NEW m \in Node
       PROVE  /\ arena'[m] \in Order
              /\ arena'[m].id = arena[m].id
              /\ arena'[m].side = arena[m].side
              /\ arena'[m].type = arena[m].type
              /\ arena'[m].price = arena[m].price
              /\ arena'[m].quantity = arena[m].quantity
              /\ arena'[m].filled_qty <= arena'[m].quantity
              /\ m # n /\ m # aggressor => arena'[m] = arena[m]
  <2>1. CASE m = aggressor
    <3>1. arena'[m] = WithFilled(a, a.filled_qty + q) /\ arena[m] = a
      BY <1>12, <2>1 DEF a, Taker
    <3>2. QED
      BY <1>5, <1>11, <2>1, <3>1, SetFilled
  <2>2. CASE m = n /\ m # aggressor
    <3>1. arena'[m] = WithFilled(r, left) /\ arena[m] = r
      BY <1>12, <2>2 DEF r, Maker, n
    <3>2. r \in Order /\ left \in Nat /\ left <= r.quantity
      BY <1>10, <1>11
    <3>3. QED
      BY <2>2, <3>1, <3>2, SetFilled
  <2>3. CASE m # n /\ m # aggressor
    BY <1>12, <2>3 DEF IInv, TypeOK
  <2>4. QED
    BY <2>1, <2>2, <2>3
<1>16. arena' \in [Node -> Order]
  BY <1>13, <1>15
<1>17. AggressorValid'
  BY <1>1, <1>5, <1>15 DEF IInv, AggressorValid
<1>18. CASE q = remaining(r)
  <2>1. /\ levels' \in [Sides -> [Prices -> Seq(Node)]]
        /\ bits' \in [Sides -> SUBSET Prices]
        /\ best' \in [Sides -> AnyPrice]
        /\ free_list' \in Seq(Node)
        /\ order_table' \in [0 .. MAX_ORDERS - 1 -> Node \cup {NULL}]
        /\ \A m \in Node : IsFree(m)' <=> IsFree(m) \/ m = n
        /\ BboExact' /\ NotCrossed' /\ PoolPartition' /\ RestingSound'
        /\ TableSound' /\ LiveIdsUnique' /\ NeverWedged'
    BY <1>1, <1>2, <1>6, <1>8, <1>15, <1>18, TakenOut
  <2>2. TypeOK'
    BY <1>1, <1>14, <1>15, <1>16, <2>1 DEF IInv, TypeOK
  <2>3. IdsGivenOut'
    BY <1>1, <1>15, <2>1 DEF IInv, IdsGivenOut
  <2>4. QED
    BY <1>17, <2>1, <2>2, <2>3 DEF IInv
<1>19. CASE q # remaining(r)
  <2>1. UNCHANGED <<free_list, levels, bits, best, order_table, aggressor>>
    BY <1>1, <1>3, <1>19
  <2>2. \A m \in Node : /\ IsFree(m)' <=> IsFree(m)
                        /\ OnBook(m)' <=> OnBook(m)
    BY <2>1 DEF IsFree, OnBook
  <2>3. TypeOK'
    BY <1>1, <1>14, <1>15, <1>16, <2>1 DEF IInv, TypeOK
  <2>4. BboExact' /\ NotCrossed' /\ PoolPartition'
    BY <2>1 DEF IInv, BboExact, NotCrossed, PoolPartition, IsFree, OnBook
  <2>5. RestingSound'
    <3>1. SUFFICES ASSUME NEW t \in Sides, NEW u \in Prices, NEW m \in Node,
                          Contains(levels[t][u], m)
          PROVE  /\ arena'[m].side = t /\ arena'[m].price = u
                 /\ arena'[m].type = "Limit" /\ ~is_filled(arena'[m])
      BY <2>1 DEF RestingSound, is_filled
    <3>2. /\ arena[m].side = t /\ arena[m].price = u
          /\ arena[m].type = "Limit" /\ ~is_filled(arena[m])
      BY <3>1 DEF IInv, RestingSound
    <3>3. m # aggressor
      BY <3>1 DEF IInv, PoolPartition, OnBook
    <3>4. ~is_filled(arena'[m])
      <4>1. CASE m = n
        <5>0. arena'[m] = WithFilled(r, left) /\ r \in Order /\ left \in Nat
          BY <1>9, <1>10, <1>11, <1>12, <4>1
        <5>1. arena'[m].filled_qty = left /\ arena'[m].quantity = r.quantity
          BY <5>0, SetFilled
        <5>2. QED
          BY <1>10, <1>11, <1>19, <5>1 DEF is_filled
      <4>2. CASE m # n
        BY <1>15, <3>2, <3>3, <4>2
      <4>3. QED
        BY <4>1, <4>2
    <3>5. QED
      BY <1>15, <3>2, <3>4
  <2>6. TableSound'
    <3>1. SUFFICES ASSUME NEW h \in 0 .. MAX_ORDERS - 1, order_table[h] # NULL
          PROVE  /\ ~IsFree(order_table[h])
                 /\ Hash(arena'[order_table[h]].id) = h
      BY <2>1 DEF TableSound, IsFree
    <3>2. order_table[h] \in Node
      BY <3>1 DEF IInv, TypeOK
    <3>3. QED
      BY <1>15, <3>1, <3>2 DEF IInv, TableSound
  <2>7. LiveIdsUnique'
    BY <1>15, <2>2 DEF IInv, LiveIdsUnique
  <2>8. NeverWedged'
    <3>1. SUFFICES ASSUME free_list = <<>>
                   PROVE  \E m \in Node : lookup(arena[m].id)' = m
      BY <2>1 DEF NeverWedged
    <3>2. PICK m \in Node : lookup(arena[m].id) = m
      BY <3>1 DEF IInv, NeverWedged
    <3>3. m = order_table[Hash(arena[m].id)] /\ m # NULL
      BY <3>2 DEF lookup, Node, NULL
    <3>4. order_table'[Hash(arena'[m].id)] = m
      BY <1>15, <2>1, <3>3
    <3>5. lookup(arena[m].id)' = m
      BY <3>3, <3>4 DEF lookup
    <3>6. QED
      BY <3>5
  <2>9. IdsGivenOut'
    BY <1>1, <1>15, <2>2 DEF IInv, IdsGivenOut
  <2>10. QED
    BY <1>17, <2>3, <2>4, <2>5, <2>6, <2>7, <2>8, <2>9 DEF IInv
<1>20. QED
  BY <1>18, <1>19

\* Every step of the engine's calls keeps the invariant.
LEMMA NextIInv == IInv /\ [Next]_vars => IInv'
<1> SUFFICES ASSUME IInv, [Next]_vars PROVE IInv'
  OBVIOUS
<1>1. CASE NewOrder
  BY <1>1, NewOrderIInv DEF NewOrder
<1>2. CASE CancelOrder
  BY <1>2, CancelIInv DEF CancelOrder
<1>3. CASE ModifyOrder
  BY <1>3, ModifyIInv DEF ModifyOrder
<1>4. CASE reject_order
  BY <1>4, RejectIInv
<1>5. CASE add_order
  BY <1>5, AddOrderIInv
<1>6. CASE Fill
  BY <1>6, FillIInv
<1>7. CASE Rest
  BY <1>7, RestIInv
<1>8. CASE Discard
  BY <1>8, DiscardIInv
<1>9. CASE UNCHANGED vars
  <2>1. /\ UNCHANGED <<book, aggressor>>
        /\ UNCHANGED <<fills, next_id, pc, req, ret>>
    BY <1>9 DEF vars, book
  <2>2. /\ BboExact' /\ NotCrossed' /\ PoolPartition' /\ RestingSound'
        /\ TableSound' /\ LiveIdsUnique' /\ NeverWedged'
    BY <2>1, BookUnchanged
  <2>3. TypeOK'
    BY <2>1 DEF IInv, TypeOK, book
  <2>4. IdsGivenOut' /\ AggressorValid'
    BY <2>1 DEF IInv, IdsGivenOut, AggressorValid, IsFree, book
  <2>5. QED
    BY <2>2, <2>3, <2>4 DEF IInv
<1>10. QED
  BY <1>1, <1>2, <1>3, <1>4, <1>5, <1>6, <1>7, <1>8, <1>9 DEF Next, Step

-----------------------------------------------------------------------------
(* The theorems *)

\* The inductive invariant holds in every reachable state.
THEOREM IInvHolds == Spec => []IInv
<1>1. Init => IInv
  BY InitIInv
<1>2. IInv /\ [Next]_vars => IInv'
  BY NextIInv
<1>3. QED
  BY <1>1, <1>2, PTL DEF Spec

\* Every variable keeps its type: no order is ever filled beyond its
\* quantity, so the unsigned remaining() never wraps.
THEOREM TypeCorrect == Spec => []TypeOK
<1>1. IInv => TypeOK
  BY DEF IInv
<1>2. QED
  BY <1>1, IInvHolds, PTL

\* validate_bbo holds after every step, for every price range: the cached
\* best prices and the bitsets never disagree with the levels.
THEOREM BestPricesExact == Spec => []BboExact
<1>1. IInv => BboExact
  BY DEF IInv
<1>2. QED
  BY <1>1, IInvHolds, PTL

\* The book is never crossed.
THEOREM NeverCrossed == Spec => []NotCrossed
<1>1. IInv => NotCrossed
  BY DEF IInv
<1>2. QED
  BY <1>1, IInvHolds, PTL

\* No order node is leaked, freed twice or queued twice.
THEOREM PoolIntact == Spec => []PoolPartition
<1>1. IInv => PoolPartition
  BY DEF IInv
<1>2. QED
  BY <1>1, IInvHolds, PTL

\* Resting orders wait at their own price with something left to trade.
THEOREM RestingOrdersSound == Spec => []RestingSound
<1>1. IInv => RestingSound
  BY DEF IInv
<1>2. QED
  BY <1>1, IInvHolds, PTL

\* The order table never names a freed order, whatever ids collide in it.
THEOREM TableNeverDangles == Spec => []TableSound
<1>1. IInv => TableSound
  BY DEF IInv
<1>2. QED
  BY <1>1, IInvHolds, PTL

\* No two live orders share an id.
THEOREM IdsUnique == Spec => []LiveIdsUnique
<1>1. IInv => LiveIdsUnique
  BY DEF IInv
<1>2. QED
  BY <1>1, IInvHolds, PTL

\* A full pool can always be relieved by a cancel.
THEOREM BookNeverWedged == Spec => []NeverWedged
<1>1. IInv => NeverWedged
  BY DEF IInv
<1>2. QED
  BY <1>1, IInvHolds, PTL

-----------------------------------------------------------------------------
(* The mapping *)

\* The rank of a price on a side: 1 is the best.
Rank(s, p) == IF s = "Buy" THEN MAX_PRICE + 1 - p ELSE p

\* Rank and PriceAt are inverse, and a smaller rank is a better price.
LEMMA Ranks ==
  ASSUME NEW s \in Sides
  PROVE  /\ \A p \in Prices : Rank(s, p) \in 1 .. MAX_PRICE
         /\ \A i \in 1 .. MAX_PRICE : PriceAt(s, i) \in Prices
         /\ \A p \in Prices : PriceAt(s, Rank(s, p)) = p
         /\ \A i \in 1 .. MAX_PRICE : Rank(s, PriceAt(s, i)) = i
         /\ \A p \in Prices, i \in 1 .. MAX_PRICE :
              /\ i < Rank(s, p) => Better(s, PriceAt(s, i), p)
              /\ i > Rank(s, p) => Better(s, p, PriceAt(s, i))
BY PriceAssumption DEF Rank, PriceAt, Prices, MIN_PRICE, Better, Sides

\* What one level contributes to the queue of its side: the better levels
\* are in front of it, the worse ones behind.
LEMMA MergedSplit ==
  ASSUME NEW s \in Sides, NEW L \in [Prices -> Seq(Node)], NEW p \in Prices
  PROVE  \E A \in Seq(Node), B \in Seq(Node) :
           /\ \A q \in Seq(Node) :
                Merged(s, [L EXCEPT ![p] = q]) = Spliced(A, q, B)
           /\ \A x : Contains(A, x) =>
                \E u \in Prices : Better(s, u, p) /\ Contains(L[u], x)
           /\ \A x : Contains(B, x) =>
                \E u \in Prices : Better(s, p, u) /\ Contains(L[u], x)
<1> DEFINE n == MAX_PRICE
           j == Rank(s, p)
           v == [i \in 1 .. n |-> L[PriceAt(s, i)]]
<1>1. n \in Nat \ {0} /\ j \in 1 .. n
  BY PriceAssumption, Ranks
<1>2. v \in [1 .. n -> Seq(Node)] /\ \A i \in 1 .. n : v[i] = L[PriceAt(s, i)]
  BY Ranks
<1>3. PICK A \in Seq(Node), B \in Seq(Node) : SplitsAt(v, n, Node, j, A, B)
  <2> HIDE DEF v, j, n
  <2>1. QED
    BY <1>1, <1>2, FlattenSplit, Zenon
<1>4. ASSUME NEW q \in Seq(Node)
      PROVE  Merged(s, [L EXCEPT ![p] = q]) = Spliced(A, q, B)
  <2> DEFINE M == [L EXCEPT ![p] = q]
             w == [i \in 1 .. n |-> M[PriceAt(s, i)]]
  <2>1. ASSUME NEW i \in 1 .. n PROVE w[i] = [v EXCEPT ![j] = q][i]
    <3>1. CASE i = j
      <4>1. PriceAt(s, i) = p
        BY <3>1, Ranks
      <4>2. QED
        BY <1>2, <3>1, <4>1
    <3>2. CASE i # j
      <4>1. PriceAt(s, i) # p /\ PriceAt(s, i) \in Prices
        BY <3>2, Ranks
      <4>2. QED
        BY <1>2, <3>2, <4>1
    <3>3. QED
      BY <3>1, <3>2
  <2>2. w = [v EXCEPT ![j] = q]
    BY <2>1, <1>2
  <2>3. Merged(s, M) = FlattenSeq(w)
    BY Zenon DEF Merged
  <2>4. QED
    BY <1>3, <2>2, <2>3, Zenon DEF SplitsAt
<1>5. ASSUME NEW x, Contains(A, x)
      PROVE  \E u \in Prices : Better(s, u, p) /\ Contains(L[u], x)
  <2>1. PICK l \in 1 .. j - 1 : Contains(v[l], x)
    BY <1>3, <1>5, Zenon DEF SplitsAt
  <2>2. l \in 1 .. n /\ l < j
    BY <1>1
  <2>3. Better(s, PriceAt(s, l), p) /\ PriceAt(s, l) \in Prices
    BY <2>2, Ranks
  <2>4. QED
    BY <1>2, <2>1, <2>2, <2>3
<1>6. ASSUME NEW x, Contains(B, x)
      PROVE  \E u \in Prices : Better(s, p, u) /\ Contains(L[u], x)
  <2>1. PICK l \in j + 1 .. n : Contains(v[l], x)
    BY <1>3, <1>6, Zenon DEF SplitsAt
  <2>2. l \in 1 .. n /\ l > j
    BY <1>1
  <2>3. Better(s, p, PriceAt(s, l)) /\ PriceAt(s, l) \in Prices
    BY <2>2, Ranks
  <2>4. QED
    BY <1>2, <2>1, <2>2, <2>3
<1>7. QED
  BY <1>4, <1>5, <1>6

\* The same of the book as it is.
LEMMA LevelInQueue ==
  ASSUME TypeOK, NEW s \in Sides, NEW p \in Prices
  PROVE  \E A \in Seq(Node), B \in Seq(Node) :
           /\ Merged(s, levels[s]) = Spliced(A, levels[s][p], B)
           /\ \A q \in Seq(Node) :
                Merged(s, [levels[s] EXCEPT ![p] = q]) = Spliced(A, q, B)
           /\ \A x : Contains(A, x) =>
                \E u \in Prices : Better(s, u, p) /\ Contains(levels[s][u], x)
           /\ \A x : Contains(B, x) =>
                \E u \in Prices : Better(s, p, u) /\ Contains(levels[s][u], x)
<1> DEFINE L == levels[s]
<1>1. L \in [Prices -> Seq(Node)] /\ L[p] \in Seq(Node)
  BY DEF TypeOK
<1>2. [L EXCEPT ![p] = L[p]] = L
  BY <1>1
<1> HIDE DEF L
<1>3. PICK A \in Seq(Node), B \in Seq(Node) :
           /\ \A q \in Seq(Node) :
                Merged(s, [L EXCEPT ![p] = q]) = Spliced(A, q, B)
           /\ \A x : Contains(A, x) =>
                \E u \in Prices : Better(s, u, p) /\ Contains(L[u], x)
           /\ \A x : Contains(B, x) =>
                \E u \in Prices : Better(s, p, u) /\ Contains(L[u], x)
  BY <1>1, MergedSplit
<1>4. Merged(s, [L EXCEPT ![p] = L[p]]) = Spliced(A, L[p], B)
  BY <1>1, <1>3
<1>5. Merged(s, L) = Spliced(A, L[p], B)
  BY <1>2, <1>4
<1>6. QED
  BY <1>3, <1>5 DEF L

\* The queue of a side holds each of its resting orders once, and no other.
LEMMA QueueNodes ==
  ASSUME IInv, NEW s \in Sides
  PROVE  /\ Merged(s, levels[s]) \in Seq(Node)
         /\ IsInjective(Merged(s, levels[s]))
         /\ \A x : Contains(Merged(s, levels[s]), x) =>
              \E p \in Prices : Contains(levels[s][p], x)
<1> DEFINE v == Merged(s, levels[s])
<1>1. MIN_PRICE \in Prices /\ \A p \in Prices : levels[s][p] \in Seq(Node)
  BY PriceAssumption DEF IInv, TypeOK, Prices, MIN_PRICE
<1>2. v \in Seq(Node)
      /\ \A x : Contains(v, x) => \E p \in Prices : Contains(levels[s][p], x)
  <2>1. PICK A \in Seq(Node), B \in Seq(Node) :
           /\ v = Spliced(A, levels[s][MIN_PRICE], B)
           /\ \A x : Contains(A, x) =>
                \E u \in Prices : Contains(levels[s][u], x)
           /\ \A x : Contains(B, x) =>
                \E u \in Prices : Contains(levels[s][u], x)
    <3> HIDE DEF v
    <3>1. TypeOK
      BY DEF IInv
    <3>2. PICK A \in Seq(Node), B \in Seq(Node) :
           /\ Merged(s, levels[s]) = Spliced(A, levels[s][MIN_PRICE], B)
           /\ \A x : Contains(A, x) =>
                \E u \in Prices : Better(s, u, MIN_PRICE) /\ Contains(levels[s][u], x)
           /\ \A x : Contains(B, x) =>
                \E u \in Prices : Better(s, MIN_PRICE, u) /\ Contains(levels[s][u], x)
      BY <1>1, <3>1, LevelInQueue
    <3>3. QED
      BY <3>2 DEF v
  <2> HIDE DEF v
  <2>2. v \in Seq(Node) /\ \A x : Contains(v, x) <=>
          Contains(A, x) \/ Contains(levels[s][MIN_PRICE], x) \/ Contains(B, x)
    <3>1. PICK q \in Seq(Node) : q = levels[s][MIN_PRICE]
      BY <1>1
    <3>2. Spliced(A, q, B) \in Seq(Node) /\ \A x : Contains(Spliced(A, q, B), x)
            <=> Contains(A, x) \/ Contains(q, x) \/ Contains(B, x)
      BY Splice, Zenon
    <3>3. v = Spliced(A, q, B)
      BY <2>1, <3>1
    <3>4. QED
      BY <3>1, <3>2, <3>3, Zenon
  <2>3. QED
    BY <1>1, <2>1, <2>2, Zenon
<1> HIDE DEF v
<1>3. DOMAIN v = 1 .. Len(v) /\ Len(v) \in Nat
  BY <1>2, LenProperties
<1>4. ASSUME NEW i \in 1 .. Len(v), NEW j \in 1 .. Len(v), v[i] = v[j]
      PROVE  i = j
  <2> DEFINE n == v[i]
  <2>1. Contains(v, n) /\ n \in Node
    BY <1>2, ElementOfSeq DEF Contains
  <2>2. PICK p \in Prices : Contains(levels[s][p], n)
    BY <1>2, <2>1, Zenon
  <2> HIDE DEF n
  <2> DEFINE q == levels[s][p]
  <2>3. PICK A \in Seq(Node), B \in Seq(Node) :
           /\ Merged(s, levels[s]) = Spliced(A, q, B)
           /\ \A x : Contains(A, x) =>
                \E u \in Prices : Better(s, u, p) /\ Contains(levels[s][u], x)
           /\ \A x : Contains(B, x) =>
                \E u \in Prices : Better(s, p, u) /\ Contains(levels[s][u], x)
    BY LevelInQueue DEF IInv
  <2>4. q \in Seq(Node) /\ IsInjective(q)
    BY DEF IInv, TypeOK, PoolPartition
  <2>5. ~Contains(A, n) /\ ~Contains(B, n)
    <3>1. ASSUME NEW u \in Prices, Contains(levels[s][u], n) PROVE u = p
      BY <2>1, <2>2, <3>1 DEF IInv, RestingSound
    <3>2. ~Better(s, p, p)
      BY DEF Better, Prices, MIN_PRICE
    <3>3. QED
      BY <2>3, <3>1, <3>2
  <2> HIDE DEF q
  <2>6. v = Spliced(A, q, B)
    BY <2>3 DEF v
  <2>7. /\ InRow(v, A, q, B)
        /\ Len(A) \in Nat /\ Len(q) \in Nat /\ Len(B) \in Nat
    BY <2>4, <2>6, Splice, Zenon
  <2>8. ASSUME NEW k \in 1 .. Len(v), v[k] = n
        PROVE  k - Len(A) \in 1 .. Len(q) /\ q[k - Len(A)] = n
    <3>1. /\ k \in 1 .. Len(A) + Len(q) + Len(B)
          /\ v[k] = IF k <= Len(A) THEN A[k]
                    ELSE IF k <= Len(A) + Len(q) THEN q[k - Len(A)]
                    ELSE B[k - Len(A) - Len(q)]
      BY <2>7 DEF InRow
    <3>2. ~(k <= Len(A))
      BY <2>5, <2>7, <2>8, <3>1 DEF Contains
    <3>3. k <= Len(A) + Len(q)
      <4>1. SUFFICES ASSUME ~(k <= Len(A) + Len(q)) PROVE FALSE
        OBVIOUS
      <4>2. k - Len(A) - Len(q) \in 1 .. Len(B)
        BY <2>7, <3>1, <4>1
      <4>3. B[k - Len(A) - Len(q)] = n
        BY <2>7, <2>8, <3>1, <3>2, <4>1
      <4>4. QED
        BY <2>5, <4>2, <4>3 DEF Contains
    <3>4. QED
      BY <2>7, <2>8, <3>1, <3>2, <3>3
  <2>9. i - Len(A) = j - Len(A)
    <3>1. v[i] = n /\ v[j] = n
      BY <1>4 DEF n
    <3>2. DOMAIN q = 1 .. Len(q)
      BY <2>4, LenProperties
    <3>3. QED
      BY <2>4, <2>8, <3>1, <3>2 DEF IsInjective
  <2>10. QED
    BY <2>7, <2>9
<1>5. IsInjective(v)
  BY <1>3, <1>4 DEF IsInjective
<1>6. QED
  BY <1>2, <1>5 DEF v

-----------------------------------------------------------------------------
(* Orders as shown *)

\* The orders the outside sees.
Public == {Visible(o) : o \in Order}

\* What Shown returns.
LEMMA ShownSeq ==
  ASSUME NEW a \in [Node -> Order], NEW v \in Seq(Node)
  PROVE  /\ Shown(a, v) \in Seq(Public)
         /\ Len(Shown(a, v)) = Len(v)
         /\ \A i \in 1 .. Len(v) : Shown(a, v)[i] = Visible(a[v[i]])
<1> DEFINE w == Shown(a, v)
<1>1. Len(v) \in Nat /\ \A i \in 1 .. Len(v) : v[i] \in Node
  BY LenProperties, ElementOfSeq
<1>2. \A i \in 1 .. Len(v) : Visible(a[v[i]]) \in Public
  BY <1>1 DEF Public
<1>3. w = [i \in 1 .. Len(v) |-> Visible(a[v[i]])]
  BY Zenon DEF Shown
<1> HIDE DEF w
<1>4. \A i \in 1 .. Len(v) : w[i] = Visible(a[v[i]])
  BY <1>3, Zenon
<1>5. w \in [1 .. Len(v) -> Public]
  BY <1>2, <1>3
<1>6. w \in Seq(Public) /\ Len(w) = Len(v)
  BY <1>1, <1>5, FunctionSeq, Zenon
<1>7. QED
  BY <1>4, <1>6 DEF w

\* A queue looks the same while its orders do.
LEMMA ShownSame ==
  ASSUME NEW a \in [Node -> Order], NEW b \in [Node -> Order],
         NEW v \in Seq(Node), \A m \in Node : Contains(v, m) => b[m] = a[m]
  PROVE  Shown(b, v) = Shown(a, v)
<1>1. \A i \in 1 .. Len(v) : b[v[i]] = a[v[i]]
  BY ElementOfSeq DEF Contains
<1>2. QED
  BY <1>1 DEF Shown

\* Removing an order, whatever becomes of it.
LEMMA ShownRemove ==
  ASSUME NEW a \in [Node -> Order], NEW b \in [Node -> Order],
         NEW v \in Seq(Node), IsInjective(v), NEW k \in 1 .. Len(v),
         \A m \in Node : m # v[k] /\ Contains(v, m) => b[m] = a[m]
  PROVE  Shown(b, RemoveAt(v, k)) = RemoveAt(Shown(a, v), k)
<1> DEFINE r == RemoveAt(v, k)
           w == Shown(a, v)
           x == Shown(a, r)
           y == RemoveAt(w, k)
<1>1. /\ r \in Seq(Node)
      /\ \A m : Contains(r, m) <=> Contains(v, m) /\ m # v[k]
  BY RemoveAtDistinct
<1>2. /\ Len(r) = Len(v) - 1
      /\ \A i \in 1 .. Len(v) - 1 : r[i] = IF i < k THEN v[i] ELSE v[i + 1]
  BY RemoveAtProperties
<1> HIDE DEF r
<1>3. Shown(b, r) = x
  BY <1>1, ShownSame
<1>4. /\ w \in Seq(Public) /\ Len(w) = Len(v) /\ Len(v) \in Nat
      /\ \A i \in 1 .. Len(v) : w[i] = Visible(a[v[i]])
  BY ShownSeq, LenProperties
<1>5. /\ x \in Seq(Public) /\ Len(x) = Len(r)
      /\ \A i \in 1 .. Len(r) : x[i] = Visible(a[r[i]])
  BY <1>1, ShownSeq
<1> HIDE DEF w, x
<1>6. /\ y \in Seq(Public) /\ Len(y) = Len(w) - 1
      /\ \A i \in 1 .. Len(w) - 1 : y[i] = IF i < k THEN w[i] ELSE w[i + 1]
  BY <1>4, RemoveAtProperties
<1> HIDE DEF y
<1>7. ASSUME NEW i \in 1 .. Len(x) PROVE x[i] = y[i]
  <2>1. /\ i \in 1 .. Len(v) - 1 /\ i \in 1 .. Len(r) /\ i \in 1 .. Len(w) - 1
        /\ i \in 1 .. Len(v) /\ i + 1 \in 1 .. Len(v)
    BY <1>2, <1>4, <1>5
  <2>2. CASE i < k
    BY <1>2, <1>4, <1>5, <1>6, <2>1, <2>2
  <2>3. CASE ~(i < k)
    BY <1>2, <1>4, <1>5, <1>6, <2>1, <2>3
  <2>4. QED
    BY <2>2, <2>3
<1>8. Len(x) = Len(y)
  BY <1>2, <1>4, <1>5, <1>6
<1>9. x = y
  BY <1>5, <1>6, <1>7, <1>8, SeqEqual
<1>10. QED
  BY <1>3, <1>9 DEF r, w, x, y

\* Inserting an order.
LEMMA ShownInsert ==
  ASSUME NEW a \in [Node -> Order], NEW v \in Seq(Node),
         NEW k \in 1 .. Len(v) + 1, NEW n \in Node
  PROVE  Shown(a, InsertAt(v, k, n)) = InsertAt(Shown(a, v), k, Visible(a[n]))
<1> DEFINE r == InsertAt(v, k, n)
           w == Shown(a, v)
           x == Shown(a, r)
           z == Visible(a[n])
           y == InsertAt(w, k, z)
<1>1. r \in Seq(Node) /\ Inserted(r, v, k, n)
  BY InsertAtProperties, Zenon
<1> HIDE DEF r
<1>2. /\ Len(r) = Len(v) + 1 /\ Len(v) \in Nat
      /\ \A i \in 1 .. Len(v) + 1 :
           r[i] = IF i < k THEN v[i] ELSE IF i = k THEN n ELSE v[i - 1]
  BY <1>1, LenProperties DEF Inserted
<1>3. z \in Public
  BY DEF Public
<1>4. /\ w \in Seq(Public) /\ Len(w) = Len(v)
      /\ \A i \in 1 .. Len(v) : w[i] = Visible(a[v[i]])
  BY ShownSeq
<1>5. /\ x \in Seq(Public) /\ Len(x) = Len(r)
      /\ \A i \in 1 .. Len(r) : x[i] = Visible(a[r[i]])
  BY <1>1, ShownSeq
<1> HIDE DEF w, x, z
<1>6. y \in Seq(Public) /\ Inserted(y, w, k, z)
  <2>1. k \in 1 .. Len(w) + 1
    BY <1>4
  <2>2. QED
    BY <1>3, <1>4, <2>1, InsertAtProperties, Zenon
<1> HIDE DEF y
<1>7. /\ Len(y) = Len(w) + 1
      /\ \A i \in 1 .. Len(w) + 1 :
           y[i] = IF i < k THEN w[i] ELSE IF i = k THEN z ELSE w[i - 1]
  BY <1>6 DEF Inserted
<1>8. ASSUME NEW i \in 1 .. Len(x) PROVE x[i] = y[i]
  <2>1. /\ i \in 1 .. Len(v) + 1 /\ i \in 1 .. Len(r) /\ i \in 1 .. Len(w) + 1
    BY <1>2, <1>4, <1>5
  <2>2. x[i] = Visible(a[r[i]])
    BY <1>5, <2>1
  <2>3. CASE i < k
    <3>1. i \in 1 .. Len(v)
      BY <1>2, <2>1, <2>3
    <3>2. QED
      BY <1>2, <1>4, <1>7, <2>1, <2>2, <2>3, <3>1
  <2>4. CASE i = k
    <3>1. ~(k < k)
      BY <1>2
    <3>2. r[i] = n /\ y[i] = z
      BY <1>2, <1>7, <2>1, <2>4, <3>1
    <3>3. QED
      BY <2>2, <3>2 DEF z
  <2>5. CASE i > k
    <3>1. i - 1 \in 1 .. Len(v) /\ ~(i < k) /\ i # k
      BY <1>2, <2>1, <2>5
    <3>2. QED
      BY <1>2, <1>4, <1>7, <2>1, <2>2, <3>1
  <2>6. QED
    BY <1>2, <2>1, <2>3, <2>4, <2>5
<1>9. Len(x) = Len(y)
  BY <1>2, <1>4, <1>5, <1>7
<1>10. x = y
  BY <1>5, <1>6, <1>8, <1>9, SeqEqual
<1>11. QED
  BY <1>10, Zenon DEF r, w, x, y, z

\* A change of the first order.
LEMMA ShownFirst ==
  ASSUME NEW a \in [Node -> Order], NEW b \in [Node -> Order],
         NEW v \in Seq(Node), IsInjective(v), v # <<>>,
         \A m \in Node : m # v[1] /\ Contains(v, m) => b[m] = a[m]
  PROVE  Shown(b, v) = <<Visible(b[v[1]])>> \o Tail(Shown(a, v))
<1> DEFINE w == Shown(a, v)
           x == Shown(b, v)
           z == Visible(b[v[1]])
           y == <<z>> \o Tail(w)
<1>1. Len(v) \in Nat /\ Len(v) >= 1 /\ 1 \in 1 .. Len(v)
  BY LenProperties, EmptySeq
<1>2. /\ w \in Seq(Public) /\ Len(w) = Len(v)
      /\ \A i \in 1 .. Len(v) : w[i] = Visible(a[v[i]])
  BY ShownSeq
<1>3. /\ x \in Seq(Public) /\ Len(x) = Len(v)
      /\ \A i \in 1 .. Len(v) : x[i] = Visible(b[v[i]])
  BY ShownSeq
<1>4. z \in Public
  BY <1>1, ElementOfSeq DEF Public
<1> HIDE DEF w, x, z
<1>5. ASSUME NEW i \in 2 .. Len(v) PROVE b[v[i]] = a[v[i]]
  <2>1. i \in 1 .. Len(v) /\ i # 1 /\ v[i] \in Node
    BY <1>1, ElementOfSeq
  <2>2. v[i] # v[1]
    BY <1>1, <2>1, LenProperties DEF IsInjective
  <2>3. Contains(v, v[i])
    BY <2>1 DEF Contains
  <2>4. QED
    BY <2>1, <2>2, <2>3
<1>6. w # <<>>
  BY <1>1, <1>2, EmptySeq
<1>7. /\ Tail(w) \in Seq(Public) /\ Len(Tail(w)) = Len(w) - 1
      /\ \A i \in 1 .. Len(Tail(w)) : Tail(w)[i] = w[i + 1]
  BY <1>2, <1>6, HeadTailProperties
<1> DEFINE t == Tail(w)
           o == <<z>>
<1> HIDE DEF t
<1>8. t \in Seq(Public) /\ o \in Seq(Public) /\ Len(o) = 1 /\ o[1] = z
  BY <1>4, <1>7 DEF t
<1> HIDE DEF o
<1>9. /\ o \o t \in Seq(Public) /\ Len(o \o t) = 1 + Len(t)
      /\ \A i \in 1 .. 1 + Len(t) :
           (o \o t)[i] = IF i <= 1 THEN o[i] ELSE t[i - 1]
  <2>1. /\ o \o t \in Seq(Public) /\ Len(o \o t) = Len(o) + Len(t)
        /\ \A i \in 1 .. Len(o) + Len(t) :
             (o \o t)[i] = IF i <= Len(o) THEN o[i] ELSE t[i - Len(o)]
    <3>1. o \in Seq(Public) /\ t \in Seq(Public)
      BY <1>8
    <3>2. QED
      BY <3>1, ConcatProperties
  <2>2. QED
    BY <1>8, <2>1
<1>10. Len(t) = Len(v) - 1 /\ \A i \in 1 .. Len(v) - 1 : t[i] = w[i + 1]
  BY <1>2, <1>7 DEF t
<1> DEFINE c == o \o t
<1> HIDE DEF c
<1>11. ASSUME NEW i \in 1 .. Len(x) PROVE x[i] = c[i]
  <2>1. i \in 1 .. Len(v) /\ i \in 1 .. 1 + Len(t)
    BY <1>1, <1>3, <1>10
  <2>2. CASE i = 1
    BY <1>3, <1>8, <1>9, <2>1, <2>2 DEF c, z
  <2>3. CASE i # 1
    <3>1. /\ i \in 2 .. Len(v) /\ i - 1 \in 1 .. Len(v) - 1 /\ ~(i <= 1)
          /\ (i - 1) + 1 = i
      BY <1>1, <2>1, <2>3
    <3>2. c[i] = w[i]
      BY <1>9, <1>10, <2>1, <3>1 DEF c
    <3>3. QED
      BY <1>2, <1>3, <1>5, <2>1, <3>1, <3>2
  <2>4. QED
    BY <2>2, <2>3
<1>12. Len(x) = Len(c) /\ c \in Seq(Public)
  BY <1>1, <1>3, <1>9, <1>10 DEF c
<1>13. x = c
  BY <1>3, <1>11, <1>12, SeqEqual
<1>14. QED
  BY <1>13, Zenon DEF c, o, t, w, x, z

\* Taking the k-th order out of a level takes one order out of its queue: the
\* first one if it is the first of the best level.
LEMMA LevelCut ==
  ASSUME IInv, NEW s \in Sides, NEW p \in Prices,
         NEW k \in 1 .. Len(levels[s][p])
  PROVE  \E K \in 1 .. Len(Merged(s, levels[s])) :
           /\ Merged(s, levels[s])[K] = levels[s][p][k]
           /\ Merged(s, [levels[s] EXCEPT ![p] = RemoveAt(levels[s][p], k)])
                = RemoveAt(Merged(s, levels[s]), K)
           /\ p = best[s] /\ k = 1 => K = 1
<1> DEFINE q == levels[s][p]
           v == Merged(s, levels[s])
<1>1. PICK A \in Seq(Node), B \in Seq(Node) :
        /\ Merged(s, levels[s]) = Spliced(A, levels[s][p], B)
        /\ \A r \in Seq(Node) :
             Merged(s, [levels[s] EXCEPT ![p] = r]) = Spliced(A, r, B)
        /\ \A x : Contains(A, x) =>
             \E u \in Prices : Better(s, u, p) /\ Contains(levels[s][u], x)
  <2>1. TypeOK
    BY DEF IInv
  <2>2. QED
    BY <2>1, LevelInQueue
<1>2. q \in Seq(Node)
  BY DEF IInv, TypeOK
<1>3. k \in 1 .. Len(q) /\ v = Spliced(A, q, B)
  BY <1>1
<1>4. ASSUME NEW r \in Seq(Node)
      PROVE  Merged(s, [levels[s] EXCEPT ![p] = r]) = Spliced(A, r, B)
  BY <1>1
<1>5. p = best[s] => A = <<>>
  <2>1. SUFFICES ASSUME p = best[s], A # <<>> PROVE FALSE
    OBVIOUS
  <2>2. Contains(A, Head(A))
    BY <2>1, ContainsHead
  <2>3. PICK u \in Prices : Better(s, u, p) /\ Contains(levels[s][u], Head(A))
    BY <1>1, <2>2
  <2>4. levels[s][u] \in Seq(Node) /\ levels[s][u] # <<>>
    BY <2>3, ContainsHead DEF IInv, TypeOK
  <2>5. u \in bits[s]
    BY <2>4 DEF IInv, BboExact
  <2>6. QED
    BY <2>1, <2>3, <2>5 DEF IInv, BboExact
<1> HIDE DEF q, v
<1> DEFINE r == RemoveAt(q, k)
           K == Len(A) + k
<1>6. r \in Seq(Node)
  BY <1>2, <1>3, RemoveAtProperties
<1>7. K \in 1 .. Len(Spliced(A, q, B)) /\ RemoveAt(Spliced(A, q, B), K) = Spliced(A, r, B)
  BY <1>2, <1>3, SpliceRemove
<1>8. /\ InRow(v, A, q, B)
      /\ Len(A) \in Nat /\ Len(q) \in Nat /\ Len(B) \in Nat
  BY <1>2, <1>3, Splice, Zenon
<1>9. v[K] = q[k]
  <2>1. /\ K \in 1 .. Len(A) + Len(q) + Len(B) /\ ~(K <= Len(A))
        /\ K <= Len(A) + Len(q) /\ K - Len(A) = k
    BY <1>3, <1>8
  <2>2. QED
    BY <1>8, <2>1 DEF InRow
<1>10. p = best[s] /\ k = 1 => K = 1
  <2>1. Len(<<>>) = 0
    BY EmptySeq
  <2>2. QED
    BY <1>5, <2>1
<1> HIDE DEF r, K
<1>11. Merged(s, [levels[s] EXCEPT ![p] = r]) = RemoveAt(v, K)
  BY <1>3, <1>4, <1>6, <1>7
<1>12. K \in 1 .. Len(v)
  BY <1>3, <1>7
<1>13. QED
  BY <1>9, <1>10, <1>11, <1>12 DEF q, v, r

\* Appending to a level puts the order behind every order of its queue that
\* is at least as good, and in front of the others.
LEMMA LevelJoin ==
  ASSUME IInv, NEW s \in Sides, NEW p \in Prices, NEW n \in Node
  PROVE  \E K \in 1 .. Len(Merged(s, levels[s])) + 1 :
           /\ Merged(s, [levels[s] EXCEPT ![p] = Append(levels[s][p], n)])
                = InsertAt(Merged(s, levels[s]), K, n)
           /\ \A i \in 1 .. Len(Merged(s, levels[s])) :
                i < K <=> ~Better(s, p, arena[Merged(s, levels[s])[i]].price)
<1> DEFINE q == levels[s][p]
           v == Merged(s, levels[s])
<1>1. PICK A \in Seq(Node), B \in Seq(Node) :
        /\ Merged(s, levels[s]) = Spliced(A, levels[s][p], B)
        /\ \A r \in Seq(Node) :
             Merged(s, [levels[s] EXCEPT ![p] = r]) = Spliced(A, r, B)
        /\ \A x : Contains(A, x) =>
             \E u \in Prices : Better(s, u, p) /\ Contains(levels[s][u], x)
        /\ \A x : Contains(B, x) =>
             \E u \in Prices : Better(s, p, u) /\ Contains(levels[s][u], x)
  <2>1. TypeOK
    BY DEF IInv
  <2>2. QED
    BY <2>1, LevelInQueue
<1>2. q \in Seq(Node)
  BY DEF IInv, TypeOK
<1>3. v = Spliced(A, q, B)
  BY <1>1
<1>4. ASSUME NEW r \in Seq(Node)
      PROVE  Merged(s, [levels[s] EXCEPT ![p] = r]) = Spliced(A, r, B)
  BY <1>1
<1>5. ASSUME NEW u \in Prices, NEW m \in Node, Contains(levels[s][u], m)
      PROVE  arena[m].price = u
  BY <1>5 DEF IInv, RestingSound
<1>6. ASSUME NEW u \in Prices
      PROVE  /\ Better(s, u, p) => ~Better(s, p, u)
             /\ ~Better(s, p, p)
  BY DEF Better, Prices, MIN_PRICE
<1>7. ASSUME NEW m \in Node, Contains(A, m)
      PROVE  ~Better(s, p, arena[m].price)
  BY <1>1, <1>5, <1>6, <1>7
<1>8. ASSUME NEW m \in Node, Contains(q, m)
      PROVE  ~Better(s, p, arena[m].price)
  BY <1>5, <1>6, <1>8
<1>9. ASSUME NEW m \in Node, Contains(B, m)
      PROVE  Better(s, p, arena[m].price)
  BY <1>1, <1>5, <1>9
<1> HIDE DEF q, v
<1> DEFINE r == Append(q, n)
           K == Len(A) + Len(q) + 1
<1>10. r \in Seq(Node)
  BY <1>2, AppendProperties
<1>11. InsertAt(Spliced(A, q, B), K, n) = Spliced(A, r, B)
  BY <1>2, SpliceInsert
<1>12. /\ InRow(v, A, q, B)
       /\ Len(A) \in Nat /\ Len(q) \in Nat /\ Len(B) \in Nat
  BY <1>2, <1>3, Splice, Zenon
<1> HIDE DEF r, K
<1>13. Len(v) = Len(A) + Len(q) + Len(B)
  BY <1>12 DEF InRow
<1>14. K \in 1 .. Len(v) + 1
  BY <1>12, <1>13 DEF K
<1>15. ASSUME NEW i \in 1 .. Len(v)
       PROVE  i < K <=> ~Better(s, p, arena[v[i]].price)
  <2>1. /\ i \in 1 .. Len(A) + Len(q) + Len(B)
        /\ v[i] = IF i <= Len(A) THEN A[i]
                  ELSE IF i <= Len(A) + Len(q) THEN q[i - Len(A)]
                  ELSE B[i - Len(A) - Len(q)]
    BY <1>12, <1>13 DEF InRow
  <2>2. CASE i <= Len(A)
    <3>1. i \in 1 .. Len(A) /\ i < K
      BY <1>12, <2>1, <2>2 DEF K
    <3>2. v[i] \in Node /\ Contains(A, v[i])
      BY <2>1, <2>2, <3>1, ElementOfSeq DEF Contains
    <3>3. QED
      BY <1>7, <3>1, <3>2
  <2>3. CASE ~(i <= Len(A)) /\ i <= Len(A) + Len(q)
    <3>1. i - Len(A) \in 1 .. Len(q) /\ i < K
      BY <1>12, <2>1, <2>3 DEF K
    <3>2. q[i - Len(A)] \in Node /\ Contains(q, q[i - Len(A)])
      BY <1>2, <3>1, ElementOfSeq DEF Contains
    <3>3. v[i] = q[i - Len(A)]
      BY <2>1, <2>3
    <3>4. QED
      BY <1>8, <3>1, <3>2, <3>3
  <2>4. CASE ~(i <= Len(A) + Len(q))
    <3>1. i - Len(A) - Len(q) \in 1 .. Len(B) /\ ~(i < K) /\ ~(i <= Len(A))
      BY <1>12, <2>1, <2>4 DEF K
    <3>2. /\ B[i - Len(A) - Len(q)] \in Node
          /\ Contains(B, B[i - Len(A) - Len(q)])
      BY <3>1, ElementOfSeq DEF Contains
    <3>3. v[i] = B[i - Len(A) - Len(q)]
      BY <2>1, <2>4, <3>1
    <3>4. QED
      BY <1>9, <3>1, <3>2, <3>3
  <2>5. QED
    BY <2>2, <2>3, <2>4
<1>16. Merged(s, [levels[s] EXCEPT ![p] = r]) = InsertAt(v, K, n)
  BY <1>3, <1>4, <1>10, <1>11
<1>17. QED
  BY <1>14, <1>15, <1>16 DEF q, v, r

\* The queue of a side whose levels and whose orders a step leaves alone.
LEMMA QueueSame ==
  ASSUME IInv, NEW s \in Sides, levels'[s] = levels[s],
         arena' \in [Node -> Order],
         \A m \in Node, p \in Prices :
           Contains(levels[s][p], m) => arena'[m] = arena[m]
  PROVE  Queues'[s] = Queues[s]
<1> DEFINE v == Merged(s, levels[s])
<1>1. v \in Seq(Node) /\ \A m \in Node : Contains(v, m) => arena'[m] = arena[m]
  BY QueueNodes
<1>2. arena \in [Node -> Order]
  BY DEF IInv, TypeOK
<1> HIDE DEF v
<1>3. Shown(arena', v) = Shown(arena, v)
  BY <1>1, <1>2, ShownSame
<1>4. Merged(s, levels'[s]) = v
  BY DEF v
<1>5. QED
  BY <1>3, <1>4 DEF Queues, v

\* Taking an order out of a level: one order leaves its queue, and nothing
\* else happens to the queues, whatever the step does to that order.
LEMMA QueueCut ==
  ASSUME IInv, NEW s \in Sides, NEW p \in Prices,
         NEW k \in 1 .. Len(levels[s][p]),
         levels' = [levels EXCEPT ![s][p] = RemoveAt(levels[s][p], k)],
         arena' \in [Node -> Order],
         \A m \in Node : m # levels[s][p][k] /\ m # aggressor =>
                           arena'[m] = arena[m]
  PROVE  \E K \in 1 .. Len(Queues[s]) :
           /\ Queues' = [Queues EXCEPT ![s] = RemoveAt(@, K)]
           /\ Queues[s][K] = Visible(arena[levels[s][p][k]])
           /\ p = best[s] /\ k = 1 => K = 1
<1> DEFINE v == Merged(s, levels[s])
           n == levels[s][p][k]
<1>0. arena \in [Node -> Order] /\ levels \in [Sides -> [Prices -> Seq(Node)]]
  BY DEF IInv, TypeOK
<1>1. n \in Node /\ Contains(levels[s][p], n)
  BY <1>0, ElementOfSeq DEF Contains
<1>2. ASSUME NEW t \in Sides, NEW u \in Prices, NEW m \in Node,
             Contains(levels[t][u], m)
      PROVE  m # aggressor /\ (t # s => m # n)
  <2>1. m # aggressor
    BY <1>2 DEF IInv, PoolPartition, OnBook
  <2>2. arena[m].side = t /\ arena[n].side = s
    BY <1>1, <1>2 DEF IInv, RestingSound
  <2>3. QED
    BY <2>1, <2>2
<1>3. PICK K \in 1 .. Len(v) :
        /\ v[K] = n
        /\ Merged(s, [levels[s] EXCEPT ![p] = RemoveAt(levels[s][p], k)])
             = RemoveAt(v, K)
        /\ p = best[s] /\ k = 1 => K = 1
  BY LevelCut
<1>4. v \in Seq(Node) /\ IsInjective(v)
      /\ \A x : Contains(v, x) => \E u \in Prices : Contains(levels[s][u], x)
  BY QueueNodes
<1>5. levels'[s] = [levels[s] EXCEPT ![p] = RemoveAt(levels[s][p], k)]
      /\ \A t \in Sides : t # s => levels'[t] = levels[t]
  BY <1>0
<1>6. \A m \in Node : m # v[K] /\ Contains(v, m) => arena'[m] = arena[m]
  BY <1>2, <1>3, <1>4
<1>7. Merged(s, levels'[s]) = RemoveAt(v, K)
  BY <1>3, <1>5
<1>8. \A t \in Sides : t # s => Queues'[t] = Queues[t]
  <2>1. SUFFICES ASSUME NEW t \in Sides, t # s PROVE Queues'[t] = Queues[t]
    OBVIOUS
  <2>2. levels'[t] = levels[t]
    BY <1>5, <2>1
  <2>3. \A m \in Node, u \in Prices :
          Contains(levels[t][u], m) => arena'[m] = arena[m]
    BY <1>2, <2>1
  <2>4. QED
    BY <2>2, <2>3, QueueSame
<1> HIDE DEF n, v
<1>9. Shown(arena', RemoveAt(v, K)) = RemoveAt(Shown(arena, v), K)
  BY <1>0, <1>4, <1>6, ShownRemove
<1>10. Len(Shown(arena, v)) = Len(v) /\ Shown(arena, v)[K] = Visible(arena[v[K]])
  BY <1>0, <1>4, ShownSeq
<1>11. Queues[s] = Shown(arena, v) /\ Queues'[s] = Shown(arena', RemoveAt(v, K))
  BY <1>7 DEF Queues, v
<1>12. /\ Queues = [t \in Sides |-> Queues[t]] /\ DOMAIN Queues = Sides
       /\ Queues' = [t \in Sides |-> Queues'[t]]
  BY DEF Queues
<1>13. Queues'[s] = RemoveAt(Queues[s], K)
  BY <1>9, <1>11
<1>14. Queues' = [Queues EXCEPT ![s] = RemoveAt(@, K)]
  BY <1>8, <1>12, <1>13
<1>15. QED
  BY <1>3, <1>10, <1>11, <1>14 DEF n

-----------------------------------------------------------------------------
(* Every step keeps the promise *)

\* Who may own an order, what an add_order to come may ask for, and that ids
\* start at one.
Owned ==
  /\ next_id >= 1
  /\ \A n \in Node : ~IsFree(n) => arena[n].client \in Clients
  /\ pc = "add" => /\ req.id \in 1 .. MaxId /\ req.client \in Clients
                   /\ req.qty \in AnyQty

\* A cancel, also as the first half of a modify, is a withdrawal.
LEMMA CancelWithdraws ==
  ASSUME IInv, pc = "idle", pc' # "match", NEW id \in Nat, lookup(id) # NULL,
         NEW k \in 1 .. PoolCapacity, take_out(lookup(id), k),
         UNCHANGED aggressor, fills' \in {fills, <<>>}
  PROVE  Promise!PNext
<1> DEFINE n == lookup(id)
           s == arena[n].side
           p == arena[n].price
<1>1. n \in Node /\ s \in Sides /\ p \in Prices
  BY LookupFinds
<1>2. /\ k \in 1 .. Len(levels[s][p]) /\ levels[s][p][k] = n
      /\ levels' = [levels EXCEPT ![s][p] = RemoveAt(levels[s][p], k)]
      /\ arena' = [arena EXCEPT ![n].filled_qty = 0]
  BY DEF take_out, unlink
<1>3. arena' \in [Node -> Order]
  BY CancelFound
<1>4. \A m \in Node : m # n => arena'[m] = arena[m]
  BY <1>2 DEF IInv, TypeOK
<1> HIDE DEF n, s, p
<1>5. PICK K \in 1 .. Len(Queues[s]) :
        Queues' = [Queues EXCEPT ![s] = RemoveAt(@, K)]
  <2>1. \A m \in Node : m # levels[s][p][k] /\ m # aggressor =>
                           arena'[m] = arena[m]
    BY <1>2, <1>4
  <2>2. /\ k \in 1 .. Len(levels[s][p])
        /\ levels' = [levels EXCEPT ![s][p] = RemoveAt(levels[s][p], k)]
    BY <1>2
  <2>3. \E K \in 1 .. Len(Queues[s]) :
           /\ Queues' = [Queues EXCEPT ![s] = RemoveAt(@, K)]
           /\ Queues[s][K] = Visible(arena[levels[s][p][k]])
           /\ p = best[s] /\ k = 1 => K = 1
    BY <1>1, <1>3, <2>1, <2>2, QueueCut, ZenonT(60)
  <2>4. QED
    BY <2>3
<1>6. InMatching = <<>> /\ InMatching' = <<>>
  BY DEF InMatching
<1>7. Promise!Withdraw(s, K)
  <2>1. Promise!RemoveAt(Queues[s], K) = RemoveAt(Queues[s], K)
    BY Zenon DEF RemoveAt, Promise!RemoveAt
  <2>2. QED
    BY <1>5, <1>6, <2>1 DEF Promise!Withdraw
<1>8. QED
  BY <1>1, <1>5, <1>7 DEF Promise!PNext, Sides

\* A step that leaves the book and the aggressor's order alone.
LEMMA BookLeftAlone ==
  ASSUME UNCHANGED book, pc # "match", pc' # "match"
  PROVE  Queues' = Queues /\ InMatching' = InMatching
BY DEF book, Queues, InMatching

\* A step of the queues in which each side stays the same.
LEMMA QueuesSame ==
  ASSUME Queues'["Buy"] = Queues["Buy"], Queues'["Sell"] = Queues["Sell"]
  PROVE  Queues' = Queues
<1>1. /\ Queues = [t \in Sides |-> Queues[t]]
      /\ Queues' = [t \in Sides |-> Queues'[t]]
  BY DEF Queues
<1>2. \A t \in Sides : Queues'[t] = Queues[t]
  BY DEF Sides
<1>3. QED
  BY <1>1, <1>2

\* add_order: the order comes in.
LEMMA AddEnters ==
  ASSUME IInv, IInv', Owned, add_order
  PROVE  Promise!PNext
<1> DEFINE n == Last(free_list)
           o == [id |-> req.id, client |-> req.client, side |-> req.side,
                 type |-> req.type, price |-> req.price,
                 quantity |-> req.qty, filled_qty |-> 0]
<1>1. /\ pc = "add" /\ pc' = "match" /\ ~Rejected
      /\ arena' = [arena EXCEPT ![n] = o]
      /\ aggressor' = n
      /\ UNCHANGED <<levels, fills>>
  BY DEF add_order
<1>2. /\ free_list \in Seq(Node) /\ free_list # <<>> /\ IsInjective(free_list)
      /\ req \in Request
  BY <1>1 DEF IInv, TypeOK, PoolPartition, Rejected
<1>3. n \in Node /\ IsFree(n)
  BY <1>2, FrontDistinct DEF IsFree
<1>4. /\ req.side \in Sides /\ req.type \in OrderTypes /\ req.price \in AnyPrice
      /\ req.id \in 1 .. MaxId /\ req.client \in Clients /\ req.qty \in AnyQty
  BY <1>1, <1>2 DEF Request, Owned
<1>5. Visible(o) = [id |-> req.id, client |-> req.client, side |-> req.side,
                    type |-> req.type, price |-> req.price, left |-> req.qty]
  <2>1. remaining(o) = req.qty
    BY <1>4, BoundAssumption DEF remaining, AnyQty
  <2>2. QED
    BY <2>1 DEF Visible
<1> DEFINE I == [id : 1 .. MaxId, client : Clients, side : Sides,
                 type : OrderTypes, price : AnyPrice, left : AnyQty]
           w == Visible(o)
<1>6. w \in I
  BY <1>4, <1>5
<1> HIDE DEF n, o, w, I
<1>7. /\ arena' \in [Node -> Order] /\ arena \in [Node -> Order]
      /\ arena'[n] = o /\ \A m \in Node : m # n => arena'[m] = arena[m]
  BY <1>1, <1>3 DEF IInv, TypeOK
<1>8. ~OnBook(n)
  BY <1>3 DEF IInv, PoolPartition
<1>9. ASSUME NEW t \in Sides PROVE Queues'[t] = Queues[t]
  <2>1. \A m \in Node, u \in Prices :
          Contains(levels[t][u], m) => arena'[m] = arena[m]
    BY <1>7, <1>8 DEF OnBook
  <2>2. levels'[t] = levels[t]
    BY <1>1
  <2>3. QED
    BY <1>7, <2>1, <2>2, QueueSame
<1>10. Queues' = Queues
  BY <1>9, QueuesSame DEF Sides
<1>11. InMatching = <<>> /\ InMatching' = <<w>>
  BY <1>1, <1>7 DEF InMatching, w
<1>12. <<w>> \in [{1} -> I]
  BY <1>6
<1>13. Promise!Enter
  BY <1>1, <1>10, <1>11, <1>12 DEF Promise!Enter, I
<1>14. QED
  BY <1>13 DEF Promise!PNext

\* The first order of a queue is the first order of the best level.
LEMMA BestFirst ==
  ASSUME IInv, NEW s \in Sides
  PROVE  /\ Queues[s] \in Seq(Public)
         /\ best[s] = NoPrice(s) => Queues[s] = <<>>
         /\ best[s] # NoPrice(s) =>
              /\ best[s] \in Prices /\ levels[s][best[s]] # <<>>
              /\ Queues[s] # <<>>
              /\ Head(Queues[s]) = Visible(arena[Head(levels[s][best[s]])])
              /\ Head(Queues[s]).price = best[s]
<1> DEFINE v == Merged(s, levels[s])
           w == Queues[s]
           p == best[s]
           n == Head(levels[s][p])
<1>1. v \in Seq(Node)
      /\ \A x : Contains(v, x) => \E u \in Prices : Contains(levels[s][u], x)
  BY QueueNodes
<1>2. arena \in [Node -> Order] /\ \A u \in Prices : levels[s][u] \in Seq(Node)
  BY DEF IInv, TypeOK
<1>3. /\ w \in Seq(Public) /\ Len(w) = Len(v)
      /\ \A i \in 1 .. Len(v) : w[i] = Visible(arena[v[i]])
  <2>1. w = Shown(arena, v)
    BY DEF Queues
  <2> HIDE DEF w, v
  <2>2. QED
    BY <1>1, <1>2, <2>1, ShownSeq
<1>4. ASSUME p = NoPrice(s) PROVE w = <<>>
  <2> HIDE DEF w, v
  <2>1. SUFFICES ASSUME w # <<>> PROVE FALSE
    OBVIOUS
  <2>2. v # <<>>
    BY <1>3, <2>1, EmptySeq
  <2>3. PICK u \in Prices : Contains(levels[s][u], Head(v))
    BY <1>1, <2>2, ContainsHead
  <2>4. levels[s][u] # <<>>
    BY <1>2, <2>3, ContainsHead
  <2>5. QED
    BY <1>4, <2>4 DEF IInv, BboExact
<1>5. ASSUME p # NoPrice(s)
      PROVE  /\ p \in Prices /\ levels[s][p] # <<>>
             /\ w # <<>> /\ Head(w) = Visible(arena[n]) /\ Head(w).price = p
  <2>1. p \in Prices /\ levels[s][p] # <<>>
    BY <1>5 DEF IInv, BboExact, TypeOK
  <2>2. /\ 1 \in 1 .. Len(levels[s][p]) /\ levels[s][p][1] = n
        /\ n \in Node /\ Contains(levels[s][p], n)
    <3>1. PICK q \in Seq(Node) : q = levels[s][p]
      BY <1>2, <2>1
    <3>2. Len(q) >= 1 /\ q[1] = Head(q) /\ Head(q) \in Node /\ Contains(q, Head(q))
      BY <2>1, <3>1, ContainsHead
    <3>3. 1 \in 1 .. Len(q)
      BY <3>2, LenProperties
    <3>4. QED
      BY <3>1, <3>2, <3>3
  <2>3. PICK K \in 1 .. Len(v) : v[K] = n /\ K = 1
    <3>1. ASSUME NEW u \in Prices, NEW k \in 1 .. Len(levels[s][u])
          PROVE  \E K \in 1 .. Len(v) : /\ v[K] = levels[s][u][k]
                                        /\ u = best[s] /\ k = 1 => K = 1
      BY LevelCut, ZenonT(60)
    <3>2. QED
      BY <2>1, <2>2, <3>1
  <2>4. w # <<>> /\ w[1] = Visible(arena[n])
    BY <1>3, <2>3, EmptySeq
  <2>5. Head(w) = w[1]
    BY <1>3, <2>4, ContainsHead
  <2>6. Visible(arena[n]).price = p
    BY <2>1, <2>2 DEF IInv, RestingSound, Visible
  <2>7. QED
    BY <2>1, <2>4, <2>5, <2>6
<1>6. QED
  BY <1>3, <1>4, <1>5

\* The aggressor may go on trading exactly when the promise lets it.
LEMMA Agreement ==
  ASSUME IInv, pc = "match"
  PROVE  /\ InMatching = <<Visible(Taker)>>
         /\ TakenSide \in Sides /\ Promise!Other(Visible(Taker).side) = TakenSide
         /\ Crosses <=> Promise!Agree(Visible(Taker))
<1> DEFINE a == Taker
           o == Visible(a)
           s == TakenSide
           p == best[s]
<1>1. aggressor \in Node /\ a \in Order
  BY DEF IInv, TypeOK, Taker
<1>2. s \in Sides /\ Promise!Other(o.side) = s
  BY <1>1 DEF TakenSide, Opposite, Sides, Promise!Other, Visible, Order
<1>3. InMatching = <<o>>
  BY DEF InMatching, Taker
<1>4. /\ o.left = a.quantity - a.filled_qty /\ o.type = a.type /\ o.price = a.price
      /\ a.quantity \in Nat /\ a.filled_qty \in Nat /\ a.price \in AnyPrice
  BY <1>1 DEF Visible, remaining, Order
<1>5. o.left > 0 <=> ~is_filled(a)
  BY <1>4 DEF is_filled
<1>6. /\ p = NoPrice(s) => Queues[s] = <<>>
      /\ p # NoPrice(s) => /\ p \in Prices /\ Queues[s] # <<>>
                           /\ Head(Queues[s]).price = p
  BY <1>2, BestFirst
<1>7. p \in AnyPrice
  BY <1>2 DEF IInv, TypeOK
<1>8. ~Better(s, a.price, p) <=> Promise!AtLeastAsGood(s, p, o.price)
  BY <1>2, <1>4, <1>7, PriceAssumption
     DEF Better, Promise!AtLeastAsGood, AnyPrice, Sides
<1>9. Crosses <=> /\ ~is_filled(a) /\ p # NoPrice(s)
                  /\ a.type # "Market" => ~Better(s, a.price, p)
  BY Zenon DEF Crosses, Taker, TakenSide
<1> HIDE DEF a, o, s, p
<1>10. Promise!Agree(o) <=>
         /\ o.left > 0 /\ Queues[s] # <<>>
         /\ o.type # "Market" =>
              Promise!AtLeastAsGood(s, Head(Queues[s]).price, o.price)
  BY <1>2 DEF Promise!Agree
<1>11. Crosses <=> Promise!Agree(o)
  BY <1>4, <1>5, <1>6, <1>8, <1>9, <1>10
<1>12. QED
  BY <1>2, <1>3, <1>11 DEF o, a, s

\* What a fill leaves of an order.
LEMMA VisibleFilled ==
  ASSUME NEW o \in Order, NEW x \in Nat
  PROVE  Visible(WithFilled(o, o.filled_qty + x))
           = [Visible(o) EXCEPT !.left = @ - x]
<1>1. o.filled_qty \in Nat /\ o.quantity \in Nat
  BY DEF Order
<1>2. o.quantity - (o.filled_qty + x) = (o.quantity - o.filled_qty) - x
  BY <1>1
<1>3. QED
  BY <1>1, <1>2 DEF Visible, WithFilled, remaining, Order

\* Fill: a trade with the first order of the opposite queue.
LEMMA FillTrades ==
  ASSUME IInv, IInv', Fill
  PROVE  Promise!PNext
<1> DEFINE o == Visible(Taker)
           r == Visible(Maker)
           s == TakenSide
           w == Queues[s]
           x == Traded
<1>1. /\ pc = "match" /\ pc' = "match" /\ Crosses /\ UNCHANGED aggressor
      /\ aggressor \in Node /\ Taker \in Order /\ s \in Sides
      /\ TakenPrice \in Prices /\ MakerNode \in Node /\ Maker \in Order
      /\ MakerNode # aggressor /\ x \in Nat
      /\ 1 \in 1 .. Len(levels[s][TakenPrice])
      /\ levels[s][TakenPrice][1] = MakerNode
      /\ Traded = remaining(Maker) => unlink(s, TakenPrice, 1)
      /\ Traded # remaining(Maker) => UNCHANGED levels
      /\ \A m \in Node : arena'[m] =
           IF m = aggressor THEN WithFilled(Taker, Taker.filled_qty + Traded)
           ELSE IF m = MakerNode THEN WithFilled(Maker, MakerFilled)
           ELSE arena[m]
      /\ fills' = Append(fills, NewFill(Taker, Maker, Traded))
  BY FillFacts
<1>2. /\ InMatching = <<o>> /\ Promise!Other(o.side) = s /\ Promise!Agree(o)
  BY <1>1, Agreement
<1>3. w \in Seq(Public) /\ w # <<>> /\ Head(w) = r
  <2>1. best[s] # NoPrice(s)
    BY <1>1 DEF Crosses, TakenSide, Taker
  <2>2. QED
    BY <1>1, <2>1, BestFirst DEF Maker, MakerNode, TakenPrice
<1>4. x = IF o.left <= r.left THEN o.left ELSE r.left
  BY DEF Traded, Visible
<1>5. r.left = remaining(Maker) /\ r.price = Maker.price /\ o.side = Taker.side
  BY DEF Visible
<1>6. arena' \in [Node -> Order] /\ arena \in [Node -> Order]
  BY DEF IInv, TypeOK
<1>7. InMatching' = <<[o EXCEPT !.left = @ - x]>>
  <2>1. arena'[aggressor] = WithFilled(Taker, Taker.filled_qty + Traded)
    BY <1>1
  <2>2. Visible(WithFilled(Taker, Taker.filled_qty + Traded))
          = [o EXCEPT !.left = @ - x]
    BY <1>1, VisibleFilled
  <2>3. InMatching' = <<Visible(arena'[aggressor])>>
    BY <1>1 DEF InMatching
  <2>4. QED
    BY <2>1, <2>2, <2>3
<1>8. Queues' = [Queues EXCEPT ![s] =
         (IF x = r.left THEN <<>> ELSE <<[r EXCEPT !.left = @ - x]>>) \o Tail(@)]
  <2>1. CASE x = r.left
    <3>0. PICK k \in 1 .. Len(levels[s][TakenPrice]) : k = 1
      BY <1>1
    <3>1. levels' = [levels EXCEPT ![s][TakenPrice] =
                       RemoveAt(levels[s][TakenPrice], k)]
      BY <1>1, <1>5, <2>1, <3>0 DEF unlink
    <3>2. \A m \in Node : m # levels[s][TakenPrice][k] /\ m # aggressor =>
                            arena'[m] = arena[m]
      BY <1>1, <3>0
    <3>3. PICK K \in 1 .. Len(Queues[s]) :
            /\ Queues' = [Queues EXCEPT ![s] = RemoveAt(@, K)]
            /\ Queues[s][K] = Visible(arena[levels[s][TakenPrice][k]])
            /\ TakenPrice = best[s] /\ k = 1 => K = 1
      <4> HIDE DEF s
      <4>1. QED
        BY <1>1, <1>6, <3>1, <3>2, QueueCut, ZenonT(60)
    <3>4. K = 1
      BY <3>0, <3>3 DEF TakenPrice
    <3>5. RemoveAt(w, 1) = <<>> \o Tail(w)
      BY <1>3, RemoveFirstIsTail
    <3> HIDE DEF s, x, r
    <3>6. QED
      BY <2>1, <3>3, <3>4, <3>5
  <2>2. CASE x # r.left
    <3>1. UNCHANGED levels
      BY <1>1, <1>5, <2>2
    <3> DEFINE v == Merged(s, levels[s])
    <3>2. /\ v \in Seq(Node) /\ IsInjective(v)
          /\ \A y : Contains(v, y) => \E u \in Prices : Contains(levels[s][u], y)
      BY <1>1, QueueNodes
    <3>3. \A t \in Sides, u \in Prices, m \in Node :
            Contains(levels[t][u], m) => m # aggressor
      BY DEF IInv, PoolPartition, OnBook
    <3>4. v # <<>> /\ v[1] = MakerNode
      <4>1. PICK K \in 1 .. Len(v) : v[K] = MakerNode /\ K = 1
        BY <1>1, LevelCut DEF TakenPrice
      <4>2. QED
        BY <3>2, <4>1, EmptySeq
    <3>5. \A m \in Node : m # v[1] /\ Contains(v, m) => arena'[m] = arena[m]
      BY <1>1, <3>2, <3>3, <3>4
    <3>6. Queues'[s] = Shown(arena', v) /\ w = Shown(arena, v)
      BY <1>1, <3>1 DEF Queues
    <3>7. Visible(arena'[v[1]]) = [r EXCEPT !.left = @ - x]
      <4>1. MakerFilled = Maker.filled_qty + x
        BY <1>5, <2>2 DEF MakerFilled
      <4>2. arena'[MakerNode] = WithFilled(Maker, Maker.filled_qty + x)
        BY <1>1, <4>1
      <4>3. QED
        BY <1>1, <3>4, <4>2, VisibleFilled
    <3>8. \A t \in Sides : t # s => Queues'[t] = Queues[t]
      <4>1. SUFFICES ASSUME NEW t \in Sides, t # s PROVE Queues'[t] = Queues[t]
        OBVIOUS
      <4>2. levels'[t] = levels[t]
        BY <3>1
      <4>3. ASSUME NEW m \in Node, NEW u \in Prices, Contains(levels[t][u], m)
            PROVE  arena'[m] = arena[m]
        <5>1. Contains(levels[s][TakenPrice], MakerNode)
          BY <1>1 DEF Contains
        <5>2. m # MakerNode
          BY <1>1, <4>1, <4>3, <5>1 DEF IInv, RestingSound
        <5>3. QED
          BY <1>1, <3>3, <4>3, <5>2
      <4>4. QED
        BY <1>6, <4>2, <4>3, QueueSame
    <3> HIDE DEF v, s
    <3>9. Shown(arena', v) = <<Visible(arena'[v[1]])>> \o Tail(Shown(arena, v))
      BY <1>6, <3>2, <3>4, <3>5, ShownFirst
    <3> DEFINE z == <<[r EXCEPT !.left = @ - x]>> \o Tail(w)
    <3>10. Queues'[s] = z
      BY <3>6, <3>7, <3>9
    <3> HIDE DEF z, r, x, w
    <3>11. /\ Queues = [t \in Sides |-> Queues[t]] /\ DOMAIN Queues = Sides
           /\ Queues' = [t \in Sides |-> Queues'[t]]
      BY DEF Queues
    <3>12. Queues' = [Queues EXCEPT ![s] = z]
      BY <1>1, <3>8, <3>10, <3>11
    <3>13. QED
      BY <2>2, <3>12 DEF z, w
  <2>3. QED
    BY <2>1, <2>2
<1>9. NewFill(Taker, Maker, Traded) =
        LET bid == IF o.side = "Buy" THEN o ELSE r
            ask == IF o.side = "Buy" THEN r ELSE o
        IN  [bid_id |-> bid.id, ask_id |-> ask.id, bid_client |-> bid.client,
             ask_client |-> ask.client, price |-> r.price, quantity |-> x]
  BY DEF NewFill, Visible
<1> HIDE DEF o, r, s, w, x
<1>10. Promise!Trade(o)
  BY <1>1, <1>2, <1>3, <1>4, <1>7, <1>8, <1>9 DEF Promise!Trade, w, x
<1>11. 1 \in 1 .. Len(InMatching) /\ InMatching[1] = o
  BY <1>2
<1>12. QED
  BY <1>10, <1>11 DEF Promise!PNext

\* Rest: the remainder waits behind every order that is at least as good.
LEMMA RestSettles ==
  ASSUME IInv, Rest
  PROVE  Promise!PNext
<1> DEFINE n == aggressor
           o == Visible(Taker)
           s == Taker.side
           p == Taker.price
           w == Queues[s]
           v == Merged(s, levels[s])
<1>1. /\ pc = "match" /\ pc' = "idle"
      /\ ~Crosses /\ ~is_filled(Taker) /\ Taker.type = "Limit"
      /\ levels' = [levels EXCEPT ![s][p] = Append(levels[s][p], n)]
      /\ UNCHANGED <<arena, fills>>
  BY DEF Rest, Taker
<1>2. n \in Node /\ Taker \in Order /\ s \in Sides /\ p \in Prices
  BY <1>1 DEF IInv, TypeOK, AggressorValid, Order, Taker
<1>3. InMatching = <<o>> /\ ~Promise!Agree(o) /\ InMatching' = <<>>
  BY <1>1, Agreement DEF InMatching
<1>4. o.left > 0 /\ o.type = "Limit" /\ o.side = s /\ o.price = p
  <2>1. Taker.quantity \in Nat /\ Taker.filled_qty \in Nat
    BY <1>2 DEF Order
  <2>2. QED
    BY <1>1, <2>1 DEF Visible, remaining, is_filled
<1>5. arena \in [Node -> Order] /\ levels \in [Sides -> [Prices -> Seq(Node)]]
  BY DEF IInv, TypeOK
<1>6. v \in Seq(Node)
  BY <1>2, QueueNodes
<1>7. PICK K \in 1 .. Len(v) + 1 :
        /\ Merged(s, [levels[s] EXCEPT ![p] = Append(levels[s][p], n)])
             = InsertAt(v, K, n)
        /\ \A i \in 1 .. Len(v) : i < K <=> ~Better(s, p, arena[v[i]].price)
  <2> HIDE DEF n, s, p, v
  <2>1. QED
    BY <1>2, LevelJoin DEF v
<1>8. /\ levels'[s] = [levels[s] EXCEPT ![p] = Append(levels[s][p], n)]
      /\ \A t \in Sides : t # s => levels'[t] = levels[t]
  <2> HIDE DEF n, s, p
  <2>1. QED
    BY <1>1, <1>2, <1>5
<1>9. o = Visible(arena[n])
  BY DEF Taker
<1>10. w = Shown(arena, v) /\ Queues'[s] = Shown(arena, Merged(s, levels'[s]))
  <2> HIDE DEF s
  <2>1. QED
    BY <1>1, <1>2 DEF Queues
<1>11. \A t \in Sides : t # s => Queues'[t] = Queues[t]
  <2> HIDE DEF s
  <2>1. QED
    BY <1>1, <1>8 DEF Queues
<1>12. p \in AnyPrice
  BY <1>2, PriceAssumption DEF Prices, AnyPrice, MIN_PRICE
<1> HIDE DEF n, s, p, v, o, w
<1>13. Queues'[s] = InsertAt(w, K, o)
  <2>1. Shown(arena, InsertAt(v, K, n)) = InsertAt(Shown(arena, v), K, Visible(arena[n]))
    BY <1>2, <1>5, <1>6, ShownInsert
  <2>2. QED
    BY <1>7, <1>8, <1>9, <1>10, <2>1
<1>14. /\ Len(w) = Len(v) /\ Len(v) \in Nat
       /\ \A i \in 1 .. Len(v) : w[i] = Visible(arena[v[i]])
  BY <1>5, <1>6, <1>10, ShownSeq, LenProperties
<1>15. Promise!Ahead(w, o) = 1 .. K - 1
  <2>1. ASSUME NEW i \in 1 .. Len(v)
        PROVE  Promise!AtLeastAsGood(o.side, w[i].price, o.price) <=> i < K
    <3>1. v[i] \in Node
      BY <1>6, ElementOfSeq
    <3>2. w[i].price = arena[v[i]].price /\ arena[v[i]].price \in AnyPrice
      <4>1. w[i] = Visible(arena[v[i]])
        BY <1>14
      <4>2. PICK x \in Order : x = arena[v[i]]
        BY <1>5, <3>1
      <4>3. Visible(x).price = x.price /\ x.price \in AnyPrice
        BY DEF Visible, Order
      <4>4. QED
        BY <4>1, <4>2, <4>3
    <3>3. i < K <=> ~Better(s, p, arena[v[i]].price)
      BY <1>7
    <3> DEFINE u == arena[v[i]].price
    <3> HIDE DEF u
    <3>4. u \in AnyPrice /\ w[i].price = u /\ (i < K <=> ~Better(s, p, u))
      BY <3>2, <3>3 DEF u
    <3>5. ~Better(s, p, u) <=> Promise!AtLeastAsGood(s, u, p)
      BY <1>2, <1>12, <3>4, PriceAssumption
         DEF Better, Promise!AtLeastAsGood, AnyPrice, Sides
    <3>6. QED
      BY <1>4, <3>4, <3>5
  <2>2. Promise!Ahead(w, o) =
          {i \in 1 .. Len(v) : Promise!AtLeastAsGood(o.side, w[i].price, o.price)}
    BY <1>14, Zenon DEF Promise!Ahead
  <2>3. Promise!Ahead(w, o) = {i \in 1 .. Len(v) : i < K}
    BY <2>1, <2>2
  <2>4. {i \in 1 .. Len(v) : i < K} = 1 .. K - 1
    BY <1>14
  <2>5. QED
    BY <2>3, <2>4
<1>16. Cardinality(1 .. K - 1) + 1 = K
  <2>1. 1 \in Int /\ K - 1 \in Int /\ K \in Nat /\ K >= 1
    BY <1>14
  <2>2. Cardinality(1 .. K - 1) = IF 1 > K - 1 THEN 0 ELSE (K - 1) - 1 + 1
    BY <2>1, FS_Interval
  <2>3. QED
    BY <2>1, <2>2
<1>17. Promise!InsertAt(w, K, o) = InsertAt(w, K, o)
  BY Zenon DEF Promise!InsertAt, InsertAt
<1>18. /\ Queues = [t \in Sides |-> Queues[t]] /\ DOMAIN Queues = Sides
       /\ Queues' = [t \in Sides |-> Queues'[t]]
  BY DEF Queues
<1>19. Queues' = [Queues EXCEPT ![s] =
         Promise!InsertAt(@, Cardinality(Promise!Ahead(@, o)) + 1, o)]
  <2> DEFINE z == InsertAt(w, K, o)
  <2>1. Promise!InsertAt(w, Cardinality(Promise!Ahead(w, o)) + 1, o) = z
    BY <1>15, <1>16, <1>17
  <2> HIDE DEF z
  <2>2. Queues' = [Queues EXCEPT ![s] = z]
    BY <1>2, <1>11, <1>13, <1>18 DEF z
  <2>3. QED
    BY <2>1, <2>2 DEF w
<1>20. Promise!Settle(o)
  <2> DEFINE X == Promise!Ahead(Queues[s], o)
  <2>1. Promise!Cardinality(X) = Cardinality(X)
    BY Zenon DEF Promise!Cardinality, Cardinality
  <2>2. Queues' = [Queues EXCEPT ![s] =
          Promise!InsertAt(Queues[s], Promise!Cardinality(X) + 1, o)]
    BY <1>19, <2>1
  <2>3. QED
    BY <1>1, <1>3, <1>4, <2>2 DEF Promise!Settle
<1>21. 1 \in 1 .. Len(InMatching) /\ InMatching[1] = o
  BY <1>3
<1>22. QED
  BY <1>20, <1>21 DEF Promise!PNext

\* Discard: what may not rest is dropped, and the queues stay.
LEMMA DiscardSettles ==
  ASSUME IInv, IInv', Discard
  PROVE  Promise!PNext
<1> DEFINE o == Visible(Taker)
<1>1. /\ pc = "match" /\ pc' = "idle" /\ ~Crosses
      /\ is_filled(Taker) \/ Taker.type # "Limit"
      /\ arena' = [arena EXCEPT ![aggressor].filled_qty = 0]
      /\ UNCHANGED <<levels, fills>>
  BY DEF Discard, Taker
<1>2. aggressor \in Node /\ Taker \in Order
  BY <1>1 DEF IInv, TypeOK, Taker
<1>3. InMatching = <<o>> /\ ~Promise!Agree(o) /\ InMatching' = <<>>
  BY <1>1, Agreement DEF InMatching
<1>4. ~(o.left > 0 /\ o.type = "Limit")
  <2>1. Taker.quantity \in Nat /\ Taker.filled_qty \in Nat
    BY <1>2 DEF Order
  <2>2. QED
    BY <1>1, <2>1 DEF Visible, remaining, is_filled
<1>5. arena' \in [Node -> Order] /\ arena \in [Node -> Order]
  BY DEF IInv, TypeOK
<1>6. ASSUME NEW t \in Sides PROVE Queues'[t] = Queues[t]
  <2>1. \A m \in Node : m # aggressor => arena'[m] = arena[m]
    BY <1>1, <1>5
  <2>2. \A m \in Node, u \in Prices :
          Contains(levels[t][u], m) => arena'[m] = arena[m]
    BY <2>1 DEF IInv, PoolPartition, OnBook
  <2>3. levels'[t] = levels[t]
    BY <1>1
  <2>4. QED
    BY <1>5, <2>2, <2>3, QueueSame
<1>7. Queues' = Queues
  BY <1>6, QueuesSame DEF Sides
<1> HIDE DEF o
<1>8. Promise!Settle(o)
  BY <1>1, <1>3, <1>4, <1>7 DEF Promise!Settle
<1>9. 1 \in 1 .. Len(InMatching) /\ InMatching[1] = o
  BY <1>3
<1>10. QED
  BY <1>8, <1>9 DEF Promise!PNext

-----------------------------------------------------------------------------
(* The refinement *)

\* A step that brings no new order in keeps the owners.
LEMMA OwnersKept ==
  ASSUME Owned, pc' # "add", next_id' = next_id,
         \A m \in Node : ~IsFree(m)' =>
           ~IsFree(m) /\ arena'[m].client = arena[m].client
  PROVE  Owned'
BY DEF Owned

\* Resetting the filled quantity of an order leaves all owners as they are.
LEMMA ResetKeepsClients ==
  ASSUME TypeOK, NEW n \in Node, NEW x \in Nat,
         arena' = [arena EXCEPT ![n].filled_qty = x]
  PROVE  \A m \in Node : arena'[m].client = arena[m].client
BY DEF TypeOK, Order

\* Every step keeps the owners.
LEMMA NextOwned ==
  ASSUME IInv, Owned, [Next]_vars
  PROVE  Owned'
<1>1. CASE NewOrder
  <2>1. PICK c \in Clients, s \in Sides, t \in OrderTypes, p \in AnyPrice,
             q \in AnyQty : new_order(c, s, t, p, q)
    BY <1>1 DEF NewOrder
  <2>2. /\ next_id \in Nat /\ next_id >= 1 /\ next_id <= MaxId
        /\ next_id' = next_id + 1
        /\ UNCHANGED <<arena, free_list>>
    BY <2>1 DEF new_order, book, IInv, TypeOK, Owned
  <2>3. req'.id = next_id /\ req'.client = c /\ req'.qty = q
    BY <2>1 DEF new_order
  <2>4. next_id \in 1 .. MaxId /\ next_id' >= 1
    BY <2>2, BoundAssumption
  <2>5. \A n \in Node : ~IsFree(n)' => arena'[n].client \in Clients
    BY <2>2 DEF Owned, IsFree
  <2>6. QED
    BY <2>3, <2>4, <2>5 DEF Owned
<1>2. CASE CancelOrder
  <2>1. PICK id \in 1 .. MaxId : cancel_order(id)
    BY <1>2 DEF CancelOrder
  <2>2. id \in Nat /\ pc = "idle" /\ pc' = "idle" /\ next_id' = next_id
        /\ UNCHANGED aggressor
    BY <2>1, BoundAssumption DEF cancel_order
  <2>3. CASE lookup(id) = NULL
    <3>1. UNCHANGED <<arena, free_list>>
      BY <2>1, <2>3 DEF cancel_order, book
    <3>2. QED
      BY <2>2, <3>1, OwnersKept DEF IsFree
  <2>4. CASE lookup(id) # NULL
    <3>1. PICK k \in 1 .. PoolCapacity : take_out(lookup(id), k)
      BY <2>1, <2>4 DEF cancel_order
    <3>2. \A m \in Node : IsFree(m)' <=> IsFree(m) \/ m = lookup(id)
      BY <2>2, <2>4, <3>1, CancelFound
    <3>3. lookup(id) \in Node
      BY <2>2, <2>4, LookupFinds
    <3>4. \A m \in Node : arena'[m].client = arena[m].client
      BY <3>1, <3>3, ResetKeepsClients DEF take_out, IInv
    <3>5. QED
      BY <2>2, <3>2, <3>4, OwnersKept
  <2>5. QED
    BY <2>3, <2>4
<1>3. CASE ModifyOrder
  <2>1. PICK id \in 1 .. MaxId, p \in AnyPrice, q \in AnyQty :
          modify_order(id, p, q)
    BY <1>3 DEF ModifyOrder
  <2>2. id \in Nat /\ pc = "idle" /\ next_id' = next_id /\ UNCHANGED aggressor
    BY <2>1, BoundAssumption DEF modify_order
  <2>3. CASE lookup(id) = NULL
    <3>1. UNCHANGED <<arena, free_list>> /\ pc' = "idle"
      BY <2>1, <2>2, <2>3 DEF modify_order, book
    <3>2. QED
      BY <2>2, <3>1, OwnersKept DEF IsFree
  <2>4. CASE lookup(id) # NULL
    <3>1. PICK k \in 1 .. PoolCapacity : take_out(lookup(id), k)
      BY <2>1, <2>4 DEF modify_order
    <3>2. \A m \in Node : IsFree(m)' <=> IsFree(m) \/ m = lookup(id)
      BY <2>2, <2>4, <3>1, CancelFound
    <3>3. lookup(id) \in Node /\ ~IsFree(lookup(id))
      BY <2>2, <2>4, LookupFinds
    <3>4. \A m \in Node : arena'[m].client = arena[m].client
      BY <3>1, <3>3, ResetKeepsClients DEF take_out, IInv
    <3>5. /\ req'.id = id /\ req'.client = arena[lookup(id)].client
          /\ req'.qty = q
      BY <2>1, <2>4 DEF modify_order
    <3>6. arena[lookup(id)].client \in Clients
      BY <3>3 DEF Owned
    <3>7. \A n \in Node : ~IsFree(n)' => arena'[n].client \in Clients
      BY <3>2, <3>4 DEF Owned
    <3>8. QED
      BY <2>2, <3>5, <3>6, <3>7 DEF Owned
  <2>5. QED
    BY <2>3, <2>4
<1>4. CASE reject_order
  <2>1. UNCHANGED <<arena, free_list, next_id>> /\ pc' = "idle"
    BY <1>4 DEF reject_order, book
  <2>2. QED
    BY <2>1, OwnersKept DEF IsFree
<1>5. CASE add_order
  <2> DEFINE n == Last(free_list)
  <2>1. /\ pc = "add" /\ pc' = "match" /\ next_id' = next_id
        /\ free_list' = Front(free_list) /\ ~Rejected
        /\ arena' = [arena EXCEPT ![n] =
             [id |-> req.id, client |-> req.client, side |-> req.side,
              type |-> req.type, price |-> req.price, quantity |-> req.qty,
              filled_qty |-> 0]]
    BY <1>5 DEF add_order
  <2>2. /\ n \in Node /\ \A m : IsFree(m)' <=> IsFree(m) /\ m # n
    BY <2>1, FrontDistinct DEF IInv, TypeOK, PoolPartition, Rejected, IsFree
  <2>3. arena'[n].client = req.client /\ \A m \in Node : m # n => arena'[m] = arena[m]
    BY <2>1, <2>2 DEF IInv, TypeOK
  <2> HIDE DEF n
  <2>4. \A m \in Node : ~IsFree(m)' => arena'[m].client \in Clients
    BY <2>1, <2>2, <2>3 DEF Owned
  <2>5. QED
    BY <2>1, <2>4 DEF Owned
<1>6. CASE Fill
  <2>1. /\ pc' = "match" /\ next_id' = next_id
        /\ Taker \in Order /\ Maker \in Order
        /\ Traded = remaining(Maker) => release(MakerNode)
        /\ Traded # remaining(Maker) => UNCHANGED free_list
        /\ MakerNode \in Node
        /\ \A m \in Node : arena'[m] =
             IF m = aggressor THEN WithFilled(Taker, Taker.filled_qty + Traded)
             ELSE IF m = MakerNode THEN WithFilled(Maker, MakerFilled)
             ELSE arena[m]
    BY <1>6, FillFacts
  <2>2. \A o \in Order : \A x : WithFilled(o, x).client = o.client
    BY DEF WithFilled, Order
  <2>3. \A m \in Node : arena'[m].client = arena[m].client
    BY <2>1, <2>2 DEF Taker, Maker
  <2>4. \A m \in Node : IsFree(m) => IsFree(m)'
    <3>1. CASE Traded = remaining(Maker)
      <4>1. free_list' = Append(free_list, MakerNode) /\ free_list \in Seq(Node)
        BY <2>1, <3>1 DEF release, IInv, TypeOK
      <4>2. QED
        BY <2>1, <4>1, AppendDistinct DEF IsFree
    <3>2. CASE Traded # remaining(Maker)
      BY <2>1, <3>2 DEF IsFree
    <3>3. QED
      BY <3>1, <3>2
  <2>5. QED
    BY <2>1, <2>3, <2>4, OwnersKept
<1>7. CASE Rest
  <2>1. UNCHANGED <<arena, free_list, next_id>> /\ pc' = "idle"
    BY <1>7 DEF Rest
  <2>2. QED
    BY <2>1, OwnersKept DEF IsFree
<1>8. CASE Discard
  <2>1. /\ aggressor \in Node /\ pc' = "idle" /\ next_id' = next_id
        /\ free_list' = Append(free_list, aggressor) /\ free_list \in Seq(Node)
        /\ arena' = [arena EXCEPT ![aggressor].filled_qty = 0]
    BY <1>8 DEF Discard, release, IInv, TypeOK
  <2>2. \A m \in Node : IsFree(m) => IsFree(m)'
    BY <2>1, AppendDistinct DEF IsFree
  <2>3. \A m \in Node : arena'[m].client = arena[m].client
    BY <2>1, ResetKeepsClients DEF IInv
  <2>4. QED
    BY <2>1, <2>2, <2>3, OwnersKept
<1>9. CASE UNCHANGED vars
  BY <1>9 DEF vars, book, Owned, IsFree
<1>10. QED
  BY <1>1, <1>2, <1>3, <1>4, <1>5, <1>6, <1>7, <1>8, <1>9 DEF Next, Step

\* Every step of the book is a step of the promise, or leaves it alone.
LEMMA NextPromise ==
  ASSUME IInv, IInv', Owned, [Next]_vars
  PROVE  [Promise!PNext]_Promise!pvars
<1>1. CASE NewOrder
  <2>1. PICK c \in Clients, s \in Sides, t \in OrderTypes, p \in AnyPrice,
             q \in AnyQty : new_order(c, s, t, p, q)
    BY <1>1 DEF NewOrder
  <2>2. UNCHANGED book /\ pc # "match" /\ pc' # "match" /\ fills' = <<>>
    BY <2>1 DEF new_order
  <2>3. Queues' = Queues /\ InMatching' = InMatching
    BY <2>2, BookLeftAlone
  <2>4. QED
    BY <2>2, <2>3 DEF Promise!PNext, Promise!Forget
<1>2. CASE CancelOrder
  <2>1. PICK id \in 1 .. MaxId : cancel_order(id)
    BY <1>2 DEF CancelOrder
  <2>2. id \in Nat /\ pc = "idle" /\ pc' = "idle" /\ UNCHANGED <<aggressor, fills>>
    BY <2>1, BoundAssumption DEF cancel_order
  <2>3. CASE lookup(id) = NULL
    <3>1. UNCHANGED book
      BY <2>1, <2>3 DEF cancel_order
    <3>2. Queues' = Queues /\ InMatching' = InMatching
      BY <2>2, <3>1, BookLeftAlone
    <3>3. QED
      BY <2>2, <3>2 DEF Promise!pvars
  <2>4. CASE lookup(id) # NULL
    <3>1. PICK k \in 1 .. PoolCapacity : take_out(lookup(id), k)
      BY <2>1, <2>4 DEF cancel_order
    <3>2. QED
      BY <2>2, <2>4, <3>1, CancelWithdraws
  <2>5. QED
    BY <2>3, <2>4
<1>3. CASE ModifyOrder
  <2>1. PICK id \in 1 .. MaxId, p \in AnyPrice, q \in AnyQty :
          modify_order(id, p, q)
    BY <1>3 DEF ModifyOrder
  <2>2. id \in Nat /\ pc = "idle" /\ fills' = <<>> /\ UNCHANGED aggressor
    BY <2>1, BoundAssumption DEF modify_order
  <2>3. CASE lookup(id) = NULL
    <3>1. UNCHANGED book /\ pc' = "idle"
      BY <2>1, <2>2, <2>3 DEF modify_order
    <3>2. Queues' = Queues /\ InMatching' = InMatching
      BY <2>2, <3>1, BookLeftAlone
    <3>3. QED
      BY <2>2, <3>2 DEF Promise!PNext, Promise!Forget
  <2>4. CASE lookup(id) # NULL
    <3>1. PICK k \in 1 .. PoolCapacity : take_out(lookup(id), k)
      BY <2>1, <2>4 DEF modify_order
    <3>2. pc' = "add"
      BY <2>1, <2>4 DEF modify_order
    <3>3. QED
      BY <2>2, <2>4, <3>1, <3>2, CancelWithdraws
  <2>5. QED
    BY <2>3, <2>4
<1>4. CASE reject_order
  <2>1. UNCHANGED <<book, fills>> /\ pc # "match" /\ pc' # "match"
    BY <1>4 DEF reject_order
  <2>2. Queues' = Queues /\ InMatching' = InMatching
    BY <2>1, BookLeftAlone
  <2>3. QED
    BY <2>1, <2>2 DEF Promise!pvars
<1>5. CASE add_order
  BY <1>5, AddEnters
<1>6. CASE Fill
  BY <1>6, FillTrades
<1>7. CASE Rest
  BY <1>7, RestSettles
<1>8. CASE Discard
  BY <1>8, DiscardSettles
<1>9. CASE UNCHANGED vars
  BY <1>9 DEF vars, book, Queues, InMatching, Promise!pvars
<1>10. QED
  BY <1>1, <1>2, <1>3, <1>4, <1>5, <1>6, <1>7, <1>8, <1>9 DEF Next, Step

\* The empty book is the empty promise, and nobody owns anything yet.
LEMMA InitPromise ==
  ASSUME Init
  PROVE  Owned /\ Promise!PInit
<1>1. \A s \in Sides : Merged(s, levels[s]) = <<>>
  <2>1. SUFFICES ASSUME NEW s \in Sides PROVE Merged(s, levels[s]) = <<>>
    OBVIOUS
  <2> DEFINE v == [i \in 1 .. MAX_PRICE |-> levels[s][PriceAt(s, i)]]
  <2>2. \A p \in Prices : levels[s][p] = <<>>
    BY DEF Init
  <2>3. \A i \in 1 .. MAX_PRICE : v[i] = <<>>
    BY <2>2, Ranks
  <2>4. <<>> \in Seq(Node)
    BY EmptySeq
  <2>5. v \in [1 .. MAX_PRICE -> Seq(Node)]
    BY <2>3, <2>4
  <2>6. Merged(s, levels[s]) = FlattenSeq(v)
    BY Zenon DEF Merged
  <2> HIDE DEF v
  <2>7. FlattenSeq(v) = <<>>
    BY <2>3, <2>5, PriceAssumption, FlattenEmpty
  <2>8. QED
    BY <2>6, <2>7
<1>2. Shown(arena, <<>>) = <<>>
  BY DEF Shown
<1>3. Queues = [s \in Sides |-> <<>>]
  BY <1>1, <1>2 DEF Queues
<1>4. Promise!PInit
  BY <1>3 DEF Init, Promise!PInit, InMatching, Sides
<1>5. IInv
  BY InitIInv
<1>6. Owned
  <2>1. \A n \in Node : IsFree(n)
    <3>1. SUFFICES ASSUME NEW n \in Node PROVE Contains(free_list, n)
      BY DEF IsFree
    <3>2. ~OnBook(n) /\ n # aggressor
      <4>1. n # aggressor
        BY PoolAssumption DEF Init, Node, NULL
      <4>2. \A s \in Sides, p \in Prices : levels[s][p] = <<>>
        BY DEF Init
      <4>3. <<>> \in Seq(Node)
        BY EmptySeq
      <4>4. \A s \in Sides, p \in Prices : ~Contains(levels[s][p], n)
        BY <4>2, <4>3, ContainsHead
      <4>5. QED
        BY <4>1, <4>4 DEF OnBook
    <3>3. QED
      BY <1>5, <3>2 DEF IInv, PoolPartition, IsFree
  <2>2. QED
    BY <2>1 DEF Owned, Init
<1>7. QED
  BY <1>4, <1>6

\* The book implements price-time priority, for every pool, order table,
\* price range and set of clients: every trade of drain_level is with the
\* longest waiting order at the best price, every remainder joins the back of
\* its price, and only a trade, a cancel or a modify takes an order away.
THEOREM PriceTimePriorityKept == Spec => PriceTimePriority
<1>1. Init => IInv /\ Owned /\ Promise!PInit
  BY InitIInv, InitPromise
<1>2. IInv /\ Owned /\ [Next]_vars => IInv' /\ Owned'
  BY NextIInv, NextOwned
<1>3. IInv /\ IInv' /\ Owned /\ [Next]_vars => [Promise!PNext]_Promise!pvars
  BY NextPromise
<1>4. QED
  BY <1>1, <1>2, <1>3, PTL DEF Spec, PriceTimePriority, Promise!PSpec

=============================================================================
