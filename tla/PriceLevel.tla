------------------------------ MODULE PriceLevel ------------------------------
(***************************************************************************)
(* src/core/price_level.h: one price level, an intrusive doubly-linked     *)
(* list of orders with a running total, driven as OrderBook drives it.     *)
(* The history variable queue is the level as module OrderBook sees it;    *)
(* the invariants say that the pointers stand for it.                      *)
(*                                                                         *)
(* Quantities are unsigned of Width bits (32 in the code), and adjust_qty  *)
(* takes a signed number of the same width.                                *)
(***************************************************************************)
EXTENDS Integers, Sequences, SequencesExt, PrefixSums

CONSTANTS Orders,   \* the nodes of the pool
          NULL,     \* nullptr
          Width     \* bits of Quantity

ASSUME NullAssumption == NULL \notin Orders
ASSUME WidthAssumption == Width \in Nat \ {0}

VARIABLES head, tail,   \* head_ and tail_
          total_qty,    \* total_qty_
          count,        \* count_
          prev, next,   \* the links inside the orders
          left,         \* what remains of each order
          queue         \* history: the orders of the level, oldest first

vars == <<head, tail, total_qty, count, prev, next, left, queue>>

Modulus == 2 ^ Width

\* A fact of arithmetic, stated because the provers know nothing of powers.
ASSUME ModulusAssumption == Modulus \in Nat \ {0}

Quantity == 0 .. Modulus - 1
Link == Orders \cup {NULL}

Init == /\ head = NULL /\ tail = NULL
        /\ total_qty = 0 /\ count = 0
        /\ prev = [o \in Orders |-> NULL] /\ next = [o \in Orders |-> NULL]
        /\ left = [o \in Orders |-> 0]
        /\ queue = <<>>

\* static_cast<int32_t>: the same bits as a two's complement number.
Signed(q) == IF q >= Modulus \div 2 THEN q - Modulus ELSE q

-----------------------------------------------------------------------------
\* push, by an order of quantity q that is on no level.
push(o, q) ==
  /\ ~Contains(queue, o)
  /\ left' = [left EXCEPT ![o] = q]
  /\ prev' = [prev EXCEPT ![o] = tail]
  /\ next' = [n \in Orders |-> IF n = o THEN NULL
                               ELSE IF n = tail THEN o ELSE next[n]]
  /\ head' = IF tail = NULL THEN o ELSE head
  /\ tail' = o
  /\ total_qty' = (total_qty + q) % Modulus
  /\ count' = count + 1
  /\ queue' = Append(queue, o)

\* Variant of unlink that forgets the back link of the successor.
unlink_one_way(o) ==
  /\ next' = [n \in Orders |-> IF n = o THEN NULL
                               ELSE IF n = prev[o] THEN next[o] ELSE next[n]]
  /\ prev' = [prev EXCEPT ![o] = NULL]
  /\ head' = IF prev[o] = NULL THEN next[o] ELSE head
  /\ tail' = IF next[o] = NULL THEN prev[o] ELSE tail
  /\ count' = count - 1

\* remove, but for the total.
unlink(o) ==
  /\ next' = [n \in Orders |-> IF n = o THEN NULL
                               ELSE IF n = prev[o] THEN next[o] ELSE next[n]]
  /\ prev' = [n \in Orders |-> IF n = o THEN NULL
                               ELSE IF n = next[o] THEN prev[o] ELSE prev[n]]
  /\ head' = IF prev[o] = NULL THEN next[o] ELSE head
  /\ tail' = IF next[o] = NULL THEN prev[o] ELSE tail
  /\ count' = count - 1

\* cancel_order: remove from anywhere, at the quantity still open.
remove(k) ==
  LET o == queue[k]
  IN  /\ unlink(o)
      /\ total_qty' = (total_qty - left[o]) % Modulus
      /\ queue' = RemoveAt(queue, k)
      /\ UNCHANGED left

\* Variant of adjusted that misses the conversion to a signed number.
adjusted_clamped(q) == IF q >= Modulus \div 2 THEN total_qty
                       ELSE (total_qty - q) % Modulus

\* adjust_qty(-static_cast<int32_t>(q)).  For q = 2^31 the negation overflows,
\* which C++ leaves undefined; a compiled negation or subtraction wraps, and
\* gives what stands here.
adjusted(q) == (total_qty - Signed(q)) % Modulus

\* One iteration of drain_level: fill q of the front order, and remove it if
\* that was all of it (its remaining is then 0, so the total stays).
fill_front(q) ==
  /\ count # 0
  /\ q \in 1 .. left[head]
  /\ left' = [left EXCEPT ![head] = @ - q]
  /\ total_qty' = adjusted(q)
  /\ IF q = left[head]
       THEN unlink(head) /\ queue' = RemoveAt(queue, 1)
       ELSE UNCHANGED <<head, tail, count, prev, next, queue>>

Next == \/ \E o \in Orders, q \in Quantity \ {0} : push(o, q)
        \/ \E k \in 1 .. Len(queue) : remove(k)
        \/ \E q \in Quantity : fill_front(q)

Spec == Init /\ [][Next]_vars

-----------------------------------------------------------------------------
\* Every field has its type; the total stays within its width.
TypeOK == /\ head \in Link /\ tail \in Link
          /\ total_qty \in Quantity
          /\ count \in Nat
          /\ prev \in [Orders -> Link] /\ next \in [Orders -> Link]
          /\ left \in [Orders -> Quantity]
          /\ queue \in Seq(Orders)

\* The pointers stand for the queue, forwards and backwards, and count_ (which
\* empty() reads) agrees with head_ (which front() reads): price_level.h never
\* hands out a null front, loses an order or keeps a link to a removed one.
ListExact ==
  LET n == Len(queue)
      At(i) == IF i \in 1 .. n THEN queue[i] ELSE NULL
  IN  /\ IsInjective(queue)
      /\ count = n
      /\ head = At(1) /\ tail = At(n)
      /\ \A i \in 1 .. n : /\ next[queue[i]] = At(i + 1)
                           /\ prev[queue[i]] = At(i - 1)
      /\ \A o \in Orders : ~Contains(queue, o) =>
                             next[o] = NULL /\ prev[o] = NULL

\* The running total is the sum of what remains of the queued orders, modulo
\* the width: no sequence of pushes, partial fills (through a signed cast) and
\* cancels makes it drift.
TotalExact ==
  total_qty = PrefixSum([i \in 1 .. Len(queue) |-> left[queue[i]]],
                        Len(queue)) % Modulus
=============================================================================
