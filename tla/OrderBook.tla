------------------------------ MODULE OrderBook ------------------------------
(***************************************************************************)
(* src/core/order_book.{h,cpp} with the order pool (order_pool.h): the     *)
(* price-time priority book, driven by its only caller, the matching       *)
(* engine.  A call of the book is a sequence of steps: new_order or        *)
(* modify_order opens it, add_order validates and allocates, Fill is one   *)
(* iteration of drain_level, and Rest or Discard ends it.                  *)
(*                                                                         *)
(*  - The code keeps two copies of everything that depends on the side     *)
(*    (bids_/asks_, bid_bits_/ask_bits_, best_bid_/best_ask_); here they   *)
(*    are functions of the side.                                           *)
(*  - An Order* is an index into arena_.                                   *)
(*  - A price level is the sequence its intrusive list stands for, and an  *)
(*    occupancy bitset is the set of the prices marked in it (module       *)
(*    PriceBitset shows that highest and lowest are its Max and Min).      *)
(*  - Timestamps, match_count_ and scan_calls_ decide nothing in the book  *)
(*    and are left out.                                                    *)
(***************************************************************************)
EXTENDS Types, Sequences, FiniteSets, SequencesExt

CONSTANTS PoolCapacity,  \* orders in arena_
          MAX_ORDERS,    \* entries of order_table_ (id & ORDER_MASK)
          Clients,
          MaxQty,        \* bound: largest quantity a message asks for
          MaxId          \* bound: ids the engine hands out in one behaviour

ASSUME PoolAssumption == PoolCapacity \in Nat \ {0}
ASSUME TableAssumption == MAX_ORDERS \in Nat \ {0}
ASSUME BoundAssumption == MaxQty \in Nat /\ MaxId \in Nat

Sides == {"Buy", "Sell"}
\* The wire's order_type byte is not validated: Other is any value that is
\* neither of the two enumerators.
OrderTypes == {"Limit", "Market", "Other"}
Node == 1 .. PoolCapacity
NULL == 0
\* What a message may ask for: prices on both sides of the valid range, and
\* any quantity, zero included.
AnyPrice == 0 .. MAX_PRICE + 1
AnyQty == 0 .. MaxQty

Order == [id : Nat, client : Clients \cup {NULL}, side : Sides,
          type : OrderTypes, price : AnyPrice, quantity : Nat,
          filled_qty : Nat]
\* The arguments of add_order.
Request == [id : Nat, client : Clients \cup {NULL}, side : Sides,
            type : OrderTypes, price : AnyPrice, qty : Nat]
FillRecord == [bid_id : Nat, ask_id : Nat, bid_client : Clients \cup {NULL},
               ask_client : Clients \cup {NULL}, price : AnyPrice,
               quantity : Nat]

ASSUME ClientAssumption == NULL \notin Clients

VARIABLES arena,        \* arena_: the order in every node, stale ones included
          free_list,    \* free_list_: a stack, its top at the end
          levels,       \* bids_ and asks_: the queue of nodes at every price
          bits,         \* bid_bits_ and ask_bits_: the prices marked occupied
          best,         \* best_bid_ and best_ask_
          order_table,  \* order_table_
          fills,        \* fills_: the fills of the current or last call
          next_id,      \* next_id_ of the engine
          pc,           \* "idle" between calls, "add" before add_order runs,
                        \* "match" while the aggressor is matched
          req,          \* the arguments of the add_order to come
          aggressor,    \* the order being matched
          ret           \* what the last call returned

book == <<arena, free_list, levels, bits, best, order_table>>
vars == <<book, fills, next_id, pc, req, aggressor, ret>>

NoRequest == [id |-> 0, client |-> NULL, side |-> "Buy", type |-> "Limit",
              price |-> 0, qty |-> 0]

\* best_bid_ = INVALID_PRICE and best_ask_ = MAX_PRICE + 1: the side is empty.
NoPrice(s) == IF s = "Buy" THEN INVALID_PRICE ELSE MAX_PRICE + 1

Init ==
  /\ arena = [n \in Node |-> [id |-> 0, client |-> NULL, side |-> "Buy",
                              type |-> "Limit", price |-> 0, quantity |-> 0,
                              filled_qty |-> 0]]
  /\ free_list = [i \in 1 .. PoolCapacity |-> PoolCapacity + 1 - i]
  /\ levels = [s \in Sides |-> [p \in Prices |-> <<>>]]
  /\ bits = [s \in Sides |-> {}]
  /\ best = [s \in Sides |-> NoPrice(s)]
  /\ order_table = [h \in 0 .. MAX_ORDERS - 1 |-> NULL]
  /\ fills = <<>>
  /\ next_id = 1
  /\ pc = "idle" /\ req = NoRequest /\ aggressor = NULL /\ ret = TRUE

-----------------------------------------------------------------------------
(* Helpers *)

Opposite(s) == IF s = "Buy" THEN "Sell" ELSE "Buy"
\* Variant of remaining that forgets what was filled before.
remaining_total(o) == o.quantity

remaining(o) == o.quantity - o.filled_qty
is_filled(o) == o.filled_qty >= o.quantity

\* p is a better price than q for an order resting on side s.
Better(s, p, q) == IF s = "Buy" THEN p > q ELSE p < q

Hash(id) == id % MAX_ORDERS       \* id & ORDER_MASK

\* Variant of lookup that looks one slot too far.
lookup_next_slot(id) ==
  LET o == order_table[Hash(id + 1)]
  IN  IF o # NULL /\ arena[o].id = id THEN o ELSE NULL

lookup(id) ==
  LET o == order_table[Hash(id)]
  IN  IF o # NULL /\ arena[o].id = id THEN o ELSE NULL

\* scan_best_bid and scan_best_ask: the best price marked in B.
scan_best(s, B) ==
  IF B = {} THEN NoPrice(s)
  ELSE IF s = "Buy" THEN Max(B) ELSE Min(B)

\* Variant of unlink that leaves the cached best price alone.
unlink_no_rescan(s, p, k) ==
  LET q == levels[s][p]
  IN  /\ levels' = [levels EXCEPT ![s][p] = RemoveAt(q, k)]
      /\ bits' = IF Len(q) = 1 THEN [bits EXCEPT ![s] = @ \ {p}] ELSE bits
      /\ UNCHANGED best

\* level.remove of the k-th order of a level; if that empties the level, its
\* bit is cleared and, if it was the best level, the next best is looked up.
unlink(s, p, k) ==
  LET q == levels[s][p]
      left == bits[s] \ {p}
  IN  /\ levels' = [levels EXCEPT ![s][p] = RemoveAt(q, k)]
      /\ bits' = IF Len(q) = 1 THEN [bits EXCEPT ![s] = left] ELSE bits
      /\ best' = IF Len(q) = 1 /\ p = best[s]
                   THEN [best EXCEPT ![s] = scan_best(s, left)]
                   ELSE best

\* Variant of release that forgets the order table.
release_no_unreg(n) ==
  /\ free_list' = Append(free_list, n)
  /\ UNCHANGED order_table

\* unreg and pool_.deallocate; the caller resets the node's filled_qty.
release(n) ==
  /\ order_table' = [order_table EXCEPT ![Hash(arena[n].id)] = NULL]
  /\ free_list' = Append(free_list, n)

-----------------------------------------------------------------------------
(* The engine's calls *)

\* process, NewOrder: the id is taken even if add_order rejects.
new_order(c, s, t, p, q) ==
  /\ pc = "idle"
  /\ next_id <= MaxId
  /\ next_id' = next_id + 1
  /\ fills' = <<>>
  /\ req' = [id |-> next_id, client |-> c, side |-> s, type |-> t,
             price |-> p, qty |-> q]
  /\ pc' = "add"
  /\ UNCHANGED <<book, aggressor, ret>>

\* cancel_order of an order that lookup finds, as the k-th of its level.
take_out(n, k) ==
  LET o == arena[n]
  IN  /\ k \in 1 .. Len(levels[o.side][o.price])
      /\ levels[o.side][o.price][k] = n
      /\ unlink(o.side, o.price, k)
      /\ release(n)
      /\ arena' = [arena EXCEPT ![n].filled_qty = 0]

cancel_order(id) ==
  LET n == lookup(id)
  IN  /\ pc = "idle"
      /\ IF n = NULL
           THEN UNCHANGED book
           ELSE \E k \in 1 .. PoolCapacity : take_out(n, k)
      /\ ret' = (n # NULL)
      /\ UNCHANGED <<fills, next_id, pc, req, aggressor>>

\* Variant of modify_order that adds the new order without cancelling the old.
modify_no_cancel(id, p, q) ==
  LET n == lookup(id)
      o == arena[n]
  IN  /\ pc = "idle"
      /\ fills' = <<>>
      /\ IF n = NULL
           THEN ret' = FALSE /\ UNCHANGED <<pc, req>>
           ELSE /\ req' = [id |-> id, client |-> o.client, side |-> o.side,
                           type |-> "Limit", price |-> p, qty |-> q]
                /\ pc' = "add"
                /\ UNCHANGED ret
      /\ UNCHANGED <<book, next_id, aggressor>>

\* modify_order up to its call of add_order: the order is already cancelled.
modify_order(id, p, q) ==
  LET n == lookup(id)
      o == arena[n]
  IN  /\ pc = "idle"
      /\ fills' = <<>>
      /\ IF n = NULL
           THEN ret' = FALSE /\ UNCHANGED <<book, pc, req>>
           ELSE /\ \E k \in 1 .. PoolCapacity : take_out(n, k)
                /\ req' = [id |-> id, client |-> o.client, side |-> o.side,
                           type |-> "Limit", price |-> p, qty |-> q]
                /\ pc' = "add"
                /\ UNCHANGED ret
      /\ UNCHANGED <<next_id, aggressor>>

-----------------------------------------------------------------------------
(* add_order *)

\* The two early returns.
Rejected ==
  \/ free_list = <<>>
  \/ req.type = "Limit" /\ (req.price < MIN_PRICE \/ req.price > MAX_PRICE)

reject_order ==
  /\ pc = "add"
  /\ Rejected
  /\ ret' = FALSE
  /\ pc' = "idle" /\ req' = NoRequest
  /\ UNCHANGED <<book, fills, next_id, aggressor>>

\* pool_.allocate, the order's fields, reg.
add_order ==
  /\ pc = "add"
  /\ ~Rejected
  /\ LET n == Last(free_list)
     IN  /\ free_list' = Front(free_list)
         /\ arena' = [arena EXCEPT ![n] =
              [id |-> req.id, client |-> req.client, side |-> req.side,
               type |-> req.type, price |-> req.price, quantity |-> req.qty,
               filled_qty |-> 0]]
         /\ order_table' = [order_table EXCEPT ![Hash(req.id)] = n]
         /\ aggressor' = n
  /\ pc' = "match" /\ req' = NoRequest
  /\ UNCHANGED <<levels, bits, best, fills, next_id, ret>>

\* Variant of Crosses that stops one tick short of the limit price.
CrossesStrictly ==
  LET o == arena[aggressor]
      p == best[Opposite(o.side)]
  IN  /\ ~is_filled(o)
      /\ p # NoPrice(Opposite(o.side))
      /\ o.type # "Market" => Better(Opposite(o.side), p, o.price)

\* The loop conditions of match_limit and match_market: a limit price binds
\* every type but Market.
Crosses ==
  LET o == arena[aggressor]
      p == best[Opposite(o.side)]
  IN  /\ ~is_filled(o)
      /\ p # NoPrice(Opposite(o.side))
      /\ o.type # "Market" => ~Better(Opposite(o.side), o.price, p)

\* The fill of q units between the aggressor a and the resting order r, at
\* the resting price.
NewFill(a, r, q) ==
  LET bid == IF a.side = "Buy" THEN a ELSE r
      ask == IF a.side = "Buy" THEN r ELSE a
  IN  [bid_id |-> bid.id, ask_id |-> ask.id, bid_client |-> bid.client,
       ask_client |-> ask.client, price |-> r.price, quantity |-> q]

\* One iteration of drain_level on the best opposite level, with what match_*
\* does when it leaves the level empty.  The level is never empty on entry
\* (BboExact).
Fill ==
  LET a == arena[aggressor]
      s == Opposite(a.side)
      p == best[s]
      n == Head(levels[s][p])
      r == arena[n]
      q == IF remaining(a) <= remaining(r) THEN remaining(a) ELSE remaining(r)
  IN  /\ pc = "match"
      /\ Crosses
      /\ levels[s][p] # <<>>
      /\ fills' = Append(fills, NewFill(a, r, q))
      /\ IF q = remaining(r)
           THEN /\ unlink(s, p, 1)
                /\ release(n)
                /\ arena' = [arena EXCEPT ![aggressor].filled_qty = @ + q,
                                          ![n].filled_qty = 0]
           ELSE /\ arena' = [arena EXCEPT ![aggressor].filled_qty = @ + q,
                                          ![n].filled_qty = @ + q]
                /\ UNCHANGED <<free_list, levels, bits, best, order_table>>
      /\ UNCHANGED <<next_id, pc, req, aggressor, ret>>

\* Variant of Rest that queues the order in front of its level.
RestInFront ==
  LET o == arena[aggressor]
  IN  /\ pc = "match"
      /\ ~Crosses
      /\ ~is_filled(o) /\ o.type = "Limit"
      /\ levels' = [levels EXCEPT ![o.side][o.price] = <<aggressor>> \o @]
      /\ bits' = [bits EXCEPT ![o.side] = @ \cup {o.price}]
      /\ best' = IF Better(o.side, o.price, best[o.side])
                   THEN [best EXCEPT ![o.side] = o.price] ELSE best
      /\ pc' = "idle" /\ aggressor' = NULL /\ ret' = TRUE
      /\ UNCHANGED <<arena, free_list, order_table, fills, next_id, req>>

\* The unfilled remainder of a limit order joins its level.
Rest ==
  LET o == arena[aggressor]
      q == levels[o.side][o.price]
  IN  /\ pc = "match"
      /\ ~Crosses
      /\ ~is_filled(o) /\ o.type = "Limit"
      /\ levels' = [levels EXCEPT ![o.side][o.price] = Append(q, aggressor)]
      /\ bits' = IF q = <<>> THEN [bits EXCEPT ![o.side] = @ \cup {o.price}]
                 ELSE bits
      /\ best' = IF Better(o.side, o.price, best[o.side])
                   THEN [best EXCEPT ![o.side] = o.price] ELSE best
      /\ pc' = "idle" /\ aggressor' = NULL /\ ret' = TRUE
      /\ UNCHANGED <<arena, free_list, order_table, fills, next_id, req>>

\* Variant of Discard that does not give the node back.
DiscardLeaks ==
  LET o == arena[aggressor]
  IN  /\ pc = "match"
      /\ ~Crosses
      /\ is_filled(o) \/ o.type # "Limit"
      /\ order_table' = [order_table EXCEPT ![Hash(o.id)] = NULL]
      /\ pc' = "idle" /\ aggressor' = NULL /\ ret' = TRUE
      /\ UNCHANGED <<arena, free_list, levels, bits, best, fills, next_id, req>>

\* A filled order, and what is left of one that may not rest, is dropped.
Discard ==
  LET o == arena[aggressor]
  IN  /\ pc = "match"
      /\ ~Crosses
      /\ is_filled(o) \/ o.type # "Limit"
      /\ release(aggressor)
      /\ arena' = [arena EXCEPT ![aggressor].filled_qty = 0]
      /\ pc' = "idle" /\ aggressor' = NULL /\ ret' = TRUE
      /\ UNCHANGED <<levels, bits, best, fills, next_id, req>>

-----------------------------------------------------------------------------
NewOrder == \E c \in Clients, s \in Sides, t \in OrderTypes, p \in AnyPrice,
               q \in AnyQty : new_order(c, s, t, p, q)
CancelOrder == \E id \in 1 .. MaxId : cancel_order(id)
ModifyOrder == \E id \in 1 .. MaxId, p \in AnyPrice, q \in AnyQty :
                 modify_order(id, p, q)

\* The steps of a call that has begun.
Step == reject_order \/ add_order \/ Fill \/ Rest \/ Discard

Next == NewOrder \/ CancelOrder \/ ModifyOrder \/ Step

Spec == Init /\ [][Next]_vars

\* A call runs to its end on the engine thread, which nothing blocks.
FairSpec == Spec /\ WF_vars(Step)
-----------------------------------------------------------------------------
(* Properties *)

\* Every variable has its type, and no order is filled beyond its quantity
\* (remaining() is unsigned: it would wrap).
TypeOK ==
  /\ arena \in [Node -> Order]
  /\ \A n \in Node : arena[n].filled_qty <= arena[n].quantity
  /\ free_list \in Seq(Node)
  /\ levels \in [Sides -> [Prices -> Seq(Node)]]
  /\ bits \in [Sides -> SUBSET Prices]
  /\ best \in [Sides -> AnyPrice]
  /\ order_table \in [0 .. MAX_ORDERS - 1 -> Node \cup {NULL}]
  /\ fills \in Seq(FillRecord)
  /\ next_id \in Nat
  /\ pc \in {"idle", "add", "match"}
  /\ req \in Request
  /\ aggressor \in Node \cup {NULL}
  /\ (aggressor # NULL) <=> (pc = "match")
  /\ ret \in BOOLEAN

\* What validate_bbo tests by brute force, at every step of every call: the
\* bitset marks exactly the levels that hold orders, and the cached best
\* price is the best of them, or the side's sentinel when there is none.
BboExact ==
  \A s \in Sides :
    /\ \A p \in Prices : p \in bits[s] <=> levels[s][p] # <<>>
    /\ best[s] = NoPrice(s) => bits[s] = {}
    /\ best[s] # NoPrice(s) => /\ best[s] \in bits[s]
                               /\ \A p \in bits[s] : ~Better(s, p, best[s])

\* The book never holds a bid and an ask that could trade with each other,
\* also while an aggressor eats through several levels.
NotCrossed == best["Buy"] < best["Sell"]

IsFree(n) == Contains(free_list, n)
OnBook(n) == \E s \in Sides, p \in Prices : Contains(levels[s][p], n)

\* The pool neither leaks nor double-frees: every node is on the free list,
\* in one level or the aggressor, exactly one of the three and only once.
PoolPartition ==
  /\ IsInjective(free_list)
  /\ \A s \in Sides, p \in Prices : IsInjective(levels[s][p])
  /\ \A n \in Node : /\ IsFree(n) \/ OnBook(n) \/ n = aggressor
                     /\ ~(IsFree(n) /\ OnBook(n))
                     /\ n = aggressor => ~IsFree(n) /\ ~OnBook(n)

\* An order waits only where matching will find it and where it may still
\* trade: on its own side, at its own limit price, with something left.
RestingSound ==
  \A s \in Sides, p \in Prices, n \in Node :
    Contains(levels[s][p], n) =>
      /\ arena[n].side = s /\ arena[n].price = p
      /\ arena[n].type = "Limit" /\ ~is_filled(arena[n])

\* The order table never dangles, whatever ids have collided in it: an entry
\* is a live order that hashes there, so lookup can only return an order that
\* cancel_order may unlink.
TableSound ==
  \A h \in 0 .. MAX_ORDERS - 1 : order_table[h] # NULL =>
    /\ ~IsFree(order_table[h])
    /\ Hash(arena[order_table[h]].id) = h

\* No two live orders have the same id, although modify_order reuses one and
\* an order that lost its table entry stays on the book.
LiveIdsUnique ==
  \A m, n \in Node :
    ~IsFree(m) /\ ~IsFree(n) /\ arena[m].id = arena[n].id => m = n

\* The book cannot wedge.  A full pool rejects every order, the ones that
\* would trade too, so only a cancel or a modify can make room; and colliding
\* ids can hide orders from both.  Yet some order can always be found.
NeverWedged ==
  free_list = <<>> => \E n \in Node : lookup(arena[n].id) = n

\* What ids the engine may still hand out or hand back: every live order has
\* an id given out before, and an add_order to come has one of its own.
IdsGivenOut ==
  /\ \A n \in Node : ~IsFree(n) => arena[n].id < next_id
  /\ pc = "add" => /\ req.id < next_id
                   /\ \A n \in Node : ~IsFree(n) => arena[n].id # req.id

\* A limit order that passed validation can be placed.
AggressorValid ==
  pc = "match" /\ arena[aggressor].type = "Limit" =>
    arena[aggressor].price \in Prices

\* The inductive invariant.
IInv == /\ TypeOK /\ BboExact /\ NotCrossed /\ PoolPartition /\ RestingSound
        /\ TableSound /\ LiveIdsUnique /\ NeverWedged /\ IdsGivenOut
        /\ AggressorValid

\* What a direct-address order table promises: every order on the book is
\* found under its id, so that its owner can cancel or modify it.
EveryOrderAddressed ==
  \A n \in Node : OnBook(n) => lookup(arena[n].id) = n
=============================================================================
