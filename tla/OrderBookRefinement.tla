------------------------- MODULE OrderBookRefinement -------------------------
(***************************************************************************)
(* The order book implements price-time priority: OrderBook, seen through  *)
(* the mapping below, is a PriceTimeBook.                                  *)
(***************************************************************************)
EXTENDS OrderBook

\* An order as its owner knows it.
Visible(o) ==
  [id |-> o.id, client |-> o.client, side |-> o.side, type |-> o.type,
   price |-> o.price, left |-> remaining(o)]

\* The i-th best price of a side.
PriceAt(s, i) == IF s = "Buy" THEN MAX_PRICE + 1 - i ELSE i

\* The levels L of a side from the best price to the worst, joined.
Merged(s, L) == FlattenSeq([i \in 1 .. MAX_PRICE |-> L[PriceAt(s, i)]])

\* The orders that the nodes of q hold in arena a.
Shown(a, q) == [i \in 1 .. Len(q) |-> Visible(a[q[i]])]

Queues == [s \in Sides |-> Shown(arena, Merged(s, levels[s]))]
InMatching == IF pc = "match" THEN <<Visible(arena[aggressor])>> ELSE <<>>

Promise == INSTANCE PriceTimeBook
  WITH Incoming <- [id : 1 .. MaxId, client : Clients, side : Sides,
                    type : OrderTypes, price : AnyPrice, left : AnyQty],
       queues <- Queues, taker <- InMatching, trades <- fills

\* Every trade is with the best price and, there, the order that has waited
\* longest; every remainder joins the back of its price; nothing but a trade
\* and its owner's cancel or modify takes an order off the book.
PriceTimePriority == Promise!PSpec
=============================================================================
