---------------------------- MODULE PriceTimeBook ----------------------------
(***************************************************************************)
(* What the order book promises: price-time priority.  Each side is one    *)
(* queue in priority order; an incoming order trades with the head of the  *)
(* opposite queue for as long as the prices agree, and what is left of a   *)
(* limit order waits behind every order that is at least as good.  There   *)
(* is no pool, no order table, no price array, no bitset and no cached     *)
(* best price: these are what module OrderBook adds.                       *)
(***************************************************************************)
EXTENDS Integers, Sequences, FiniteSets, SequencesExt

CONSTANTS Incoming   \* the orders that may come in, as records
                     \* [id, client, side, type, price, left]

VARIABLES queues,    \* the resting orders of each side, best first
          taker,     \* the order being matched, as a sequence of at most one
          trades     \* the trades of the current call

pvars == <<queues, taker, trades>>

Other(s) == IF s = "Buy" THEN "Sell" ELSE "Buy"

\* Price p is acceptable to a resting order of side s that asks for q.
AtLeastAsGood(s, p, q) == IF s = "Buy" THEN p >= q ELSE p <= q

PInit == /\ queues = [s \in {"Buy", "Sell"} |-> <<>>]
         /\ taker = <<>>
         /\ trades = <<>>

\* A new call forgets the trades of the one before.
Forget == trades' = <<>> /\ UNCHANGED <<queues, taker>>

Enter == /\ taker = <<>>
         /\ taker' \in [{1} -> Incoming]
         /\ UNCHANGED <<queues, trades>>

\* The taker o may trade with the head of the opposite queue.
Agree(o) ==
  /\ o.left > 0
  /\ queues[Other(o.side)] # <<>>
  /\ o.type # "Market" =>
       AtLeastAsGood(Other(o.side), Head(queues[Other(o.side)]).price, o.price)

\* One trade, at the resting order's price and for as much as both can give.
Trade(o) ==
  LET s == Other(o.side)
      r == Head(queues[s])
      q == IF o.left <= r.left THEN o.left ELSE r.left
      bid == IF o.side = "Buy" THEN o ELSE r
      ask == IF o.side = "Buy" THEN r ELSE o
  IN  /\ taker = <<o>>
      /\ Agree(o)
      /\ taker' = <<[o EXCEPT !.left = @ - q]>>
      /\ queues' = [queues EXCEPT ![s] =
           (IF q = r.left THEN <<>> ELSE <<[r EXCEPT !.left = @ - q]>>)
             \o Tail(@)]
      /\ trades' = Append(trades,
           [bid_id |-> bid.id, ask_id |-> ask.id, bid_client |-> bid.client,
            ask_client |-> ask.client, price |-> r.price, quantity |-> q])

\* The orders of queue q that o must wait behind.
Ahead(q, o) ==
  {i \in 1 .. Len(q) : AtLeastAsGood(o.side, q[i].price, o.price)}

\* The taker can trade no more: the rest of a limit order waits, anything
\* else is dropped.
Settle(o) ==
  /\ taker = <<o>>
  /\ ~Agree(o)
  /\ taker' = <<>>
  /\ queues' =
       IF o.left > 0 /\ o.type = "Limit"
         THEN [queues EXCEPT ![o.side] =
                 InsertAt(@, Cardinality(Ahead(@, o)) + 1, o)]
         ELSE queues
  /\ UNCHANGED trades

\* A resting order is withdrawn, by a cancel or as the first half of a modify.
Withdraw(s, k) ==
  /\ taker = <<>>
  /\ k \in 1 .. Len(queues[s])
  /\ queues' = [queues EXCEPT ![s] = RemoveAt(@, k)]
  /\ trades' \in {trades, <<>>}
  /\ UNCHANGED taker

PNext == \/ Forget
         \/ Enter
         \/ \E i \in 1 .. Len(taker) : Trade(taker[i]) \/ Settle(taker[i])
         \/ \E s \in {"Buy", "Sell"} : \E k \in 1 .. Len(queues[s]) :
              Withdraw(s, k)

PSpec == PInit /\ [][PNext]_pvars
=============================================================================
