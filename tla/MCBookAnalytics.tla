-------------------------- MODULE MCBookAnalytics --------------------------
(* The statistics against what the fills so far add up to, and the views     *)
(* against a book given by the total at each of its levels.                  *)
EXTENDS BookAnalytics

MCFills ==
  {[price |-> 1, qty |-> q, side |-> "Buy"] : q \in {1, QtyMod - BUCKET_VOLUME}}
  \cup {[price |-> 2, qty |-> q, side |-> "Sell"] : q \in {2, QtyMod - 1}}

VARIABLE b   \* the book the views look at

Unoccupied == -1

\* The book that a number of orders with the total q at every price gives when
\* those up to price k are bids, with its best prices as OrderBook keeps them.
\* The total of an occupied level may have wrapped, to zero too.
BookOf(k, q) ==
  LET own(s) == {p \in Prices : q[p] # Unoccupied /\ (s = "Buy" <=> p <= k)}
  IN  [qty |-> [s \in {"Buy", "Sell"} |->
                  [p \in Prices |-> IF p \in own(s) THEN q[p] ELSE 0]],
       best |-> [s \in {"Buy", "Sell"} |->
                   IF s = "Buy" THEN Max(own(s) \cup {INVALID_PRICE})
                   ELSE Min(own(s) \cup {MAX_PRICE + 1})]]

\* Every book that is not crossed.
Books == {BookOf(k, q) : k \in 0 .. MAX_PRICE,
                         q \in [Prices -> Quantities \cup {Unoccupied}]}
EmptyBook == BookOf(0, [p \in Prices |-> Unoccupied])

Volume(fs, s) == FoldLeft(LAMBDA n, f : IF f.side = s THEN n + f.qty ELSE n,
                          0, fs)

\* The fills that complete a bucket: those with which the volume since the
\* last one, as far as it fits a Quantity, is BUCKET_VOLUME or more.
Ends ==
  CHOOSE E \in SUBSET DOMAIN fills :
    \A i \in DOMAIN fills :
      LET since == SubSeq(fills, 1 + Max({e \in E : e < i} \cup {0}), i)
      IN  i \in E <=>
            (Volume(since, "Buy") + Volume(since, "Sell")) % QtyMod
              >= BUCKET_VOLUME

\* vpin averages exactly the last VPIN_BUCKETS full buckets, each with the
\* imbalance of its own fills and of no other; volumes are counted at the width
\* of a Quantity, so a fill so large that the bucket's volume wraps may leave
\* the bucket open or distort its imbalance, but none after it.  vwap is
\* weighted with the whole volume, which has no such limit.
VpinWindow ==
  LET cut == <<0>> \o SetToSortSeq(Ends, LAMBDA i, j : i < j)
      n == Len(cut) - 1
      imb(k) == LET fs == SubSeq(fills, cut[k] + 1, cut[k + 1])
                    buy == Volume(fs, "Buy")
                    sell == Volume(fs, "Sell")
                IN  <<Abs((buy % QtyMod) - (sell % QtyMod)),
                      (buy + sell) % QtyMod>>
  IN  /\ vpin_count = IF n < VPIN_BUCKETS THEN n ELSE VPIN_BUCKETS
      /\ \A k \in n - vpin_count + 1 .. n :
           vpin[(k - 1) % VPIN_BUCKETS] = imb(k)
      /\ fills # <<>> =>
           vwap = <<FoldLeft(LAMBDA t, f : t + f.price * f.qty, 0, fills),
                    Volume(fills, "Buy") + Volume(fills, "Sell")>>

SumOver(q, P) == MapThenSumSet(LAMBDA p : q[p], P)

\* Depth is the quantity, at the width of a Quantity, on the prices that lie
\* within n ticks of the touch, on both sides and to the ends of the price
\* range, an empty side included.  In a two-sided book the spread is positive,
\* mid lies between the best prices, and imbalance divides by a positive number;
\* while the quantities at the touch add up to a Quantity it is their difference
\* over their sum, so from minus one to one.  When they do not, the sum wraps
\* and no range is claimed: with 7 against 2 of 8 it is 5 over 1.
ViewsExact ==
  /\ \A n \in 0 .. MAX_PRICE + 1 :
       /\ bid_depth(b, n) = SumOver(b.qty["Buy"],
            {p \in Prices : b.best["Buy"] - p \in 0 .. n - 1}) % QtyMod
       /\ ask_depth(b, n) = SumOver(b.qty["Sell"],
            {p \in Prices : p - b.best["Sell"] \in 0 .. n - 1}) % QtyMod
  /\ ~OneSided(b) =>
       LET bq == b.qty["Buy"][b.best["Buy"]]
           aq == b.qty["Sell"][b.best["Sell"]]
           ratio == imbalance(b)
       IN  /\ spread(b) > 0
           /\ b.best["Buy"] * 2 < mid(b)[1] /\ mid(b)[1] < b.best["Sell"] * 2
           /\ ratio[2] > 0
           /\ bq + aq < QtyMod =>
                /\ ratio[1] * (bq + aq) = (bq - aq) * ratio[2]
                /\ Abs(ratio[1]) <= ratio[2]
=============================================================================
