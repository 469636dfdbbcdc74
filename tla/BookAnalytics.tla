---------------------------- MODULE BookAnalytics ----------------------------
(***************************************************************************)
(* src/analytics/book_analytics.h: volume statistics over the fills, and   *)
(* views of a book.  A Quantity wraps at QtyMod (2^32); a ratio, computed  *)
(* in floating point by the code, is the pair of its terms.                *)
(*                                                                         *)
(* A book is what the views read of it: the quantity at every price and    *)
(* the best price of both sides.                                           *)
(***************************************************************************)
EXTENDS Types, Sequences, FiniteSets, SequencesExt

CONSTANTS VPIN_BUCKETS, BUCKET_VOLUME,
          QtyMod,    \* values of a Quantity
          Fills,     \* the fills that may happen
          MaxFills   \* bound: fills in one behaviour

ASSUME VpinAssumption == {VPIN_BUCKETS, BUCKET_VOLUME} \subseteq Nat \ {0}
ASSUME WidthAssumption == QtyMod \in Nat /\ QtyMod > BUCKET_VOLUME
ASSUME MaxFillsAssumption == MaxFills \in Nat

Quantities == 0 .. QtyMod - 1

ASSUME FillAssumption ==
  Fills \subseteq [price : Prices, qty : Quantities, side : {"Buy", "Sell"}]

VARIABLES current,       \* current_buy_vol_, current_sell_vol_ and
                         \* current_bucket_vol_
          vpin_history, vpin_idx, vpin_count,
          total_volume, vwap_numer,
          fills          \* history: all fills so far

vars == <<current, vpin_history, vpin_idx, vpin_count, total_volume,
          vwap_numer, fills>>

NoVolume == [buy |-> 0, sell |-> 0, bucket |-> 0]

Init == /\ current = NoVolume
        /\ vpin_history = [i \in 0 .. VPIN_BUCKETS - 1 |-> <<0, 1>>]
        /\ vpin_idx = 0 /\ vpin_count = 0
        /\ total_volume = 0 /\ vwap_numer = 0
        /\ fills = <<>>

-----------------------------------------------------------------------------
(* Fills *)

Abs(n) == IF n < 0 THEN -n ELSE n

\* The imbalance of a bucket; without volume it is zero.
Imbalance(v) == LET total == (v.buy + v.sell) % QtyMod
                IN  IF total > 0 THEN <<Abs(v.buy - v.sell), total>> ELSE <<0, 1>>

\* Variant of NextBucket that carries what exceeds the bucket over.
NextBucketCarry(v) == [NoVolume EXCEPT !.bucket = v.bucket - BUCKET_VOLUME]

\* A full bucket is followed by an empty one: the excess is not carried over.
NextBucket(v) == NoVolume

on_fill(f) ==
  LET side_vol == IF f.side = "Buy" THEN "buy" ELSE "sell"
      v == [current EXCEPT ![side_vol] = (@ + f.qty) % QtyMod,
                           !.bucket = (@ + f.qty) % QtyMod]
      full == v.bucket >= BUCKET_VOLUME
  IN  /\ total_volume' = total_volume + f.qty
      /\ vwap_numer' = vwap_numer + f.price * f.qty
      /\ IF full
           THEN /\ vpin_history' = [vpin_history EXCEPT
                                      ![vpin_idx % VPIN_BUCKETS] = Imbalance(v)]
                /\ vpin_idx' = vpin_idx + 1
                /\ vpin_count' = IF vpin_count < VPIN_BUCKETS
                                   THEN vpin_count + 1 ELSE vpin_count
                /\ current' = NextBucket(v)
           ELSE /\ current' = v
                /\ UNCHANGED <<vpin_history, vpin_idx, vpin_count>>
      /\ fills' = Append(fills, f)

\* vwap and vpin, each a sum and what it is divided by; vpin's terms apart.
vwap == IF total_volume > 0 THEN <<vwap_numer, total_volume>> ELSE <<0, 1>>
vpin == [i \in 0 .. vpin_count - 1 |-> vpin_history[i]]

Next == Len(fills) < MaxFills /\ \E f \in Fills : on_fill(f)

Spec == Init /\ [][Next]_vars

-----------------------------------------------------------------------------
(* Views of a book: b.qty[side][price], b.best[side] *)

OneSided(b) == b.best["Buy"] = INVALID_PRICE \/ b.best["Sell"] > MAX_PRICE

spread(b) == IF OneSided(b) THEN 0 ELSE b.best["Sell"] - b.best["Buy"]
mid(b) == IF OneSided(b) THEN <<0, 2>>
          ELSE <<b.best["Buy"] + b.best["Sell"], 2>>
imbalance(b) ==
  LET bq == b.qty["Buy"][b.best["Buy"]]
      aq == b.qty["Sell"][b.best["Sell"]]
      total == (bq + aq) % QtyMod
  IN  IF OneSided(b) \/ total = 0 THEN <<0, 1>> ELSE <<bq - aq, total>>

\* Variant of InRange that leaves out the lowest price.
InRangeAbove(p) == p \in Prices \ {MIN_PRICE}

\* The price tests of the two loops.
InRange(p) == p \in Prices

\* The loops of bid_depth (step -1) and ask_depth (step 1): the quantity at
\* n prices in a row, from the best one on.
depth(b, s, step, n) ==
  FoldLeft(LAMBDA total, p : IF InRange(p) THEN (total + b.qty[s][p]) % QtyMod
                             ELSE total,
           0, [i \in 1 .. n |-> b.best[s] + step * (i - 1)])
bid_depth(b, n) == depth(b, "Buy", -1, n)
ask_depth(b, n) == depth(b, "Sell", 1, n)
=============================================================================
