----------------------------- MODULE Normalizer -----------------------------
(***************************************************************************)
(* src/feed/feed_normalizer.h: Alpaca's JSON messages to capture records.  *)
(* Everything here is a pure function of its input.                        *)
(*                                                                         *)
(*  - A dollar amount is a number of fifths of a cent: a decimal fraction  *)
(*    finer than the tick that is never exactly half way between two       *)
(*    cents, where a double may fall on either side.                       *)
(*  - A frame is a sequence of characters, of which only the four that     *)
(*    for_each_object looks at are told apart.                             *)
(*  - An object is the sequence of its key-value pairs as they come in     *)
(*    the text, those of nested objects included.                          *)
(***************************************************************************)
EXTENDS Types, Sequences, SequencesExt

CONSTANT FracDigits   \* digits of a second's fraction: 9, nanoseconds

ASSUME FracAssumption == FracDigits \in Nat \ {0}

-----------------------------------------------------------------------------
\* Variant of to_cents that truncates.
to_cents_trunc(d) ==
  IF d <= 0 \/ d > 5 * MAX_PRICE THEN INVALID_PRICE ELSE d \div 5

\* Dollars to cents, rounded to nearest: d / 5 + 1 / 2, cut off.  Zero is what
\* every amount out of range becomes.
to_cents(d) ==
  IF d <= 0 \/ 2 * d + 5 > 10 * MAX_PRICE THEN INVALID_PRICE
  ELSE (2 * d + 5) \div 10

\* Reference: c is the cent nearest to an amount, among those up to just above
\* the range.
Cents == 0 .. MAX_PRICE + 1
Nearest(c, d) ==
  \A e \in Cents : (5 * c - d) * (5 * c - d) <= (5 * e - d) * (5 * e - d)

NearestCent(d) == CHOOSE c \in Cents : Nearest(c, d)

\* An amount nearest to a cent below the top price becomes that cent, and one
\* nearest to a cent above the range becomes no price.  For one nearest to the
\* top price this leaves open whether it becomes that price or none.
Rounds(d) ==
  LET c == NearestCent(d)
  IN  to_cents(d) \in IF c < MAX_PRICE THEN {c}
                      ELSE IF c > MAX_PRICE THEN {INVALID_PRICE}
                      ELSE {MAX_PRICE, INVALID_PRICE}

-----------------------------------------------------------------------------
(* Timestamps *)

\* Variant of days_from_civil without the rule for centuries.
days_julian(y, m, d) ==
  LET Y == IF m <= 2 THEN y - 1 ELSE y
      doy == (153 * (IF m > 2 THEN m - 3 ELSE m + 9) + 2) \div 5 + d - 1
  IN  (Y \div 400) * 146097 + (Y % 400) * 365 + (Y % 400) \div 4 + doy - 719468

\* Days since 1970-01-01.
days_from_civil(y, m, d) ==
  LET Y == IF m <= 2 THEN y - 1 ELSE y
      era == Y \div 400
      yoe == Y - era * 400
      doy == (153 * (IF m > 2 THEN m - 3 ELSE m + 9) + 2) \div 5 + d - 1
      doe == yoe * 365 + yoe \div 4 - yoe \div 100 + doy
  IN  era * 146097 + doe - 719468

\* Reference: the Gregorian calendar.
Leap(y) == (y % 4 = 0 /\ y % 100 # 0) \/ y % 400 = 0
MonthLength(y, m) == CASE m = 2 -> IF Leap(y) THEN 29 ELSE 28
                       [] m \in {4, 6, 9, 11} -> 30
                       [] OTHER -> 31

\* The fraction of a second: at most FracDigits digits, padded with zeros.
nanos(frac) ==
  LET k == IF Len(frac) < FracDigits THEN Len(frac) ELSE FracDigits
  IN  FoldLeft(LAMBDA n, digit : n * 10 + digit, 0, SubSeq(frac, 1, k))
        * 10 ^ (FracDigits - k)

\* A timestamp as its numbers, or NoTime for one that is too short.
NoTime == <<>>

parse_rfc3339_ns(t) ==
  IF t = NoTime THEN 0
  ELSE (days_from_civil(t.y, t.mo, t.d) * 86400
          + t.h * 3600 + t.mi * 60 + t.s) * 10 ^ FracDigits + nanos(t.frac)

-----------------------------------------------------------------------------
(* Objects *)

\* A value is a string, [str |-> v], or a number, [num |-> v].
None == [none |-> TRUE]

\* The value after the first occurrence of the key.
field(obj, key) ==
  LET at == SelectInSeq(obj, LAMBDA kv : kv[1] = key)
  IN  IF at = 0 THEN None ELSE obj[at][2]

\* strtod reads a quoted number as zero.
field_num(obj, key) ==
  LET v == field(obj, key)
  IN  IF v = None \/ "num" \in DOMAIN v THEN v ELSE [num |-> 0]

field_str(obj, key) ==
  LET v == field(obj, key)
  IN  IF v # None /\ "str" \in DOMAIN v THEN v ELSE None

\* A size that is not there counts as zero.
SizeOf(v) == IF v = None THEN 0 ELSE v.num

\* A price is there and in range.
Priced(v) == v # None /\ to_cents(v.num) # INVALID_PRICE

\* The capture record of a quote or a trade; None for anything else.  A type
\* stands for its first letter.
normalize(obj) ==
  LET kind == field_str(obj, "T")
      sym == field_str(obj, "S")
      ts == field_str(obj, "t")
      num(key) == field_num(obj, key)
      rec(p1, s1, p2, s2) ==
        [type |-> kind.str, symbol |-> sym.str,
         p1 |-> to_cents(num(p1).num), s1 |-> SizeOf(num(s1)),
         p2 |-> IF kind.str = "q" THEN to_cents(num(p2).num) ELSE 0,
         s2 |-> IF kind.str = "q" THEN SizeOf(num(s2)) ELSE 0,
         venue_ns |-> IF ts = None THEN 0 ELSE parse_rfc3339_ns(ts.str)]
  IN  IF kind = None \/ sym = None THEN None
      ELSE IF kind.str = "q" /\ Priced(num("bp")) /\ Priced(num("ap"))
        THEN rec("bp", "bs", "ap", "as")
      ELSE IF kind.str = "t" /\ Priced(num("p")) THEN rec("p", "s", "", "")
      ELSE None

-----------------------------------------------------------------------------
(* Splitting a frame into its objects *)

Chars == {"{", "}", "quote", "escape", "other"}

\* Variant of Closes that also fires on a brace that closes nothing.
ClosesStray(depth) == depth <= 1

\* A closing brace ends an object when it takes depth to zero.
Closes(depth) == depth = 1

\* Variant of Scan that forgets that a quote may be escaped.
ScanNoEscape(frame, s, i) ==
  LET c == frame[i]
  IN  IF c = "quote" THEN [s EXCEPT !.in_str = ~@]
      ELSE IF s.in_str THEN s
      ELSE IF c = "{"
        THEN [s EXCEPT !.depth = @ + 1,
                       !.start = IF s.depth = 0 THEN i ELSE @]
      ELSE IF c = "}"
        THEN [s EXCEPT !.depth = @ - 1,
                       !.views = IF Closes(s.depth)
                                   THEN Append(@, SubSeq(frame, s.start, i))
                                   ELSE @]
      ELSE s

\* One turn of the loop of for_each_object.
Scan(frame, s, i) ==
  LET c == frame[i]
  IN  IF s.esc THEN [s EXCEPT !.esc = FALSE]
      ELSE IF c = "escape" THEN [s EXCEPT !.esc = TRUE]
      ELSE IF c = "quote" THEN [s EXCEPT !.in_str = ~@]
      ELSE IF s.in_str THEN s
      ELSE IF c = "{"
        THEN [s EXCEPT !.depth = @ + 1,
                       !.start = IF s.depth = 0 THEN i ELSE @]
      ELSE IF c = "}"
        THEN [s EXCEPT !.depth = @ - 1,
                       !.views = IF Closes(s.depth)
                                   THEN Append(@, SubSeq(frame, s.start, i))
                                   ELSE @]
      ELSE s

\* The views that fn is called with, in order.
for_each_object(frame) ==
  FoldLeftDomain(LAMBDA s, i : Scan(frame, s, i),
                 [depth |-> 0, in_str |-> FALSE, esc |-> FALSE, start |-> 1,
                  views |-> <<>>], frame).views
=============================================================================
