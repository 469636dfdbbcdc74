---------------------------- MODULE MCNormalizer ----------------------------
(* The normaliser's functions against reference definitions.  A state is one *)
(* input: a frame, built character by character up to MaxChars; a year with  *)
(* the days from 1970-01-01 to its first day, counted one year at a time in  *)
(* both directions; or an amount of money.                                   *)
EXTENDS Normalizer, FiniteSets

CONSTANTS MaxChars,            \* bound: length of a frame
          FirstYear, LastYear  \* bound: the calendar that is walked

VARIABLE input

NInit == input \in {[frame |-> <<>>], [year |-> 1970, days |-> 0]}
                     \cup {[amount |-> d] : d \in -1 .. 5 * MAX_PRICE + 5}

YearLength(y) == IF Leap(y) THEN 366 ELSE 365

NextChar == /\ "frame" \in DOMAIN input /\ Len(input.frame) < MaxChars
            /\ \E c \in Chars : input' = [frame |-> Append(input.frame, c)]

NextYear == /\ "year" \in DOMAIN input /\ input.year \in 1970 .. LastYear - 1
            /\ input' = [year |-> input.year + 1,
                         days |-> input.days + YearLength(input.year)]

PrevYear ==
  /\ "year" \in DOMAIN input /\ input.year \in FirstYear + 1 .. 1970
  /\ input' = [year |-> input.year - 1,
               days |-> input.days - YearLength(input.year - 1)]

NNext == NextChar \/ NextYear \/ PrevYear

NSpec == NInit /\ [][NNext]_input

-----------------------------------------------------------------------------
(* Frames, by counting *)

\* Character i is escaped: the backslashes just before it are odd in number.
Escaped(f, i) ==
  \E k \in 0 .. i - 1 : /\ k % 2 = 1
                        /\ \A j \in i - k .. i - 1 : f[j] = "escape"
                        /\ i - k = 1 \/ f[i - k - 1] # "escape"

InString(f, i) ==
  Cardinality({j \in 1 .. i - 1 : f[j] = "quote" /\ ~Escaped(f, j)}) % 2 = 1

Brace(f, i, c) == f[i] = c /\ ~InString(f, i) /\ ~Escaped(f, i)

\* Objects open after i characters.
Depth(f, i) == Cardinality({j \in 1 .. i : Brace(f, j, "{")})
                 - Cardinality({j \in 1 .. i : Brace(f, j, "}")})

\* No brace closes what was not opened.
WellFormed(f) == \A i \in 1 .. Len(f) : Depth(f, i) >= 0

\* The outermost objects, by their first and last character.
Objects(f) ==
  {ij \in (1 .. Len(f)) \X (1 .. Len(f)) :
     /\ ij[1] < ij[2]
     /\ Brace(f, ij[1], "{") /\ Depth(f, ij[1] - 1) = 0
     /\ Brace(f, ij[2], "}") /\ Depth(f, ij[2]) = 0
     /\ \A k \in ij[1] .. ij[2] - 1 : Depth(f, k) > 0}

\* for_each_object hands out exactly the outermost objects of a frame, in the
\* order of the text, whatever braces and escaped quotes its strings contain,
\* also when the frame ends in the middle of an object.
SplitExact ==
  "frame" \in DOMAIN input /\ WellFormed(input.frame) =>
    LET f == input.frame
    IN  for_each_object(f) =
          [k \in 1 .. Cardinality(Objects(f)) |->
             LET ij == CHOOSE o \in Objects(f) :
                         Cardinality({p \in Objects(f) : p[1] <= o[1]}) = k
             IN  SubSeq(f, ij[1], ij[2])]

\* Whatever a frame holds, stray braces included, what for_each_object takes
\* for an object is one: split again it gives itself and nothing else, so
\* normalize never sees the end of one object and the start of the next.
ViewsBalanced ==
  "frame" \in DOMAIN input =>
    LET views == for_each_object(input.frame)
    IN  \A k \in DOMAIN views : for_each_object(views[k]) = <<views[k]>>

-----------------------------------------------------------------------------
(* Timestamps and prices *)

\* Days of the year before the first of month m.
Before(y, m) == FoldLeft(LAMBDA n, k : n + MonthLength(y, k), 0,
                         [k \in 1 .. m - 1 |-> k])

\* Fractions of a second with as many digits as the scale has, fewer and more.
Fractions == UNION {[1 .. n -> {0, 7, 9}] : n \in 0 .. FracDigits + 1}

\* 1970 has this many whole months before the smallest scale leaves TLC's
\* integers.
Months70 == 1 .. 8

\* A civil date becomes the number of days counted from the epoch, for every
\* day of every year, leap and century years included; and a time of day is
\* the units passed since then, whatever number of digits the fraction has.
TimestampExact ==
  "year" \in DOMAIN input =>
    LET y == input.year
    IN  /\ \A m \in 1 .. 12 : \A d \in 1 .. MonthLength(y, m) :
             days_from_civil(y, m, d) = input.days + Before(y, m) + d - 1
        /\ y = 1970 =>
             \A m \in Months70, d \in {1, 28}, h \in {0, 23}, frac \in Fractions :
               LET time == [y |-> y, mo |-> m, d |-> d, h |-> h, mi |-> 59,
                            s |-> 58, frac |-> frac]
                   digit(k) == IF k <= Len(frac) THEN frac[k] ELSE 0
               IN  parse_rfc3339_ns(time) =
                     FoldLeft(LAMBDA n, k : 10 * n + digit(k),
                              ((Before(y, m) + d - 1) * 24 + h) * 3600 + 3598,
                              [k \in 1 .. FracDigits |-> k])

\* An amount below the top price becomes the cent nearest to it, and no amount,
\* however the half that is added for rounding falls, becomes a price the book
\* would reject or another price than the nearest.
CentsExact == "amount" \in DOMAIN input => Rounds(input.amount)

\* What types.h:16 ("Range covers $0.01 .. $10,000.00") and feed_normalizer.h:36
\* ("rounded to nearest") say together: an amount nearest to a price of the
\* range, its ends included, becomes that price, and any other amount none.
WholeRangeRounds ==
  "amount" \in DOMAIN input =>
    LET c == NearestCent(input.amount)
    IN  to_cents(input.amount) = IF c \in Prices THEN c ELSE INVALID_PRICE
=============================================================================
