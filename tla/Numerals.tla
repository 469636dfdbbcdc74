------------------------------ MODULE Numerals ------------------------------
(***************************************************************************)
(* Positional numbers, by a recursive function so that they can be both    *)
(* evaluated and reasoned about.                                           *)
(***************************************************************************)
EXTENDS Integers

\* The number whose digits to base b are v[1], ..., v[n].
Numeral(v, b, n) ==
  LET num[i \in 0 .. n] == IF i = 0 THEN 0 ELSE num[i - 1] * b + v[i]
  IN  num[n]

\* b to the power k: one, followed by k zeros.
Power(b, k) == Numeral([i \in 1 .. k + 1 |-> IF i = 1 THEN 1 ELSE 0], b, k + 1)
=============================================================================
