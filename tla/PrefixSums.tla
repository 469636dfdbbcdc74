----------------------------- MODULE PrefixSums -----------------------------
(***************************************************************************)
(* Sums over a sequence, as a recursive function so that they can be both *)
(* evaluated and reasoned about.                                           *)
(***************************************************************************)
EXTENDS Integers

\* v[1] + ... + v[n].
PrefixSum(v, n) ==
  LET sum[i \in 0 .. n] == IF i = 0 THEN 0 ELSE sum[i - 1] + v[i]
  IN  sum[n]
=============================================================================
