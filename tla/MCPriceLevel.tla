---- MODULE MCPriceLevel ----
(* Four orders and two-bit quantities: a removal has neighbours on both      *)
(* sides, the total wraps, and a fill of 2 or 3 is negative once cast.       *)
EXTENDS PriceLevel, TLC
Symmetry == Permutations(Orders)
====
