----------------------------- MODULE MCGateway -----------------------------
(* Two clients and frames of two units.  Which client is which does not      *)
(* matter.                                                                   *)
EXTENDS Gateway, TLC

Symmetry == Permutations(Conns)
=============================================================================
