-------------------------------- MODULE Types --------------------------------
(* src/core/types.h: prices, which are integer cents. *)
EXTENDS Integers

CONSTANT MAX_PRICE

ASSUME PriceAssumption == MAX_PRICE \in Nat \ {0}

MIN_PRICE == 1
INVALID_PRICE == 0
Prices == MIN_PRICE .. MAX_PRICE
=============================================================================
