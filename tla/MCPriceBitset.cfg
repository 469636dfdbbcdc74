SPECIFICATION Spec
CONSTANTS
  WordBits = 2
  PRICE_LEVELS = 10
INVARIANTS
  TiersExact
  HighestExact
  LowestExact
