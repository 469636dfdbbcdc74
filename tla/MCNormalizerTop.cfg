SPECIFICATION NSpec
CONSTANTS
  MAX_PRICE = 40
  FracDigits = 2
  MaxChars = 2
  FirstYear = 1969
  LastYear = 1971
CHECK_DEADLOCK FALSE
INVARIANTS
  WholeRangeRounds
