SPECIFICATION MCSpec
CONSTANTS
  MAX_PRICE = 3
  FracDigits = 2
  MaxChars = 6
  FirstYear = 0
  LastYear = 2401
  VPIN_BUCKETS = 2
  BUCKET_VOLUME = 3
  QtyMod = 8
  MaxFills = 7
  Fills <- MCFills
CHECK_DEADLOCK FALSE
INVARIANTS
  SplitExact
  ViewsBalanced
  TimestampExact
  CentsExact
  VpinWindow
  ViewsExact
