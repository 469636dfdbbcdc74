SPECIFICATION FairSpec
CONSTANTS
  MAX_PRICE = 4
  FracDigits = 2
  Mark = 1
  Base = 2
  Mid = 1
  Wide = 2
  MaskLen = 2
  MaxAwait = 2
  MaxFrames = 4
  Window = 8
  ServerFrames <- MCServerFrames
  RecUnits = 2
  FlushEvery = 2
  QtyMod = 65536
  Options <- MCOptions
CHECK_DEADLOCK FALSE
INVARIANTS
  FramesFaithful
  PongsEcho
  EmissionExact
  ReplayFaithful
PROPERTIES
  EventuallyPonged
