SPECIFICATION Spec
CONSTANTS
  Conns = {c1, c2}
  NoConn = NoConn
  MAX_CLIENTS = 2
  Frame = 2
  RING_SIZE = 2
  SendRoom = 3
  MaxSent = 4
  MaxOut = 2
SYMMETRY Symmetry
INVARIANTS
  FramesWhole
  SlotsExact
  NoLostEdge
  StreamInOrder
