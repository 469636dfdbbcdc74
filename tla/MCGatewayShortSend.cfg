SPECIFICATION Spec
CONSTANTS
  NoConn = NoConn
  Conns = {c1, c2}
  MAX_CLIENTS = 1
  Frame = 2
  RING_SIZE = 2
  SendRoom = 3
  MaxSent = 0
  MaxOut = 3
INVARIANTS
  StreamFramed
