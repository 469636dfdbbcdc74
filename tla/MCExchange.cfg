SPECIFICATION XSpec
CONSTANTS
  c1 = c1
  c2 = c2
  Conns = {c1, c2}
  NoConn = NoConn
  MAX_CLIENTS = 2
  Frame = 1
  RING_SIZE = 5
  SendRoom = 5
  MaxSent = 2
  MaxOut = 0
  Script <- MCScript
  PoolCapacity = 2
  MAX_ORDERS = 2
  MAX_PRICE = 1
  Clients = {1, 2}
  MaxQty = 1
  MaxId = 2
INVARIANTS
  ShutdownClean
CHECK_DEADLOCK FALSE
PROPERTIES
  OrdersAnswered
  SlotsReleased
  Terminates
