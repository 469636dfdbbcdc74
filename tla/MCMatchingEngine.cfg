SPECIFICATION EFairSpec
CONSTANTS
  PoolCapacity = 3
  MAX_ORDERS = 2
  MAX_PRICE = 2
  Clients = {1}
  MaxQty = 2
  MaxId = 4
  RING_SIZE = 3
  MaxArrivals = 4
  Requests <- MCRequests
INVARIANTS
  FillsReported
  ReportsOrdered
PROPERTIES
  InboundServed
CHECK_DEADLOCK FALSE
