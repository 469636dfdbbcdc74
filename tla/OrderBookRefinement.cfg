SPECIFICATION Spec
CONSTANTS
  PoolCapacity = 3
  MAX_ORDERS = 2
  MAX_PRICE = 2
  Clients = {1}
  MaxQty = 2
  MaxId = 3
INVARIANTS
  TypeOK
  BboExact
  NotCrossed
  PoolPartition
  RestingSound
  TableSound
  LiveIdsUnique
  NeverWedged
PROPERTIES
  PriceTimePriority
