SPECIFICATION FairSpec
CONSTANTS
  Capacity = 2
  Words = {lo, hi}
  Items = {a, b}
  NoItem = NoItem
  MaxPush = 5
INVARIANTS
  IndexOrder
  SlotExclusive
PROPERTIES
  RefinesQueue
  EventuallyPopped
