CONSTANTS
  MinPx = 1
  MaxPx = 2
  MaxOrders = 3
  MaxQty = 2
  QtyMod = 16
SPECIFICATION FairSpec
INVARIANTS
  QInv
  ListsLinked
  SlotsPartitioned
  BestIsBest
PROPERTIES
  ImplementsRules
  LimitReturns
