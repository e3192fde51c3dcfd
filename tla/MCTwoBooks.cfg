CONSTANTS
  MinPx = 1
  MaxPx = 2
  MaxOrders = 3
  MaxQty = 2
  QtyMod = 16
  StlQtyMod = 3
  Submits = 5
SPECIFICATION BothSpec
INVARIANTS
  SameResults
  NoStaleHit
  CopiesAgree
PROPERTY
  StlImplementsRules
