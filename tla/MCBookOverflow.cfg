CONSTANTS
  MinPx = 1
  MaxPx = 2
  MaxOrders = 3
  MaxQty = 3
  QtyMod = 4
SPECIFICATION Spec
PROPERTY
  ImplementsRules
