CONSTANTS
  Cap = 4
  Mod = 8
  Items = 12
SPECIFICATION FairSpec
INVARIANTS
  NoDataRace
  InOrder
  SizeBySide
  RingInv
PROPERTIES
  ImplementsQueue
  AllDelivered
