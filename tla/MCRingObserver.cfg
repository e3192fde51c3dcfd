CONSTANTS
  Cap = 2
  Mod = 8
  Items = 4
SPECIFICATION ObservedSpec
INVARIANT
  SizeIsOccupancy
