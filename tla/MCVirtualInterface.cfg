CONSTANTS
  N = 3
  RingCap = 4
  MaxEvents = 2
  Packets = 5
SPECIFICATION Spec
INVARIANTS
  InterfaceInv
  OneOwner
  PayloadIntact
  PostNeverFails
  EventPushNeverFails
  StatsConserved
CHECK_DEADLOCK FALSE
