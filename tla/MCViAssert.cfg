CONSTANTS
  N = 2
  RingCap = 2
  MaxEvents = 2
  Packets = 3
SPECIFICATION Spec
INVARIANT
  CompletesOnlyPosted
