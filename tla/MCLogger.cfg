CONSTANTS
  Cap = 2
  Iters = 8
SPECIFICATION FairSpec
INVARIANTS
  NothingLeft
  LogInOrder
PROPERTIES
  LoggerEnds
  DropNeverWaits
