CONSTANT
  Iters = 4
SPECIFICATION FairSpec
INVARIANTS
  NotBothZero
  RoundsApart
PROPERTY
  AllRounds
