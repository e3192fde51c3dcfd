CONSTANTS
  Cap = 2
  Iters = 6
SPECIFICATION FairSpec
INVARIANT
  WholeMessages
PROPERTY
  PassingEnds
