CONSTANTS
  Buffers = 2
  Batch = 2
  MaxPoll = 2
  SockCap = 2
  Count = 3
  Senders = 2
  kBuckets = 4
  Largest = 40
  Samples = {0, 1, 2, 7, 40}
  MaxCount = 6
SPECIFICATION AnyFairSpec
INVARIANTS
  SocketOutlivesThread
  FinalCounts
  GapsAreLosses
  PercentilesBracket
PROPERTY
  ReceiverEnds
