CONSTANTS
  N = 3
  RingCap = 4
  MaxEvents = 2
  Packets = 5
SPECIFICATION TimelySpec
INVARIANTS
  NoBufferLost
  PolledIsReadable
PROPERTIES
  ImplementsChannel
  EveryPacketAccounted
