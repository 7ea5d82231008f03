SPECIFICATION EchoFairSpec
CONSTANTS
  CLKS_PER_BIT = 3
  DATA_BITS = 2
  Sendable <- Bytes
  DELAY = 12
  CAPACITY = 3
INVARIANT EchoInv
PROPERTIES
  WellFormedFrames
  EchoesInOrder
  EchoFollows
