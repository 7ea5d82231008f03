SPECIFICATION LinkFairSpec
CONSTANTS
  CLKS_PER_BIT = 87
  DATA_BITS = 8
  BIT_MIN = 90
  BIT_MAX = 91
  Sendable <- Commands
INVARIANT LinkInv
PROPERTY DeliversEventually
