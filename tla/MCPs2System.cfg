SPECIFICATION SystemFairSpec
CONSTANTS
  CYCLES = 2
  DATA_BITS = 2
  HOLD = 3
  SETUP = 1
  LOW = 3
  GAP = 11
  ScanCodes <- Codes
  Code <- ScanCode
INVARIANT ReadInv
PROPERTIES
  DeliversEventually
  ReturnsFreshKey
  WaitReturns
