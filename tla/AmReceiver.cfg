SPECIFICATION AmFairSpec
CONSTANTS
  LEVELS = 8
  DECIMATION = 16
  COUNTS = 16
INVARIANT DutyInv
PROPERTIES
  SamplesInOrder
  PlayedEvenly
