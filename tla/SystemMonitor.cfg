SPECIFICATION FairSpec
CONSTANTS
  COUNTER_MAX = 7
  LOCK_TIME = 3
  Clocks = {sys}
INVARIANT HeldWithoutLock
PROPERTIES
  GoodPllNotReset
  SystemRuns
