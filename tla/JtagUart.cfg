SPECIFICATION FairSpec
CONSTANTS
  BUF_LEN = 3
  DEPTH = 1
  SERIAL = 6
  MAX_LEN = 2
  INT_MAX = 4
  DEFAULT_TIMEOUT = 2
  HOISTED = FALSE
  Programs = {{"read"}, {"write", "close"}}
  Timeouts = {0, 2}
INVARIANTS
  StreamInv
  NeverStalls
PROPERTY CallsReturn
