SPECIFICATION FairSpec
CONSTANTS
  WORD = 8
  ALT_US = 4
  RATE = 2
  Alarms = {a1, a2}
  HEAD = HEAD
  NULL = NULL
  Delays = {0, 6}
  Periods = {1, 7}
  Seconds = {1}
  MicroSeconds = {3}
  Zones = {1}
  StopsNext = FALSE
INVARIANT AlarmInv
PROPERTIES
  TickReturns
  TimeOfDay
