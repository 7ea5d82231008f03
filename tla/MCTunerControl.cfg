SPECIFICATION ControlFairSpec
CONSTANTS
  PHASE_MOD = 41
  STEP_9K = 9
  STEP_1K = 5
  STEP_100 = 2
  Preset <- Stations
  Keys <- SomeKeys
INVARIANT CrossingInv
PROPERTY KeysTakeEffect
