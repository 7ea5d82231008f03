SPECIFICATION NoiseSpec
CONSTANTS
  CLKS_PER_BIT = 87
  DATA_BITS = 3
  GLITCH_MAX = 44
  GAP_MIN = 44
INVARIANT GlitchesRejected
PROPERTIES
  IsRxPort
  IdleLineQuiesces
