SPECIFICATION FairSpec
CONSTANTS
  ALT_NIRQ = 2
  Handlers = {isr, isr2}
  NULL = NULL
  NestedEnables = FALSE
INVARIANT IrqInv
PROPERTY Served
