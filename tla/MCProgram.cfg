SPECIFICATION FairSpec
CONSTANTS
  Images = {"radio", "logging", "memory", "profiled", "sleeping", "files", "ending"}
  OBJECTS = 2
  DEPTH = 3
  KHZ = 1000
  PLL_FREQ = 600000
  PHASE_WORD = 65536
  FREQ0 = 1000
  STEP0 = 9
  GAIN0 = 1
  GAIN_MAX = 2
  StepKeys = {"2"}
  TYPED = 2
  WORD = 256
  ECHO_LEN = 3
  INTERVAL = 1
  TICKS = 1
  FLAGS = 3
  Formats <- MCFormats
  Renderings <- MCRenderings
  Writes <- MCWrites
  IRQS = 2
  LINE = 4
  DLINES = 2
  ILINES = 2
  FLUSHDA = FALSE
  Sections <- MCSections
  Heap <- MCHeap
  Flash <- MCFlash
  Lengths = {3, 9}
  SLAB = 12
  BUCKET = 2
  Texts = {4, 6}
  HEAP_LIMIT = 60
  STACK = 50
  Mallocs = {4}
  ThreadCalls <- MCThreadCalls
  IrqCalls <- MCIrqCalls
  CALLS = 3
  SAMPLES = 2
  INT_MAX = 127
  PER_US = 13
  RELOADS = TRUE
  Sleeps <- MCSleeps
  ALT_MAX_FD = 5
  Nodes <- MCNodes
  List <- MCList
  Name <- MCName
  NoName <- MCNoName
  SysInit <- MCSysInit
  Provides <- MCProvides
  Paths <- MCPaths
  OpenFlags <- MCFlags
  StdPath <- MCStd
  NoDev = NoDev
INVARIANTS
  BootInv
  RadioInv
  LoggingInv
  MemInv
  ProfileInv
  SleepsAsAsked
  PoolInv
PROPERTIES
  BlockLeavesCache
  KeysTakeEffect
  LogComesOut
  LockKeepsOthersOut
CHECK_DEADLOCK FALSE
