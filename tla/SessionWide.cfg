\* A record within the contract whose scalar no cell of a circuit holds.
SPECIFICATION FairSpec
CONSTANTS
  CODE_SIZE = 4
  DATA_SIZE = 2
  OUT_CAP = 1
  TICK_BUDGET_DEFAULT = 3
  INT32_MAX = 3
  None = None
  ZeroCell = "BAD"
  MaxSteps = 2
  MaxFrames = 1
  Breaks = {2}
  Watches = {0}
  Wide = {"tick", "STC_COUNT"}
  Width <- MCWidth
  VecSeed <- MCVecSeed
  Exec <- MCExec
  Machines <- MCMachines
  Starts <- MCStarts
  Paths <- MCPaths
PROPERTIES RefusalWritesNothing
