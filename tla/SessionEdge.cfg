\* An image that fills CODE, on the reference and back into a session.
SPECIFICATION FairSpec
CONSTANTS
  CODE_SIZE = 4
  DATA_SIZE = 2
  OUT_CAP = 1
  TICK_BUDGET_DEFAULT = 4
  INT32_MAX = 4
  None = None
  ZeroCell = "BAD"
  MaxSteps = 2
  MaxFrames = 1
  Breaks = {2}
  Watches = {0}
  Wide = {}
  Width <- MCWidth
  VecSeed <- MCVecSeed
  Exec <- MCExec
  Machines <- MCEdgeMachines
  Starts <- MCEdgeStarts
  Paths <- MCPaths
INVARIANTS TakenInstalls
