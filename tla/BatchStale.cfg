\* Two rows stepped two ticks at a time.
SPECIFICATION Spec
CONSTANTS
  NRows = 2
  NBanks = 2
  PageSize = 3
  Byte <- MCByte
  TickBudget = 2
  Protected = {2}
  Program <- Waiting
  Launches = {2}
  MaxLaunches = 2
  MaxInstalls = 0
PROPERTY BusyMeansRunning
\* The batch stops when every row has.
CHECK_DEADLOCK FALSE
