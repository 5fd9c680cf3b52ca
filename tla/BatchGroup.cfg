\* A group of three rows and a partial one, launched one tick at a time and
\* without a limit, with a record put back between launches.
SPECIFICATION FairSpec
CONSTANTS
  NRows = 4
  NBanks = 3
  PageSize = 3
  Byte <- MCByte
  TickBudget = 2
  Protected = {2}
  Program <- MCProgram
  Launches = {0, 1}
  MaxLaunches = 2
  MaxInstalls = 1
INVARIANTS TypeOK InFlightAlone
PROPERTIES OwnerExclusive RegionsIntact KeepsPromise LaunchEnds
\* The batch stops when every row has.
CHECK_DEADLOCK FALSE
