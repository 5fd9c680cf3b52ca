\* Three machines tick together, a record put back into one of them between two
\* group ticks.
SPECIFICATION FairSpec
CONSTANTS
  NBanks = 3
  PageSize = 2
  Byte <- MCByte
  TickBudget <- MCTickBudget
  Regions <- MCRegions
  Order <- IndexOrder
  Image <- MCImage
  Program <- MCProgram
  Snapshots <- MCSnapshots
  MaxInstalls = 1
  MaxGroupTicks = 2
INVARIANTS TypeOK LatchHolds
PROPERTIES OwnerExclusive RegionsIntact ErrorCommitsNothing StoppedIsFrozen KeepsPromise RunEnds
\* The group stops when every member has.
CHECK_DEADLOCK FALSE
