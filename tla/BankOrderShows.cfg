\* Two stepping orders compared, for what the documents say of them.
SPECIFICATION OSpec
CONSTANTS
  NBanks = 3
  PageSize = 2
  Byte <- MCByte
  TickBudget <- MCTickBudget
  Regions <- MCRegions
  Image <- MCImage
  Program <- MCProgram
  OtherOrder <- MCOtherOrder
  MaxGroupTicks = 3
INVARIANT OrderInvisible
\* The comparison ends where the groups differ or have both stopped.
CHECK_DEADLOCK FALSE
