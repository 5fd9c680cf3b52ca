\* What does not depend on the stepping order.
SPECIFICATION OSpec
CONSTANTS
  NBanks = 3
  PageSize = 2
  Byte <- MCByte
  TickBudget <- MCTickBudget
  Regions <- MCRegions
  Image <- MCImage
  Program <- MCProgram
  OtherOrder <- MCOtherOrder
  MaxGroupTicks = 3
INVARIANTS VerdictsAgree OnlyMeetingsShow
\* The comparison ends where the groups differ or have both stopped.
CHECK_DEADLOCK FALSE
