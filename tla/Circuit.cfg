\* One machine whose ticks the reference, the masked circuit and the kernel take in any mixture.
SPECIFICATION FairCSpec
CONSTANTS
  DataSize = 10
  CodeLen = 10
  Radix = 4
  TRAP_TAG = 3
  FlagSpan = 2
  Entry = 1
  Splim = 2
  Tdlim = 1
  TickBudget = 3
  Outcap = 1
  Window = {1}
  Protected = {2}
  Vec <- MCVec
  Vtab = 0
  NoVtab = NoVtab
  Program <- CProgram
  Escaped <- CEscaped
INVARIANTS TypeOK FaultNamed
PROPERTIES FloorHolds RegionsIntact ReturnsMatch PathsAgree RunEnds
