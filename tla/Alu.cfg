\* One tick of every register instruction from every content of the registers.
SPECIFICATION Spec
CONSTANTS
  ByteBits = 2
  CodeLen = 9
  Inputs <- MCInputs
  Program <- MCProgram
  Starts <- MCStarts
  MaxTicks = 1
INVARIANTS TypeOK SignedOrder WordChains
PROPERTIES PathsAgree FlagsDeclared
\* A run ends at MaxTicks.
CHECK_DEADLOCK FALSE
