\* Two names, up to three units, a CODE of four bytes.
SPECIFICATION Spec
CONSTANTS
  Programs <- MCPrograms
  Declared <- MCDeclared
  CODE_SIZE = 4
  DATA_SIZE = 4
  VEC_COUNT = 2
  VTAB_CELLS = 2
  REGIONS_MAX = 2
  BYTE = 3
  WORD = 15
  None = None
INVARIANTS TypeOK MeaningHolds BlocksStand LoadsCanRun
