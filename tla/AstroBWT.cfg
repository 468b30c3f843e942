SPECIFICATION MCSpec
CONSTANTS
  N = 5
  Window = 3
  Seeds <- MCSeeds
  Switchers <- MCSwitchers
  MinTries = 5
  ExtraTries = 2
  Group = 2
  MaxTail = 7
  CountCap = 4
  MarkerSlots = 9
  MAX_LENGTH = 16
  Padding = 4
  Inputs <- MCInputs
  MaxLength = 9
  EntryBytes = 2
  Block = 8
  LengthBytes = 2
  MaxCalls = 2
CHECK_DEADLOCK FALSE
INVARIANTS
  TablesAgree
  StaysInBounds
  TemplatesFollowRC4
  HashesAreOwn
