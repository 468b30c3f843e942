SPECIFICATION MCSpec
CONSTANTS
  K = 3
  CodeBytes = 4
  Texts <- MCTexts
  Group = 2
  KeyLen = 2
  ShortRunMax = 3
  LiteralMax = 2
  Inputs <- MCInputs
  WG = 4
  KernelTexts <- MCKernelTexts
CHECK_DEADLOCK FALSE
INVARIANTS
  PassesAreSound
  RecordsAreExact
  RoundsInStep
  SuffixArraysAgree
  KernelSorts
