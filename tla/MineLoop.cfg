SPECIFICATION Spec
CONSTANTS
  w1 = w1
  w2 = w2
  NoWork = NoWork
  NoShare = NoShare
  Works <- MCWorks
  Diffs = {1, 3}
  HashSpace = 8
  MaxEpoch = 2
  Pows <- MCPows
  Shares <- MCShares
  BatchSize = 2
  MailboxCap = 1
  MaxHashErrs = 2
  MaxBatches = 2
  MaxConns = 2
  InitialBackoff = 1
  MaxBackoff = 1
SYMMETRY WorkSymmetry
CHECK_DEADLOCK FALSE
INVARIANTS
  OnlySolutionsSubmitted
  GateIsExact
  SharesAccounted
  AtMostOneLate
