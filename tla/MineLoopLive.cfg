SPECIFICATION FairSpec
CONSTANTS
  w1 = w1
  w2 = w2
  NoWork = NoWork
  NoShare = NoShare
  Works <- MCWorks
  Diffs = {2}
  HashSpace = 8
  MaxEpoch = 2
  Pows <- GoodPows
  Shares <- GoodShares
  BatchSize = 3
  MailboxCap = 1
  MaxHashErrs = 2
  MaxBatches = 1
  MaxConns = 2
  InitialBackoff = 1
  MaxBackoff = 1
PROPERTIES
  WaitEnds
  CtrlCStops
  MailboxDrains
CHECK_DEADLOCK FALSE
