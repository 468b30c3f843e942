SPECIFICATION FairSpec
CONSTANTS
  w1 = w1
  w2 = w2
  NoWork = NoWork
  NoShare = NoShare
  Works <- MCWorks
  Diffs = {2}
  HashSpace = 8
  MaxEpoch = 2
  Pows <- MCPows
  Shares <- MCShares
  BatchSize = 2
  MailboxCap = 1
  MaxHashErrs = 2
  Healthy = TRUE
  MaxBatches = 3
  MaxConns = 1
  InitialBackoff = 1
  MaxBackoff = 1
CHECK_DEADLOCK FALSE
INVARIANTS
  ResultsAligned
  PipeMatchesLoop
PROPERTIES
  CtrlCStops
