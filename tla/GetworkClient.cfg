SPECIFICATION Spec
CONSTANTS
  MaxConns = 3
  InitialBackoff = 1
  MaxBackoff = 15
  Shares = {1, 2, 3}
  NoShare = NoShare
  MailboxCap = 2
  MaxShares = 3
CHECK_DEADLOCK FALSE
INVARIANTS
  OneWriter
  NoZombieLink
  LossPerLink
PROPERTIES
  SharesKeepOrder
  NeverStuck
