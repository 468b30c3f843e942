SPECIFICATION FairSpec
CONSTANTS
  w1 = w1
  w2 = w2
  NoWork = NoWork
  Malformed = Malformed
  Works <- MCWorks
  Diffs <- MCDiffs
  HashSpace = 8
  MaxEpoch = 4
INVARIANTS
  SnapshotConsistent
  FreshIsCurrent
  EpochMeansNewWork
PROPERTIES
  CallsReturn
  ImplementsCell
