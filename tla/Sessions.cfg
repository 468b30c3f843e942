SPECIFICATION MCSpec
CONSTANTS
  Paths = {"portable", "wgsl", "native"}
  Probe = 1
  Corpus = 2
  Batches = {1, 3}
  SpirvRows = 2
  StreamRows = 4
  MaxSlab = 4
  MaxFaults = 2
  MaxCalls = 8
  Kinds = {"plain", "refine", "wgsl", "native", "stream", "kernel"}
  Slab = 2
  Stride = 4
  Word = 2
  MaxTied = 2
  Texts <- MCTexts
  MaxRuns = 3
CHECK_DEADLOCK FALSE
INVARIANTS
  BuildsAreSound
  CachesAreSound
  HealthyNeverFails
  RowsOfThisBatch
