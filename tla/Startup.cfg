SPECIFICATION MCSpec
CONSTANTS
  Stride = 2
  Bindings = {0, 9, 30}
  Sizes = {0, 8, 32}
  StorageBuffers = {8, 9}
  Defaults <- MCDefaults
  DefaultBatch = 3
  SpirvRows = 1
  SPIRVBatchSize = 3
  Descriptors = 16
  BatchFlags = {0, 2, 5}
  BenchSizes = {5}
  Combos = 3
CHECK_DEADLOCK FALSE
INVARIANTS
  DeviceSuitsMiner
PROPERTIES
  BenchesAreExact
  SweepIsSound
