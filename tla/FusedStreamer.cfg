SPECIFICATION Spec
CONSTANTS
  MaxBatches = 6
  MaxFaults = 3
INVARIANTS
  BuffersSafe
PROPERTIES
  ImplementsStreamer
