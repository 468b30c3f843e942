SPECIFICATION Spec
CONSTANTS
  MaxBatches = 5
  Few = 3
  MaxFaults = 2
PROPERTIES
  BuffersSafe
  ImplementsStreamer
