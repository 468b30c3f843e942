SPECIFICATION Spec
CONSTANTS
  MaxBatches = 5
  Few = 3
  MaxFaults = 1
INVARIANTS
  RecoversWithinAFew
