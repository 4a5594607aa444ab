SPECIFICATION Spec
CONSTANTS
  MaxBatch = 1
  MaxFacts = 2
  MaxCrashes = 1
  MaxReadErrors = 0
  MaxDuplicates = 1
INVARIANT OnlyRepeatsDropped
CHECK_DEADLOCK FALSE
