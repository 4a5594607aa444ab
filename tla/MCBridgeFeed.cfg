SPECIFICATION Spec
CONSTANTS
  MaxBatch = 2
  MaxFacts = 5
  MaxCrashes = 2
  MaxReadErrors = 1
  MaxDuplicates = 4
INVARIANTS
  TypeOK
  LossBoundedByCrashes
CHECK_DEADLOCK FALSE
