SPECIFICATION Spec
CONSTANTS
  Setups <- SomeSetups
INVARIANTS TypeOK NothingElseIsLost CountsExactUnlessSnapshotOverlaps
PROPERTY EveryEventGetsThrough
CHECK_DEADLOCK FALSE
