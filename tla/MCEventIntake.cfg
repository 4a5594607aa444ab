SPECIFICATION TableSpec
CONSTANTS
  Producers = {"p1", "p2"}
  Unnumbered = {}
  MaxSent = 4
  MaxDuplicates = 1
  Capacity = 3
  Aggregates <- Views
  AggregateOf <- Published
  Correlations = {"order"}
  PayloadOf <- Said
INVARIANTS
  IntakeInv
  QuietCountersMeanContiguous
  OutOfOrderIffReordered
  GapsExactWhileInOrder
  LifecycleEvidenceKept
  StrategyRowsExact
CHECK_DEADLOCK FALSE
