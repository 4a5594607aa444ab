SPECIFICATION Spec
CONSTANTS
  Accounts = {a1, a2}
  Snapshots <- SmallSnapshots
  Breaches <- SmallBreaches
  Decisions <- SmallDecisions
  MaxShorts = 1
SYMMETRY Symmetric
INVARIANTS
  ShownIsCurrent
  BlocksExplainPermissions
  AggregateIsWorst
  RowsUnique
  BreachShownWhileOpen
  AlarmHolds
CHECK_DEADLOCK FALSE
