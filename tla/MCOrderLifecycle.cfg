SPECIFICATION Spec
CONSTANTS
  Corr = {c1}
  Qty = 2
  FillStyles = {"cumulative", "incremental"}
  MaxRepublish = 1
  MaxInFlight = 2
INVARIANTS
  LifecycleInv
  FilledNeverExceedsExecuted
  QuietIsTruth
  QuietReasonIsCurrent
  IndexComplete
  UnracedOrderIsQuiet
CHECK_DEADLOCK FALSE
