SPECIFICATION Spec
CONSTANTS
  Setups <- TwoAccounts
INVARIANT SnapshotKeepsTheAccounts
CHECK_DEADLOCK FALSE
