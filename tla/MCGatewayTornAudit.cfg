SPECIFICATION Spec
CONSTANTS
  Workers = {w1, w2}
  RiskChecked = {}
  Routes = {"none"}
  MaxCommands = 1
  MaxCrashes = 0
INVARIANT AnsweredIsReadable
CHECK_DEADLOCK FALSE
