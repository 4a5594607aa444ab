SPECIFICATION FairSpec
CONSTANTS
  Workers = {w1, w2}
  RiskChecked = {w1}
  Routes = {"none", "external", "broker_control"}
  MaxCommands = 1
  MaxCrashes = 1
INVARIANTS
  TypeOK
  AuditReadableUnlessOverlapped
  AuditTellsTheStory
PROPERTIES KeepsPromises EveryCommandAnswered
CHECK_DEADLOCK FALSE
