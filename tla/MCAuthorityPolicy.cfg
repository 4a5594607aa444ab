SPECIFICATION Spec
CONSTANTS
  Commands <- SomeCommands
  InitialPolicies <- Examples
  AllowDangerous = TRUE
  AllowCapabilities = {}
  AccountSlots <- SomeSlots
  SessionEdits <- SomeSessionEdits
  RuleEdits <- SomeRuleEdits
  MaxEdits = 2
INVARIANTS NoScopeBroadening EvidenceNamesTheRules
PROPERTY TighteningNeverWidens
CHECK_DEADLOCK FALSE
