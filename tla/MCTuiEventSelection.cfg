SPECIFICATION Spec
CONSTANTS
  Sessions <- EventSessions
  RowIds <- SomeRowIds
  ShownEvents = 2
  MaxDrainPerTick = 1
  MaxCommands = 2
  MaxNews = 2
  MaxChannel = 2
INVARIANT EventKeysTargetTheHighlighted
CHECK_DEADLOCK FALSE
