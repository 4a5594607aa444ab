SPECIFICATION Spec
CONSTANTS
  Sessions <- SomeSessions
  RowIds <- SomeRowIds
  ShownEvents = 1
  MaxDrainPerTick = 1
  MaxCommands = 2
  MaxNews = 1
  MaxChannel = 2
INVARIANTS TypeOK StatusIsTheOutcome ShownControlsAreInForce OnlyFailuresAreRetried MessageTellsTheTruth ConfirmedIsSent CommandsTargetTheHighlighted
PROPERTY ChannelIsDrained
CHECK_DEADLOCK FALSE
