------------------------------ MODULE CommandKinds ------------------------------
(***************************************************************************)
(* trade-core's commands: what a CommandPayload is aimed at and what       *)
(* CommandEnvelope::new derives from it.  A payload is reduced to its type *)
(* and the ids it names.  The derived fields are fields of the envelope of *)
(* their own: a client that writes its own JSON may give them any value.   *)
(* An optional field that is not there is None.                            *)
(***************************************************************************)
EXTENDS Integers, FiniteSets

None == "none"

StrategyCommands ==
  {"PauseStrategyRequested", "ResumeStrategyRequested", "DrainStrategyRequested",
   "KillStrategyRequested"}
SymbolCommands == {"CancelAllOrdersForSymbolRequested", "FlattenSymbolRequested"}
AccountCommands ==
  {"CancelAllOrdersForAccountRequested", "FlattenAccountRequested",
   "GlobalKillSwitchRequested", "AccountKillSwitchRequested"}
CommandTypes ==
  StrategyCommands \union SymbolCommands \union AccountCommands
  \union {"CancelOrderRequested", "AcknowledgeAlertRequested"}

\* CommandPayload: account, strategy and object (order, symbol or alert).
Payload(type, account, strategy, object) ==
  [command_type |-> type, account |-> account, strategy |-> strategy, object |-> object]

AggregateType(c) ==
  CASE c.command_type \in StrategyCommands -> "strategy"
    [] c.command_type \in SymbolCommands -> "symbol"
    [] c.command_type \in AccountCommands -> "account"
    [] c.command_type = "CancelOrderRequested" -> "order"
    [] OTHER -> "alert"

AggregateId(c) ==
  CASE AggregateType(c) = "strategy" -> << c.strategy >>
    [] AggregateType(c) = "account" -> << c.account >>
    [] AggregateType(c) = "alert" -> << c.object >>
    [] OTHER -> << c.account, c.object >>

\* A payload names what its type calls for, and nothing else.
IsPayload(c) ==
  /\ c.command_type \in CommandTypes
  /\ c.strategy # None <=> c.command_type \in StrategyCommands
  /\ c.account # None <=> AggregateType(c) \in {"order", "symbol", "account"}
  /\ c.object # None <=> AggregateType(c) \in {"order", "symbol", "alert"}

DangerLevels == {"read_only", "controlled", "dangerous"}
DangerLevel(c) ==
  IF c.command_type \in SymbolCommands \union AccountCommands \union {"KillStrategyRequested"}
  THEN "dangerous" ELSE "controlled"

\* CommandEnvelope::new
NewEnvelope(payload) ==
  [payload |-> payload, command_type |-> payload.command_type,
   aggregate_type |-> AggregateType(payload), aggregate_id |-> AggregateId(payload),
   danger_level |-> DangerLevel(payload)]

\* expected_capability: none for a type it does not know.
ExpectedCapability(type) ==
  CASE type \in StrategyCommands -> {"strategy.control"}
    [] type \in {"CancelOrderRequested", "CancelAllOrdersForSymbolRequested",
                 "CancelAllOrdersForAccountRequested"} -> {"order.cancel"}
    [] type \in {"FlattenSymbolRequested", "FlattenAccountRequested"} -> {"account.flatten"}
    [] type \in {"GlobalKillSwitchRequested", "AccountKillSwitchRequested"} -> {"account.kill"}
    [] type = "AcknowledgeAlertRequested" -> {"alert.ack"}
    [] OTHER -> {}

IsGlobalAlias(account) == account \in {"global", "all", "*"}
=============================================================================
