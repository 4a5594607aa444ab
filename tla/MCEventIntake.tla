--------------------------- MODULE MCEventIntake ---------------------------
(* Small instances of EventIntake with its AuditRing and StrategyTable: two *)
(* numbered producers, each of which publishes a life cycle and a view in   *)
(* turn.  All is about one order of a strategy that two accounts run; the   *)
(* second account calls its row by the bare name of the strategy in the end.*)
EXTENDS StrategyTable

Views == {"heartbeat"}
Published(id) == IF id[2] % 2 = 0 THEN "heartbeat" ELSE Lifecycle

S == StrategyId(None, "s")
Said(id) ==
  CASE id = << "p1", 1 >> -> OrderPayload("SignalGenerated", S, "order")
    [] id = << "p1", 2 >> -> Telemetry(S, "a", NoId, NoId)
    [] id = << "p1", 3 >> -> OrderPayload("OrderSubmitted", NoId, "order")
    [] id = << "p1", 4 >> -> Telemetry(S, None, NoId, NoId)
    [] id = << "p2", 1 >> -> OrderPayload("IntentCreated", S, "order")
    [] id = << "p2", 2 >> -> Telemetry(S, "b", StrategyId("b", S), S)
    [] id = << "p2", 3 >> -> OrderPayload("RiskDecisionMade", StrategyId("b", S), "order")
    [] OTHER -> Telemetry(S, "b", S, S)
=============================================================================
