---------------------------- MODULE StrategyTable ----------------------------
(***************************************************************************)
(* The strategy rows that reduce_event keeps, behind the intake and the    *)
(* ring: heartbeats, health and state changes name a row and its account,  *)
(* signals, intents and submitted orders are counted on a row, and a row   *)
(* without an account gives way to the row of an account that runs the     *)
(* same strategy.  Everything else a row shows is the latest value.        *)
(*                                                                         *)
(* A strategy id is a name, or an account before a strategy id: the code   *)
(* joins the two by a slash.                                               *)
(***************************************************************************)
EXTENDS AuditRing

CONSTANTS
  Correlations,
  PayloadOf(_)     \* what the event of an event_id says, a Payload

None == "-"
StrategyId(account, name) == [account |-> account, name |-> name]
NoId == StrategyId(None, None)   \* an id that is not given

\* Order events: the strategy they name, if they do, and the order's chain.
OrderPayload(kind, id, corr) == [kind |-> kind, strategy_id |-> id, corr |-> corr]

\* StrategyHeartbeat, StrategyHealthUpdated and StrategyStateChanged.
Telemetry(id, account, instance, canonical) ==
  [kind |-> "telemetry", strategy_id |-> id, account_id |-> account,
   strategy_instance_id |-> instance, canonical_strategy_id |-> canonical]

\* Every event names a strategy, unless it is a submitted order; the other ids
\* of a report may be missing.
ASSUME TableAssumption ==
  \A id \in Ids :
    LET e == PayloadOf(id)
    IN \/ e.kind = "telemetry" /\ e.strategy_id # NoId
       \/ /\ e.kind \in {"SignalGenerated", "IntentCreated", "RiskDecisionMade"}
          /\ e.corr \in Correlations /\ e.strategy_id # NoId
       \/ e.kind = "OrderSubmitted" /\ e.corr \in Correlations

VARIABLES
  strategies,      \* AppState.strategies.by_id
  chain_strategy   \* OrderChain.strategy_id of each correlation id

tableVars == << ringVars, strategies, chain_strategy >>

NewRow == [canonical |-> NoId, account |-> None, signals |-> 0, intents |-> 0, orders |-> 0]

GetOrInsert(table, id) ==
  [i \in DOMAIN table \union {id} |-> IF i \in DOMAIN table THEN table[i] ELSE NewRow]
Counted(table, id, counter) == [GetOrInsert(table, id) EXCEPT ![id][counter] = @ + 1]

\* projected_strategy_id
ProjectedId(e) ==
  CASE e.strategy_instance_id # NoId -> e.strategy_instance_id
    [] e.strategy_instance_id = NoId /\ e.account_id \in {None, e.strategy_id.account} ->
         e.strategy_id
    [] OTHER -> StrategyId(e.account_id, e.strategy_id)

CanonicalId(e) ==
  IF e.canonical_strategy_id = NoId THEN e.strategy_id ELSE e.canonical_strategy_id

\* Mutant: the row of the canonical name is dropped whoever runs it.
IsLegacyAlias_Owned(row, canonical) == row.canonical \in {NoId, canonical}
IsLegacyAlias(row, canonical) ==
  row.account = None /\ row.canonical \in {NoId, canonical}

\* drop_legacy_strategy_alias: with the row go the counters it had.
DropLegacyAlias(table, projection, canonical) ==
  IF projection # canonical /\ canonical \in DOMAIN table /\ IsLegacyAlias(table[canonical], canonical)
    THEN Restrict(table, DOMAIN table \ {canonical}) ELSE table

\* apply_strategy_identity
Identified(table, e) ==
  [GetOrInsert(table, ProjectedId(e)) EXCEPT
     ![ProjectedId(e)].canonical = CanonicalId(e),
     ![ProjectedId(e)].account = IF e.account_id = None THEN @ ELSE e.account_id]

ReduceTelemetry(e) ==
  /\ e.kind = "telemetry"
  /\ strategies' =
       Identified(DropLegacyAlias(strategies, ProjectedId(e), CanonicalId(e)), e)
  /\ UNCHANGED chain_strategy

ReduceSignalGenerated(e) ==
  /\ e.kind = "SignalGenerated"
  /\ strategies' = Counted(strategies, e.strategy_id, "signals")
  /\ chain_strategy' = [chain_strategy EXCEPT ![e.corr] = e.strategy_id]

ReduceIntentCreated(e) ==
  /\ e.kind = "IntentCreated"
  /\ strategies' = Counted(strategies, e.strategy_id, "intents")
  /\ chain_strategy' = [chain_strategy EXCEPT ![e.corr] = e.strategy_id]

ReduceRiskDecision(e) ==
  /\ e.kind = "RiskDecisionMade"
  /\ chain_strategy' = [chain_strategy EXCEPT ![e.corr] = IF @ = NoId THEN e.strategy_id ELSE @]
  /\ UNCHANGED strategies

\* The order counts for the strategy of its chain, if that is known by now.
ReduceOrderSubmitted(e) ==
  /\ e.kind = "OrderSubmitted"
  /\ strategies' = IF chain_strategy[e.corr] = NoId THEN strategies
                   ELSE Counted(strategies, chain_strategy[e.corr], "orders")
  /\ UNCHANGED chain_strategy

ReducePayload(e) ==
  \/ ReduceTelemetry(e)
  \/ ReduceSignalGenerated(e)
  \/ ReduceIntentCreated(e)
  \/ ReduceRiskDecision(e)
  \/ ReduceOrderSubmitted(e)

TableInit ==
  /\ RingInit
  /\ strategies = << >>
  /\ chain_strategy = [c \in Correlations |-> NoId]

DeliverToTable(p, n) ==
  /\ DeliverToRing(p, n)
  /\ ReducePayload(PayloadOf(Envelope(p, n).event_id))

TableNext ==
  \E p \in Producers :
    \/ Publish(p) /\ UNCHANGED << audit, events_coalesced, ingested, strategies, chain_strategy >>
    \/ \E n \in 1..sent[p] :
         \/ /\ Redeliver(p, n)
            /\ UNCHANGED << audit, events_coalesced, ingested, strategies, chain_strategy >>
         \/ DeliverToTable(p, n)

TableSpec == TableInit /\ [][TableNext]_tableVars

-----------------------------------------------------------------------------
\* The events that were ingested, each once, and what the k-th one is about.
Heard(k) == PayloadOf(ingested[k])
HeardSoFar == DOMAIN ingested

\* The events before the k-th that name a strategy to the chain of an order.
NamedBefore(corr, k, kinds) == {j \in 1..(k - 1) : Heard(j).kind \in kinds /\ Heard(j).corr = corr}

\* The strategy that the chain knew when the k-th event came: the last one that a
\* signal or an intent named, or the first of a risk decision.
KnownTo(corr, k) ==
  LET sure == NamedBefore(corr, k, {"SignalGenerated", "IntentCreated"})
      risk == NamedBefore(corr, k, {"RiskDecisionMade"})
  IN CASE sure # {} -> Heard(Max(sure)).strategy_id
       [] sure = {} /\ risk # {} -> Heard(Min(risk)).strategy_id
       [] OTHER -> NoId

\* The row that the k-th event writes.
WrittenBy(k) ==
  CASE Heard(k).kind = "telemetry" -> ProjectedId(Heard(k))
    [] Heard(k).kind = "OrderSubmitted" -> KnownTo(Heard(k).corr, k)
    [] Heard(k).kind = "RiskDecisionMade" -> NoId
    [] OTHER -> Heard(k).strategy_id

\* The reports of a row before the k-th event, and those from an account.
ReportsBefore(id, k) ==
  {j \in 1..(k - 1) : Heard(j).kind = "telemetry" /\ ProjectedId(Heard(j)) = id}
OwnedBefore(id, k) == {j \in ReportsBefore(id, k) : Heard(j).account_id # None}

\* To the last report of it, the row was that of the strategy itself.
NamesItself(id, k) ==
  LET reports == ReportsBefore(id, k)
  IN reports # {} => CanonicalId(Heard(Max(reports))) = id

\* The events at which the row gave way to another one of the same strategy.
GaveWay(id) ==
  {k \in HeardSoFar :
     /\ Heard(k).kind = "telemetry"
     /\ CanonicalId(Heard(k)) = id /\ ProjectedId(Heard(k)) # id
     /\ OwnedBefore(id, k) = {} /\ NamesItself(id, k)}

\* What was written to the row since then.
Writes(id) ==
  LET given == GaveWay(id)
  IN {k \in HeardSoFar : WrittenBy(k) = id /\ \A g \in given : g < k}

\* tests/order_lifecycle_tests.rs:746 "creates distinct instances and drops legacy
\* alias".  In whatever order its events come, a strategy has a row exactly if
\* something was written to it since it gave way to the row of an account; the row
\* counts every signal, intent and attributable order once, from then on; and a row
\* that an account reported never gives way and shows the last one that reported it.
StrategyRowsExact ==
  \A id \in DOMAIN strategies \union ({WrittenBy(k) : k \in HeardSoFar} \ {NoId}) :
    LET row == strategies[id]
        writes == Writes(id)
        Total(kind) == Cardinality({k \in writes : Heard(k).kind = kind})
        owned == OwnedBefore(id, Len(ingested) + 1)
    IN /\ id \in DOMAIN strategies <=> writes # {}
       /\ id \in DOMAIN strategies =>
            /\ row.signals = Total("SignalGenerated")
            /\ row.intents = Total("IntentCreated")
            /\ row.orders = Total("OrderSubmitted")
            /\ row.account = IF owned = {} THEN None ELSE Heard(Max(owned)).account_id
       /\ owned # {} => id \in DOMAIN strategies
=============================================================================
