------------------------------- MODULE RiskState -------------------------------
(***************************************************************************)
(* The risk and account-safety half of trade-core's reducer: the accounts, *)
(* what each may do (effective_trade_state and the can_ flags), their      *)
(* aggregate, the active blocks, global_state and the kill switch.         *)
(*                                                                         *)
(* What an account may do and the blocks that say why are derived state:   *)
(* the handlers that change an account call refresh_account_safety_state,  *)
(* which recomputes both, by two ladders of conditions written apart.  The *)
(* risk engine's own blocks live in the same list and are upserted.        *)
(*                                                                         *)
(* An account is reduced to what the ladders look at.  Money, fees, names, *)
(* the texts of blocks and their timestamps are left out; so are the rule  *)
(* rows (structured_limits) and the runtime controls, which nothing here   *)
(* reads.  An approved risk decision changes none of this.                 *)
(***************************************************************************)
EXTENDS Integers, FiniteSets, FiniteSetsExt

CONSTANTS
  Accounts,
  Snapshots,   \* what an AccountSnapshot may say
  Breaches,    \* id, rule and scope of the limits the risk engine reports
  Decisions,   \* id, rule and scope of the blocks its rejections make
  MaxShorts    \* bound: rejected shorts

Flags == {"connected", "trade", "readonly", "restricted", "short",
          "ibkr", "paper_endpoint"}
Sources == {"ledger", "marks"}
Ages == {"unknown", "fresh", "stale", "old"}   \* to 5 s, to 120 s, beyond

\* A field an AccountSnapshot does not carry is "absent".
SnapshotFields == [flags : [Flags -> {"yes", "no", "absent"}],
                   sources : SUBSET Sources, age : Ages]

AccountRules ==
  {"BROKER_DOWN", "ORDER_CHANNEL_DOWN", "NO_TRADE_ACCOUNT_MUTATION",
   "READ_ONLY_ACCOUNT_MUTATION", "UNKNOWN_ACCOUNT_MUTATION",
   "NO_SHORT_ACCOUNT_PERMISSION", "ACCOUNT_RESTRICTION",
   "VALUATION_MISSING", "VALUATION_STALE", "VALUATION_PARTIAL"}

NoRule == "none"   \* RiskLimitBreached without a rule_id
Reports == Breaches \union Decisions

\* The risk engine's ids and rules are not those of the derived blocks.
ASSUME RiskAssumption ==
  /\ Snapshots \subseteq SnapshotFields
  /\ MaxShorts \in Nat
  /\ \A r \in Reports :
       r.rule \notin AccountRules /\ r.id \notin Accounts \X AccountRules

VARIABLES
  known,                     \* the account ids in accounts.by_id
  accounts,                  \* accounts.by_id
  effective,                 \* effective_trade_state and can_ flags, per account
  account,                   \* the aggregate view
  broker_order_channel_ok,
  active_blocks,
  global_state,
  kill_switch_active,
  open,                      \* history: breaches reported and not cleared since
  rejected_shorts            \* short intents the risk engine rejected, a bound

riskVars == << global_state, kill_switch_active, open >>
safetyVars == << effective, account, active_blocks >>
vars == << known, accounts, safetyVars, broker_order_channel_ok, riskVars,
           rejected_shorts >>

-----------------------------------------------------------------------------
\* AccountView

NewAccount ==
  [flags |-> [f \in Flags |-> "absent"], sources |-> {}, age |-> "unknown",
   blocked_shorts |-> 0]

Has(a, flag) == a.flags[flag] = "yes"

\* refresh_valuation_status
ValuationStatus(a) ==
  CASE a.sources = {} -> "MISSING"
    [] a.sources # {} /\ a.age \in {"stale", "old"} -> "STALE"
    [] OTHER -> IF a.sources = Sources THEN "COMPLETE" ELSE "PARTIAL"

\* mutation_permission_label: readonly decides only if the role may trade.
Mutation(a) ==
  CASE ~ Has(a, "trade") -> "NO_TRADE"
    [] Has(a, "trade") /\ a.flags["readonly"] = "yes" -> "READONLY"
    [] Has(a, "trade") /\ a.flags["readonly"] = "no" -> "TRADE"
    [] OTHER -> "TRADE?"

\* Mutant: a stale valuation is let pass.
TradeState_StaleTrades(a, channel) ==
  IF ~ Has(a, "connected") \/ ~ channel \/ Mutation(a) = "NO_TRADE" THEN "NO_TRADE"
  ELSE IF Mutation(a) = "READONLY" THEN "READ_ONLY"
  ELSE IF Has(a, "restricted") \/ ValuationStatus(a) = "MISSING" THEN "NO_TRADE"
  ELSE IF ValuationStatus(a) = "PARTIAL" \/ Mutation(a) = "TRADE?" THEN "DEGRADED"
  ELSE "TRADE"

\* refresh_effective_trade_state: the first condition that holds decides.
TradeState(a, channel) ==
  IF ~ Has(a, "connected") \/ ~ channel \/ Mutation(a) = "NO_TRADE" THEN "NO_TRADE"
  ELSE IF Mutation(a) = "READONLY" THEN "READ_ONLY"
  ELSE IF Has(a, "restricted") \/ ValuationStatus(a) \in {"MISSING", "STALE"}
    THEN "NO_TRADE"
  ELSE IF ValuationStatus(a) = "PARTIAL" \/ Mutation(a) = "TRADE?" THEN "DEGRADED"
  ELSE "TRADE"

Permissions(a, channel) ==
  LET state == TradeState(a, channel) IN
  [state |-> state,
   submit |-> state = "TRADE",
   cancel |-> Has(a, "connected") /\ channel /\ state # "NO_TRADE",
   short |-> state = "TRADE" /\ Has(a, "short")]

NewPermissions == [state |-> "NO_TRADE", submit |-> FALSE, cancel |-> FALSE, short |-> FALSE]

\* derived_blocks_for_account
Applies(rule, a, channel) ==
  CASE rule = "BROKER_DOWN" -> ~ Has(a, "connected")
    [] rule = "ORDER_CHANNEL_DOWN" -> ~ channel
    [] rule = "NO_TRADE_ACCOUNT_MUTATION" -> Mutation(a) = "NO_TRADE"
    [] rule = "READ_ONLY_ACCOUNT_MUTATION" -> Mutation(a) = "READONLY"
    [] rule = "UNKNOWN_ACCOUNT_MUTATION" -> Mutation(a) = "TRADE?"
    [] rule = "NO_SHORT_ACCOUNT_PERMISSION" -> ~ Has(a, "short")
    [] rule = "ACCOUNT_RESTRICTION" -> Has(a, "restricted")
    [] OTHER -> rule = CASE ValuationStatus(a) = "MISSING" -> "VALUATION_MISSING"
                         [] ValuationStatus(a) = "STALE" -> "VALUATION_STALE"
                         [] ValuationStatus(a) = "PARTIAL" -> "VALUATION_PARTIAL"
                         [] OTHER -> "VALUATION_COMPLETE"

Valuations == {"VALUATION_MISSING", "VALUATION_STALE", "VALUATION_PARTIAL"}

AccountBlock(id, rule) ==
  [id |-> << id, rule >>, rule |-> rule, scope |-> << "account", id >>,
   source |-> "account_effective_state",
   submit |-> rule \notin {"NO_SHORT_ACCOUNT_PERMISSION", "VALUATION_PARTIAL"},
   cancel |-> rule \in {"BROKER_DOWN", "ORDER_CHANNEL_DOWN", "NO_TRADE_ACCOUNT_MUTATION"},
   short |-> rule \notin Valuations]

DerivedBlocks(ids, accs, channel) ==
  {AccountBlock(p[1], p[2]) : p \in
     {q \in ids \X AccountRules : Applies(q[2], accs[q[1]], channel)}}

\* Mutant: nobody thought of accounts that trade with a warning.
WorstState_NoDegraded(states) ==
  IF "NO_TRADE" \in states THEN "NO_TRADE"
  ELSE IF "READ_ONLY" \in states THEN "READ_ONLY" ELSE "TRADE"

\* aggregate_trade_state
WorstState(states) ==
  IF "NO_TRADE" \in states THEN "NO_TRADE"
  ELSE IF "READ_ONLY" \in states THEN "READ_ONLY"
  ELSE IF "DEGRADED" \in states THEN "DEGRADED" ELSE "TRADE"

BlockedShorts(ids, accs) == MapThenSumSet(LAMBDA i : accs[i].blocked_shorts, ids)

\* aggregate_view; without accounts it is a new account.
AggregateView(ids, accs, perms) ==
  [state |-> IF ids = {} THEN "NO_TRADE" ELSE WorstState({perms[i].state : i \in ids}),
   submit |-> ids # {} /\ \A i \in ids : perms[i].submit,
   cancel |-> ids # {} /\ \A i \in ids : perms[i].cancel,
   short |-> ids # {} /\ \A i \in ids : perms[i].short,
   blocked_shorts |-> BlockedShorts(ids, accs)]

-----------------------------------------------------------------------------
\* Account ids that were never mentioned keep the values of a new account.

Derived(block) == block.source = "account_effective_state"

\* refresh_account_safety_state, over the blocks the handler leaves
RefreshSafety(blocks) ==
  /\ effective' = [i \in Accounts |->
       IF i \in known' THEN Permissions(accounts'[i], broker_order_channel_ok')
       ELSE effective[i]]
  /\ active_blocks' = {b \in blocks : ~ Derived(b)}
       \union DerivedBlocks(known', accounts', broker_order_channel_ok')
  /\ account' = AggregateView(known', accounts', effective')

\* get_or_insert
ChangeAccount(i, a) ==
  /\ known' = known \union {i}
  /\ accounts' = [accounts EXCEPT ![i] = a]

Init ==
  /\ known = {}
  /\ accounts = [i \in Accounts |-> NewAccount]
  /\ effective = [i \in Accounts |-> NewPermissions]
  /\ account = AggregateView({}, accounts, effective)
  /\ broker_order_channel_ok = FALSE
  /\ active_blocks = {}
  /\ global_state = "NORMAL"
  /\ kill_switch_active = FALSE
  /\ open = {}
  /\ rejected_shorts = 0

ExplicitPaper(a) == Has(a, "ibkr") /\ Has(a, "paper_endpoint")

\* A readonly that was never reported counts as read-only here.
CarriesOrders(a) ==
  /\ ExplicitPaper(a)
  /\ Has(a, "connected")
  /\ a.age \in {"fresh", "stale"}
  /\ a.flags["readonly"] = "no"

\* The account a snapshot leaves: what it does not carry stays, a source once
\* named stays, the age is the snapshot's.
ApplySnapshot(a, s) ==
  [a EXCEPT !.flags = [f \in Flags |->
              IF s.flags[f] = "absent" THEN a.flags[f] ELSE s.flags[f]],
            !.sources = @ \union s.sources,
            !.age = s.age]

\* A valuation_status the snapshot carries is overwritten by the refresh; one
\* that carries a count of blocked shorts is left out.
ReduceAccountSnapshot(i, s) ==
  /\ ChangeAccount(i, ApplySnapshot(accounts[i], s))
  /\ broker_order_channel_ok' =
       IF \E j \in known' : ExplicitPaper(accounts'[j])
         THEN \E j \in known' : CarriesOrders(accounts'[j])
         ELSE broker_order_channel_ok
  /\ RefreshSafety(active_blocks)
  /\ UNCHANGED << riskVars, rejected_shorts >>

\* Mutant: a submitted order connects its account, and nothing is refreshed.
ReduceOrderSubmitted_NoRefresh(i, ibkr) ==
  /\ ChangeAccount(i, [accounts[i] EXCEPT
       !.flags = [@ EXCEPT !["connected"] = "yes", !["ibkr"] = ibkr]])
  /\ UNCHANGED << safetyVars, broker_order_channel_ok, riskVars, rejected_shorts >>

\* An order at the broker proves the connection, and names the broker.
ReduceOrderSubmitted(i, ibkr) ==
  /\ ChangeAccount(i, [accounts[i] EXCEPT
       !.flags = [@ EXCEPT !["connected"] = "yes", !["ibkr"] = ibkr]])
  /\ UNCHANGED << broker_order_channel_ok, riskVars, rejected_shorts >>
  /\ RefreshSafety(active_blocks)

\* What mentions an account and sets nothing here: touch_account of a submit
\* request, the fees of a fill, the runtime control of an applied command.
TouchAccount(i) ==
  /\ ChangeAccount(i, accounts[i])
  /\ UNCHANGED << broker_order_channel_ok, riskVars, rejected_shorts >>
  /\ RefreshSafety(active_blocks)

\* A position marks its account to market.
ReducePositionSnapshot(i) ==
  /\ ChangeAccount(i, [accounts[i] EXCEPT !.sources = @ \union {"marks"}])
  /\ UNCHANGED << broker_order_channel_ok, riskVars, rejected_shorts >>
  /\ RefreshSafety(active_blocks)

\* CommandAuditRecorded of a GlobalKillSwitchRequested that was applied.
ReduceGlobalKill ==
  /\ kill_switch_active' = TRUE
  /\ global_state' = "KILL_SWITCH"
  /\ UNCHANGED << known, accounts, safetyVars, broker_order_channel_ok, open,
                  rejected_shorts >>

-----------------------------------------------------------------------------
\* upsert_risk_block

\* Mutant: reports without a rule match each other by their scope.
Matches_EmptyRule(row, report) ==
  \/ row.id = report.id
  \/ row.rule = report.rule /\ row.scope = report.scope

Matches(row, report) ==
  \/ row.id = report.id
  \/ report.rule # NoRule /\ row.rule = report.rule /\ row.scope = report.scope

\* A report that clears removes every row that matches it.
Clear(report) == {row \in active_blocks : ~ Matches(row, report)}

\* Mutant: rows are told apart by id only.
Upserted_ById(report, source) ==
  LET new == [id |-> report.id, rule |-> report.rule, scope |-> report.scope,
              source |-> source, submit |-> TRUE, cancel |-> FALSE, short |-> TRUE]
  IN  {{row \in active_blocks : row.id # report.id} \union {new}}

\* What the list may become.  A report updates the first row that matches it,
\* which keeps its id, rule and scope; the order of the rows is left open.
Upserted(report, source) ==
  LET new == [id |-> report.id, rule |-> report.rule, scope |-> report.scope,
              source |-> source, submit |-> TRUE, cancel |-> FALSE, short |-> TRUE]
      matching == {row \in active_blocks : Matches(row, report)}
  IN  IF matching = {} THEN {active_blocks \union {new}}
      ELSE {(active_blocks \ {row}) \union
              {[new EXCEPT !.id = row.id, !.rule = row.rule, !.scope = row.scope]} :
            row \in matching}

\* Mutant: a limit that is back in bounds ends the alarm.
ReduceRiskLimitBreached_ClearIsNormal(b, cleared) ==
  /\ global_state' = IF cleared THEN "NORMAL" ELSE "BLOCKED"
  /\ IF cleared
       THEN active_blocks' = Clear(b) /\ open' = open \ {b}
       ELSE active_blocks' \in Upserted(b, "risk_limit") /\ open' = open \union {b}
  /\ UNCHANGED << known, accounts, effective, account, broker_order_channel_ok,
                  kill_switch_active, rejected_shorts >>

\* Even a report that clears sets global_state, and over KILL_SWITCH too.
ReduceRiskLimitBreached(b, cleared) ==
  /\ global_state' = "BLOCKED"
  /\ IF cleared
       THEN active_blocks' = Clear(b) /\ open' = open \ {b}
       ELSE active_blocks' \in Upserted(b, "risk_limit") /\ open' = open \union {b}
  /\ UNCHANGED << known, accounts, effective, account, broker_order_channel_ok,
                  kill_switch_active, rejected_shorts >>

\* reduce_risk_decision of a rejection that is not about shorting
ReduceRejection(d) ==
  /\ active_blocks' \in Upserted(d, "risk_decision")
  /\ UNCHANGED << known, accounts, effective, account, broker_order_channel_ok,
                  riskVars, rejected_shorts >>

\* A rejected short is counted for the account of its order chain ...
ReduceShortRejection(d, i) ==
  /\ rejected_shorts < MaxShorts
  /\ rejected_shorts' = rejected_shorts + 1
  /\ ChangeAccount(i, [accounts[i] EXCEPT !.blocked_shorts = @ + 1])
  /\ UNCHANGED << broker_order_channel_ok, riskVars >>
  /\ \E blocks \in Upserted(d, "risk_decision") : RefreshSafety(blocks)

\* ... and in the aggregate alone if the chain knows no account.
ReduceShortRejectionUnknown(d) ==
  /\ rejected_shorts < MaxShorts
  /\ rejected_shorts' = rejected_shorts + 1
  /\ account' = [account EXCEPT !.blocked_shorts = @ + 1]
  /\ active_blocks' \in Upserted(d, "risk_decision")
  /\ UNCHANGED << known, accounts, effective, broker_order_channel_ok, riskVars >>

Next ==
  \/ \E i \in Accounts :
       \/ \E s \in Snapshots : ReduceAccountSnapshot(i, s)
       \/ \E ibkr \in {"yes", "no"} : ReduceOrderSubmitted(i, ibkr)
       \/ TouchAccount(i)
       \/ ReducePositionSnapshot(i)
       \/ \E d \in Decisions : ReduceShortRejection(d, i)
  \/ ReduceGlobalKill
  \/ \E b \in Breaches, cleared \in BOOLEAN : ReduceRiskLimitBreached(b, cleared)
  \/ \E d \in Decisions : ReduceRejection(d) \/ ReduceShortRejectionUnknown(d)

Spec == Init /\ [][Next]_vars

-----------------------------------------------------------------------------
TradeStates == {"NO_TRADE", "READ_ONLY", "DEGRADED", "TRADE"}
AccountType == [flags : [Flags -> {"yes", "no", "absent"}], sources : SUBSET Sources,
                age : Ages, blocked_shorts : Nat]
PermissionType == [state : TradeStates, submit : BOOLEAN, cancel : BOOLEAN, short : BOOLEAN]

\* The risk and account state is well typed.
TypeOK ==
  /\ known \subseteq Accounts
  /\ accounts \in [Accounts -> AccountType]
  /\ effective \in [Accounts -> PermissionType]
  /\ broker_order_channel_ok \in BOOLEAN
  /\ global_state \in {"NORMAL", "BLOCKED", "KILL_SWITCH"}
  /\ kill_switch_active \in BOOLEAN
  /\ open \subseteq Breaches
  /\ rejected_shorts \in 0..MaxShorts

Current == AggregateView(known, accounts, effective)

\* What the cockpit shows of the accounts is never out of date: after every
\* event the permissions, the derived blocks and the aggregate are those the
\* accounts and the order channel call for now, no derived block of an earlier
\* state is left.  Only the aggregate's blocked_shorts may be ahead of theirs.
ShownIsCurrent ==
  /\ \A i \in known : effective[i] = Permissions(accounts[i], broker_order_channel_ok)
  /\ {b \in active_blocks : Derived(b)} =
       DerivedBlocks(known, accounts, broker_order_channel_ok)
  /\ [account EXCEPT !.blocked_shorts = Current.blocked_shorts] = Current

RowsOf(i) == {b \in active_blocks : Derived(b) /\ b.scope = << "account", i >>}

\* The two ladders agree.  The observability check warns "account is not TRADE
\* but no matching active block was found"
\* (tools/check_paper_strategy_cockpit_observability.py:220): an account is
\* TRADE exactly if it has no row but the long-only one; what a row blocks
\* the account may not do; and it may not short exactly if a row or the lack
\* of permission to trade says so.
BlocksExplainPermissions ==
  \A i \in known :
    /\ effective[i].state = "TRADE" <=>
         \A b \in RowsOf(i) : b.rule = "NO_SHORT_ACCOUNT_PERMISSION"
    /\ \A b \in RowsOf(i) :
         /\ b.submit => ~ effective[i].submit
         /\ b.cancel => ~ effective[i].cancel
    /\ effective[i].short <=> (effective[i].submit /\ \A b \in RowsOf(i) : ~ b.short)

\* The aggregate is as restricted as the most restricted account: it may do
\* only what every account may, its flags follow from its state, and nobody
\* trades on an empty cockpit.
AggregateIsWorst ==
  /\ account.submit <=> account.state = "TRADE"
  /\ account.cancel <=> account.state # "NO_TRADE"
  /\ account.state = "TRADE" <=>
       (known # {} /\ \A i \in known : effective[i].state = "TRADE")

Distinct(b, c) ==
  b.id # c.id /\ (b.rule = NoRule \/ b.rule # c.rule \/ b.scope # c.scope)

\* "deduplicated active blocks" (README.md:160): no two rows have the same id,
\* or the same rule and scope, whatever the reports share with each other.
RowsUnique == \A b, c \in active_blocks : b # c => Distinct(b, c)

NamedByReport(b) ==
  \E r \in Reports : b.id = r.id /\ b.rule = r.rule /\ b.scope = r.scope
RowsReported == \A b \in active_blocks : Derived(b) \/ NamedByReport(b)

\* The inductive invariant: what a refresh computes stays current because every
\* handler that changes what it is computed from refreshes, and the reported
\* rows stay apart from the derived ones because they carry a report's names.
RiskInv == TypeOK /\ ShownIsCurrent /\ RowsReported /\ RowsUnique

\* Nothing else is reported under this breach's id, nor its rule and scope, and
\* the breach itself is not also what a rejection reports.
Unambiguous(b) == b \notin Decisions /\ \A r \in Reports \ {b} : Distinct(b, r)

\* A breach the risk engine identifies unambiguously has a row exactly from
\* its report until it is cleared, whatever happens to accounts, to other
\* breaches and to the kill switch.
BreachShownWhileOpen ==
  \A b \in Breaches : Unambiguous(b) =>
    (b \in open <=> \E row \in active_blocks : row.id = b.id)

\* global_state is not NORMAL while a breach is open or the kill switch active.
AlarmHolds == (open # {} \/ kill_switch_active) => global_state # "NORMAL"
=============================================================================
