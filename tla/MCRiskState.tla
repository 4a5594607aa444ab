----------------------------- MODULE MCRiskState -----------------------------
(* A small instance of RiskState.  Its snapshots are those of a paper         *)
(* account that carries orders and of what can befall it, one at a time; its  *)
(* reports share a rule and a scope, or are alone.                            *)
EXTENDS RiskState, TLC

Symmetric == Permutations(Accounts)

Silent == [f \in Flags |-> "absent"]
Healthy == [connected |-> "yes", trade |-> "yes", readonly |-> "no",
            restricted |-> "no", short |-> "yes", ibkr |-> "yes",
            paper_endpoint |-> "yes"]
Says(flags, sources, age) == [flags |-> flags, sources |-> sources, age |-> age]

\* All is well; the broker is down and its error is the restriction, as the
\* paper bridge reports it; the account is read-only; its snapshot is a minute
\* old; a first, partial word.
SmallSnapshots ==
  {Says(Healthy, Sources, "fresh"),
   Says([Healthy EXCEPT !["connected"] = "no", !["restricted"] = "yes"], Sources, "old"),
   Says([Healthy EXCEPT !["readonly"] = "yes"], Sources, "fresh"),
   Says(Healthy, Sources, "stale"),
   Says([Silent EXCEPT !["connected"] = "yes", !["trade"] = "yes"], {"ledger"}, "fresh")}

Limit(id, rule, scope) ==
  [id |-> << "risk_limit", id >>, rule |-> rule, scope |-> << "symbol", scope >>]

\* A rejection and a breach share their rule and scope; two limits without a
\* rule_id share their scope.
SmallBreaches ==
  {Limit("notional:MU", "max_notional", "MU"),
   Limit("day_loss", NoRule, "all"), Limit("week_loss", NoRule, "all")}
SmallDecisions ==
  {[id |-> << "risk_decision", "d1" >>, rule |-> "max_notional", scope |-> << "symbol", "MU" >>]}
=============================================================================
