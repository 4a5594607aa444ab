--------------------------- MODULE MCAuthorityPolicy ---------------------------
(* A small instance of AuthorityPolicy: the two sessions and two of the       *)
(* rules of examples/command-gateway-policy.example.json, the edits an        *)
(* operator may make of them, and commands whose envelope says one thing and  *)
(* whose payload says another.                                                *)
EXTENDS AuthorityPolicy, TLC

Trader == [login |-> "trader", roles |-> {}, capabilities |-> {"strategy.control", "account.kill"},
  target_environments |-> {"paper"}, accounts |-> {"main", "other"}, strategies |-> {"orb"},
  sources |-> {"trade-tui"}, host_ids |-> {}, terminal_session_ids |-> {}, approval_ids |-> {},
  allow_dangerous |-> TRUE, mfa_verified |-> FALSE, require_mfa |-> FALSE,
  require_mfa_for_dangerous |-> FALSE, require_approval_for_dangerous |-> FALSE]
Commander == [Trader EXCEPT !.login = "commander", !.roles = {"commander"}, !.capabilities = {},
  !.accounts = {"*"}, !.strategies = {"*"}, !.mfa_verified = TRUE,
  !.require_mfa_for_dangerous = TRUE, !.require_approval_for_dangerous = TRUE,
  !.approval_ids = {"ok1", "ok2"}]

AnyRule == [command_types |-> {}, capabilities |-> {}, danger_levels |-> {},
  target_environments |-> {"paper"}, aggregate_types |-> {}, aggregate_ids |-> {},
  account_ids |-> {}, strategy_ids |-> {}, sources |-> {"trade-tui"}, required_roles |-> {},
  require_mfa |-> FALSE, require_approval |-> FALSE, approval_ids |-> {},
  confirmation_text |-> None]
StrategyRule == [AnyRule EXCEPT !.capabilities = {"strategy.control"}, !.strategy_ids = {"orb"}]
DangerRule == [AnyRule EXCEPT !.danger_levels = {"dangerous"}, !.account_ids = {"*", "main"},
  !.required_roles = {"commander"}, !.require_approval = TRUE, !.approval_ids = {"ok1"}]

ExamplePolicy == [allow_capabilities |-> {}, rules_required |-> TRUE,
  command_capabilities |-> [t \in SymbolCommands |-> "order.cancel_all"],
  sessions |-> << Trader, Commander >>, rules |-> << StrategyRule, DangerRule >>]
Examples == {{}, {ExamplePolicy}}

Envelope(payload, login, approval) == NewEnvelope(payload) @@
  [login |-> login, requested_by_role |-> None, target_environment |-> "paper",
   source |-> "trade-tui", host_id |-> None, terminal_session_id |-> "term",
   approval_id |-> approval, requires_mfa |-> FALSE, confirmation_text |-> "KILL",
   capability |-> IF payload.command_type \in SymbolCommands THEN "order.cancel_all"
                  ELSE CHOOSE x \in ExpectedCapability(payload.command_type) : TRUE]

Payloads ==
  {Payload(type, None, "orb", None) : type \in {"PauseStrategyRequested", "KillStrategyRequested"}}
  \union {Payload("CancelAllOrdersForSymbolRequested", a, None, o) :
            a \in {"main", "global"}, o \in {"*"}}
  \union {Payload("FlattenSymbolRequested", a[1], None, a[2]) : a \in {<< "main", "MU" >>, << "third", "*" >>}}
  \union {Payload(type, a, None, None) : a \in {"main", "all"},
            type \in {"GlobalKillSwitchRequested", "AccountKillSwitchRequested"}}
  \union {Payload("AccountKillSwitchRequested", "third", None, None)}
SomeCommands ==
  {Envelope(p, l, a) : p \in Payloads, l \in {"trader", "commander"}, a \in {None, "ok1"}}
  \union {[Envelope(Payload("ResumeStrategyRequested", None, "orb", None), "trader", None)
            EXCEPT !.requested_by_role = r, !.host_id = h] : r \in {None, "commander"}, h \in {None, "h1"}}
  \union {[Envelope(Payload("AccountKillSwitchRequested", "main", None, None), "commander", "ok1")
            EXCEPT !.command_type = t, !.danger_level = d, !.aggregate_id = << "third" >>,
                   !.capability = "strategy.control"] :
            d \in DangerLevels, t \in {"PauseStrategyRequested", "Unlisted"}}
  \union {[Envelope(Payload("PauseStrategyRequested", None, "orb", None), "trader", None)
            EXCEPT !.command_type = "Unlisted", !.aggregate_type = "account", !.capability = x] :
            x \in {"strategy.control", "order.cancel"}}

SomeSlots == << [account |-> "main", slot |-> 7], [account |-> "main", slot |-> 8],
                Malformed, [account |-> "third", slot |-> 9] >>

SomeSessionEdits ==
  [f \in {"roles"} |-> {{}, {"commander"}}] @@
  [f \in {"accounts"} |-> {{}, {"main"}, {"global"}}] @@
  [f \in {"host_ids", "terminal_session_ids"} |-> {{}, {"h1"}}] @@
  [f \in {"approval_ids"} |-> {{}, {"ok2"}}] @@
  [f \in {"allow_dangerous", "mfa_verified", "require_mfa", "require_approval_for_dangerous"} |-> BOOLEAN]
SomeRuleEdits ==
  [f \in {"command_types"} |-> {{}, {"KillStrategyRequested"}}] @@
  [f \in {"danger_levels"} |-> {{}, {"controlled"}}] @@
  [f \in {"aggregate_ids"} |-> {{}, {<< "main" >>, << "main", "*" >>}}] @@
  [f \in {"account_ids"} |-> {{}, {"main"}, {"all"}}] @@
  [f \in {"required_roles"} |-> {{}, {"commander"}}] @@
  [f \in {"require_mfa", "require_approval"} |-> BOOLEAN] @@
  [f \in {"approval_ids"} |-> {{}, {"ok2"}}] @@
  [f \in {"confirmation_text"} |-> {None, "DRAIN"}]
=============================================================================
