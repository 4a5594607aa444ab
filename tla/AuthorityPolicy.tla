---------------------------- MODULE AuthorityPolicy ----------------------------
(***************************************************************************)
(* command-gateway's authority decision.  process_command reads the policy *)
(* file anew for every command, decides, and hands an accepted command to  *)
(* broker control; in between the operator edits the file, one field at a  *)
(* time.                                                                   *)
(*                                                                         *)
(* A list of the file is a set: nothing depends on its order but in        *)
(* sessions and rules, which are sequences.  `policy` holds the file's     *)
(* contents, and is empty when the gateway was given no file.  The ids and *)
(* texts of rules are left out: evidence names a rule by its position.     *)
(*                                                                         *)
(* validate_command does not compare the envelope with its payload, so     *)
(* command_type, aggregate_type, aggregate_id and danger_level are inputs  *)
(* here: only the account, the strategy and the broker control come from   *)
(* the payload.                                                            *)
(***************************************************************************)
EXTENDS BrokerControl

CONSTANTS
  Commands,            \* command envelopes
  InitialPolicies,     \* what `policy` may hold at the start
  AllowDangerous,      \* --allow-dangerous
  AllowCapabilities,   \* --allow-capability
  AccountSlots,        \* --broker-account-slot
  SessionEdits,        \* the values an edit gives each field of a session
  RuleEdits,           \* and of a rule
  MaxEdits             \* bound: edits of the file

ASSUME PolicyAssumption ==
  /\ AllowDangerous \in BOOLEAN
  /\ MaxEdits \in Nat
  /\ \A c \in Commands : IsPayload(c.payload) /\ c.danger_level \in DangerLevels
  /\ AccountSlots \in Seq([account : STRING, slot : Int])
  /\ \A initial \in InitialPolicies :
       /\ initial = {} \/ \E p \in initial : initial = {p}
       /\ \A p \in initial :
            /\ {"sessions", "rules", "rules_required"} \subseteq DOMAIN p
            /\ \A i \in DOMAIN p.sessions : i \in Nat

VARIABLES
  policy,
  decided,   \* the command in process_command, with its decision; or none
  edits

vars == << policy, decided, edits >>

-----------------------------------------------------------------------------
\* Three ways to look something up in a list; an empty list allows everything.

Listed(list, x) == list = {} \/ x \in list
Allowed(list, x) == list = {} \/ "*" \in list \/ x \in list   \* allowed_string

AllowedAccount(list, account) ==
  \/ list = {} \/ "*" \in list
  \/ IF IsGlobalAlias(account) THEN \E g \in list : IsGlobalAlias(g) ELSE account \in list

\* matching_session: the first session of the command's operator.
Matching(c, p) == {i \in DOMAIN p.sessions : p.sessions[i].login = c.login}
SessionOf(c, p) ==
  p.sessions[CHOOSE i \in Matching(c, p) : \A j \in Matching(c, p) : i <= j]

\* The capability a command needs: the policy file's, else the gateway's own.
ExpectedOf(c, policies) ==
  IF \E p \in policies : c.command_type \in DOMAIN p.command_capabilities
  THEN {p.command_capabilities[c.command_type] : p \in policies}
  ELSE ExpectedCapability(c.command_type)

\* capability_rejection_reason: where none is expected the `?` skips every check.
CapabilityOk(c, policies) ==
  \/ ExpectedOf(c, policies) = {}
  \/ /\ c.capability \in ExpectedOf(c, policies)
     /\ Listed(AllowCapabilities, c.capability)
     /\ \A p \in policies : Listed(p.allow_capabilities, c.capability)

\* command_account_id and command_strategy_id
Account(c) == c.payload.account
Strategy(c) == c.payload.strategy

\* scope_rejection_reason
ScopeOk(c, s) ==
  /\ Account(c) # None => AllowedAccount(s.accounts, Account(c))
  /\ Strategy(c) # None => Allowed(s.strategies, Strategy(c))

\* source_rejection_reason
SourceOk(c, s) ==
  /\ Allowed(s.sources, c.source)
  /\ s.host_ids # {} => c.host_id # None /\ Allowed(s.host_ids, c.host_id)
  /\ s.terminal_session_ids # {} =>
       c.terminal_session_id # None /\ Allowed(s.terminal_session_ids, c.terminal_session_id)

IsDangerous(c) == c.danger_level = "dangerous"

MfaNeeded(c, s) ==
  s.require_mfa \/ c.requires_mfa \/ (IsDangerous(c) /\ s.require_mfa_for_dangerous)

Approved(c, ids) == c.approval_id # None /\ Allowed(ids, c.approval_id)

\* policy_rejection_reason up to the rules
SessionOk(c, s) ==
  /\ c.requested_by_role # None => Listed(s.roles, c.requested_by_role)
  /\ Listed(s.capabilities, c.capability)
  /\ Listed(s.target_environments, c.target_environment)
  /\ ScopeOk(c, s)
  /\ SourceOk(c, s)
  /\ MfaNeeded(c, s) => s.mfa_verified
  /\ IsDangerous(c) /\ s.require_approval_for_dangerous => Approved(c, s.approval_ids)

\* rule_matches_command
RuleMatches(r, c) ==
  /\ Allowed(r.command_types, c.command_type)
  /\ Allowed(r.capabilities, c.capability)
  /\ Listed(r.danger_levels, c.danger_level)
  /\ Allowed(r.target_environments, c.target_environment)
  /\ Allowed(r.aggregate_types, c.aggregate_type)
  /\ r.aggregate_ids # {} => c.aggregate_id \in r.aggregate_ids \/ << "*" >> \in r.aggregate_ids
  /\ r.account_ids # {} => Account(c) # None /\ AllowedAccount(r.account_ids, Account(c))
  /\ r.strategy_ids # {} => Strategy(c) # None /\ Allowed(r.strategy_ids, Strategy(c))
  /\ Allowed(r.sources, c.source)

\* rule_specific_rejection_reason
RuleSatisfied(r, c, s) ==
  /\ r.required_roles # {} => s.roles \intersect r.required_roles # {}
  /\ r.require_mfa => s.mfa_verified
  /\ r.require_approval => Approved(c, r.approval_ids)
  /\ r.confirmation_text # None => c.confirmation_text = r.confirmation_text

\* Mutant: the evidence lists the rules that match, satisfied or not.
AcceptingRules_Matching(c, p) == {i \in DOMAIN p.rules : RuleMatches(p.rules[i], c)}

\* accepted_rule_ids
AcceptingRules(c, p) ==
  {i \in DOMAIN p.rules :
     RuleMatches(p.rules[i], c) /\ RuleSatisfied(p.rules[i], c, SessionOf(c, p))}

\* Mutant: no rule that matches is as good as no rule.
RulesOk_NotRequired(c, p, s) ==
  LET Rules == {p.rules[i] : i \in DOMAIN p.rules}
      Hits == {r \in Rules : RuleMatches(r, c)}
  IN Hits = {} \/ \E r \in Hits : RuleSatisfied(r, c, s)

\* rule_rejection_reason: one satisfied rule suffices.  Without any rule in
\* the file rules_required requires nothing.
RulesOk(c, p, s) ==
  LET Rules == {p.rules[i] : i \in DOMAIN p.rules}
      Hits == {r \in Rules : RuleMatches(r, c)}
  IN \/ Rules = {}
     \/ Hits = {} /\ ~ p.rules_required
     \/ \E r \in Hits : RuleSatisfied(r, c, s)

\* policy_rejection_reason
PolicyOk(c, p) ==
  /\ Matching(c, p) # {}
  /\ SessionOk(c, SessionOf(c, p))
  /\ RulesOk(c, p, SessionOf(c, p))

\* dangerous_allowed: with a policy file only the session can grant it.
DangerousAllowed(c, policies) ==
  IF policies = {} THEN AllowDangerous
  ELSE \E p \in policies : Matching(c, p) # {} /\ SessionOf(c, p).allow_dangerous

Rejected(code) == [status |-> "rejected", reason_code |-> code, rules |-> {}]

\* decide: the first check that fails gives the reason.
Decide(c, policies) ==
  IF ~ CapabilityOk(c, policies) THEN Rejected("capability_rejected")
  ELSE IF \E p \in policies : ~ PolicyOk(c, p) THEN Rejected("policy_rejected")
  ELSE IF IsDangerous(c) /\ ~ DangerousAllowed(c, policies)
    THEN Rejected("dangerous_rejected_by_default")
  ELSE [status |-> "accepted", reason_code |-> "capability_ok",
        rules |-> UNION {AcceptingRules(c, p) : p \in policies}]

Accepted(c, policies) == Decide(c, policies).status = "accepted"

-----------------------------------------------------------------------------
Init ==
  /\ policy \in InitialPolicies
  /\ decided = {}
  /\ edits = 0

\* process_command up to the dispatch to broker control.
ProcessCommand(c) ==
  /\ decided = {}
  /\ decided' = {[command |-> c, decision |-> Decide(c, policy),
                  control |-> IF Accepted(c, policy) THEN BrokerControlRequest(c.payload, AccountSlots)
                              ELSE Unsupported]}
  /\ UNCHANGED << policy, edits >>

\* process_command returns.
Return ==
  /\ decided # {}
  /\ decided' = {}
  /\ UNCHANGED << policy, edits >>

\* The operator changes one thing in the policy file (external).  The command
\* in process_command has read the file already: no edit can reach it.
Rewrite(q) ==
  /\ decided = {}
  /\ edits < MaxEdits
  /\ edits' = edits + 1
  /\ policy' = {q}
  /\ UNCHANGED decided

EditSession ==
  \E p \in policy : \E i \in DOMAIN p.sessions, f \in DOMAIN SessionEdits :
    \E v \in SessionEdits[f] : Rewrite([p EXCEPT !.sessions[i][f] = v])

EditRule ==
  \E p \in policy : \E i \in DOMAIN p.rules, f \in DOMAIN RuleEdits :
    \E v \in RuleEdits[f] : Rewrite([p EXCEPT !.rules[i][f] = v])

DropRule ==
  \E p \in policy : DOMAIN p.rules # {} /\ Rewrite([p EXCEPT !.rules = SubSeq(@, 1, Len(@) - 1)])

RequireRules ==
  \E p \in policy : Rewrite([p EXCEPT !.rules_required = ~ @])

Next ==
  \/ \E c \in Commands : ProcessCommand(c)
  \/ Return \/ EditSession \/ EditRule \/ DropRule \/ RequireRules

Spec == Init /\ [][Next]_vars

-----------------------------------------------------------------------------
\* When does an edit tighten?  A list must keep an entry: the empty one allows
\* everything.  The lists with a wildcard tighten from "*" to any other.
Tightens(l, m) == m = l \/ (m # {} /\ (l = {} \/ m \subseteq l))
WildTightens(l, m) == Tightens(l, m) \/ (m # {} /\ "*" \in l)

\* A session without roles may be asked for any role, yet has none for a rule
\* that requires one: giving it its first role is no tightening.
SessionTightens(s, t) ==
  /\ t.login = s.login
  /\ t.roles = s.roles \/ (t.roles # {} /\ t.roles \subseteq s.roles)
  /\ Tightens(s.capabilities, t.capabilities)
  /\ Tightens(s.target_environments, t.target_environments)
  /\ WildTightens(s.accounts, t.accounts)
  /\ WildTightens(s.strategies, t.strategies)
  /\ WildTightens(s.sources, t.sources)
  /\ WildTightens(s.host_ids, t.host_ids)
  /\ WildTightens(s.terminal_session_ids, t.terminal_session_ids)
  /\ WildTightens(s.approval_ids, t.approval_ids)
  /\ t.allow_dangerous => s.allow_dangerous
  /\ t.mfa_verified => s.mfa_verified
  /\ s.require_mfa => t.require_mfa
  /\ s.require_mfa_for_dangerous => t.require_mfa_for_dangerous
  /\ s.require_approval_for_dangerous => t.require_approval_for_dangerous

RuleTightens(r, q) ==
  /\ WildTightens(r.command_types, q.command_types)
  /\ WildTightens(r.capabilities, q.capabilities)
  /\ Tightens(r.danger_levels, q.danger_levels)
  /\ WildTightens(r.target_environments, q.target_environments)
  /\ WildTightens(r.aggregate_types, q.aggregate_types)
  /\ Tightens(r.aggregate_ids, q.aggregate_ids)
  /\ WildTightens(r.account_ids, q.account_ids)
  /\ WildTightens(r.strategy_ids, q.strategy_ids)
  /\ WildTightens(r.sources, q.sources)
  /\ Tightens(r.required_roles, q.required_roles)
  /\ WildTightens(r.approval_ids, q.approval_ids)
  /\ r.require_mfa => q.require_mfa
  /\ r.require_approval => q.require_approval
  /\ r.confirmation_text \in {None, q.confirmation_text}

\* Rules accept as well as reject: to narrow or drop one tightens only where a
\* rule is required, and only while one is left.
RulesTighten(p, q) ==
  \/ DOMAIN p.rules = {}
  \/ q.rules = p.rules /\ (p.rules_required => q.rules_required)
  \/ /\ q.rules_required /\ DOMAIN q.rules # {}
     /\ \A j \in DOMAIN q.rules : \E i \in DOMAIN p.rules : RuleTightens(p.rules[i], q.rules[j])

PolicyTightens(p, q) ==
  /\ q.command_capabilities = p.command_capabilities
  /\ Tightens(p.allow_capabilities, q.allow_capabilities)
  /\ DOMAIN q.sessions = DOMAIN p.sessions
  /\ \A i \in DOMAIN p.sessions : SessionTightens(p.sessions[i], q.sessions[i])
  /\ RulesTighten(p, q)

\* No command that the gateway rejects gets through because the operator made
\* the policy file stricter, whatever the lists, flags and rules say together.
TighteningStep ==
  \A p \in policy : \A q \in policy' : PolicyTightens(p, q) =>
    \A c \in Commands : Accepted(c, policy') => Accepted(c, policy)
TighteningNeverWidens == [][TighteningStep]_policy

\* docs/gap-closure-register.md:22: the gateway "refuses unsupported scope
\* widening".  A runtime control for every account is dispatched only for a
\* command that says so, in a session that may; one for a slot only for the
\* account it is mapped to first, and neither for one symbol or one order.
NoScopeBroadening ==
  \A d \in decided : d.control # Unsupported =>
    /\ Account(d.command) # None /\ d.command.payload.object \in {None, "*"}
    /\ (d.control.scope = "global") <=> IsGlobalAlias(Account(d.command))
    /\ \A p \in policy :
         LET accounts == SessionOf(d.command, p).accounts IN
         \/ accounts = {} \/ "*" \in accounts
         \/ d.control.scope = "global" /\ \E a \in accounts : IsGlobalAlias(a)
         \/ d.control.scope = "account_slot" /\ Account(d.command) \in accounts
    /\ d.control.scope = "account_slot" =>
         \E i \in DOMAIN AccountSlots :
           /\ AccountSlots[i] = [account |-> Account(d.command), slot |-> d.control.slot]
           /\ \A j \in 1..(i - 1) : AccountSlots[j].account # Account(d.command)

\* The authority event is evidence: the rules it lists each cover the command
\* and their conditions are met, and where a rule is required one is listed.
EvidenceNamesTheRules ==
  \A d \in decided, p \in policy :
    /\ \A i \in d.decision.rules :
         /\ RuleMatches(p.rules[i], d.command)
         /\ RuleSatisfied(p.rules[i], d.command, SessionOf(d.command, p))
    /\ d.decision.status = "accepted" /\ p.rules_required /\ DOMAIN p.rules # {} =>
         d.decision.rules # {}
    /\ d.decision.status = "rejected" => d.decision.rules = {}
=============================================================================
