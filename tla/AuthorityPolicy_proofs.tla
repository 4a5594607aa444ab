------------------------- MODULE AuthorityPolicy_proofs -------------------------
(***************************************************************************)
(* What AuthorityPolicy decides, for every command, policy file and edit.  *)
(* The only state the proofs need is that the policy is one file, or none, *)
(* whose sessions are numbered: the first matching one can then be named.  *)
(***************************************************************************)
EXTENDS AuthorityPolicy, WellFoundedInduction, TLAPS

Shaped(p) ==
  /\ {"sessions", "rules", "rules_required"} \subseteq DOMAIN p
  /\ DOMAIN p.sessions \subseteq Nat

PolicyInv ==
  /\ policy = {} \/ \E p \in policy : policy = {p}
  /\ \A p \in policy : Shaped(p)

DecidedInv ==
  \A d \in decided :
    /\ d.command \in Commands
    /\ d.decision = Decide(d.command, policy)
    /\ d.control = IF Accepted(d.command, policy)
                   THEN BrokerControlRequest(d.command.payload, AccountSlots) ELSE Unsupported

\* A set of naturals has a least element.
LEMMA LeastExists ==
  ASSUME NEW T, T \subseteq Nat, T # {}
  PROVE  \E x \in T : \A y \in T : x <= y
<1> DEFINE Less == {ss \in Nat \X Nat : ss[1] < ss[2]}
<1>1. IsWellFoundedOn(Less, Nat)
  BY NatLessThanWellFounded DEF OpToRel
<1>2. \E x \in T : \A y \in T : ~ (<< y, x >> \in Less)
  <2> HIDE DEF Less
  <2> QED
    BY <1>1, WFMin
<1>3. \A x, y \in Nat : x < y => << x, y >> \in Less
  OBVIOUS
<1> HIDE DEF Less
<1>4. \A x, y \in T : ~ (x < y) => y <= x
  OBVIOUS
<1> QED
  BY <1>2, <1>3, <1>4

\* The session of a command is one of its operator's sessions.
LEMMA SessionMatches ==
  ASSUME NEW c, NEW p, Shaped(p), Matching(c, p) # {}
  PROVE  \E i \in Matching(c, p) :
           /\ \A j \in Matching(c, p) : i <= j
           /\ SessionOf(c, p) = p.sessions[i]
<1>1. Matching(c, p) \subseteq Nat
  BY DEF Matching, Shaped
<1>2. \E i \in Matching(c, p) : \A j \in Matching(c, p) : i <= j
  BY <1>1, LeastExists
<1> QED
  BY <1>2 DEF SessionOf

\* An entry of a tightened list was allowed before.
LEMMA TightenedLists ==
  ASSUME NEW l, NEW m, NEW x
  PROVE  /\ Tightens(l, m) /\ Listed(m, x) => Listed(l, x)
         /\ WildTightens(l, m) /\ Allowed(m, x) => Allowed(l, x)
         /\ WildTightens(l, m) /\ AllowedAccount(m, x) => AllowedAccount(l, x)
         /\ WildTightens(l, m) /\ m = {} => l = {}
         /\ Tightens(l, m) /\ m = {} => l = {}
BY DEF Tightens, WildTightens, Listed, Allowed, AllowedAccount

\* A tightened session allows no command the session did not.
LEMMA TightenedSession ==
  ASSUME NEW c, NEW s, NEW t, SessionTightens(s, t), SessionOk(c, t)
  PROVE  SessionOk(c, s)
<1>1. c.requested_by_role # None => Listed(s.roles, c.requested_by_role)
  BY DEF SessionTightens, SessionOk, Listed
<1>2. Listed(s.capabilities, c.capability)
  BY TightenedLists DEF SessionTightens, SessionOk
<1>3. Listed(s.target_environments, c.target_environment)
  BY TightenedLists DEF SessionTightens, SessionOk
<1>4. ScopeOk(c, s)
  BY TightenedLists DEF SessionTightens, SessionOk, ScopeOk
<1>5. SourceOk(c, s)
  BY TightenedLists DEF SessionTightens, SessionOk, SourceOk
<1>6. MfaNeeded(c, s) => s.mfa_verified
  BY DEF SessionTightens, SessionOk, MfaNeeded
<1>7. IsDangerous(c) /\ s.require_approval_for_dangerous => Approved(c, s.approval_ids)
  BY TightenedLists DEF SessionTightens, SessionOk, Approved
<1> QED
  BY <1>1, <1>2, <1>3, <1>4, <1>5, <1>6, <1>7 DEF SessionOk

\* A tightened rule matches and accepts less, in a tightened session.
LEMMA TightenedRule ==
  ASSUME NEW c, NEW r, NEW q, NEW s, NEW t,
         RuleTightens(r, q), s.roles = t.roles \/ t.roles \subseteq s.roles,
         t.mfa_verified => s.mfa_verified
  PROVE  /\ RuleMatches(q, c) => RuleMatches(r, c)
         /\ RuleSatisfied(q, c, t) => RuleSatisfied(r, c, s)
<1>1. ASSUME RuleMatches(q, c)
      PROVE  RuleMatches(r, c)
  <2>1. /\ Allowed(r.command_types, c.command_type)
        /\ Allowed(r.capabilities, c.capability)
        /\ Listed(r.danger_levels, c.danger_level)
        /\ Allowed(r.target_environments, c.target_environment)
        /\ Allowed(r.aggregate_types, c.aggregate_type)
        /\ Allowed(r.sources, c.source)
    BY <1>1, TightenedLists DEF RuleTightens, RuleMatches
  <2>2. r.aggregate_ids # {} => c.aggregate_id \in r.aggregate_ids \/ << "*" >> \in r.aggregate_ids
    BY <1>1 DEF RuleTightens, RuleMatches, Tightens
  <2>3. r.account_ids # {} => Account(c) # None /\ AllowedAccount(r.account_ids, Account(c))
    BY <1>1, TightenedLists DEF RuleTightens, RuleMatches
  <2>4. r.strategy_ids # {} => Strategy(c) # None /\ Allowed(r.strategy_ids, Strategy(c))
    BY <1>1, TightenedLists DEF RuleTightens, RuleMatches
  <2> QED
    BY <2>1, <2>2, <2>3, <2>4 DEF RuleMatches
<1>2. ASSUME RuleSatisfied(q, c, t)
      PROVE  RuleSatisfied(r, c, s)
  <2>1. r.required_roles # {} => s.roles \intersect r.required_roles # {}
    BY <1>2 DEF RuleTightens, RuleSatisfied, Tightens
  <2>2. r.require_mfa => s.mfa_verified
    BY <1>2 DEF RuleTightens, RuleSatisfied
  <2>3. r.require_approval => Approved(c, r.approval_ids)
    BY <1>2, TightenedLists DEF RuleTightens, RuleSatisfied, Approved
  <2>4. r.confirmation_text # None => c.confirmation_text = r.confirmation_text
    BY <1>2 DEF RuleTightens, RuleSatisfied
  <2> QED
    BY <2>1, <2>2, <2>3, <2>4 DEF RuleSatisfied
<1> QED
  BY <1>1, <1>2

\* Its own rules, in a tightened session, accept less as well.
LEMMA TightenedRoles ==
  ASSUME NEW c, NEW r, NEW s, NEW t, RuleSatisfied(r, c, t),
         s.roles = t.roles \/ t.roles \subseteq s.roles, t.mfa_verified => s.mfa_verified
  PROVE  RuleSatisfied(r, c, s)
BY DEF RuleSatisfied

\* Nothing gets past tightened rules that did not get past the old ones.
LEMMA TightenedRules ==
  ASSUME NEW c, NEW p, NEW q, NEW s, NEW t,
         RulesTighten(p, q), RulesOk(c, q, t),
         s.roles = t.roles \/ t.roles \subseteq s.roles, t.mfa_verified => s.mfa_verified
  PROVE  RulesOk(c, p, s)
<1>1. CASE DOMAIN p.rules = {}
  BY <1>1 DEF RulesOk
<1>2. CASE q.rules = p.rules /\ (p.rules_required => q.rules_required)
  BY <1>2, TightenedRoles DEF RulesOk
<1>3. CASE /\ q.rules_required /\ DOMAIN q.rules # {}
           /\ \A j \in DOMAIN q.rules : \E i \in DOMAIN p.rules : RuleTightens(p.rules[i], q.rules[j])
  <2>1. PICK j \in DOMAIN q.rules : RuleMatches(q.rules[j], c) /\ RuleSatisfied(q.rules[j], c, t)
    BY <1>3 DEF RulesOk
  <2>2. PICK i \in DOMAIN p.rules : RuleTightens(p.rules[i], q.rules[j])
    BY <1>3, <2>1
  <2>3. RuleMatches(p.rules[i], c) /\ RuleSatisfied(p.rules[i], c, s)
    BY <2>1, <2>2, TightenedRule
  <2> QED
    BY <2>2, <2>3 DEF RulesOk
<1> QED
  BY <1>1, <1>2, <1>3 DEF RulesTighten

\* A command that a tightened policy accepts, the policy accepted.
LEMMA TightenedPolicy ==
  ASSUME NEW c, NEW p, NEW q, Shaped(p), Shaped(q), PolicyTightens(p, q), Accepted(c, {q})
  PROVE  Accepted(c, {p})
<1>1. /\ CapabilityOk(c, {q}) /\ PolicyOk(c, q)
      /\ IsDangerous(c) => DangerousAllowed(c, {q})
  BY Zenon DEF Accepted, Decide, Rejected
<1>2. Matching(c, p) = Matching(c, q)
  BY DEF PolicyTightens, SessionTightens, Matching
<1>3. PICK i \in Matching(c, p) : \A j \in Matching(c, p) : i <= j
  BY <1>1, <1>2, LeastExists DEF PolicyOk, Matching, Shaped
<1>4. PICK k \in DOMAIN p.sessions :
        SessionOf(c, p) = p.sessions[k] /\ SessionOf(c, q) = q.sessions[k]
  <2> DEFINE k == CHOOSE i1 \in Matching(c, p) : \A j \in Matching(c, p) : i1 <= j
  <2>1. k \in Matching(c, p)
    BY <1>3
  <2> QED
    BY <1>2, <2>1 DEF SessionOf, Matching
<1> DEFINE s == p.sessions[k]
           t == q.sessions[k]
<1>5. SessionTightens(s, t)
  BY DEF PolicyTightens
<1> HIDE DEF s, t
<1>6. SessionOf(c, p) = s /\ SessionOf(c, q) = t
  BY <1>4 DEF s, t
<1>7. PolicyOk(c, p)
  <2>1. SessionOk(c, s)
    BY <1>1, <1>5, <1>6, TightenedSession DEF PolicyOk
  <2>2. RulesOk(c, p, s)
    BY <1>1, <1>5, <1>6, TightenedRules DEF PolicyOk, PolicyTightens, SessionTightens
  <2> QED
    BY <1>1, <1>2, <1>6, <2>1, <2>2 DEF PolicyOk
<1>8. CapabilityOk(c, {p})
  BY <1>1, TightenedLists DEF CapabilityOk, ExpectedOf, PolicyTightens
<1>9. IsDangerous(c) => DangerousAllowed(c, {p})
  BY <1>1, <1>2, <1>5, <1>6 DEF DangerousAllowed, SessionTightens
<1> QED
  BY <1>7, <1>8, <1>9 DEF Accepted, Decide, Rejected

-----------------------------------------------------------------------------
\* The policy is one shaped file, or none, at the start and after every edit.
LEMMA PolicyInvStep ==
  ASSUME PolicyInv, [Next]_vars
  PROVE  PolicyInv'
<1>1. CASE policy' = policy
  BY <1>1 DEF PolicyInv
<1>2. ASSUME NEW p \in policy, NEW q, Rewrite(q), Shaped(q)
      PROVE  PolicyInv'
  BY <1>2 DEF Rewrite, PolicyInv
<1>3. ASSUME EditSession
      PROVE  PolicyInv'
  <2>1. PICK p \in policy : \E i \in DOMAIN p.sessions, f \in DOMAIN SessionEdits :
          \E v \in SessionEdits[f] : Rewrite([p EXCEPT !.sessions[i][f] = v])
    BY <1>3 DEF EditSession
  <2>2. PICK i \in DOMAIN p.sessions, f \in DOMAIN SessionEdits, v \in UNION {SessionEdits[f1] : f1 \in DOMAIN SessionEdits} :
          Rewrite([p EXCEPT !.sessions[i][f] = v])
    BY <2>1
  <2>3. Shaped([p EXCEPT !.sessions[i][f] = v])
    BY DEF PolicyInv, Shaped
  <2> QED
    BY <1>2, <2>2, <2>3
<1>4. ASSUME EditRule
      PROVE  PolicyInv'
  <2>1. PICK p \in policy : \E i \in DOMAIN p.rules, f \in DOMAIN RuleEdits :
          \E v \in RuleEdits[f] : Rewrite([p EXCEPT !.rules[i][f] = v])
    BY <1>4 DEF EditRule
  <2>2. PICK i \in DOMAIN p.rules, f \in DOMAIN RuleEdits, v \in UNION {RuleEdits[f1] : f1 \in DOMAIN RuleEdits} :
          Rewrite([p EXCEPT !.rules[i][f] = v])
    BY <2>1
  <2>3. Shaped([p EXCEPT !.rules[i][f] = v])
    BY DEF PolicyInv, Shaped
  <2> QED
    BY <1>2, <2>2, <2>3
<1>5. ASSUME DropRule
      PROVE  PolicyInv'
  <2>1. PICK p \in policy : Rewrite([p EXCEPT !.rules = SubSeq(@, 1, Len(@) - 1)])
    BY <1>5 DEF DropRule
  <2>2. Shaped([p EXCEPT !.rules = SubSeq(@, 1, Len(@) - 1)])
    BY DEF PolicyInv, Shaped
  <2> QED
    BY <1>2, <2>1, <2>2
<1>6. ASSUME RequireRules
      PROVE  PolicyInv'
  <2>1. PICK p \in policy : Rewrite([p EXCEPT !.rules_required = ~ @])
    BY <1>6 DEF RequireRules
  <2>2. Shaped([p EXCEPT !.rules_required = ~ @])
    BY DEF PolicyInv, Shaped
  <2> QED
    BY <1>2, <2>1, <2>2
<1> QED
  BY <1>1, <1>3, <1>4, <1>5, <1>6 DEF Next, ProcessCommand, Return, vars

\* The decision in hand was made from the policy file as it is.
LEMMA PolicyInvariant == Spec => []PolicyInv
<1>1. Init => PolicyInv
  BY PolicyAssumption DEF Init, PolicyInv, Shaped
<1> QED
  BY <1>1, PolicyInvStep, PTL DEF Spec

\* Making the policy file stricter lets nothing through, whatever the file
\* says and whatever is commanded.
THEOREM TighteningIsSafe == Spec => TighteningNeverWidens
<1>1. ASSUME PolicyInv, PolicyInv'
      PROVE  TighteningStep
  <2> SUFFICES \A p, q, c : p \in policy /\ q \in policy' /\ PolicyTightens(p, q)
                              /\ Accepted(c, policy') => Accepted(c, policy)
    BY DEF TighteningStep
  <2> TAKE p, q, c
  <2> HAVE p \in policy /\ q \in policy' /\ PolicyTightens(p, q) /\ Accepted(c, policy')
  <2>1. policy = {p} /\ policy' = {q}
    BY <1>1 DEF PolicyInv
  <2>2. Shaped(p) /\ Shaped(q)
    BY <1>1 DEF PolicyInv
  <2> QED
    BY <2>1, <2>2, TightenedPolicy
<1>2. PolicyInv /\ PolicyInv' => TighteningStep
  BY <1>1 DEF TighteningStep
<1> QED
  BY <1>2, PolicyInvariant, PTL DEF TighteningNeverWidens

-----------------------------------------------------------------------------
\* A decision in progress is the one the policy calls for.
LEMMA DecidedInvariant == Spec => []DecidedInv
<1>1. Init => DecidedInv
  BY DEF Init, DecidedInv
<1>2. DecidedInv /\ [Next]_vars => DecidedInv'
  BY DEF DecidedInv, Next, ProcessCommand, Return, EditSession, EditRule, DropRule,
         RequireRules, Rewrite, vars
<1> QED
  BY <1>1, <1>2, PTL DEF Spec

\* What an accepted command was checked for.
LEMMA AcceptedMeans ==
  ASSUME NEW c, NEW p, Accepted(c, {p})
  PROVE  PolicyOk(c, p) /\ Decide(c, {p}).rules = AcceptingRules(c, p)
BY Zenon DEF Accepted, Decide, Rejected

\* The authority event names rules that cover the command and accept it, and
\* at least one where the policy file requires one.
THEOREM EvidenceIsSound == Spec => []EvidenceNamesTheRules
<1>1. ASSUME PolicyInv, DecidedInv, NEW d \in decided, NEW p \in policy
      PROVE  /\ \A i \in d.decision.rules :
                  /\ RuleMatches(p.rules[i], d.command)
                  /\ RuleSatisfied(p.rules[i], d.command, SessionOf(d.command, p))
             /\ d.decision.status = "accepted" /\ p.rules_required /\ DOMAIN p.rules # {} =>
                  d.decision.rules # {}
             /\ d.decision.status = "rejected" => d.decision.rules = {}
  <2> DEFINE c == d.command
  <2>1. policy = {p} /\ d.decision = Decide(c, {p})
    BY <1>1 DEF PolicyInv, DecidedInv
  <2>2. CASE Accepted(c, {p})
    <3>1. PolicyOk(c, p) /\ d.decision.rules = AcceptingRules(c, p)
      BY <2>1, <2>2, AcceptedMeans
    <3>2. d.decision.status = "accepted"
      BY <2>1, <2>2 DEF Accepted
    <3>3. p.rules_required /\ DOMAIN p.rules # {} => AcceptingRules(c, p) # {}
      BY <3>1 DEF PolicyOk, RulesOk, AcceptingRules
    <3> QED
      BY <3>1, <3>2, <3>3 DEF AcceptingRules
  <2>3. CASE ~ Accepted(c, {p})
    <3>1. d.decision.rules = {} /\ d.decision.status = "rejected"
      BY <2>1, <2>3 DEF Accepted, Decide, Rejected
    <3> QED
      BY <3>1
  <2> QED
    BY <2>2, <2>3
<1>2. PolicyInv /\ DecidedInv => EvidenceNamesTheRules
  BY <1>1 DEF EvidenceNamesTheRules
<1> QED
  BY <1>2, PolicyInvariant, DecidedInvariant, PTL

-----------------------------------------------------------------------------
\* An element of a sequence is of its kind.
LEMMA ElementKind ==
  ASSUME NEW T, NEW seq \in Seq(T), NEW i \in 1..Len(seq)
  PROVE  seq[i] \in T
OBVIOUS

\* The slot found for an account is the one its first mapping gives.
LEMMA SlotIsFirst ==
  ASSUME NEW account, account # None, NEW n \in AccountSlotFor(account, AccountSlots)
  PROVE  \E i \in DOMAIN AccountSlots :
           /\ AccountSlots[i] = [account |-> account, slot |-> n]
           /\ \A j \in 1..(i - 1) : AccountSlots[j].account # account
<1> DEFINE Stops == {i \in DOMAIN AccountSlots :
                       AccountSlots[i] = Malformed \/ AccountSlots[i].account = account}
           first == CHOOSE i \in Stops : \A j \in Stops : i <= j
<1>1. Stops # {} /\ AccountSlots[first] # Malformed /\ n = AccountSlots[first].slot
  BY DEF AccountSlotFor
<1>2. DOMAIN AccountSlots = 1..Len(AccountSlots)
  BY PolicyAssumption
<1>3. \E i \in Stops : \A j \in Stops : i <= j
  <2>1. Stops \subseteq Nat
    BY <1>2
  <2> HIDE DEF Stops
  <2> QED
    BY <1>1, <2>1, LeastExists
<1>4. first \in Stops /\ \A j \in Stops : first <= j
  BY <1>3
<1> HIDE DEF first
<1>5. AccountSlots[first] = [account |-> account, slot |-> n]
  <2>1. AccountSlots[first] \in [account : STRING, slot : Int]
    <3>1. first \in DOMAIN AccountSlots
      BY <1>4
    <3> QED
      BY <1>2, <3>1, ElementKind, PolicyAssumption
  <2>2. AccountSlots[first].account = account /\ AccountSlots[first].slot = n
    BY <1>1, <1>4
  <2> HIDE DEF Stops
  <2> QED
    BY <2>1, <2>2
<1>6. \A j \in 1..(first - 1) : AccountSlots[j].account # account
  BY <1>2, <1>4
<1> QED
  BY <1>4, <1>5, <1>6

\* A control for a slot comes from an account that is mapped to it.
LEMMA SlotControlMeans ==
  ASSUME NEW account, NEW family, SlotScope(account, AccountSlots, family) # Unsupported
  PROVE  /\ ~ IsGlobalAlias(account)
         /\ SlotScope(account, AccountSlots, family).scope = "account_slot"
         /\ SlotScope(account, AccountSlots, family).slot \in AccountSlotFor(account, AccountSlots)
<1>1. ~ IsGlobalAlias(account) /\ AccountSlotFor(account, AccountSlots) # {}
  BY DEF SlotScope
<1> DEFINE n == CHOOSE n1 \in AccountSlotFor(account, AccountSlots) : TRUE
<1>2. n \in AccountSlotFor(account, AccountSlots)
  BY <1>1
<1>3. SlotScope(account, AccountSlots, family) = SlotControl(n, family)
  BY <1>1 DEF SlotScope
<1> HIDE DEF n
<1> QED
  BY <1>1, <1>2, <1>3 DEF SlotControl

\* What a control, if there is one, was asked for.
LEMMA ControlMeans ==
  ASSUME NEW payload, IsPayload(payload), BrokerControlRequest(payload, AccountSlots) # Unsupported
  PROVE  LET control == BrokerControlRequest(payload, AccountSlots) IN
         /\ payload.account # None /\ payload.object \in {None, "*"}
         /\ control.scope \in {"global", "account_slot"}
         /\ control.scope = "global" <=> IsGlobalAlias(payload.account)
         /\ control.scope = "account_slot" =>
              control.slot \in AccountSlotFor(payload.account, AccountSlots)
<1>1. CASE payload.command_type = "GlobalKillSwitchRequested"
  <2>1. BrokerControlRequest(payload, AccountSlots) =
          IF IsGlobalAlias(payload.account) THEN GlobalControl("global_kill") ELSE Unsupported
    BY <1>1 DEF BrokerControlRequest, SymbolCommands, AccountCommands
  <2>2. payload.account # None /\ payload.object = None
    BY <1>1 DEF IsPayload, AggregateType, StrategyCommands, SymbolCommands, AccountCommands
  <2> QED
    BY <2>1, <2>2 DEF GlobalControl
<1>2. CASE payload.command_type \in SymbolCommands
  <2>1. payload.object = "*" /\ BrokerControlRequest(payload, AccountSlots) = AnyScope(payload.account, AccountSlots, Family(payload))
    <3>1. BrokerControlRequest(payload, AccountSlots) =
            IF payload.object = "*" THEN AnyScope(payload.account, AccountSlots, Family(payload)) ELSE Unsupported
      BY <1>2 DEF BrokerControlRequest, SymbolCommands, AccountCommands
    <3> QED
      BY <3>1
  <2>2. payload.account # None
    BY <1>2 DEF IsPayload, AggregateType, StrategyCommands, SymbolCommands
  <2>3. CASE IsGlobalAlias(payload.account)
    BY <2>1, <2>2, <2>3 DEF AnyScope, GlobalControl
  <2>4. CASE ~ IsGlobalAlias(payload.account)
    <3>1. BrokerControlRequest(payload, AccountSlots) = SlotScope(payload.account, AccountSlots, Family(payload))
      BY <2>1, <2>4 DEF AnyScope
    <3> QED
      BY <2>1, <2>2, <3>1, SlotControlMeans
  <2> QED
    BY <2>3, <2>4
<1>3. CASE payload.command_type \in AccountCommands \ {"GlobalKillSwitchRequested"}
  <2>1. BrokerControlRequest(payload, AccountSlots) = SlotScope(payload.account, AccountSlots, Family(payload))
    BY <1>3 DEF BrokerControlRequest, SymbolCommands, AccountCommands
  <2>2. payload.account # None /\ payload.object = None
    BY <1>3 DEF IsPayload, AggregateType, StrategyCommands, SymbolCommands, AccountCommands
  <2> QED
    BY <2>1, <2>2, SlotControlMeans
<1>4. CASE payload.command_type \notin SymbolCommands \union AccountCommands
  BY <1>4 DEF BrokerControlRequest, SymbolCommands, AccountCommands
<1> QED
  BY <1>1, <1>2, <1>3, <1>4

\* No runtime control reaches further than its command says and the session
\* allows, for any mapping of slots and any policy file.
THEOREM ScopeIsNeverWidened == Spec => []NoScopeBroadening
<1>1. ASSUME PolicyInv, DecidedInv, NEW d \in decided, d.control # Unsupported
      PROVE  /\ Account(d.command) # None /\ d.command.payload.object \in {None, "*"}
             /\ (d.control.scope = "global") <=> IsGlobalAlias(Account(d.command))
             /\ \A p \in policy :
                  LET accounts == SessionOf(d.command, p).accounts IN
                  \/ accounts = {} \/ "*" \in accounts
                  \/ d.control.scope = "global" /\ \E a \in accounts : IsGlobalAlias(a)
                  \/ d.control.scope = "account_slot" /\ Account(d.command) \in accounts
             /\ d.control.scope = "account_slot" =>
                  \E i \in DOMAIN AccountSlots :
                    /\ AccountSlots[i] = [account |-> Account(d.command), slot |-> d.control.slot]
                    /\ \A j \in 1..(i - 1) : AccountSlots[j].account # Account(d.command)
  <2> DEFINE c == d.command
  <2>1. /\ c \in Commands /\ Accepted(c, policy)
        /\ d.control = BrokerControlRequest(c.payload, AccountSlots)
    BY <1>1 DEF DecidedInv
  <2>2. /\ Account(c) # None /\ c.payload.object \in {None, "*"}
        /\ d.control.scope \in {"global", "account_slot"}
        /\ d.control.scope = "global" <=> IsGlobalAlias(Account(c))
        /\ d.control.scope = "account_slot" =>
             d.control.slot \in AccountSlotFor(Account(c), AccountSlots)
    <3>1. IsPayload(c.payload)
      BY <2>1, PolicyAssumption
    <3> HIDE DEF c
    <3> QED
      BY <1>1, <2>1, <3>1, ControlMeans DEF Account
  <2>3. ASSUME NEW p \in policy
        PROVE  AllowedAccount(SessionOf(c, p).accounts, Account(c))
    <3>1. policy = {p}
      BY <1>1, <2>3 DEF PolicyInv
    <3>2. PolicyOk(c, p)
      BY <2>1, <3>1, AcceptedMeans
    <3> QED
      BY <2>2, <3>2 DEF PolicyOk, SessionOk, ScopeOk
  <2>4. \A p \in policy :
          LET accounts == SessionOf(c, p).accounts IN
          \/ accounts = {} \/ "*" \in accounts
          \/ d.control.scope = "global" /\ \E a \in accounts : IsGlobalAlias(a)
          \/ d.control.scope = "account_slot" /\ Account(c) \in accounts
    <3> SUFFICES ASSUME NEW p \in policy
                 PROVE  LET accounts == SessionOf(c, p).accounts IN
                        \/ accounts = {} \/ "*" \in accounts
                        \/ d.control.scope = "global" /\ \E a \in accounts : IsGlobalAlias(a)
                        \/ d.control.scope = "account_slot" /\ Account(c) \in accounts
      OBVIOUS
    <3>1. AllowedAccount(SessionOf(c, p).accounts, Account(c))
      BY <2>3
    <3>2. CASE IsGlobalAlias(Account(c))
      BY <2>2, <3>1, <3>2 DEF AllowedAccount
    <3>3. CASE ~ IsGlobalAlias(Account(c))
      BY <2>2, <3>1, <3>3 DEF AllowedAccount
    <3> QED
      BY <3>2, <3>3
  <2>5. d.control.scope = "account_slot" =>
          \E i \in DOMAIN AccountSlots :
            /\ AccountSlots[i] = [account |-> Account(c), slot |-> d.control.slot]
            /\ \A j \in 1..(i - 1) : AccountSlots[j].account # Account(c)
    BY <2>2, SlotIsFirst
  <2> QED
    BY <2>2, <2>4, <2>5
<1>2. PolicyInv /\ DecidedInv => NoScopeBroadening
  BY <1>1 DEF NoScopeBroadening
<1> QED
  BY <1>2, PolicyInvariant, DecidedInvariant, PTL
=============================================================================
