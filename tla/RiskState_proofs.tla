---------------------------- MODULE RiskState_proofs ----------------------------
(***************************************************************************)
(* What the cockpit shows of its accounts is current after every event and *)
(* explains itself, its list of blocks has no two rows for one thing and a *)
(* row for every open breach, and the alarm stays on, for any accounts,    *)
(* snapshots and reports.                                                  *)
(***************************************************************************)
EXTENDS RiskState, TLAPS

\* What the ladders return, for any account.
LEMMA LadderType ==
  ASSUME NEW a, NEW channel \in BOOLEAN
  PROVE  Permissions(a, channel) \in PermissionType
<1>1. TradeState(a, channel) \in TradeStates
  BY DEF TradeState, TradeStates
<1>2. QED
  BY <1>1 DEF Permissions, PermissionType, Has

\* A new account and its permissions are well typed.
LEMMA NewTypes == NewAccount \in AccountType /\ NewPermissions \in PermissionType
BY DEF NewAccount, AccountType, NewPermissions, PermissionType, TradeStates, Flags, Ages

\* A snapshot leaves a well typed account.
LEMMA SnapshotType ==
  ASSUME NEW a \in AccountType, NEW s \in SnapshotFields
  PROVE  ApplySnapshot(a, s) \in AccountType
<1>1. [f \in Flags |-> IF s.flags[f] = "absent" THEN a.flags[f] ELSE s.flags[f]]
        \in [Flags -> {"yes", "no", "absent"}]
  BY DEF AccountType, SnapshotFields
<1>2. a.sources \union s.sources \in SUBSET Sources /\ s.age \in Ages
  BY DEF AccountType, SnapshotFields
<1> HIDE DEF Flags, Sources, Ages
<1>3. \A fl \in [Flags -> {"yes", "no", "absent"}], so \in SUBSET Sources, g \in Ages :
        [a EXCEPT !.flags = fl, !.sources = so, !.age = g] \in AccountType
  BY DEF AccountType
<1>4. QED
  BY <1>1, <1>2, <1>3 DEF ApplySnapshot

\* A derived block is recognised by its source and named by account and rule.
LEMMA DerivedNames ==
  ASSUME NEW ids \in SUBSET Accounts, NEW accs, NEW channel,
         NEW b \in DerivedBlocks(ids, accs, channel)
  PROVE  /\ Derived(b)
         /\ \E i \in ids, rule \in AccountRules : b = AccountBlock(i, rule)
BY DEF DerivedBlocks, AccountBlock, Derived

\* After a refresh everything shown is current, whatever it was before.
LEMMA RefreshMakesCurrent ==
  ASSUME NEW blocks, RefreshSafety(blocks), known' \in SUBSET Accounts
  PROVE  ShownIsCurrent'
<1>1. \A i \in known' :
        effective'[i] = Permissions(accounts'[i], broker_order_channel_ok')
  BY DEF RefreshSafety
<1>2. {b \in active_blocks' : Derived(b)}
        = DerivedBlocks(known', accounts', broker_order_channel_ok')
  BY DerivedNames DEF RefreshSafety
<1>3. account' = Current'
  BY DEF RefreshSafety, Current
<1>4. [account' EXCEPT !.blocked_shorts = Current'.blocked_shorts] = Current'
  BY <1>3 DEF Current, AggregateView
<1>5. QED
  BY <1>1, <1>2, <1>4 DEF ShownIsCurrent, Derived

-----------------------------------------------------------------------------
\* The rows of the list of blocks.

\* Two derived blocks are never rows for one thing.
LEMMA DerivedDistinct ==
  ASSUME NEW ids \in SUBSET Accounts, NEW accs, NEW channel,
         NEW b \in DerivedBlocks(ids, accs, channel),
         NEW c \in DerivedBlocks(ids, accs, channel), b # c
  PROVE  Distinct(b, c)
<1>1. PICK i \in ids, rule \in AccountRules : b = AccountBlock(i, rule)
  BY DerivedNames
<1>2. PICK j \in ids, other \in AccountRules : c = AccountBlock(j, other)
  BY DerivedNames
<1>3. i # j \/ rule # other
  BY <1>1, <1>2
<1>4. /\ b.id = << i, rule >> /\ c.id = << j, other >>
      /\ b.rule = rule /\ c.rule = other
      /\ b.scope = << "account", i >> /\ c.scope = << "account", j >>
  BY <1>1, <1>2 DEF AccountBlock
<1>5. QED
  BY <1>3, <1>4 DEF Distinct

\* Nor are a derived block and a reported row.
LEMMA DerivedApart ==
  ASSUME NEW ids \in SUBSET Accounts, NEW accs, NEW channel,
         NEW b \in DerivedBlocks(ids, accs, channel),
         NEW c, NamedByReport(c)
  PROVE  Distinct(b, c) /\ Distinct(c, b)
<1>1. PICK i \in ids, rule \in AccountRules : b = AccountBlock(i, rule)
  BY DerivedNames
<1>2. b.id \in Accounts \X AccountRules /\ b.rule \in AccountRules
  BY <1>1 DEF AccountBlock
<1>3. c.id \notin Accounts \X AccountRules /\ c.rule \notin AccountRules
  BY RiskAssumption DEF NamedByReport
<1>4. QED
  BY <1>2, <1>3 DEF Distinct

\* A report touches no derived block, and keeps the rows distinct and named.
LEMMA UpsertKeepsRows ==
  ASSUME RowsReported, RowsUnique,
         NEW ids \in SUBSET Accounts, NEW accs, NEW channel,
         {b \in active_blocks : Derived(b)} = DerivedBlocks(ids, accs, channel),
         NEW d \in Reports, NEW source \in {"risk_limit", "risk_decision"},
         NEW blocks \in Upserted(d, source)
  PROVE  /\ {b \in blocks : Derived(b)} = {b \in active_blocks : Derived(b)}
         /\ \A b \in blocks : Derived(b) \/ NamedByReport(b)
         /\ \A b, c \in blocks : b # c => Distinct(b, c)
<1> DEFINE new == [id |-> d.id, rule |-> d.rule, scope |-> d.scope, source |-> source,
                   submit |-> TRUE, cancel |-> FALSE, short |-> TRUE]
           matching == {row \in active_blocks : Matches(row, d)}
           Renamed(row) == [new EXCEPT !.id = row.id, !.rule = row.rule, !.scope = row.scope]
<1>1. \A row \in matching : ~ Derived(row) /\ NamedByReport(row)
  <2>1. SUFFICES ASSUME NEW row \in active_blocks, Derived(row), Matches(row, d)
                 PROVE  FALSE
    BY DEF RowsReported
  <2>2. PICK i \in ids, rule \in AccountRules : row = AccountBlock(i, rule)
    BY <2>1, DerivedNames
  <2>3. row.id \in Accounts \X AccountRules /\ row.rule \in AccountRules
    BY <2>2 DEF AccountBlock
  <2>4. QED
    BY <2>1, <2>3, RiskAssumption DEF Matches
<1>2. CASE matching = {}
  <2>1. blocks = active_blocks \union {new}
    BY <1>2 DEF Upserted
  <2>2. ~ Derived(new) /\ NamedByReport(new)
    BY DEF Derived, NamedByReport
  <2>3. \A row \in active_blocks : Distinct(row, new) /\ Distinct(new, row)
    BY <1>2 DEF Matches, Distinct
  <2>4. QED
    BY <2>1, <2>2, <2>3 DEF RowsReported, RowsUnique
<1>3. CASE matching # {}
  <2>1. PICK row \in matching : blocks = (active_blocks \ {row}) \union {Renamed(row)}
    BY <1>3 DEF Upserted
  <2>2. /\ Renamed(row).id = row.id /\ Renamed(row).rule = row.rule
        /\ Renamed(row).scope = row.scope /\ Renamed(row).source = source
    OBVIOUS
  <2>3. ~ Derived(Renamed(row)) /\ NamedByReport(Renamed(row))
    BY <1>1, <2>2 DEF Derived, NamedByReport
  <2>4. \A c \in active_blocks \ {row} :
          Distinct(c, Renamed(row)) /\ Distinct(Renamed(row), c)
    BY <2>2 DEF RowsUnique, Distinct
  <2> HIDE DEF Renamed
  <2>5. {b \in blocks : Derived(b)} = {b \in active_blocks : Derived(b)}
    BY <1>1, <2>1, <2>3
  <2>6. QED
    BY <2>1, <2>3, <2>4, <2>5 DEF RowsReported, RowsUnique
<1>4. QED
  BY <1>2, <1>3

\* A refresh replaces the derived blocks and keeps the rest as it was.
LEMMA RefreshKeepsRows ==
  ASSUME NEW blocks, RefreshSafety(blocks), known' \in SUBSET Accounts,
         \A b \in blocks : Derived(b) \/ NamedByReport(b),
         \A b, c \in blocks : b # c => Distinct(b, c)
  PROVE  RowsReported' /\ RowsUnique'
<1> DEFINE D == DerivedBlocks(known', accounts', broker_order_channel_ok')
<1>1. active_blocks' = {b \in blocks : ~ Derived(b)} \union D
  BY DEF RefreshSafety
<1>2. \A b \in D : Derived(b)
  BY DerivedNames
<1>3. \A b, c \in D : b # c => Distinct(b, c)
  BY DerivedDistinct
<1>4. \A b \in D : \A c \in {r \in blocks : ~ Derived(r)} :
        Distinct(b, c) /\ Distinct(c, b)
  BY DerivedApart
<1>5. QED
  BY <1>1, <1>2, <1>3, <1>4 DEF RowsReported, RowsUnique, Derived, NamedByReport, Distinct

-----------------------------------------------------------------------------
\* The inductive invariant.

\* There is no account, no block and no breach.
LEMMA InitRiskInv == Init => RiskInv
<1> SUFFICES ASSUME Init PROVE RiskInv
  OBVIOUS
<1>1. TypeOK
  <2>1. accounts \in [Accounts -> AccountType]
    BY NewTypes DEF Init
  <2>2. effective \in [Accounts -> PermissionType]
    BY NewTypes DEF Init
  <2>3. rejected_shorts \in 0..MaxShorts
    BY RiskAssumption DEF Init
  <2>4. QED
    BY <2>1, <2>2, <2>3 DEF Init, TypeOK
<1>2. ShownIsCurrent
  <2>1. DerivedBlocks(known, accounts, broker_order_channel_ok) = {}
    BY DEF Init, DerivedBlocks
  <2>2. account = Current
    BY DEF Init, Current
  <2>3. [account EXCEPT !.blocked_shorts = Current.blocked_shorts] = Current
    BY <2>2 DEF Current, AggregateView
  <2>4. QED
    BY <2>1, <2>3 DEF Init, ShownIsCurrent
<1>3. RowsReported /\ RowsUnique
  BY DEF Init, RowsReported, RowsUnique
<1>4. QED
  BY <1>1, <1>2, <1>3 DEF RiskInv

\* What every handler that changes an account does preserves it.
LEMMA ChangeAndRefresh ==
  ASSUME RiskInv, NEW i \in Accounts, NEW a \in AccountType, ChangeAccount(i, a),
         broker_order_channel_ok' \in BOOLEAN,
         UNCHANGED riskVars, rejected_shorts' \in 0..MaxShorts,
         NEW blocks, RefreshSafety(blocks),
         \A b \in blocks : Derived(b) \/ NamedByReport(b),
         \A b, c \in blocks : b # c => Distinct(b, c)
  PROVE  RiskInv'
<1>1. known' \in SUBSET Accounts
  BY DEF RiskInv, TypeOK, ChangeAccount
<1>2. accounts' \in [Accounts -> AccountType]
  BY DEF RiskInv, TypeOK, ChangeAccount
<1>3. effective' \in [Accounts -> PermissionType]
  BY LadderType DEF RiskInv, TypeOK, RefreshSafety
<1>4. TypeOK'
  BY <1>1, <1>2, <1>3 DEF RiskInv, TypeOK, riskVars
<1>5. ShownIsCurrent'
  BY <1>1, RefreshMakesCurrent
<1>6. RowsReported' /\ RowsUnique'
  BY <1>1, RefreshKeepsRows
<1>7. QED
  BY <1>4, <1>5, <1>6 DEF RiskInv

\* So does a handler that leaves the accounts alone and upserts a report.
LEMMA UpsertPreserves ==
  ASSUME RiskInv, NEW d \in Reports, NEW source \in {"risk_limit", "risk_decision"},
         active_blocks' \in Upserted(d, source),
         UNCHANGED << known, accounts, effective, broker_order_channel_ok >>,
         UNCHANGED account \/ \E n : account' = [account EXCEPT !.blocked_shorts = n]
  PROVE  ShownIsCurrent' /\ RowsReported' /\ RowsUnique'
<1>1. /\ {b \in active_blocks' : Derived(b)} = {b \in active_blocks : Derived(b)}
      /\ \A b \in active_blocks' : Derived(b) \/ NamedByReport(b)
      /\ \A b, c \in active_blocks' : b # c => Distinct(b, c)
  BY UpsertKeepsRows DEF RiskInv, TypeOK, ShownIsCurrent
<1>2. Current' = Current
  BY DEF Current
<1>3. [account' EXCEPT !.blocked_shorts = Current'.blocked_shorts] = Current'
  BY <1>2 DEF RiskInv, ShownIsCurrent
<1>4. ShownIsCurrent'
  BY <1>1, <1>3 DEF RiskInv, ShownIsCurrent, Derived
<1>5. RowsReported' /\ RowsUnique'
  BY <1>1 DEF RowsReported, RowsUnique, Derived, NamedByReport, Distinct
<1>6. QED
  BY <1>4, <1>5

\* Every step preserves the invariant.
LEMMA NextRiskInv == RiskInv /\ [Next]_vars => RiskInv'
<1> SUFFICES ASSUME RiskInv, [Next]_vars PROVE RiskInv'
  OBVIOUS
<1> USE RiskAssumption
<1>0. /\ \A b \in active_blocks : Derived(b) \/ NamedByReport(b)
      /\ \A b, c \in active_blocks : b # c => Distinct(b, c)
      /\ rejected_shorts \in 0..MaxShorts
      /\ broker_order_channel_ok \in BOOLEAN
  BY DEF RiskInv, RowsReported, RowsUnique, TypeOK
<1>1. ASSUME NEW i \in Accounts, NEW s \in Snapshots, ReduceAccountSnapshot(i, s)
      PROVE  RiskInv'
  <2>1. ApplySnapshot(accounts[i], s) \in AccountType
    BY SnapshotType DEF RiskInv, TypeOK
  <2>2. broker_order_channel_ok' \in BOOLEAN
    BY <1>0, <1>1 DEF ReduceAccountSnapshot
  <2>3. QED
    BY <1>0, <1>1, <2>1, <2>2, ChangeAndRefresh DEF ReduceAccountSnapshot
<1>2. ASSUME NEW i \in Accounts, NEW ibkr \in {"yes", "no"}, ReduceOrderSubmitted(i, ibkr)
      PROVE  RiskInv'
  <2> DEFINE a == [accounts[i] EXCEPT
                     !.flags = [@ EXCEPT !["connected"] = "yes", !["ibkr"] = ibkr]]
  <2>1. a \in AccountType
    <3>1. accounts[i] \in AccountType
      BY DEF RiskInv, TypeOK
    <3>2. [accounts[i].flags EXCEPT !["connected"] = "yes", !["ibkr"] = ibkr]
            \in [Flags -> {"yes", "no", "absent"}]
      BY <3>1 DEF AccountType
    <3>3. \A fl \in [Flags -> {"yes", "no", "absent"}] :
            [accounts[i] EXCEPT !.flags = fl] \in AccountType
      BY <3>1 DEF AccountType
    <3>4. QED
      BY <3>2, <3>3
  <2> HIDE DEF a
  <2>2. ChangeAccount(i, a)
    BY <1>2 DEF ReduceOrderSubmitted, a
  <2>3. QED
    BY <1>0, <1>2, <2>1, <2>2, ChangeAndRefresh DEF ReduceOrderSubmitted
<1>3. ASSUME NEW i \in Accounts, TouchAccount(i)
      PROVE  RiskInv'
  <2>1. accounts[i] \in AccountType
    BY DEF RiskInv, TypeOK
  <2>2. QED
    BY <1>0, <1>3, <2>1, ChangeAndRefresh DEF TouchAccount
<1>4. ASSUME NEW i \in Accounts, ReducePositionSnapshot(i)
      PROVE  RiskInv'
  <2> DEFINE a == [accounts[i] EXCEPT !.sources = @ \union {"marks"}]
  <2>1. a \in AccountType
    <3>1. accounts[i] \in AccountType
      BY DEF RiskInv, TypeOK
    <3>2. accounts[i].sources \union {"marks"} \in SUBSET Sources
      BY <3>1 DEF AccountType, Sources
    <3>3. \A so \in SUBSET Sources : [accounts[i] EXCEPT !.sources = so] \in AccountType
      BY <3>1 DEF AccountType
    <3>4. QED
      BY <3>2, <3>3
  <2> HIDE DEF a
  <2>2. ChangeAccount(i, a)
    BY <1>4 DEF ReducePositionSnapshot, a
  <2>3. QED
    BY <1>0, <1>4, <2>1, <2>2, ChangeAndRefresh DEF ReducePositionSnapshot
<1>5. ASSUME NEW d \in Decisions, NEW i \in Accounts, ReduceShortRejection(d, i)
      PROVE  RiskInv'
  <2> DEFINE a == [accounts[i] EXCEPT !.blocked_shorts = @ + 1]
  <2>1. a \in AccountType
    <3>1. accounts[i] \in AccountType
      BY DEF RiskInv, TypeOK
    <3>2. accounts[i].blocked_shorts + 1 \in Nat
      BY <3>1 DEF AccountType
    <3>3. \A n \in Nat : [accounts[i] EXCEPT !.blocked_shorts = n] \in AccountType
      BY <3>1 DEF AccountType
    <3>4. QED
      BY <3>2, <3>3
  <2> HIDE DEF a
  <2>2. ChangeAccount(i, a)
    BY <1>5 DEF ReduceShortRejection, a
  <2>3. PICK blocks \in Upserted(d, "risk_decision") : RefreshSafety(blocks)
    BY <1>5 DEF ReduceShortRejection
  <2>4. /\ \A b \in blocks : Derived(b) \/ NamedByReport(b)
        /\ \A b, c \in blocks : b # c => Distinct(b, c)
    BY UpsertKeepsRows DEF RiskInv, TypeOK, ShownIsCurrent, Reports
  <2>5. rejected_shorts' \in 0..MaxShorts /\ UNCHANGED << broker_order_channel_ok, riskVars >>
    BY <1>0, <1>5 DEF ReduceShortRejection
  <2>6. QED
    BY <1>0, <2>1, <2>2, <2>3, <2>4, <2>5, ChangeAndRefresh
<1>6. CASE ReduceGlobalKill
  <2>1. TypeOK'
    BY <1>6 DEF RiskInv, TypeOK, ReduceGlobalKill, safetyVars
  <2>2. ShownIsCurrent' /\ RowsReported' /\ RowsUnique'
    BY <1>6 DEF RiskInv, ReduceGlobalKill, safetyVars, ShownIsCurrent, Current,
                RowsReported, RowsUnique
  <2>3. QED
    BY <2>1, <2>2 DEF RiskInv
<1>7. ASSUME NEW b \in Breaches, NEW cleared \in BOOLEAN, ReduceRiskLimitBreached(b, cleared)
      PROVE  RiskInv'
  <2>1. TypeOK'
    BY <1>7 DEF RiskInv, TypeOK, ReduceRiskLimitBreached
  <2>2. CASE cleared
    <3>1. \A row \in active_blocks : Derived(row) => ~ Matches(row, b)
      <4>1. SUFFICES ASSUME NEW row \in active_blocks, Derived(row), Matches(row, b)
                     PROVE  FALSE
        OBVIOUS
      <4>2. row \in DerivedBlocks(known, accounts, broker_order_channel_ok)
        BY <4>1 DEF RiskInv, ShownIsCurrent
      <4>3. row.id \in Accounts \X AccountRules /\ row.rule \in AccountRules
        BY <4>2, DerivedNames DEF AccountBlock, RiskInv, TypeOK
      <4>4. QED
        BY <4>1, <4>3 DEF Matches, Reports
    <3>2. active_blocks' = Clear(b)
          /\ UNCHANGED << known, accounts, effective, account, broker_order_channel_ok >>
      BY <1>7, <2>2 DEF ReduceRiskLimitBreached
    <3>3. {r \in active_blocks' : Derived(r)} = {r \in active_blocks : Derived(r)}
      BY <3>1, <3>2 DEF Clear
    <3>4. ShownIsCurrent'
      BY <3>2, <3>3 DEF RiskInv, ShownIsCurrent, Current, Derived
    <3>5. RowsReported' /\ RowsUnique'
      BY <3>2 DEF RiskInv, RowsReported, RowsUnique, Clear, Derived, NamedByReport, Distinct
    <3>6. QED
      BY <2>1, <3>4, <3>5 DEF RiskInv
  <2>3. CASE ~ cleared
    BY <1>7, <2>1, <2>3, UpsertPreserves DEF ReduceRiskLimitBreached, Reports, RiskInv
  <2>4. QED
    BY <2>2, <2>3
<1>8. ASSUME NEW d \in Decisions, ReduceRejection(d)
      PROVE  RiskInv'
  <2>1. TypeOK'
    BY <1>8 DEF RiskInv, TypeOK, ReduceRejection, riskVars
  <2>2. QED
    BY <1>8, <2>1, UpsertPreserves DEF ReduceRejection, Reports, RiskInv
<1>9. ASSUME NEW d \in Decisions, ReduceShortRejectionUnknown(d)
      PROVE  RiskInv'
  <2>1. TypeOK'
    BY <1>9 DEF RiskInv, TypeOK, ReduceShortRejectionUnknown, riskVars
  <2>2. \E n : account' = [account EXCEPT !.blocked_shorts = n]
    BY <1>9 DEF ReduceShortRejectionUnknown
  <2>3. QED
    BY <1>9, <2>1, <2>2, UpsertPreserves DEF ReduceShortRejectionUnknown, Reports, RiskInv
<1>10. CASE UNCHANGED vars
  BY <1>10 DEF vars, safetyVars, riskVars, RiskInv, TypeOK, ShownIsCurrent, Current,
               RowsReported, RowsUnique
<1>11. QED
  BY <1>1, <1>2, <1>3, <1>4, <1>5, <1>6, <1>7, <1>8, <1>9, <1>10 DEF Next

\* RiskInv, the inductive invariant of the run, holds for any accounts,
\* snapshots and reports that satisfy RiskAssumption.
THEOREM RiskInvariant == Spec => []RiskInv
BY InitRiskInv, NextRiskInv, PTL DEF Spec

\* The risk and account state is well typed (TypeOK).
THEOREM RiskTypeCorrect == Spec => []TypeOK
<1>1. RiskInv => TypeOK
  BY DEF RiskInv
<1>2. QED
  BY <1>1, RiskInvariant, PTL

\* ShownIsCurrent: permissions, derived blocks and aggregate are never out of
\* date, since every handler that changes an account refreshes them.
THEOREM AlwaysCurrent == Spec => []ShownIsCurrent
<1>1. RiskInv => ShownIsCurrent
  BY DEF RiskInv
<1>2. QED
  BY <1>1, RiskInvariant, PTL

\* RowsUnique: upsert_risk_block and the refresh keep one row for one id, and
\* for one rule and scope.
THEOREM BlocksDeduplicated == Spec => []RowsUnique
<1>1. RiskInv => RowsUnique
  BY DEF RiskInv
<1>2. QED
  BY <1>1, RiskInvariant, PTL

-----------------------------------------------------------------------------
\* The two ladders, for one account.

\* The rows of an account are those of the rules that apply to it.
LEMMA RowsOfAccount ==
  ASSUME RiskInv, NEW i \in known
  PROVE  RowsOf(i) = {AccountBlock(i, rule) : rule \in
                        {r \in AccountRules : Applies(r, accounts[i], broker_order_channel_ok)}}
<1> DEFINE D == DerivedBlocks(known, accounts, broker_order_channel_ok)
<1>1. RowsOf(i) = {b \in D : b.scope = << "account", i >>}
  BY DEF RiskInv, ShownIsCurrent, RowsOf
<1>2. \A j : \A rule : AccountBlock(j, rule).scope = << "account", j >>
  BY DEF AccountBlock
<1>3. D = {AccountBlock(p[1], p[2]) : p \in
             {q \in known \X AccountRules : Applies(q[2], accounts[q[1]], broker_order_channel_ok)}}
  BY DEF DerivedBlocks
<1> HIDE DEF D
<1>4. ASSUME NEW b \in D, b.scope = << "account", i >>
      PROVE  \E r \in AccountRules :
               Applies(r, accounts[i], broker_order_channel_ok) /\ b = AccountBlock(i, r)
  <2>1. PICK j \in known, r \in AccountRules :
               Applies(r, accounts[j], broker_order_channel_ok) /\ b = AccountBlock(j, r)
    BY <1>3
  <2>2. j = i
    BY <1>2, <1>4, <2>1
  <2>3. QED
    BY <2>1, <2>2
<1>5. ASSUME NEW r \in AccountRules, Applies(r, accounts[i], broker_order_channel_ok)
      PROVE  AccountBlock(i, r) \in D
  <2>1. << i, r >> \in {q \in known \X AccountRules :
                          Applies(q[2], accounts[q[1]], broker_order_channel_ok)}
    BY <1>5
  <2>2. QED
    BY <1>3, <2>1
<1>6. QED
  BY <1>1, <1>2, <1>4, <1>5

\* Some rule other than the long-only one applies exactly if the first ladder
\* stops short of TRADE, and a rule that applies blocks what the ladder forbids.
LEMMA LaddersAgree ==
  ASSUME NEW a \in AccountType, NEW channel \in BOOLEAN
  PROVE  /\ TradeState(a, channel) = "TRADE" <=>
              \A r \in AccountRules : Applies(r, a, channel) => r = "NO_SHORT_ACCOUNT_PERMISSION"
         /\ \A r \in {"BROKER_DOWN", "ORDER_CHANNEL_DOWN", "NO_TRADE_ACCOUNT_MUTATION"} :
              Applies(r, a, channel) => TradeState(a, channel) = "NO_TRADE"
         /\ Applies("NO_SHORT_ACCOUNT_PERMISSION", a, channel) <=> ~ Has(a, "short")
<1>1. /\ a.flags["trade"] \in {"yes", "no", "absent"}
      /\ a.flags["readonly"] \in {"yes", "no", "absent"}
  BY DEF AccountType, Flags
<1>2. /\ Mutation(a) \in {"NO_TRADE", "READONLY", "TRADE", "TRADE?"}
      /\ ValuationStatus(a) \in {"MISSING", "STALE", "COMPLETE", "PARTIAL"}
  BY DEF Mutation, ValuationStatus
<1> DEFINE m == Mutation(a)
           v == ValuationStatus(a)
           c == Has(a, "connected")
           restricted == Has(a, "restricted")
<1>3. TradeState(a, channel) = "TRADE" <=>
        c /\ channel /\ m = "TRADE" /\ ~ restricted /\ v = "COMPLETE"
  BY <1>2 DEF TradeState
<1>4. /\ Applies("BROKER_DOWN", a, channel) <=> ~ c
      /\ Applies("ORDER_CHANNEL_DOWN", a, channel) <=> ~ channel
      /\ Applies("NO_TRADE_ACCOUNT_MUTATION", a, channel) <=> m = "NO_TRADE"
      /\ Applies("READ_ONLY_ACCOUNT_MUTATION", a, channel) <=> m = "READONLY"
      /\ Applies("UNKNOWN_ACCOUNT_MUTATION", a, channel) <=> m = "TRADE?"
      /\ Applies("NO_SHORT_ACCOUNT_PERMISSION", a, channel) <=> ~ Has(a, "short")
      /\ Applies("ACCOUNT_RESTRICTION", a, channel) <=> restricted
  BY DEF Applies
<1>5. /\ Applies("VALUATION_MISSING", a, channel) <=> v = "MISSING"
      /\ Applies("VALUATION_STALE", a, channel) <=> v = "STALE"
      /\ Applies("VALUATION_PARTIAL", a, channel) <=> v = "PARTIAL"
  BY <1>2 DEF Applies
<1>6. \A r \in {"BROKER_DOWN", "ORDER_CHANNEL_DOWN", "NO_TRADE_ACCOUNT_MUTATION"} :
        Applies(r, a, channel) => TradeState(a, channel) = "NO_TRADE"
  BY <1>4 DEF TradeState
<1> HIDE DEF m, v, c, restricted
<1>7. (\A r \in AccountRules : Applies(r, a, channel) => r = "NO_SHORT_ACCOUNT_PERMISSION")
        <=> c /\ channel /\ m = "TRADE" /\ ~ restricted /\ v = "COMPLETE"
  BY <1>2, <1>4, <1>5 DEF AccountRules, m, v
<1>8. QED
  BY <1>3, <1>4, <1>6, <1>7

\* What a row of each rule blocks.
LEMMA RowsBlock ==
  ASSUME NEW i, NEW r \in AccountRules
  PROVE  /\ AccountBlock(i, r).rule = r
         /\ AccountBlock(i, r).submit => r # "NO_SHORT_ACCOUNT_PERMISSION"
         /\ AccountBlock(i, r).cancel =>
              r \in {"BROKER_DOWN", "ORDER_CHANNEL_DOWN", "NO_TRADE_ACCOUNT_MUTATION"}
         /\ r = "NO_SHORT_ACCOUNT_PERMISSION" => AccountBlock(i, r).short
BY DEF AccountBlock, Valuations

\* BlocksExplainPermissions: the ladder that decides what an account may do and
\* the one that says why never disagree, for any account.
THEOREM PermissionsAreExplained == Spec => []BlocksExplainPermissions
<1>1. RiskInv => BlocksExplainPermissions
  <2> SUFFICES ASSUME RiskInv, NEW i \in known
               PROVE  /\ effective[i].state = "TRADE" <=>
                           \A b \in RowsOf(i) : b.rule = "NO_SHORT_ACCOUNT_PERMISSION"
                      /\ \A b \in RowsOf(i) :
                           /\ b.submit => ~ effective[i].submit
                           /\ b.cancel => ~ effective[i].cancel
                      /\ effective[i].short <=>
                           (effective[i].submit /\ \A b \in RowsOf(i) : ~ b.short)
    BY DEF BlocksExplainPermissions
  <2> DEFINE a == accounts[i]
             channel == broker_order_channel_ok
             state == TradeState(a, channel)
  <2>1. a \in AccountType /\ channel \in BOOLEAN
    BY DEF RiskInv, TypeOK
  <2>2. /\ effective[i].state = state
        /\ effective[i].submit = (state = "TRADE")
        /\ effective[i].cancel => state # "NO_TRADE"
        /\ effective[i].short = (state = "TRADE" /\ Has(a, "short"))
    <3>1. effective[i] = Permissions(a, channel)
      BY DEF RiskInv, ShownIsCurrent
    <3>2. effective[i].state = state /\ effective[i].submit = (state = "TRADE")
      BY <3>1 DEF Permissions
    <3>3. effective[i].cancel = (Has(a, "connected") /\ channel /\ state # "NO_TRADE")
      BY <3>1 DEF Permissions
    <3>4. effective[i].short = (state = "TRADE" /\ Has(a, "short"))
      BY <3>1 DEF Permissions
    <3>5. QED
      BY <3>2, <3>3, <3>4
  <2>3. \A b : b \in RowsOf(i) <=>
          \E r \in AccountRules : Applies(r, a, channel) /\ b = AccountBlock(i, r)
    BY RowsOfAccount
  <2>4. /\ state = "TRADE" <=>
             \A r \in AccountRules : Applies(r, a, channel) => r = "NO_SHORT_ACCOUNT_PERMISSION"
        /\ \A r \in {"BROKER_DOWN", "ORDER_CHANNEL_DOWN", "NO_TRADE_ACCOUNT_MUTATION"} :
             Applies(r, a, channel) => state = "NO_TRADE"
        /\ Applies("NO_SHORT_ACCOUNT_PERMISSION", a, channel) <=> ~ Has(a, "short")
    BY <2>1, LaddersAgree
  <2> HIDE DEF a, channel, state
  <2>5. \A r \in AccountRules : AccountBlock(i, r).rule = r
    BY RowsBlock
  <2>6. state = "TRADE" <=> \A b \in RowsOf(i) : b.rule = "NO_SHORT_ACCOUNT_PERMISSION"
    BY <2>3, <2>4, <2>5
  <2>7. ASSUME NEW b \in RowsOf(i)
        PROVE  /\ b.submit => ~ effective[i].submit
               /\ b.cancel => ~ effective[i].cancel
    <3>1. PICK r \in AccountRules : Applies(r, a, channel) /\ b = AccountBlock(i, r)
      BY <2>3, <2>7
    <3>2. b.submit => state # "TRADE"
      BY <2>4, <3>1, RowsBlock
    <3>3. b.cancel => state = "NO_TRADE"
      BY <2>4, <3>1, RowsBlock
    <3>4. QED
      BY <2>2, <3>2, <3>3
  <2>8. state = "TRADE" =>
          ((\A b \in RowsOf(i) : ~ b.short) <=> Has(a, "short"))
    <3>1. SUFFICES ASSUME state = "TRADE"
                   PROVE  (\A b \in RowsOf(i) : ~ b.short) <=> Has(a, "short")
      OBVIOUS
    <3>2. "NO_SHORT_ACCOUNT_PERMISSION" \in AccountRules
      BY DEF AccountRules
    <3>3. AccountBlock(i, "NO_SHORT_ACCOUNT_PERMISSION").short
      BY <3>2, RowsBlock
    <3>4. ~ Has(a, "short") =>
            AccountBlock(i, "NO_SHORT_ACCOUNT_PERMISSION") \in RowsOf(i)
      BY <2>3, <2>4, <3>2
    <3>5. Has(a, "short") => RowsOf(i) = {}
      BY <2>3, <2>4, <3>1
    <3>6. QED
      BY <3>3, <3>4, <3>5
  <2>9. QED
    BY <2>2, <2>6, <2>7, <2>8
<1>2. QED
  BY <1>1, RiskInvariant, PTL

\* AggregateIsWorst: the aggregate of any number of accounts trades only if
\* all of them do, and its flags follow from its state.
THEOREM AggregateIsSafe == Spec => []AggregateIsWorst
<1>1. RiskInv => AggregateIsWorst
  <2> SUFFICES ASSUME RiskInv PROVE AggregateIsWorst
    OBVIOUS
  <2>1. /\ account.state = Current.state
        /\ account.submit = Current.submit
        /\ account.cancel = Current.cancel
    <3>1. [account EXCEPT !.blocked_shorts = Current.blocked_shorts] = Current
      BY DEF RiskInv, ShownIsCurrent
    <3>2. {"state", "submit", "cancel"} \subseteq DOMAIN Current
      BY DEF Current, AggregateView
    <3>3. DOMAIN account = DOMAIN Current
      BY <3>1
    <3>4. \A f \in {"state", "submit", "cancel"} :
            [account EXCEPT !.blocked_shorts = Current.blocked_shorts][f] = account[f]
      BY <3>2, <3>3
    <3>5. QED
      BY <3>1, <3>4
  <2>2. ASSUME NEW i \in known
        PROVE  /\ effective[i].state \in TradeStates
               /\ effective[i].submit = (effective[i].state = "TRADE")
               /\ effective[i].cancel = (effective[i].state # "NO_TRADE")
    <3>1. effective[i] = Permissions(accounts[i], broker_order_channel_ok)
      BY <2>2 DEF RiskInv, ShownIsCurrent
    <3>2. TradeState(accounts[i], broker_order_channel_ok) # "NO_TRADE" =>
            Has(accounts[i], "connected") /\ broker_order_channel_ok
      BY DEF TradeState
    <3>3. effective[i] \in PermissionType /\ broker_order_channel_ok \in BOOLEAN
      BY <2>2 DEF RiskInv, TypeOK
    <3>4. QED
      BY <3>1, <3>2, <3>3 DEF Permissions, PermissionType, Has
  <2> DEFINE S == {effective[i].state : i \in known}
  <2>3. S \subseteq TradeStates
    BY <2>2
  <2>4. known # {} => Current.state = WorstState(S)
    BY DEF Current, AggregateView
  <2>5. /\ known = {} => Current.state = "NO_TRADE"
        /\ Current.submit = (known # {} /\ \A i \in known : effective[i].submit)
        /\ Current.cancel = (known # {} /\ \A i \in known : effective[i].cancel)
    BY DEF Current, AggregateView
  <2> HIDE DEF S
  <2>6. /\ WorstState(S) = "TRADE" <=> S \subseteq {"TRADE"}
        /\ WorstState(S) = "NO_TRADE" <=> "NO_TRADE" \in S
    BY <2>3 DEF WorstState, TradeStates
  <2>7. /\ S \subseteq {"TRADE"} <=> \A i \in known : effective[i].state = "TRADE"
        /\ "NO_TRADE" \in S <=> \E i \in known : effective[i].state = "NO_TRADE"
    BY DEF S
  <2>8. CASE known = {}
    BY <2>1, <2>5, <2>8 DEF AggregateIsWorst
  <2>9. CASE known # {}
    BY <2>1, <2>2, <2>4, <2>5, <2>6, <2>7, <2>9 DEF AggregateIsWorst
  <2>10. QED
    BY <2>8, <2>9
<1>2. QED
  BY <1>1, RiskInvariant, PTL

-----------------------------------------------------------------------------
\* Breaches and the alarm.

\* AlarmHolds: no event returns global_state to NORMAL, and what opens a breach
\* or activates the kill switch leaves NORMAL.
THEOREM AlarmNeverSilent == Spec => []AlarmHolds
<1>1. Init => AlarmHolds
  BY DEF Init, AlarmHolds
<1>2. AlarmHolds /\ [Next]_vars => AlarmHolds'
  <2> SUFFICES ASSUME AlarmHolds, [Next]_vars PROVE AlarmHolds'
    OBVIOUS
  <2>1. CASE UNCHANGED riskVars
    BY <2>1 DEF AlarmHolds, riskVars
  <2>2. CASE ReduceGlobalKill
    BY <2>2 DEF AlarmHolds, ReduceGlobalKill
  <2>3. CASE \E b \in Breaches, cleared \in BOOLEAN : ReduceRiskLimitBreached(b, cleared)
    BY <2>3 DEF AlarmHolds, ReduceRiskLimitBreached
  <2>4. QED
    BY <2>1, <2>2, <2>3
    DEF Next, vars, ReduceAccountSnapshot, ReduceOrderSubmitted, TouchAccount,
        ReducePositionSnapshot, ReduceShortRejection, ReduceRejection,
        ReduceShortRejectionUnknown
<1>3. QED
  BY <1>1, <1>2, PTL DEF Spec

ShowsRow(blocks, b) == \E row \in blocks : row.id = b.id

\* Rows that carry the names of a report or of a derived block.
Named(row) ==
  \/ ~ Derived(row) /\ NamedByReport(row)
  \/ row.id \in Accounts \X AccountRules /\ row.rule \in AccountRules

\* Every row is a derived one or one that was reported.
LEMMA RowsNamed ==
  ASSUME RiskInv
  PROVE  \A row \in active_blocks : Named(row)
<1>1. SUFFICES ASSUME NEW row \in active_blocks, Derived(row)
               PROVE  row.id \in Accounts \X AccountRules /\ row.rule \in AccountRules
  BY DEF RiskInv, RowsReported, Named
<1>2. row \in DerivedBlocks(known, accounts, broker_order_channel_ok)
  BY <1>1 DEF RiskInv, ShownIsCurrent
<1>3. QED
  BY <1>2, DerivedNames DEF AccountBlock, RiskInv, TypeOK

\* A row that has the id of an unambiguous breach, or that its report matches,
\* carries its names.
LEMMA BreachRows ==
  ASSUME NEW b \in Breaches, Unambiguous(b), NEW row, Named(row)
  PROVE  /\ row.id = b.id => row.rule = b.rule /\ row.scope = b.scope
         /\ Matches(row, b) <=> row.id = b.id
<1>1. b.id \notin Accounts \X AccountRules /\ b.rule \notin AccountRules
  BY RiskAssumption DEF Reports
<1>2. CASE row.id \in Accounts \X AccountRules /\ row.rule \in AccountRules
  BY <1>1, <1>2 DEF Matches
<1>3. CASE NamedByReport(row)
  <2>1. PICK r \in Reports : row.id = r.id /\ row.rule = r.rule /\ row.scope = r.scope
    BY <1>3 DEF NamedByReport
  <2>2. r = b \/ Distinct(b, r)
    BY DEF Unambiguous
  <2>3. QED
    BY <2>1, <2>2 DEF Distinct, Matches
<1>4. QED
  BY <1>2, <1>3 DEF Named

\* Another report does not match it.
LEMMA OtherReport ==
  ASSUME NEW b \in Breaches, Unambiguous(b), NEW row, Named(row), row.id = b.id,
         NEW d \in Reports \ {b}
  PROVE  ~ Matches(row, d)
<1>1. row.rule = b.rule /\ row.scope = b.scope
  BY BreachRows
<1>2. Distinct(b, d)
  BY DEF Unambiguous
<1>3. QED
  BY <1>1, <1>2 DEF Distinct, Matches

\* Its own report shows it, another leaves it shown or not.
LEMMA UpsertShows ==
  ASSUME RiskInv, NEW b \in Breaches, Unambiguous(b), NEW d \in Reports, NEW source,
         NEW blocks \in Upserted(d, source)
  PROVE  ShowsRow(blocks, b) <=> (d = b \/ ShowsRow(active_blocks, b))
<1> DEFINE new == [id |-> d.id, rule |-> d.rule, scope |-> d.scope, source |-> source,
                   submit |-> TRUE, cancel |-> FALSE, short |-> TRUE]
           matching == {row \in active_blocks : Matches(row, d)}
           Renamed(row) == [new EXCEPT !.id = row.id, !.rule = row.rule, !.scope = row.scope]
<1>1. \A row \in active_blocks : Named(row)
  BY RowsNamed
<1>2. d # b => d.id # b.id
  BY DEF Unambiguous, Distinct
<1>3. CASE matching = {}
  <2>1. blocks = active_blocks \union {new}
    BY <1>3 DEF Upserted
  <2>2. new.id = d.id
    OBVIOUS
  <2> HIDE DEF new
  <2>3. QED
    BY <1>2, <2>1, <2>2 DEF ShowsRow
<1>4. CASE matching # {}
  <2>1. PICK row \in matching : blocks = (active_blocks \ {row}) \union {Renamed(row)}
    BY <1>4 DEF Upserted
  <2>2. Renamed(row).id = row.id
    OBVIOUS
  <2>3. d = b => row.id = b.id
    BY <1>1, BreachRows
  <2>4. d # b => row.id # b.id
    BY <1>1, OtherReport
  <2> HIDE DEF new, Renamed
  <2>5. QED
    BY <2>1, <2>2, <2>3, <2>4 DEF ShowsRow
<1>5. QED
  BY <1>3, <1>4

\* A refresh adds and removes rows of derived blocks only.
LEMMA RefreshShows ==
  ASSUME NEW b \in Breaches, NEW blocks, RefreshSafety(blocks), known' \in SUBSET Accounts,
         \A row \in blocks : Derived(row) => row.id \in Accounts \X AccountRules
  PROVE  ShowsRow(active_blocks', b) <=> ShowsRow(blocks, b)
<1> DEFINE D == DerivedBlocks(known', accounts', broker_order_channel_ok')
<1>1. b.id \notin Accounts \X AccountRules
  BY RiskAssumption DEF Reports
<1>2. \A row \in D : row.id \in Accounts \X AccountRules
  BY DerivedNames DEF AccountBlock
<1>3. active_blocks' = {row \in blocks : ~ Derived(row)} \union D
  BY DEF RefreshSafety
<1> HIDE DEF D
<1>4. QED
  BY <1>1, <1>2, <1>3 DEF ShowsRow

ShownInv == RiskInv /\ BreachShownWhileOpen

\* Every step keeps the open breaches shown.
LEMMA NextShownInv == ShownInv /\ [Next]_vars => BreachShownWhileOpen'
<1> SUFFICES ASSUME ShownInv, [Next]_vars, NEW b \in Breaches, Unambiguous(b)
             PROVE  b \in open' <=> ShowsRow(active_blocks', b)
  BY DEF BreachShownWhileOpen, ShowsRow
<1>0. /\ b \in open <=> ShowsRow(active_blocks, b)
      /\ \A row \in active_blocks : Named(row)
      /\ RiskInv /\ RiskInv'
      /\ known' \in SUBSET Accounts
  BY RowsNamed, NextRiskInv DEF ShownInv, BreachShownWhileOpen, ShowsRow, RiskInv, TypeOK
<1>1. \A row \in active_blocks : Derived(row) => row.id \in Accounts \X AccountRules
  BY <1>0 DEF Named
<1>2. ASSUME open' = open, RefreshSafety(active_blocks)
      PROVE  b \in open' <=> ShowsRow(active_blocks', b)
  BY <1>0, <1>1, <1>2, RefreshShows
<1>3. ASSUME open' = open, active_blocks' = active_blocks
      PROVE  b \in open' <=> ShowsRow(active_blocks', b)
  BY <1>0, <1>3
<1>4. ASSUME NEW d \in Decisions, NEW blocks \in Upserted(d, "risk_decision")
      PROVE  ShowsRow(blocks, b) <=> ShowsRow(active_blocks, b)
  BY <1>0, UpsertShows DEF Unambiguous, Reports
<1>5. ASSUME NEW d \in Decisions, NEW i \in Accounts, ReduceShortRejection(d, i)
      PROVE  b \in open' <=> ShowsRow(active_blocks', b)
  <2>1. PICK blocks \in Upserted(d, "risk_decision") : RefreshSafety(blocks)
    BY <1>5 DEF ReduceShortRejection
  <2>2. {r \in blocks : Derived(r)} = {r \in active_blocks : Derived(r)}
    BY <1>0, UpsertKeepsRows DEF RiskInv, TypeOK, ShownIsCurrent, Reports
  <2>3. \A row \in blocks : Derived(row) => row.id \in Accounts \X AccountRules
    BY <1>1, <2>2
  <2>4. open' = open
    BY <1>5 DEF ReduceShortRejection, riskVars
  <2>5. QED
    BY <1>0, <1>4, <2>1, <2>3, <2>4, RefreshShows
<1>6. ASSUME NEW d \in Decisions, ReduceRejection(d) \/ ReduceShortRejectionUnknown(d)
      PROVE  b \in open' <=> ShowsRow(active_blocks', b)
  BY <1>0, <1>4, <1>6 DEF ReduceRejection, ReduceShortRejectionUnknown, riskVars
<1>7. ASSUME NEW c \in Breaches, NEW cleared \in BOOLEAN, ReduceRiskLimitBreached(c, cleared)
      PROVE  b \in open' <=> ShowsRow(active_blocks', b)
  <2>1. CASE ~ cleared
    <3>1. active_blocks' \in Upserted(c, "risk_limit") /\ open' = open \union {c}
      BY <1>7, <2>1 DEF ReduceRiskLimitBreached
    <3>2. QED
      BY <1>0, <3>1, UpsertShows DEF Reports
  <2>2. CASE cleared
    <3>1. active_blocks' = {row \in active_blocks : ~ Matches(row, c)} /\ open' = open \ {c}
      BY <1>7, <2>2 DEF ReduceRiskLimitBreached, Clear
    <3>2. CASE c = b
      BY <1>0, <3>1, <3>2, BreachRows DEF ShowsRow
    <3>3. CASE c # b
      <4>1. \A row \in active_blocks : row.id = b.id => ~ Matches(row, c)
        BY <1>0, <3>3, OtherReport DEF Reports
      <4>2. QED
        BY <1>0, <3>1, <3>3, <4>1 DEF ShowsRow
    <3>4. QED
      BY <3>2, <3>3
  <2>3. QED
    BY <2>1, <2>2
<1>8. QED
  BY <1>2, <1>3, <1>5, <1>6, <1>7
  DEF Next, vars, safetyVars, riskVars, ReduceAccountSnapshot, ReduceOrderSubmitted,
      TouchAccount, ReducePositionSnapshot, ReduceGlobalKill

\* BreachShownWhileOpen: a breach that no other report can be mistaken for is
\* shown from its report until it is cleared, whatever else is reported.
THEOREM BreachesAreShown == Spec => []BreachShownWhileOpen
<1>1. Init => BreachShownWhileOpen
  BY DEF Init, BreachShownWhileOpen
<1>2. QED
  BY <1>1, RiskInvariant, NextShownInv, PTL DEF Spec, ShownInv
=============================================================================
