# Verification of the trade terminal cockpit

TLA+ models of the parts of this repository that carry its logic: the event reducer
every cockpit view is computed by (`trade-core`), the gateway that authorises and
dispatches operator commands (`services/command-gateway`), the terminal an operator
sends them from (`trade-tui`), the projection service (`services/state-projectiond`),
and the bridge that feeds them.  TLC checks each model on a small instance; TLAPS proves
the safety results of all of them for every value of the constants.

Contents: [the system](#the-system) ·
[modules](#modules-and-how-they-correspond-to-the-code) ·
[runs](#runs-and-bounds) · [fairness](#fairness) · [proofs](#proofs) ·
[findings](#findings) · [not modelled](#what-is-not-modelled) · [plan](#plan)

## The system

| Component | State it keeps | Operations | Properties that make it correct |
|---|---|---|---|
| Event intake: the prologue of `reduce_event` (`trade-core/src/reducer.rs`) | seen event ids, last sequence of each producer, duplicate / out-of-order / gap counters | one: take an envelope | an envelope counts once; the counters mean what the operator reads off them |
| Order lifecycle projection (`reducer.rs`, `state.rs`) | one `OrderChain` per correlation id, the order-id index | a handler per payload | never more filled than executed; a chain without anomalies is true; no false alarms |
| Risk and account safety projection (`reducer.rs`, `state.rs`) | active blocks, structured limits, `global_state`, kill switch; accounts, their aggregate, `effective_trade_state` | risk decision, limit breach, account snapshot, position, kill commands, refresh | derived blocks are those the current accounts call for; the aggregate is the worst account; a breach stays shown until cleared |
| Command evidence projection (`reducer.rs`) | one `CommandEvidenceView` per command, kill switch, runtime controls | authority event, audit event | a command shows its outcome, however often its events come; a control shown is in force |
| Strategy projection (`reducer.rs`) | one row per strategy and account, with counters | heartbeat, health, state change; signal, intent, submitted order | a strategy is not shown twice; each event counts once, on the row it is about |
| Alert, position, market-data projections | latest-value tables | one handler per payload | acknowledgements find their alert |
| Audit ring (`EventRingBuffer` in `state.rs`) | the last events | push, replace | views never push life cycle events out |
| Projection snapshot (`projection.rs`) | none | build, apply | a round trip changes nothing an operator decides by |
| `state-projectiond` | an `AppState` behind a lock, a durable consumer | start-up replay, ingest, query threads | what it was given is projected, once; what a restart can lose is known |
| TUI sources (`trade-tui/src/event_stream.rs`) | threads that feed one channel | initial load, snapshot, JetStream, NATS, follow a file | as for `state-projectiond` |
| TUI session (`app.rs`, `input.rs`, `command_client.rs`) | screen, search, selection, palette, modal | keys, drain, submit a command | what was confirmed is what is sent, for the row that is highlighted; only failures are sent again; the message is true |
| TUI tables (`render.rs`, `app.rs`) | none | search, selection, highlighting | the highlighted row is the selected one |
| Authority policy, broker control scope (`command-gateway`) | the policy file | decide, map to a runtime control | a stricter file accepts no more; no control is wider than its command |
| Command gateway (`services/command-gateway`) | the audit file; per client thread the command in hand; child processes | decide, risk check, dispatch, audit, answer | acts only if accepted, at most once, not after the answer; an answer is backed by evidence; everyone is answered |
| Paper bridge (`tools/publish_paper_cockpit_bridge.py`) | a state file with the last sequence | a cycle: load, number, publish, save | an event id names one event |
| Risk command adapter (`tools/risk_command_adapter.py`) | a liveness cache file | check a command | a dead risk engine refuses commands after the time to live |
| `tradectl`, codecs, tools, rendering | none | one-shot conversions and output | field by field fidelity, tested by round trips |

How they interact.  Producers (strategies, the risk engine, the order gateway,
the broker adapter, the paper bridge, the command gateway) publish envelopes to
`TRADING_EVENTS` or append them to JSONL files.  The TUI and `state-projectiond`
each run a reducer over what reaches them: core NATS (may lose), JetStream (may
repeat), file replay (may repeat).  A key press in the TUI becomes a
`CommandEnvelope`, handed to a command gateway (a socket to `--serve`, or a
process launched for one command); the gateway decides, asks the risk adapter,
runs an execution adapter or the broker-control gateway as a child process,
appends two events to the audit file and answers; the TUI then reads the events
back from that file.

What is hard.  Nothing orders the producers of one order's events against each
other, and delivery may repeat, delay or lose any of them; yet the projection
must flag what it cannot trust.  The gateway's client threads and one-shot
processes share a file without a lock; its children fail, hang and act at any
moment; it may die between acting and recording.  The bridge may die between
publishing and saving.  `PROJECT.json` lists these hazards with the line where
each bites and the property that covers it.

## Modules and how they correspond to the code

**EventIntake** models `reduce_event` up to its dispatch on the payload
(`reducer.rs:16-62`).  `Deliver` is one call with an unseen envelope, `Redeliver`
one with a seen event id (the early return).  The variables have the names of
the fields of `AppState`/`ConnectionState`; `Absent` stands for a producer
without an entry in `last_sequence_by_producer`.  The transports are the freedom
of `Next`: any published envelope, in any order, any number of times or never.
`Unnumbered` producers stamp sequence 0 on everything, as command-gateway does.
`reordered` is history.  `Skipped` are the envelopes that the counted gaps should be.

**BridgeFeed** composes the paper bridge with the intake, `INSTANCE EventIntake`:
`BuildBatch` (`state_load`, `build_events`, `envelope`), `PublishNext`
(`publish_events`, one event), `SaveState`, `Crash` (an exception, a timeout or a
kill between any two of these).  The number an event is given is also its
`event_id`, so a reused number is a dropped event.  An unreadable state file
counts as empty, as `state_load` has it.

**OrderLifecycle** models the order-event handlers of the reducer, one action
per payload (`ReduceSignalGenerated` … `ReduceOrderEnded`), over the chain
functions of `state.rs`: `TransitionState` (an invalid transition is flagged
*and made*), `ValidTransition` (`is_valid_order_transition`), `ApplyFill`,
`QuantityReason` (`quantity_status`), `RefreshQuantityReason` where, and only
where, the handler calls it.  The producers are external: an order's events are
published in the order they happen (`Happens`, `Execute`), may be reported again
under a new event id (`Republish`), and are reduced in any order or never.
`fill_style` is what a producer reports: cumulative quantities with leaves, or
the size of each fill only; and each execution comes with an `execution_id` or, as the
`Option` of `events.rs:837` allows, without (`named`).  `ApplyFill` de-duplicates by it
only if it is there (`state.rs:1856`), so an increment without one that is reported
again adds its lot again: `CountedAgain` counts those, and the properties about
quantities say that a chain is off by them and by nothing else.  `in_order` is history.

**CommandOutcome** is the abstract promise of the gateway to a client: a command
is judged once, acts at most once and only if accepted, does not act after its
answer, and an answer other than an error is true and recorded.

**CommandGateway** is `process_command` in full: `Decide`/`DecideFails` (validation,
policy), `FeedRisk`, `CheckRisk`/`CheckRiskFails`, `DispatchNothing`, `Launch`, `Feed`,
`FeedBreaks`, `LaunchFails`, `Collect`, `Timeout`, `CollectTimedOut`
(`dispatch_command`, `run_json_adapter`, `wait_with_timeout`), `OpenAudit`, `OpenFails`,
`WritePiece`, `WriteFails` (`append_audit_events`), `Respond`.  `run_json_adapter`
writes the command to the adapter's input before the deadline loop starts
(`main.rs:489-495`): `FeedRisk` and `Feed` are the return of that write, which the
adapter decides, and `FeedBreaks` its failure, which leaves the adapter running.  A
broker-control child has its command in its arguments and is not written to.  A worker
is a client thread of `--serve` or a one-shot process; `Crash` takes any set of them and
leaves their children running.  A child may leave a process behind that keeps its output
open (`HoldOutput`, `ReleaseOutput`, the set `holding`): the gateway reads to the end of
it before it goes on.  An adapter is taken to act only on a whole command (the one of
this repository reads its input to the end, `tools/risk_command_adapter.py:160`), and
the status it gives becomes the audited one (`main.rs:469`): "dispatched", "applied",
"rejected" (it `declined`) or "other", which is any word the gateway has no use of its
own for; "rejected" of the risk adapter stands for every status but "accepted".  The
audit file is a sequence of writes, because `writeln!` on an unbuffered `File` writes
the event and its newline separately.  `KeepsPromises` is the refinement of
`CommandOutcome` (`INSTANCE … WITH`).

**RiskState** models the risk and account half of the reducer: the handlers that
touch an account (`ReduceAccountSnapshot`, `ReduceOrderSubmitted`,
`ReducePositionSnapshot`, `TouchAccount` for those that only mention one,
`ReduceShortRejection`), each ending in `RefreshSafety`
(`refresh_account_safety_state`), and those that write `risk` directly
(`ReduceRiskLimitBreached`, `ReduceRejection`, `ReduceShortRejectionUnknown`,
`ReduceGlobalKill`).  `TradeState` and `Permissions` are the ladder of
`refresh_effective_trade_state`, `Applies` and `AccountBlock` the one of
`derived_blocks_for_account`, written apart in the code as here.  An account
keeps what the ladders read: seven flags, the money sources (ledger and marks
for the seven fields), the age of its snapshot in the classes the code compares
it with (5 s, 120 s).  `active_blocks` is a set: `Upserted` leaves open which of
two matching rows is first in the list.  `known`, `open` and `rejected_shorts`
are the keys of the account map and two histories.

**AuditRing** extends EventIntake with what `reduce_event` does next: the event
goes into `state.audit`, in the place of an older view of the same type and
aggregate (`Coalesces`, `push_or_replace_coalesced`) or at the end, where it
pushes out the oldest entry (`Pushed`).  `DeliverToRing` is `Deliver` and the
ring in one step.  `AggregateOf` says which event is about what.

**StrategyTable** extends AuditRing with the strategy rows: `ReduceTelemetry`
(heartbeat, health and state change: `projected_strategy_id`,
`drop_legacy_strategy_alias`, `apply_strategy_identity`), and what a signal, an intent,
a risk decision and a submitted order do to a strategy and to what a chain knows of it
(`chain_strategy`).  `DeliverToTable` is one whole `reduce_event` on such an event:
intake, ring, row.  `PayloadOf` says what each event says.  An id is a name or an
account before an id, as the code joins them by a slash.  `StrategyRowsExact` says
what the table is in terms of what was heard alone: `KnownTo` (what a chain knew when
an event came), `WrittenBy` (the row it writes), `GaveWay` (where a row was dropped),
`Writes` (what counts since).

**CommandKinds** has the twelve commands of `trade-core/src/commands.rs`: what each
is aimed at, how dangerous it is and the capability the gateway expects
(`ExpectedCapability`, none for a type the gateway does not know).  `NewEnvelope` is
what `CommandEnvelope::new` makes of a payload.  That is what a client of this
repository sends; the gateway itself reads type, aggregate and danger level from the
envelope, and only the account, the strategy and what is dispatched from the payload.
**BrokerControl** is `broker_control_request` with the account slots: which runtime
control stands for a command exactly, if any.

**AuthorityPolicy** is `decide` (`capability_rejection_reason`,
`policy_rejection_reason`, `rule_rejection_reason`, `dangerous_allowed`, each an
operator) and `accepted_rule_ids`, run on every command, among them commands whose
envelope says something else than their payload and some of a type that
`expected_capability` does not know (then `CapabilityOk` checks nothing, as the `?` of
main.rs:977 has it), while an operator edits the policy file one field at a time
(`EditSession`, `EditRule`, `DropRule`, `RequireRules`; external).  The file is read
once for each command (`load_policy`), so no edit falls between the decision and its
evidence. `PolicyTightens` is a definition of its own: which edits make a file stricter.

**CommandEvidence** is the reducer of `CommandAuthorityDecided` and
`CommandAuditRecorded`: statuses, global kill switch and the runtime controls of
accounts; **TuiTables** what a table shows of its rows, which one a key acts on
(`Selected`, app.rs) and which one is highlighted (`Highlighted`, render.rs).

**TuiSession** composes the two with `CommandOutcome`: the loop of `App` turns once for
each key or timeout (`Turn`), drains at most `max_drain_per_tick` events and draws.
Each key is an action guarded as `handle_key` guards it: the modal comes before the
palette, the palette before the search, the search before the pages. `Submit` blocks the
loop (`waiting`) until `ReturnFromSubmit`; in between the gateway judges, acts, logs and
answers as `CommandOutcome` allows, or the connection is lost, or nothing comes.  An
accepted command ends with any status its adapters may give (`AuditedStatuses`,
`LogCommand`: gateway `main.rs:129-150` and `456-474`), "rejected" among them.  The
answer carries the events itself (`cli.tcp`) or they are read from the audit file, in
which another gateway may tear lines (`cli.shared`); the same file is followed as an
event source, so each event may come twice; other events (`ReduceNews`) are
de-duplicated by `event_id` as all are.  `tries` are the submissions from the modal that
is open.

**EventSources** is `state-projectiond` and `trade-tui` as readers of one log.
`LoadHistory` reads the event store or the file (a line that does not decode, a
slow or failing adapter ends the program), `Begin` reduces it, after the snapshot
if there is one.  A source connects, breaks and connects again (`Connect`,
`Disconnect`); JetStream messages are received, handed over and acknowledged in
three steps; a followed file is read from where it ended when it was opened.  The
events reduce to what they do to a projection: insert an account, count a signal,
or not decode.  `lost` and `held` are histories: the events a reader will not be
given, and those whose effect is in the snapshot it started from.

The `MC…` modules are what TLC is started on.  Definitions whose comment begins
with *Mutant* are plausible mistakes in the definition they precede; each
property is known to fail when its mutant replaces the definition, and none of
them is used by a specification.

## Runs and bounds

| Run | What it asks | Bounds and why they are enough |
|---|---|---|
| `intake` | do the counters mean what they say, for numbered producers, does the ring keep the life cycle events, and do the strategy rows count right? | two producers, four envelopes each: room for a gap of two, a late arrival into it and one after it; one repeat; a ring of three entries with one coalesced aggregate, and life cycle events on the odd numbers; one order of a strategy that two accounts run, one under the bare name of the strategy, and one report without an account |
| `bridge` | what can a crashed cycle cost? | batches of up to two, five events, two crashes: one number can be used by three events; one unreadable state file |
| `bridge_id_reuse` (violated) | is a dropped event always a repeated one? | one crash |
| `order` | is a chain believable, never overfilled and indexed? | one order of two lots (a partial and a full fill), both styles, fills with and without `execution_id`, every payload; unlimited reordering and loss until a fact is repeated, then a backlog of at most two (`MaxInFlight`): chains do not interact |
| `gateway` | does the gateway keep `CommandOutcome`, tell each story in order, answer everyone whose adapter takes its command and whose adapter's output ends? | two workers on one file, one with a risk adapter, each route, one crash; a command touches another only through the file |
| `gateway_torn_audit` (violated) | can the events of an answered command be read back? | two workers |
| `risk` | is what is shown of accounts current, do the two ladders agree, are blocks neither doubled nor lost? | two accounts (symmetric; the aggregate is a fold over them), five snapshots: a paper account that carries orders and what can befall it; three breaches (two without a rule on one scope), one rejection that shares the rule and scope of a breach, one rejected short |
| `authority` | can a stricter file accept more, evidence name a rule that does not apply, a control reach too far? | commands of every family from two logins, with and without an approval, some whose envelope does not say what their payload does, some of an unlisted type; no policy file, or one with two sessions and two rules as in `examples/command-gateway-policy.example.json`; two edits of any field: one may undo or build on the other |
| `tui` | is what was confirmed sent, for the row that was meant, retried only after failures, and shown as it ended? | six sessions: the palette and its modal with two commands over TCP (a retry), each with any answer or none; the same with a launched gateway and a shared audit file; the risk, the strategies (searched) and the events page, each while one row arrives in front of another; replay.  One event to a frame and a channel of two make events wait |
| `tui_event_selection` (violated) | is the highlighted event the one the keys act on? | one search |
| `sources` | what can a reader lose or count twice, and does all else get through? | each reader alone on each of its sources with three events, one not decodable, two starts and one broken connection or torn line; both together with a snapshot from one to the other |
| `snapshot_accounts` (violated) | does a cockpit that starts from a snapshot sum its accounts once? | two accounts |

`CHECK_DEADLOCK FALSE` stands in every configuration because every run is bounded: when
the producers have published all they may, or every client has its answer, or the
operator has quit, the system stops.  In the `risk` run the state space is finite by
itself (apart from the rejected shorts, `MaxShorts`), because accounts and blocks are
sets of rows.

## Fairness

`CommandGateway`: `FairSpec` gives each worker weak fairness on its own steps, which is
the scheduling of a thread or process that is not blocked for ever.  `Timeout` is one of
those steps, because `wait_with_timeout` polls with a deadline.  Clients, adapters and
crashes get no fairness, nor do the blocking writes to an adapter (`FeedRisk`, `Feed`,
`FeedBreaks`): an adapter may hang for ever, may never read a command that is larger
than its pipe holds, and a process it left behind may hold its output for ever.  The
first is what the deadline is for; `EveryCommandAnswered` names the other two as the
ways in which a command can stay unanswered, for which the gateway has no deadline.
Such a process is assumed not to act itself: once the adapter is killed, what it was
asked to do is over.

`TuiSession`: the loop polls with a timeout (`Timeout`), so it turns whether or not
a key is pressed, and a submission that has its answer, or whose connection closed,
returns.  That an answer comes is not assumed: neither the read of `submit_tcp` nor
`process.output()` has a timeout, and the gateway may be held as above.  So
`ChannelIsDrained` says that what is in the channel is shown unless the loop is
`Blocked` in a submission that is not answered.
The operator, the publishers, the gateway and the audit follower get no fairness.

`EventSources`: a program that has loaded its history begins, its threads connect
again (they sleep a second and retry for ever), and what is connected delivers.
Nobody has to start a program again, and nothing has to be published or stored.

## Proofs

Each theorem holds for every value of the constants that satisfies the named
assumption of its module.

- `EventIntake_proofs`, the intake: `IntakeInvariant` (`IntakeInv` is inductive),
  `IntakeTypeCorrect`, `QuietCountersComplete`, `OutOfOrderExact`, `GapsAreExact`.  The
  properties alone are not inductive: that a counter is zero says nothing of the
  next envelope unless the last sequence is the greatest one ingested
  (`LastIsGreatest`) and everything from each ingested envelope up to it was
  ingested (`UnbrokenToLast`).  `ReorderingCounted` needs every producer to be
  numbered: command-gateway, which stamps 0 on everything, shows why.  While nothing
  came out of order, the gaps are the set `Skipped` (`GapsCounted`): an envelope
  beyond the last one adds those in between, and no later one fills them; a producer
  that stamps 0 was heard at most once (`UnnumberedOnce`), else its second envelope
  would have been out of order.
- `EventIntake_proofs`, the ring: `RingInvariant` (`RingInv` is inductive),
  `LifecycleIsKept`, for any capacity and any finite set of aggregates.  An event has
  one entry (`EntriesOnce`) and a view has one (`ViewsOnce`); what came after a kept
  life cycle event is kept behind it (`LatestKept`), and one is missing only if the
  ring is full (`DroppedWhenFull`).  The bound then follows from an injection of the
  entries of views into the aggregates.
- `EventIntake_proofs`, the strategy rows: `TableInvariant` (`TableInv` is inductive),
  `RowsAreExact`, for any accounts, strategies, correlations and payloads
  (`TableAssumption`: telemetry, signals, intents and decisions name a strategy).
  `StrategyRowsExact` speaks of accounts and counters, but whether a row gives way
  depends on the canonical name in it: `RowCanonical` says it is that of the last
  report or not given, `RowOwner` that the account is that of the last one that named
  one, `ChainsInv` that a chain knows what `KnownTo` says.  `Outcome` is what one event
  does to one row; each part of `RowExact` follows from it and from what the event
  adds to the history (`PresentIsAdded`, `WritesStep`).  Histories are sets of
  positions, not folds, so a step adds one position and no induction over data is
  needed.
- `BridgeFeed_proofs`: `FeedInvariant` (`FeedInv` is inductive), `FeedTypeCorrect`,
  `LossIsBounded`, for any batch size and any number of cycles, crashes and
  unreadable state files.  `LossBoundedByCrashes` counts what nothing in the state
  counts, so the invariant says that a set exists (`Spoilt`): the facts built in
  crashed cycles, at most `MaxBatch` for each, beyond which every number in the
  stream names one fact.  A lost fact outside it gave way to one inside that was
  reduced under its number, and to no other's: an injection (`LostAreSpoilt`).
- `OrderLifecycle_proofs`: `LifecycleInvariant`, `LifecycleTypeCorrect`,
  `NeverOverfilled`, `OrdersAreIndexed`, `QuietReasonsAreCurrent`, `QuietChainsAreTrue`,
  `UnracedOrdersAreQuiet`.  What makes `FilledNeverExceedsExecuted`
  inductive is `ExecutionsHappened`: every execution reported is one the broker made,
  always with its `execution_id` or always without; a chain has the `execution_id`s it
  reduced, and one fed increments has filled one lot for each of those and one for each
  fill it reduced without.  The deduplication by `execution_id` is what the increment
  case rests on, the executions being numbered by their cumulative quantity what the
  other does; without an `execution_id` only the repeats exceed what was executed, and
  that is the `CountedAgain` of the theorem.
  `QuietReasonIsCurrent` rests on the transition table: a quiet chain that a
  quantity reached is in a state of the order's life at the broker, from which no
  valid transition leads back to an intent, the only handler that changes the total
  without refreshing the reason (`QuietReasonInv`).  `QuietIsTruth` needs more of the
  producers and of the chain: an order is filled exactly if all of it was executed and
  every execution was published (`WorldInv`); a chain has the executions it reduced,
  and, while it shows no anomaly, the terminal state whose event it reduced and no
  other, with the quantities of the executions (`BeliefInv`: `Ended`, `Counted`).
  `UnracedOrderIsQuiet` goes the other way (`UnracedInv`): what was published of an
  order is a sequence without gaps (`PositionInv`) in which causes come first
  (`CauseInv`) and each state can follow the one before it (`PublicationInv`, as
  long as nothing is reported again); an order reduced in turn is a prefix of it, and
  its chain is in the state of the last event (`OrderInv`), so no transition is
  invalid and no late event is late.
- `RiskState_proofs`: `RiskInvariant` (`RiskInv` is inductive), `RiskTypeCorrect`,
  `AlwaysCurrent`, `BlocksDeduplicated`, `PermissionsAreExplained`, `AggregateIsSafe`,
  `BreachesAreShown`, `AlarmNeverSilent`.  `ShownIsCurrent` is preserved because
  `RefreshMakesCurrent` holds of whatever the handler left, and every handler that
  changes an account, or the order channel, refreshes; a handler that only upserts a
  report must leave the derived rows alone.  That, and `RowsUnique`, need
  `RowsReported`: each reported row carries the id, rule and scope of a report, which
  `RiskAssumption` keeps apart from the names of derived blocks (the code forms those as
  `account_id:RULE` and does not check that the risk engine forms none alike).
  `LaddersAgree` then compares the two ladders for one account, and `BreachRows` says
  that a row a breach's report matches is the breach's own: the proof asks that the
  breach is not also the subject of a rejection, which `Unambiguous` states.
- `AuthorityPolicy_proofs`: `TighteningIsSafe`, `EvidenceIsSound`,
  `ScopeIsNeverWidened`, for any set of commands, any policy files and any edits.
  The first is a monotonicity argument, one lemma for each of the ways a list is
  read (`Listed`, `Allowed`, `AllowedAccount`), then sessions, rules and the whole
  decision; the other two rest on the invariant that the decision in hand was made
  from the file as it is, because no edit reaches a command that is being processed.

- `CommandGateway_proofs`: `PromisesAreKept` (the gateway implements
  `CommandOutcome`), `InductiveInvariant`, `TypeCorrect`, `AuditIsReadable`,
  `StoryIsTold`, for any number of workers, commands and crashes.  `GatewayInv` says
  what a worker has done with its command, by where it is (`WorkerInv`,
  `ReplyInv`), that a child runs only for a worker that waits for it or for one that
  died (`ChildInv`: what makes acting after the answer impossible), that later
  commands have left no trace (`FutureUntouched`), and that appends which do not
  overlap leave a line open only in its writer's hands (`OneWriter`).  Each step then
  maps to `Judge`, `Act`, `Log`, `Answer`, `Lose` or to a stutter.
- `TuiSession_proofs`, the modal: `ModalInvariant`, `SentAsConfirmed`,
  `RetriedAfterFailure`, for any sessions, tables, events and bounds.  `ModalInv` ties
  the submissions of the open modal to what the modal holds: every way to another
  command (`Open`, the palette, `CloseModal`) starts with no tries, a submission is
  made only when none is waited for, and the answer either leaves the modal (an error,
  silence) or ends it.
- `TuiSession_proofs`, the evidence: `EvidenceInvariant`, `TypeCorrect`,
  `OutcomeStaysShown`, `ShownControlsTookEffect`, `MessagesTellTheTruth`.  The evidence
  of a command passes through four hands, and `EvidenceInv` has a part for each: what
  the gateway judged, did and logged (`GatewayInv`), its file, in which the decision on
  a command stands before its outcome and both are true (`FileInv`), the channel, which
  holds lines of the file in their order (`ChannelInv`), and the cockpit, which believes
  only what is true and whose status is the outcome once it was seen (`CockpitInv`: no
  evidence of the command that is waited for was seen yet); `MessageInv` ties the
  message to the answer, and `UiInv`, which `TypeCorrect` needs, says that at most one
  of modal, palette and search is open.  `BelievableStep` is the step all of it rests
  on: reducing one true line in its order keeps a believable cockpit believable;
  `BelievableFold` carries that through a batch.  It holds for any status an adapter may
  give an accepted command; only a command that was not accepted must end "rejected".
  `SessionAssumption` keeps the ids of other events apart from those of evidence, as
  their producers do.
- `TuiSession_proofs`, the tables: `CommandsHitTheHighlighted`.  `Selected` counts rows
  that the search of app.rs matches, `Highlighted` those that the one of render.rs
  matches; the matching positions are the same set wherever the two searches are the
  same, which is on every page but the events, where no key sends a command.
- `EventSources_proofs`: `SourcesInvariant` (`SourcesInv` is inductive), `TypeCorrect`,
  `NothingGivenIsLost`, `CountsAreExact`, for any logs, sources, starts and losses.
  `ReaderInv` says where a reader stands (what is acknowledged was delivered, what was
  handed over is known), `Kept` is `NothingElseIsLost` for one reader and its source,
  `SnapshotInv` that the snapshot counts what it holds, and `Counted` that a projection
  counts each event it saw once, apart from those the snapshot already held.

What was read from a file, what a channel holds and what an event does to a
projection are folds over sequences in the code.  The models write them as recursive
functions on the length of the sequence and the proofs go along the positions
(`StepByStep`, `LeastExists`: the library's induction theorems cannot be used).

Only model-checked is what is out of the prover's reach: liveness
(`EveryCommandAnswered` and the other properties that need fairness), and what the
four runs that expect a violation show.  Every invariant of the other runs is a
theorem.

## Findings

1. **A crashed bridge cycle loses events** (`bridge_id_reuse`).  The state file is
   saved after publishing; a crash in between reuses event ids for different
   events, which the reducer drops as duplicates.
2. **Torn audit lines** (`gateway_torn_audit`).  Two appends may interleave
   between an event and its newline and leave a line that is skipped by readers.
3. **The keys of the events page act on another event than the highlighted one**
   (`tui_event_selection`).  `event_matches_search` exists twice: app.rs:914 searches
   six fields, render.rs:1862 fourteen.  With a search for, say, a subject, the
   screen lists and highlights events that `o`, `s`, `c` and `y` do not count.
4. **A snapshot turns the aggregate into an account** (`snapshot_accounts`).
   `build_snapshot` fills `account` with the aggregate and
   `apply_projection_snapshot` inserts it beside the accounts it sums.

Observed while modelling, without a run of their own:

- A partial fill without `execution_id` that gives only its size, reported again under a
  new `event_id`, is added twice and no anomaly says so (`state.rs:1856`,
  `reducer.rs:1162`).
- The gateway reads command type, aggregate and danger level from the envelope and
  does not compare them with the payload it dispatches (`main.rs:853-868`); for a type
  it does not know the capability checks are skipped (`main.rs:977`).
- command-gateway stamps sequence 0 on every envelope (`main.rs:107`, `137`), so
  each one after its first counts as out of order.
- `is_valid_order_transition` has no transition from `CancelRequested` or
  `CancelRejected` to a fill, although order_lifecycle_tests.rs:515 gives "broker
  already filling" as the reason of a rejected cancel: such an order is flagged.
- docs/gap-closure-register.md:32 says that the authority event is written before
  the dispatch; `process_command` writes both events after it.
- A rejected short without an account is counted in the aggregate
  (`reducer.rs:915`), which the next event about any account recomputes without it.
- `rules_required` with an empty list of rules requires nothing; emptying a list,
  or dropping the last rule, opens what it restricted; and the first role given to
  a session without roles can satisfy a rule that it did not satisfy before.
- Keys typed while a submission blocks the loop are read after it: an Enter among
  them submits again if the first attempt ended in an error.
- Signals, intents and orders that name a strategy without its account are counted on
  the row that `drop_legacy_strategy_alias` removes at the next report of an account:
  the counters the strategies page shows (`format_strategy_row`) start over then.
- README.md:451-452 says that `--adapter-timeout-ms` keeps a slow adapter from stalling
  the control path; `wait_with_output` after the deadline has none of its own, so a
  process the adapter left behind with its output open stalls that client until it ends;
  so does an adapter that does not read its input, if the command is larger than the
  pipe (`main.rs:489-495` comes before the deadline).
- `state-projectiond` names as the source of a snapshot what the connection state
  last said, and a garbled line in the history makes every start fail.

## What is not modelled

Codecs, metrics, `tradectl`, the event filter, the socket text protocols and the
one-shot check scripts keep no state another part depends on; the layout and the
wording of the screens neither.  They are listed as `not_modelled` components.  The
tables of alerts, positions and market data and the latest values of a strategy row
are left out because one event overwrites one row there.  The risk command adapter is
a child process of the gateway, which is modelled for any answer it may give; that it
believes the liveness of the risk engine for the cache's time to live is not.

Inside the modelled parts prices, fees, latencies, timestamps and texts are left
out, because no property distinguishes them.  Of the risk state, the rule rows
(`structured_limits`) and a blocked-short count that a snapshot carries are left
out; the snapshot's own `valuation_status` need not be modelled, because the
refresh at the end of the handler overwrites it.  Of the authority policy,
`validate_command` (fields that may not be empty) and the reason texts; rules are
told apart by their position.  Of the TUI, the clipboard, the backlog counters and
the syntax of the palette; a palette command for an account that does not exist is
one of the payloads the palette yields.  `StatusIsTheOutcome` is for an audit file
followed in its order: over JetStream, a redelivered authority event that was not
seen yet could arrive after the audit event, and would put the status back.
Of the projection service, the query protocol over the projected state.

## Plan

1. *Done*: EventIntake, BridgeFeed, OrderLifecycle, CommandOutcome,
   CommandGateway, RiskState.
2. *Done*: CommandKinds, BrokerControl and AuthorityPolicy; CommandEvidence,
   TuiTables and TuiSession over CommandOutcome; EventSources with snapshots;
   AuditRing.
3. *Done*: CommandGateway implements CommandOutcome (step simulation, without
   fairness); the processes that adapters leave behind; TuiSession's modal.
   StrategyTable.  All of RiskState's and BridgeFeed's invariants proved.
   The remaining invariants: gaps, ring and strategy rows, the truth of quiet orders,
   what the session shows, what the readers lose and count.
4. The liveness cache of the risk command adapter, composed with CommandGateway.
