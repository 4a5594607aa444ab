----------------------------- MODULE EventSources -----------------------------
(***************************************************************************)
(* How the events of the trading log reach the two programs that project   *)
(* them.  state-projectiond loads the stored history, then applies what    *)
(* NATS or JetStream brings, and serves snapshots.  trade-tui loads the    *)
(* history and a snapshot, then its sources, NATS, JetStream or the file   *)
(* it follows, feed the channel that its loop drains.  Both acknowledge a  *)
(* JetStream message once it is handed over, and keep their state in       *)
(* memory only.                                                            *)
(*                                                                         *)
(* Events are numbered as published.  They reduce to what they do to a     *)
(* projection: insert an account, or count a signal; a garbled event does  *)
(* not decode.  NATS, the event store and who restarts are the environment.*)
(***************************************************************************)
EXTENDS Integers, FiniteSets, Sequences, SequencesExt

\* Deployments: which readers there are, the source of each, whether they load a
\* history, and whether trade-tui starts from a snapshot; the log published, and
\* as bounds how often a reader starts and how often a connection is lost or a
\* line read half written.
CONSTANT Setups

Readers == {"state-projectiond", "trade-tui"}
Sources == {"none", "nats", "jetstream", "jsonl"}

VARIABLES
  setup,      \* the deployment: an element of Setups
  published,  \* how many events of the log the stream has
  stored,     \* how many of them the event store, or the file, has
  phase,      \* of a reader: down, loading, up
  app,        \* of a reader: what it projects
  history,    \* of a reader: the events loaded, to be reduced
  connected,  \* of a reader: its source delivers
  message,    \* of a reader: the JetStream message at hand, 0: none
  handed,     \* of a reader: that message was handed over
  channel,    \* of a reader: events between its source and its projection
  delivered,  \* of a durable consumer: the events it was given so far
  acked,      \* of a durable consumer: the events it acknowledged
  position,   \* of a reader: where it follows the file
  file,       \* the snapshot saved last
  lost,       \* of a reader: events that it will not be given
  starts, losses

reader == << phase, app, history, connected, message, handed, channel, position, lost >>
consumer == << delivered, acked >>
vars == << setup, published, stored, reader, consumer, file, starts, losses >>

Log == setup.log
Events == 1..published
Garbled(e) == Log[e].kind = "garbled"
Signals(S) == {e \in S : Log[e].kind = "signal"}

ASSUME SourcesAssumption ==
  \A s \in Setups :
    /\ s.readers \subseteq Readers /\ {s.load, s.snapshot} \subseteq BOOLEAN
    /\ s.source \in [s.readers -> Sources]
    /\ \A r \in s.readers : s.source[r] = "jsonl" => r = "trade-tui"
    /\ Len(s.log) \in Nat /\ DOMAIN s.log = 1..Len(s.log)
    /\ \A k \in DOMAIN s.log : s.log[k].kind \in {"account", "signal", "garbled"}

-----------------------------------------------------------------------------
(* A projection, and its snapshot.                                         *)

DefaultAccount == [id |-> "paper", money |-> 0]
Money(accounts) == MapThenSumSet(LAMBDA a : a.money, accounts)

\* AccountStore::aggregate_view
AggregateView(accounts) ==
  IF accounts = {} THEN DefaultAccount
  ELSE IF Cardinality(accounts) = 1 THEN CHOOSE a \in accounts : TRUE
  ELSE [id |-> "ALL", money |-> Money(accounts)]

\* A later account replaces the one with its id.
Insert(accounts, account) == {a \in accounts : a.id # account.id} \union {account}

EmptyApp ==
  [seen |-> {}, errors |-> {}, accounts |-> {}, account |-> DefaultAccount,
   signals |-> 0, held |-> {}]

\* Mutant: an event is reduced however often it is delivered.
IsNew_Always(s, e) == s.seen = s.seen
IsNew(s, e) == e \notin s.seen

Reduce(s, e) ==
  IF Garbled(e) THEN [s EXCEPT !.errors = @ \union {e}]
  ELSE IF ~IsNew(s, e) THEN s
  ELSE LET next == [s EXCEPT !.seen = @ \union {e}]
       IN IF Log[e].kind = "signal" THEN [next EXCEPT !.signals = @ + 1]
          ELSE LET accounts == Insert(s.accounts, [id |-> Log[e].account, money |-> 1])
               IN [next EXCEPT !.accounts = accounts, !.account = AggregateView(accounts)]
ReduceAll(s, events) ==
  LET after[k \in 0..Len(events)] == IF k = 0 THEN s ELSE Reduce(after[k - 1], events[k])
  IN  after[Len(events)]

NoSnapshot == [account |-> {}, accounts |-> {}, signals |-> 0, held |-> {}]
BuildSnapshot(s) ==
  [account |-> {s.account}, accounts |-> s.accounts, signals |-> s.signals,
   held |-> s.seen \union s.held]

\* What is in a snapshot replaces the tables; the event ids seen are not in it.
ApplySnapshot(s, snapshot) ==
  LET shown == {a \in snapshot.account : \A b \in snapshot.accounts : b.id # a.id}
                 \union snapshot.accounts
      accounts == IF shown = {} THEN {DefaultAccount} ELSE shown
  IN [s EXCEPT !.accounts = accounts, !.account = AggregateView(accounts),
               !.signals = snapshot.signals, !.held = snapshot.held]

-----------------------------------------------------------------------------
Init ==
  /\ setup \in Setups
  /\ published = 0 /\ stored = 0
  /\ phase = [r \in Readers |-> "down"]
  /\ app = [r \in Readers |-> EmptyApp]
  /\ history = [r \in Readers |-> << >>]
  /\ connected = [r \in Readers |-> FALSE]
  /\ message = [r \in Readers |-> 0] /\ handed = [r \in Readers |-> FALSE]
  /\ channel = [r \in Readers |-> << >>]
  /\ delivered = [r \in Readers |-> 0] /\ acked = [r \in Readers |-> {}]
  /\ position = [r \in Readers |-> 0] /\ lost = [r \in Readers |-> {}]
  /\ file = NoSnapshot
  /\ starts = [r \in Readers |-> 0] /\ losses = 0

(* The environment: publishers, NATS and the event store.                  *)
Source(r) == setup.source[r]
Subscribed == {r \in setup.readers : Source(r) = "nats" /\ connected[r]}

Publish ==
  /\ published < Len(Log)
  /\ published' = published + 1
  /\ channel' = [r \in Readers |-> IF r \in Subscribed THEN Append(channel[r], published + 1)
                                    ELSE channel[r]]
  /\ UNCHANGED << setup, stored, phase, app, history, connected, message, handed, position,
                  lost, consumer, file, starts, losses >>
Persist ==
  /\ stored < published
  /\ stored' = stored + 1
  /\ UNCHANGED << setup, published, reader, consumer, file, starts, losses >>

-----------------------------------------------------------------------------
(* Starting: load_state and main.                                          *)

Others == << setup, published, stored, file >>
Known(r) == app[r].seen \union app[r].errors \union app[r].held \union ToSet(channel[r])

\* The history is read whole; a line that does not decode, an adapter that fails
\* or is too slow ends the program.
LoadHistory(r) ==
  /\ phase[r] = "down" /\ starts[r] < setup.starts
  /\ starts' = [starts EXCEPT ![r] = @ + 1]
  /\ LET read == IF setup.load THEN 1..stored ELSE {}
     IN \/ UNCHANGED << phase, history, lost >> /\ setup.load
        \/ /\ \A e \in read : ~Garbled(e)
           /\ phase' = [phase EXCEPT ![r] = "loading"]
           /\ history' = [history EXCEPT ![r] = [e \in 1..Cardinality(read) |-> e]]
           /\ lost' = [lost EXCEPT ![r] = acked[r] \ read]
  /\ UNCHANGED << Others, app, connected, message, handed, channel, position, consumer, losses >>

\* The snapshot first, then the history.
Begin(r) ==
  /\ phase[r] = "loading"
  /\ phase' = [phase EXCEPT ![r] = "up"]
  /\ app' = [app EXCEPT ![r] =
       ReduceAll(IF r = "trade-tui" /\ setup.snapshot /\ file # NoSnapshot
                 THEN ApplySnapshot(EmptyApp, file) ELSE EmptyApp, history[r])]
  /\ history' = [history EXCEPT ![r] = << >>]
  /\ UNCHANGED << Others, connected, message, handed, channel, position, lost, consumer,
                  starts, losses >>

\* Mutant: a connection that breaks leaves its message at hand.
LetGo_Keeps(r) == UNCHANGED << message, handed >>
LetGo(r) ==
  /\ message' = [message EXCEPT ![r] = 0]
  /\ handed' = [handed EXCEPT ![r] = FALSE]

\* A crash of state-projectiond, or the operator quits: what was in memory is gone.
Stop(r) ==
  /\ phase[r] # "down"
  /\ phase' = [phase EXCEPT ![r] = "down"]
  /\ app' = [app EXCEPT ![r] = EmptyApp]
  /\ history' = [history EXCEPT ![r] = << >>]
  /\ connected' = [connected EXCEPT ![r] = FALSE]
  /\ LetGo(r)
  /\ channel' = [channel EXCEPT ![r] = << >>]
  /\ position' = [position EXCEPT ![r] = 0]
  /\ UNCHANGED << Others, lost, consumer, starts, losses >>

-----------------------------------------------------------------------------
(* The sources of a reader that is up, each a thread that connects again.  *)

\* Mutant: a thread whose connection broke does not try again.
MayConnect_Once(r) ==
  phase[r] = "up" /\ ~connected[r] /\ Source(r) # "none" /\ losses = 0
MayConnect(r) == phase[r] = "up" /\ ~connected[r] /\ Source(r) # "none"

\* NATS brings what is published from now on, the followed file what is appended.
Missed(r) ==
  CASE Source(r) = "nats" -> Events [] Source(r) = "jsonl" -> 1..stored [] OTHER -> {}
Connect(r) ==
  /\ MayConnect(r)
  /\ connected' = [connected EXCEPT ![r] = TRUE]
  /\ position' = [position EXCEPT ![r] = stored]
  /\ lost' = [lost EXCEPT ![r] = @ \union (Missed(r) \ Known(r))]
  /\ UNCHANGED << Others, phase, app, history, message, handed, channel, consumer, starts, losses >>

Disconnect(r) ==
  /\ connected[r] /\ losses < setup.losses
  /\ losses' = losses + 1
  /\ connected' = [connected EXCEPT ![r] = FALSE]
  /\ LetGo(r)
  /\ UNCHANGED << Others, phase, app, history, channel, position, lost, consumer, starts >>

\* The consumer gets the next message of the stream, or again one not acknowledged.
Receive(r) == \E e \in 1..(delivered[r] + 1) :
  /\ connected[r] /\ Source(r) = "jetstream" /\ message[r] = 0
  /\ e <= published /\ e \notin acked[r]
  /\ message' = [message EXCEPT ![r] = e]
  /\ delivered' = [delivered EXCEPT ![r] = IF e > @ THEN e ELSE @]
  /\ UNCHANGED << Others, phase, app, history, connected, handed, channel, position, lost,
                  acked, starts, losses >>

\* state-projectiond applies it, trade-tui sends it into its channel.
HandOver(r) ==
  /\ message[r] # 0 /\ ~handed[r]
  /\ handed' = [handed EXCEPT ![r] = TRUE]
  /\ IF r = "state-projectiond"
     THEN /\ app' = [app EXCEPT ![r] = Reduce(@, message[r])]
          /\ UNCHANGED channel
     ELSE /\ channel' = [channel EXCEPT ![r] = Append(@, message[r])]
          /\ UNCHANGED app
  /\ UNCHANGED << Others, phase, history, connected, message, position, lost, consumer,
                  starts, losses >>

\* Mutant: a message is acknowledged as soon as it is there.
MayAcknowledge_AtOnce(r) == message[r] # 0
MayAcknowledge(r) == message[r] # 0 /\ handed[r]
Acknowledge(r) ==
  /\ MayAcknowledge(r)
  /\ acked' = [acked EXCEPT ![r] = @ \union {message[r]}]
  /\ LetGo(r)
  /\ UNCHANGED << Others, phase, app, history, connected, channel, position, lost, delivered,
                  starts, losses >>

\* A line of the followed file; one read half written decodes neither now nor later.
FollowLine(r) ==
  /\ connected[r] /\ Source(r) = "jsonl" /\ position[r] < stored
  /\ position' = [position EXCEPT ![r] = @ + 1]
  /\ \/ /\ channel' = [channel EXCEPT ![r] = Append(@, position[r] + 1)]
        /\ UNCHANGED << lost, losses >>
     \/ /\ losses < setup.losses /\ losses' = losses + 1
        /\ lost' = [lost EXCEPT ![r] = @ \union {position[r] + 1}]
        /\ UNCHANGED channel
  /\ UNCHANGED << Others, phase, app, history, connected, message, handed, consumer, starts >>

\* drain_events of trade-tui, the subscriber loop of state-projectiond.
Drain(r) ==
  /\ phase[r] = "up" /\ channel[r] # << >>
  /\ app' = [app EXCEPT ![r] = Reduce(@, Head(channel[r]))]
  /\ channel' = [channel EXCEPT ![r] = Tail(@)]
  /\ UNCHANGED << Others, phase, history, connected, message, handed, position, lost, consumer,
                  starts, losses >>

\* A snapshot is asked of state-projectiond and saved for the next trade-tui.
SaveSnapshot ==
  /\ setup.snapshot /\ phase["state-projectiond"] = "up"
  /\ file' = BuildSnapshot(app["state-projectiond"])
  /\ UNCHANGED << setup, published, stored, reader, consumer, starts, losses >>

Read(r) == Receive(r) \/ HandOver(r) \/ Acknowledge(r) \/ FollowLine(r) \/ Drain(r)
Next ==
  \/ Publish \/ Persist \/ SaveSnapshot
  \/ \E r \in setup.readers :
       LoadHistory(r) \/ Begin(r) \/ Stop(r) \/ Connect(r) \/ Disconnect(r) \/ Read(r)

\* A program that was started gets on, its threads connect again every second,
\* and a connected source delivers; nobody has to start a program again.
Fairness == \A r \in Readers :
  /\ WF_vars(r \in setup.readers /\ Begin(r)) /\ WF_vars(r \in setup.readers /\ Connect(r))
  /\ WF_vars(Receive(r)) /\ WF_vars(HandOver(r)) /\ WF_vars(Acknowledge(r))
  /\ WF_vars(FollowLine(r)) /\ WF_vars(Drain(r))
Spec == Init /\ [][Next]_vars /\ Fairness

-----------------------------------------------------------------------------
(* Properties.                                                             *)

Up(r) == r \in setup.readers /\ phase[r] = "up"

\* Every variable has its type; what is not up projects nothing.
TypeOK ==
  /\ setup \in Setups /\ 0 <= stored /\ stored <= published /\ published <= Len(Log)
  /\ \A r \in Readers :
       /\ phase[r] \in {"down", "loading", "up"} /\ (phase[r] # "up" => app[r] = EmptyApp /\ ~connected[r])
       /\ acked[r] \subseteq 1..delivered[r] /\ delivered[r] <= published
       /\ message[r] \in 0..delivered[r] /\ (message[r] # 0 => connected[r])
       /\ app[r].seen \subseteq Events /\ lost[r] \subseteq Events /\ position[r] <= stored

\* What a source gave to a program that is up is shown, reported as not decodable
\* or waiting in the channel, or it was lost in one of the ways that are known: a
\* program that ran before acknowledged it and the history does not have it, it
\* was published or appended while nothing listened, or it was read half written.
\* Acknowledging after handing over is what this rests on (run_jetstream_once,
\* run_jetstream_consumer_once).
NothingElseIsLost == \A r \in Readers : Up(r) =>
  LET given == CASE Source(r) = "jetstream" -> acked[r]
                 [] Source(r) = "nats" -> IF connected[r] THEN Events ELSE {}
                 [] Source(r) = "jsonl" -> 1..position[r]
                 [] OTHER -> {}
  IN given \subseteq Known(r) \union lost[r]

\* Signals are counted exactly, redelivered ones included, if and only if none
\* that the snapshot already counts comes again: a snapshot does not bring the
\* ids of its events (apply_projection_snapshot).
CountsExactUnlessSnapshotOverlaps == \A r \in Readers :
  LET s == app[r]
  IN s.signals = Cardinality(Signals(s.seen \union s.held)) <=> Signals(s.seen \intersect s.held) = {}

\* A cockpit that starts from a snapshot has the accounts of the log and sums their
\* money once (the aggregate of several accounts is in the snapshot as well).
SnapshotKeepsTheAccounts == \A r \in Readers :
  LET accounts == {Log[e].account : e \in {e \in Events : Log[e].kind = "account"}}
  IN app[r].account.money <= Cardinality(accounts)

\* Every event published, or appended to the followed file, gets shown or reported
\* by a program that stays up, or is lost in one of the known ways.
EveryEventGetsThrough == \A r \in Readers, e \in 1..4 :
  (r \in setup.readers /\ Source(r) # "none" /\ e <= IF Source(r) = "jsonl" THEN stored ELSE published)
    ~> (e \in app[r].seen \union app[r].errors \union app[r].held \union lost[r] \/ phase[r] # "up")
=============================================================================
