------------------------------ MODULE TuiSession ------------------------------
(***************************************************************************)
(* An operator's session with trade-tui: the event loop that drains the    *)
(* event channel, draws and handles one key (App::run_loop, handle_key),   *)
(* the modal in which a command is confirmed, and its submission to        *)
(* command-gateway, of which CommandOutcome says what may be relied on.    *)
(* The events of a command reach the cockpit twice: with the answer, and   *)
(* from the audit file that the event source follows.                      *)
(*                                                                         *)
(* The keys are the operator's free choice.  A step of the loop is a key,  *)
(* or none before the timeout, with the drain and the frame that follow.   *)
(* A confirmation is reduced to the payload whose text it spells,          *)
(* NoPayload when it spells none; a notice that names no command, to none. *)
(***************************************************************************)
EXTENDS CommandEvidence, TuiTables

CONSTANTS
  Sessions,        \* how a session may be started, and what may happen in it
  RowIds,          \* every row id, in the order of the tables
  ShownEvents,     \* events listed (200 in the code)
  MaxDrainPerTick, \* events reduced between two frames (5,000 in the code)
  MaxCommands, MaxNews, MaxChannel  \* bounds of the model

Commands == 1..MaxCommands
NoPayload == Payload("none", None, None, None)

VARIABLES
  cli,        \* the session: an element of Sessions
  ui,         \* what App keeps besides the state
  cockpit,    \* AppState: evidence, accounts, tables and the list of events
  channel,    \* event_rx
  waiting,    \* the command whose submission blocks the loop, 0: none
  sent,       \* the payloads submitted, in order
  tries,      \* those submitted from the modal that is open
  news,       \* domain events published
  \* command-gateway and its audit file
  verdict, acted, logged, answer,
  outcome,    \* the status in the audit event of a command
  file,       \* the decodable lines of the audit file
  followed    \* how many of them the event source has sent on

session == << cli, ui, waiting, sent, tries >>
gateway == << verdict, acted, logged, answer, outcome, file >>
vars == << session, cockpit, channel, news, gateway, followed >>

G == INSTANCE CommandOutcome

\* A sequence, whatever its elements.
IsSequence(s) == s \in Seq({s[k] : k \in DOMAIN s})

\* A session: its options, the accounts known from the start, the screens visited,
\* the words searched for, what is written in the palette, the domain events that
\* may arrive and how often commands are sent.  Without words or payloads there is
\* no search and no palette.  shared: other gateways append to the
\* audit file, or it is read while lines are being written.
ASSUME SessionAssumption ==
  /\ MaxDrainPerTick \in Nat \ {0} /\ ShownEvents \in Nat \ {0}
  /\ MaxCommands \in Nat /\ IsSequence(RowIds)
  /\ \A s \in Sessions :
       /\ {s.replay, s.tcp, s.shared} \subseteq BOOLEAN /\ s.pages \subseteq Screens
       /\ \A payload \in s.palette : IsPayload(payload)
       /\ \A event \in s.news : event.event_id[1] = "news"
       /\ s.commands \in 0..MaxCommands

NoMessage == [kind |-> "none", command |-> 0]
Message(kind, c) == [kind |-> kind, command |-> c]

-----------------------------------------------------------------------------
(* The tables.                                                             *)

AccountRows == {[id |-> a, words |-> {a}] : a \in cockpit.accounts}
Table(screen) ==
  CASE screen \in {"Overview", "Risk"} -> Ordered(AccountRows, RowIds)
    [] screen = "Strategies" -> Ordered(cockpit.strategies, RowIds)
    [] screen = "Orders" -> Ordered(cockpit.orders, RowIds)
    [] screen = "Events" -> cockpit.events
    [] OTHER -> << >>

\* The accounts share one index.
IndexOf(screen) == IF screen = "Overview" THEN "Risk" ELSE screen
Indexed == {"Risk", "Strategies", "Orders", "Events"}
NoSelection == [s \in Indexed |-> 0]

SelectedRow == Selected(ui.screen, Table(ui.screen), ui.query, ui.index[IndexOf(ui.screen)])
HighlightedRow == Highlighted(ui.screen, Table(ui.screen), ui.query, ui.index[IndexOf(ui.screen)])

\* get_or_insert and what the handler of a domain event fills in; every event is listed.
Upsert(rows, row) == {r \in rows : r.id # row.id} \union {row}
Listed(s, summary) == [s EXCEPT !.events = SubSeq(<< summary >> \o @, 1, Len(@) + 1)]
Shown(s) == [s EXCEPT !.events = SubSeq(@, 1, IF Len(@) < ShownEvents THEN Len(@) ELSE ShownEvents)]

EvidenceSummary(event) ==
  [id |-> event.event_id, words |-> {"command"}, more_words |-> {}, chain |-> None, strategy |-> None]

ReduceNews(s, event) ==
  CASE event.screen = "Risk" -> [s EXCEPT !.accounts = @ \union {event.row.id}]
    [] event.screen = "Strategies" -> [s EXCEPT !.strategies = Upsert(@, event.row)]
    [] OTHER -> [s EXCEPT !.orders = Upsert(@, event.row)]

ReduceEvent(s, event) ==
  IF ~Fresh(s, event) THEN s
  ELSE IF event.event_id[1] # "news" THEN Shown(Listed(Reduce(s, event), EvidenceSummary(event)))
  ELSE Shown(Listed(ReduceNews([s EXCEPT !.seen = @ \union {event.event_id}], event), event.summary))

\* One event after the other.
ReduceAll(s, events) ==
  LET after[k \in 0..Len(events)] == IF k = 0 THEN s ELSE ReduceEvent(after[k - 1], events[k])
  IN  after[Len(events)]

-----------------------------------------------------------------------------
EmptyCockpit(accounts) ==
  [seen |-> {}, commands |-> [c \in Commands |-> NewView], kill_switch |-> FALSE,
   accounts |-> accounts, controls |-> {}, strategies |-> {}, orders |-> {}, events |-> << >>]

Init ==
  /\ cli \in Sessions
  /\ ui = [screen |-> IF cli.replay THEN "Replay" ELSE "Overview", query |-> NoQuery,
           search_active |-> FALSE, command_palette_active |-> FALSE,
           dangerous_action |-> NoPayload, dangerous_confirmation |-> NoPayload,
           message |-> NoMessage, index |-> NoSelection, should_quit |-> FALSE]
  /\ cockpit = EmptyCockpit(cli.accounts)
  /\ channel = << >>
  /\ waiting = 0 /\ sent = << >> /\ tries = {} /\ news = 0
  /\ G!Init
  /\ outcome = [c \in Commands |-> None]
  /\ file = << >> /\ followed = 0

(* One turn of the loop: a key or a timeout, then drain_events and a frame. *)
Looping == waiting = 0 /\ ~ui.should_quit
\* Mutant: the bound of a frame is reached one event too early.
Drained_Short == IF Len(channel) < MaxDrainPerTick THEN Len(channel) ELSE MaxDrainPerTick - 1
Drained == IF Len(channel) < MaxDrainPerTick THEN Len(channel) ELSE MaxDrainPerTick
DrainEvents(s) ==
  /\ cockpit' = ReduceAll(s, SubSeq(channel, 1, Drained))
  /\ channel' = SubSeq(channel, Drained + 1, Len(channel))

Turn(next) ==
  /\ Looping
  /\ ui' = next
  /\ DrainEvents(cockpit)
  /\ UNCHANGED << cli, waiting, news, gateway, followed >>
Key(next) == Turn(next) /\ UNCHANGED sent

Timeout == Key(ui) /\ UNCHANGED tries

ModalOpen == ui.dangerous_action # NoPayload
NormalMode == ~ModalOpen /\ ~ui.command_palette_active /\ ~ui.search_active

Quit ==
  /\ Looping
  /\ ui' = [ui EXCEPT !.should_quit = TRUE]
  /\ UNCHANGED << cli, cockpit, channel, waiting, sent, tries, news, gateway, followed >>

OpenCommandModal(u, payload) ==
  [u EXCEPT !.dangerous_action = payload, !.dangerous_confirmation = NoPayload,
            !.message = NoMessage]
CloseDangerousModal(u) ==
  [u EXCEPT !.dangerous_action = NoPayload, !.dangerous_confirmation = NoPayload]

-----------------------------------------------------------------------------
(* The keys of the pages.                                                  *)

GoTo == \E page \in cli.pages :
  NormalMode /\ Key([ui EXCEPT !.screen = page]) /\ UNCHANGED tries

Move ==
  /\ NormalMode /\ ui.screen \in Indexed \union {"Overview"}
  /\ LET rows == Visible(ui.screen, Table(ui.screen), ui.query)
         here == ui.index[IndexOf(ui.screen)]
     IN \E next \in {NextIndex(here, Len(rows)), PreviousIndex(here)} :
          Key([ui EXCEPT !.index[IndexOf(ui.screen)] = next])
  /\ UNCHANGED tries

BeginSearch ==
  /\ NormalMode /\ cli.queries # {}
  /\ Key([ui EXCEPT !.search_active = TRUE, !.query = NoQuery, !.index = NoSelection])
  /\ UNCHANGED tries
EditSearch == \E q \in cli.queries \union {NoQuery} :
  /\ ui.search_active
  /\ Key([ui EXCEPT !.query = q, !.index = NoSelection])
  /\ UNCHANGED tries
CloseSearch ==
  ui.search_active /\ Key([ui EXCEPT !.search_active = FALSE]) /\ UNCHANGED tries

\* The payload that a command key makes of the selected row, NoPayload if it lacks an id.
RowPayload(type, row) ==
  CASE row = NoRow -> IF type \in AccountCommands THEN Payload(type, "paper", None, None) ELSE NoPayload
    [] type \in AccountCommands -> Payload(type, row.id, None, None)
    [] type \in StrategyCommands -> Payload(type, None, row.id, None)
    [] OTHER ->
         LET object == IF type = "CancelOrderRequested" THEN row.order ELSE row.symbol
         IN IF None \in {row.account, object} THEN NoPayload
            ELSE Payload(type, row.account, None, object)
KeyCommands(screen) ==
  CASE screen = "Risk" -> {"AccountKillSwitchRequested", "FlattenAccountRequested"}
    [] screen = "Strategies" -> StrategyCommands
    [] screen = "Orders" -> {"CancelOrderRequested", "CancelAllOrdersForSymbolRequested"}
    [] OTHER -> {}

Open(payload) ==
  /\ NormalMode
  /\ Key(IF payload = NoPayload THEN [ui EXCEPT !.message = NoMessage]
         ELSE OpenCommandModal(ui, payload))
  /\ tries' = {}
OpenForRow == \E type \in KeyCommands(ui.screen) : Open(RowPayload(type, SelectedRow))
OpenGlobalKill ==
  ui.screen = "Risk" /\ Open(Payload("GlobalKillSwitchRequested", "global", None, None))

\* o and s on the events page: the chain or the strategy of the selected event is searched.
OpenSelectedEvent == \E page \in {"Orders", "Strategies"} :
  /\ NormalMode /\ ui.screen = "Events"
  /\ Key(IF SelectedRow = NoRow THEN [ui EXCEPT !.message = NoMessage]
         ELSE [ui EXCEPT !.query = IF page = "Orders" THEN SelectedRow.chain ELSE SelectedRow.strategy,
                         !.index[page] = 0, !.screen = page])
  /\ UNCHANGED tries

BeginCommandPalette ==
  /\ NormalMode /\ cli.palette # {}
  /\ Key([ui EXCEPT !.command_palette_active = TRUE])
  /\ UNCHANGED tries
CloseCommandPalette ==
  /\ ui.command_palette_active
  /\ Key([ui EXCEPT !.command_palette_active = FALSE])
  /\ UNCHANGED tries
\* Mutant: the palette stays active behind the modal.
PaletteLeft_StaysActive(u) == u
PaletteLeft(u) == [u EXCEPT !.command_palette_active = FALSE]
SubmitCommandPalette ==
  /\ ui.command_palette_active
  /\ \/ Key([ui EXCEPT !.message = NoMessage])
     \/ \E payload \in cli.palette :
          Key(OpenCommandModal(PaletteLeft(ui), payload))
  /\ tries' = {}

-----------------------------------------------------------------------------
(* The modal.                                                              *)

CloseModal == ModalOpen /\ Key(CloseDangerousModal(ui)) /\ tries' = {}

TypeConfirmation == \E text \in {ui.dangerous_action, NoPayload} :
  /\ ModalOpen
  /\ Key([ui EXCEPT !.dangerous_confirmation = text])
  /\ UNCHANGED tries

\* submit_pending_command up to the call of the client, which blocks the loop.
MaySubmit == ~cli.replay /\ ui.dangerous_confirmation = ui.dangerous_action
RefuseSubmission ==
  /\ ModalOpen /\ ~MaySubmit
  /\ Key([ui EXCEPT !.message = NoMessage])
  /\ UNCHANGED tries

\* Mutant: the command is built from the row selected now.
SubmittedPayload_Selected == RowPayload(ui.dangerous_action.command_type, SelectedRow)
SubmittedPayload == ui.dangerous_action
Submit ==
  /\ Looping /\ ModalOpen /\ MaySubmit
  /\ Len(sent) < cli.commands
  /\ sent' = Append(sent, SubmittedPayload)
  /\ waiting' = Len(sent) + 1
  /\ tries' = tries \union {Len(sent) + 1}
  /\ UNCHANGED << cli, ui, cockpit, channel, news, gateway, followed >>

-----------------------------------------------------------------------------
(* command-gateway, as CommandOutcome promises it, and the audit file.     *)

GatewayStep == UNCHANGED << session, cockpit, channel, news, followed >>

JudgeCommand(c) ==
  waiting = c /\ G!Judge(c) /\ GatewayStep /\ UNCHANGED << outcome, file >>
\* An adapter acts before the outcome is written down, or on its own when the gateway died.
ActOnCommand(c) ==
  outcome[c] = None /\ G!Act(c) /\ GatewayStep /\ UNCHANGED << outcome, file >>

\* The status that process_command audits.  An adapter may give any: "other" is one
\* that the gateway has no use for, and what the gateway says itself an adapter says
\* in the same sense, "applied" only if it acted, "rejected" only if it did not.
AuditedStatuses(c) ==
  IF verdict[c] = "rejected" THEN {"rejected"}
  ELSE IF c \in acted THEN {"dispatched", "applied", "other", "execution_failed"}
  ELSE {"accepted", "rejected", "other", "unsupported_execution", "execution_failed"}

\* The two lines of a command; another gateway may tear either.
LogCommand(c) ==
  /\ G!Log(c) /\ c \notin logged
  /\ \E status \in AuditedStatuses(c) :
     LET decided == AuthorityDecided(c, sent[c], verdict[c])
         recorded == AuditRecorded(c, sent[c], status)
     IN \E lines \in IF cli.shared
                     THEN {<< decided, recorded >>, << decided >>, << recorded >>, << >>}
                     ELSE {<< decided, recorded >>} :
          /\ outcome' = [outcome EXCEPT ![c] = status]
          /\ file' = file \o lines
  /\ GatewayStep

AnswerCommand(c) ==
  /\ waiting = c /\ G!Answer(c)
  /\ answer'[c] \in {"error", outcome[c]}
  /\ GatewayStep /\ UNCHANGED << outcome, file >>
LoseAnswer(c) ==
  waiting = c /\ G!Lose({c}) /\ GatewayStep /\ UNCHANGED << outcome, file >>

\* What the client returns: the events of the response, or those the file can be read for.
FullResponse(c) == << AuthorityDecided(c, sent[c], verdict[c]), AuditRecorded(c, sent[c], outcome[c]) >>
SubmissionEvents(c) ==
  IF cli.tcp THEN FullResponse(c) ELSE At(file, {k \in DOMAIN file : file[k].command = c})
\* Mutant: the status is the one of the first event.
SubmissionStatus_First(c) ==
  IF cli.tcp THEN answer[c]
  ELSE IF SubmissionEvents(c) = << >> THEN "submitted" ELSE Head(SubmissionEvents(c)).status
SubmissionStatus(c) ==
  IF cli.tcp THEN answer[c]
  ELSE IF SubmissionEvents(c) = << >> THEN "submitted" ELSE Last(SubmissionEvents(c)).status

\* Mutant: an answered command leaves its modal open.
Answered_StaysOpen(u, message) == [u EXCEPT !.message = message]
Answered(u, message) == [CloseDangerousModal(u) EXCEPT !.message = message]

\* The rest of submit_pending_command, and of the turn.
ReturnFromSubmit ==
  /\ waiting # 0 /\ answer[waiting] # "none"
  /\ IF answer[waiting] \in {"error", "lost"}
     THEN /\ ui' = [ui EXCEPT !.message = Message("failed", waiting)]
          /\ DrainEvents(cockpit)
          /\ UNCHANGED tries
     ELSE /\ DrainEvents(ReduceAll(cockpit, SubmissionEvents(waiting)))
          /\ ui' = Answered(ui, Message(SubmissionStatus(waiting), waiting))
          /\ tries' = IF ui'.dangerous_action = NoPayload THEN {} ELSE tries
  /\ waiting' = 0
  /\ UNCHANGED << cli, sent, news, gateway, followed >>

-----------------------------------------------------------------------------
(* The event sources, while somebody listens.                              *)

PublishNews == \E event \in cli.news :
  /\ ~ui.should_quit /\ news < MaxNews /\ Len(channel) < MaxChannel
  /\ news' = news + 1
  /\ channel' = Append(channel, event)
  /\ UNCHANGED << session, cockpit, gateway, followed >>

\* The audit file is followed in its order; what was read half written is lost.
FollowAudit == \E lost \in IF cli.shared THEN BOOLEAN ELSE {FALSE} :
  /\ ~ui.should_quit /\ followed < Len(file) /\ Len(channel) < MaxChannel
  /\ followed' = followed + 1
  /\ channel' = IF lost THEN channel ELSE Append(channel, file[followed + 1])
  /\ UNCHANGED << session, cockpit, news, gateway >>

Operator ==
  \/ GoTo \/ Move \/ BeginSearch \/ EditSearch \/ CloseSearch
  \/ OpenForRow \/ OpenGlobalKill \/ OpenSelectedEvent
  \/ BeginCommandPalette \/ CloseCommandPalette \/ SubmitCommandPalette
  \/ CloseModal \/ TypeConfirmation \/ RefuseSubmission \/ Submit \/ Quit
Gateway == \E c \in Commands :
  JudgeCommand(c) \/ ActOnCommand(c) \/ LogCommand(c) \/ AnswerCommand(c) \/ LoseAnswer(c)

Next == Operator \/ Timeout \/ ReturnFromSubmit \/ Gateway \/ PublishNews \/ FollowAudit

\* The loop runs, and a submission that was answered, or whose connection closed,
\* returns.  That it is answered is not assumed: neither submit_tcp's read nor
\* process.output() has a timeout, and the gateway may be held by an adapter.
Fairness == WF_vars(Timeout) /\ WF_vars(ReturnFromSubmit)
Spec == Init /\ [][Next]_vars /\ Fairness

-----------------------------------------------------------------------------
(* Properties.                                                             *)

\* Every variable has its type, the modal, the palette and the search are never
\* open together, and the loop waits for the latest command only.
TypeOK ==
  /\ cli \in Sessions /\ {ui.search_active, ui.command_palette_active} \subseteq BOOLEAN
  /\ ui.screen \in Screens /\ ui.index \in [Indexed -> Nat]
  /\ ModalOpen => ~ui.command_palette_active /\ ~ui.search_active
  /\ ~(ui.command_palette_active /\ ui.search_active)
  /\ waiting \in {0, Len(sent)} /\ (waiting # 0 => ModalOpen)
  /\ \A c \in Commands : outcome[c] \in Statuses \union {None}
  /\ acted \subseteq 1..Len(sent) /\ tries \subseteq 1..Len(sent)
  /\ followed <= Len(file)

\* A command whose audit event was reduced shows its outcome from then on: its
\* authority event, which the answer and the event source both bring, does not
\* put the status back (reduce_command_authority_decided overwrites it).
StatusIsTheOutcome == \A c \in Commands :
  LET view == cockpit.commands[c]
  IN view.audit_status # None => view.status = view.audit_status /\ view.status = outcome[c]

\* The kill switch and the runtime controls that the cockpit shows were set by
\* commands that took effect outside of it.
ShownControlsAreInForce ==
  /\ cockpit.kill_switch =>
       \E c \in acted : sent[c].command_type = "GlobalKillSwitchRequested"
  /\ \A control \in cockpit.controls : \E c \in acted : control \in Control(sent[c])

\* Enter sends a confirmed command again only when every earlier attempt from
\* this modal ended in an error or in silence (submit_pending_command).
OnlyFailuresAreRetried == \A c, d \in tries : c < d => answer[c] \in {"error", "lost"}

\* The message after a submission: "dispatched" and "applied" mean that the command
\* took effect, "rejected", whoever said so, and "unsupported_execution" that it did
\* not, and so does "accepted" unless the line with the outcome was torn.
MessageTellsTheTruth ==
  LET c == ui.message.command
  IN c # 0 =>
       /\ ui.message.kind \in {"dispatched", "applied"} => c \in acted
       /\ ui.message.kind \in {"rejected", "unsupported_execution"} => c \notin acted
       /\ ui.message.kind = "accepted" /\ c \in acted =>
            \A k \in DOMAIN file : file[k].event_id # << "audit", c >>

\* What was sent is what the open modal showed for confirmation, although rows
\* come and go under the selection while the operator types.
ConfirmedIsSent == \A c \in tries : sent[c] = ui.dangerous_action

\* On the pages with command keys, the row that a key acts on is the highlighted one.
CommandsTargetTheHighlighted == KeyCommands(ui.screen) # {} => SelectedRow = HighlightedRow

\* On the events page, the event that o, s, c and y act on is the highlighted one.
EventKeysTargetTheHighlighted == ui.screen = "Events" => SelectedRow = HighlightedRow

Blocked == waiting # 0 /\ answer[waiting] = "none"

\* What is in the channel gets reduced, however few events a frame drains and
\* however a submission ends, unless the operator quits or a command that has no
\* answer yet blocks the loop.
ChannelIsDrained == channel # << >> ~> channel = << >> \/ ui.should_quit \/ Blocked
-----------------------------------------------------------------------------
(* The strengthening that makes the properties of the modal inductive.     *)

SessionShape ==
  /\ cli \in Sessions
  /\ DOMAIN ui = {"screen", "query", "search_active", "command_palette_active",
                  "dangerous_action", "dangerous_confirmation", "message", "index", "should_quit"}
  /\ IsSequence(sent) /\ Len(sent) <= MaxCommands
  /\ answer \in [Commands -> G!Answers]

\* The tries belong to the open modal, and all but the one waited for have failed.
TriesOfTheModal ==
  /\ tries \subseteq 1..Len(sent)
  /\ waiting \in {0, Len(sent)} /\ (waiting # 0 => ModalOpen)
  /\ tries # {} => ModalOpen
  /\ \A c \in tries : c # waiting => answer[c] \in {"error", "lost"}

ModalInv == SessionShape /\ TriesOfTheModal /\ ConfirmedIsSent
=============================================================================
