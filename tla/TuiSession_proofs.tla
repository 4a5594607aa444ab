-------------------------- MODULE TuiSession_proofs --------------------------
(***************************************************************************)
(* Proofs about TuiSession, for any sessions, tables, events and bounds.   *)
(*                                                                         *)
(* ModalInv is the inductive invariant of the modal and its submissions.   *)
(* EvidenceInv is the one of what the cockpit shows of commands: it relates *)
(* the cockpit to the gateway through everything in between, the lines of  *)
(* the audit file, how far it is followed, and the channel.  UiInv is the  *)
(* one of the modes of the screen.                                         *)
(***************************************************************************)
EXTENDS TuiSession, FiniteSetTheorems, WellFoundedInduction, TLAPS

Fields == {"screen", "query", "search_active", "command_palette_active",
           "dangerous_action", "dangerous_confirmation", "message", "index", "should_quit"}

\* A session starts without a modal and with nothing sent.
LEMMA InitModal == Init => ModalInv
  <1> SUFFICES ASSUME Init PROVE ModalInv
    OBVIOUS
  <1>1. DOMAIN ui = Fields /\ ui.dangerous_action = NoPayload
    BY DEF Init, Fields
  <1>2. sent = << >> /\ tries = {} /\ waiting = 0 /\ cli \in Sessions
    BY DEF Init
  <1>3. answer \in [Commands -> G!Answers]
    BY DEF Init, G!Init, G!Answers
  <1>4. MaxCommands \in Nat
    BY <1>2, SessionAssumption
  <1>5. QED
    BY <1>1, <1>2, <1>3, <1>4
       DEF ModalInv, SessionShape, IsSequence, TriesOfTheModal, ConfirmedIsSent, ModalOpen, Fields

\* A key that leaves the command in the modal alone.
LEMMA QuietKey ==
  ASSUME ModalInv, NEW next, DOMAIN next = Fields,
         next.dangerous_action = ui.dangerous_action,
         Key(next), tries' \in {tries, {}}
  PROVE  ModalInv'
  BY DEF Key, Turn, gateway, ModalInv, SessionShape, TriesOfTheModal, ConfirmedIsSent,
         ModalOpen, Fields, Looping

\* A key that opens or closes a modal starts over.
LEMMA FreshKey ==
  ASSUME ModalInv, NEW next, DOMAIN next = Fields, Key(next), tries' = {}
  PROVE  ModalInv'
  BY DEF Key, Turn, gateway, ModalInv, SessionShape, TriesOfTheModal, ConfirmedIsSent,
         ModalOpen, Fields, Looping

\* Every key but Enter on a confirmed command keeps the invariant.
LEMMA KeysKeepTheModal ==
  ASSUME ModalInv, Operator \/ Timeout, ~ Submit
  PROVE  ModalInv'
  <1>1. DOMAIN ui = Fields
    BY DEF ModalInv, SessionShape, Fields
  <1> USE DEF Fields
  <1>2. CASE GoTo \/ BeginSearch \/ CloseSearch \/ Timeout \/ RefuseSubmission
    BY <1>1, <1>2, QuietKey DEF GoTo, BeginSearch, CloseSearch, Timeout, RefuseSubmission
  <1>3. CASE Move
    BY <1>1, <1>3, QuietKey DEF Move
  <1>4. CASE EditSearch \/ OpenSelectedEvent
    BY <1>1, <1>4, QuietKey DEF EditSearch, OpenSelectedEvent
  <1>5. CASE BeginCommandPalette \/ CloseCommandPalette \/ TypeConfirmation
    BY <1>1, <1>5, QuietKey DEF BeginCommandPalette, CloseCommandPalette, TypeConfirmation
  <1>6. ASSUME NEW payload, Open(payload)
        PROVE  ModalInv'
    BY <1>1, <1>6, FreshKey DEF Open, OpenCommandModal
  <1>7. CASE OpenForRow \/ OpenGlobalKill
    BY <1>6, <1>7 DEF OpenForRow, OpenGlobalKill
  <1>8. CASE SubmitCommandPalette
    BY <1>1, <1>8, FreshKey DEF SubmitCommandPalette, OpenCommandModal, PaletteLeft
  <1>9. CASE CloseModal
    BY <1>1, <1>9, FreshKey DEF CloseModal, CloseDangerousModal
  <1>10. CASE Quit
    BY <1>1, <1>10
       DEF Quit, gateway, ModalInv, SessionShape, TriesOfTheModal, ConfirmedIsSent, ModalOpen
  <1>11. QED
    BY <1>2, <1>3, <1>4, <1>5, <1>7, <1>8, <1>9, <1>10 DEF Operator

\* Enter submits what the modal shows, when every earlier try has failed.
LEMMA SubmitKeepsTheModal ==
  ASSUME ModalInv, Submit
  PROVE  ModalInv'
  <1>1. /\ sent' = Append(sent, ui.dangerous_action) /\ ui' = ui /\ cli' = cli
        /\ waiting = 0 /\ waiting' = Len(sent) + 1 /\ tries' = tries \union {Len(sent) + 1}
        /\ answer' = answer /\ Len(sent) < cli.commands /\ ModalOpen
    BY DEF Submit, SubmittedPayload, Looping, gateway
  <1>2. /\ IsSequence(sent')
        /\ Len(sent') = Len(sent) + 1 /\ Len(sent) \in Nat
        /\ sent'[Len(sent')] = ui.dangerous_action
        /\ \A k \in 1..Len(sent) : sent'[k] = sent[k]
    <2> DEFINE S == {sent[k] : k \in DOMAIN sent}
               e == ui.dangerous_action
    <2>1. sent' = Append(sent, e) /\ sent \in Seq(S)
      BY <1>1 DEF ModalInv, SessionShape, IsSequence
    <2> HIDE DEF S, e
    <2>2. /\ sent' \in Seq(S \union {e})
          /\ Len(sent') = Len(sent) + 1 /\ Len(sent) \in Nat
          /\ sent'[Len(sent')] = e
          /\ \A k \in 1..Len(sent) : sent'[k] = sent[k]
          /\ DOMAIN sent' = 1..Len(sent')
      BY <2>1
    <2>3. IsSequence(sent')
      BY <2>2 DEF IsSequence
    <2>4. QED
      BY <2>2, <2>3 DEF e
  <1>3. Len(sent') <= MaxCommands
    BY <1>1, <1>2, SessionAssumption DEF ModalInv, SessionShape
  <1>4. SessionShape'
    BY <1>1, <1>2, <1>3 DEF ModalInv, SessionShape
  <1>5. TriesOfTheModal'
    <2>1. tries \subseteq 1..Len(sent) /\ \A c \in tries : answer[c] \in {"error", "lost"}
      <3>1. tries \subseteq 1..Len(sent) /\ waiting = 0
        BY <1>1 DEF ModalInv, TriesOfTheModal
      <3>2. \A c \in tries : c # waiting
        BY <1>2, <3>1
      <3>3. QED
        BY <3>1, <3>2 DEF ModalInv, TriesOfTheModal
    <2>2. tries' \subseteq 1..Len(sent')
      <3>1. Len(sent) + 1 \in 1..Len(sent') /\ 1..Len(sent) \subseteq 1..Len(sent')
        BY <1>2
      <3>2. QED
        BY <1>1, <2>1, <3>1
    <2>3. ModalOpen'
      BY <1>1 DEF ModalOpen, NoPayload
    <2>4. \A c \in tries' : c # waiting' => answer'[c] \in {"error", "lost"}
      BY <1>1, <2>1
    <2>5. QED
      BY <1>1, <1>2, <2>2, <2>3, <2>4 DEF TriesOfTheModal
  <1>6. ConfirmedIsSent'
    BY <1>1, <1>2 DEF ModalInv, TriesOfTheModal, ConfirmedIsSent
  <1>7. QED
    BY <1>4, <1>5, <1>6 DEF ModalInv

\* A submission that fails leaves the modal and its tries, any other one ends both.
LEMMA ReturnKeepsTheModal ==
  ASSUME ModalInv, ReturnFromSubmit
  PROVE  ModalInv'
  <1>1. /\ UNCHANGED << cli, sent, answer >>
        /\ waiting # 0 /\ waiting' = 0
    BY DEF ReturnFromSubmit, gateway
  <1>2. CASE answer[waiting] \in {"error", "lost"}
    <2>1. ui' = [ui EXCEPT !.message = Message("failed", waiting)] /\ tries' = tries
      BY <1>2 DEF ReturnFromSubmit
    <2>2. DOMAIN ui' = DOMAIN ui /\ ui'.dangerous_action = ui.dangerous_action
      BY <2>1 DEF ModalInv, SessionShape
    <2>3. QED
      BY <1>1, <1>2, <2>1, <2>2
         DEF ModalInv, SessionShape, TriesOfTheModal, ConfirmedIsSent, ModalOpen
  <1>3. CASE answer[waiting] \notin {"error", "lost"}
    <2>1. /\ ui' = Answered(ui, Message(SubmissionStatus(waiting), waiting))
          /\ tries' = IF ui'.dangerous_action = NoPayload THEN {} ELSE tries
      BY <1>3 DEF ReturnFromSubmit
    <2>2. DOMAIN ui' = DOMAIN ui /\ ui'.dangerous_action = NoPayload
      BY <2>1 DEF ModalInv, SessionShape, Answered, CloseDangerousModal
    <2>3. tries' = {}
      BY <2>1, <2>2
    <2>4. QED
      BY <1>1, <2>2, <2>3
         DEF ModalInv, SessionShape, TriesOfTheModal, ConfirmedIsSent, ModalOpen
  <1>4. QED
    BY <1>2, <1>3

\* The gateway and the event sources: only the answer of the command that is
\* waited for changes, and only from nothing.
LEMMA OthersKeepTheModal ==
  ASSUME ModalInv, Gateway \/ PublishNews \/ FollowAudit
  PROVE  ModalInv'
  <1>1. UNCHANGED session
    BY DEF Gateway, PublishNews, FollowAudit, JudgeCommand, ActOnCommand, LogCommand,
           AnswerCommand, LoseAnswer, GatewayStep
  <1>2. /\ answer' \in [Commands -> G!Answers]
        /\ \A c \in Commands : answer[c] \in {"error", "lost"} => answer'[c] = answer[c]
    <2>1. CASE PublishNews \/ FollowAudit
      BY <2>1 DEF PublishNews, FollowAudit, gateway, ModalInv, SessionShape
    <2>2. ASSUME NEW c \in Commands, JudgeCommand(c) \/ ActOnCommand(c) \/ LogCommand(c)
          PROVE  answer' = answer
      BY <2>2 DEF JudgeCommand, ActOnCommand, LogCommand, G!Judge, G!Act, G!Log
    <2>3. ASSUME NEW c \in Commands, AnswerCommand(c)
          PROVE  /\ answer' \in [Commands -> G!Answers]
                 /\ \A d \in Commands : answer[d] \in {"error", "lost"} => answer'[d] = answer[d]
      BY <2>3 DEF AnswerCommand, G!Answer, ModalInv, SessionShape
    <2>4. ASSUME NEW c \in Commands, LoseAnswer(c)
          PROVE  /\ answer' \in [Commands -> G!Answers]
                 /\ \A d \in Commands : answer[d] \in {"error", "lost"} => answer'[d] = answer[d]
      BY <2>4 DEF LoseAnswer, G!Lose, G!Answers, ModalInv, SessionShape
    <2>5. QED
      BY <2>1, <2>2, <2>3, <2>4 DEF Gateway, ModalInv, SessionShape
  <1>3. tries \subseteq Commands
    BY SessionAssumption DEF ModalInv, SessionShape, TriesOfTheModal, Commands
  <1>4. QED
    BY <1>1, <1>2, <1>3
       DEF session, ModalInv, SessionShape, TriesOfTheModal, ConfirmedIsSent, ModalOpen

\* ModalInv holds in every reachable state.
THEOREM ModalInvariant == Spec => []ModalInv
  <1>1. Init => ModalInv
    BY InitModal
  <1>2. ModalInv /\ [Next]_vars => ModalInv'
    <2> SUFFICES ASSUME ModalInv, [Next]_vars PROVE ModalInv'
      OBVIOUS
    <2>1. CASE Next
      BY <2>1, KeysKeepTheModal, SubmitKeepsTheModal, ReturnKeepsTheModal, OthersKeepTheModal DEF Next
    <2>2. CASE UNCHANGED vars
      BY <2>2 DEF vars, session, gateway, ModalInv, SessionShape, TriesOfTheModal,
                  ConfirmedIsSent, ModalOpen
    <2>3. QED
      BY <2>1, <2>2
  <1>3. QED
    BY <1>1, <1>2, PTL DEF Spec

\* What is sent from a modal is what that modal shows for confirmation, whatever
\* happens to the rows of the tables while the operator types.
THEOREM SentAsConfirmed == Spec => []ConfirmedIsSent
  BY ModalInvariant, PTL DEF ModalInv

\* A confirmed command is sent again only after every earlier attempt ended in an
\* error or in silence.
THEOREM RetriedAfterFailure == Spec => []OnlyFailuresAreRetried
  <1>1. ModalInv => OnlyFailuresAreRetried
    <2> SUFFICES ASSUME ModalInv, NEW c \in tries, NEW d \in tries, c < d
                 PROVE  answer[c] \in {"error", "lost"}
      BY DEF OnlyFailuresAreRetried
    <2>1. Len(sent) \in Nat
      BY DEF ModalInv, SessionShape, IsSequence
    <2>2. c # waiting
      BY <2>1 DEF ModalInv, TriesOfTheModal
    <2>3. QED
      BY <2>2 DEF ModalInv, TriesOfTheModal
  <1>2. QED
    BY <1>1, ModalInvariant, PTL

-----------------------------------------------------------------------------
(* What the cockpit may believe.  Once a command is logged, its payload,    *)
(* verdict and outcome are settled, so every line of the audit file, and    *)
(* every event that was read from it, is one of two events per command.     *)
(* The file and the channel keep them in order: the authority event first.  *)

AuthorityId(c) == << "authority", c >>
AuditId(c) == << "audit", c >>
Decided(c) == AuthorityDecided(c, sent[c], verdict[c])
Recorded(c) == AuditRecorded(c, sent[c], outcome[c])
Evidence == {Decided(c) : c \in logged} \union {Recorded(c) : c \in logged}
IsNews(event) == event.event_id[1] = "news"
\* The statuses that say that a command took effect, and those that say it did not.
EffectStatuses == {"dispatched", "applied"}
RefusalStatuses == {"rejected", "unsupported_execution"}

\* What the gateway judged, did and logged of each command.
GatewayInv ==
  /\ verdict \in [Commands -> G!Verdicts]
  /\ outcome \in [Commands -> Statuses \union {None}]
  /\ acted \subseteq Commands /\ logged \subseteq Commands
  /\ \A c \in Commands :
       /\ verdict[c] # "none" => c \in 1..Len(sent)
       /\ c \in acted => verdict[c] = "accepted"
       /\ c \in logged <=> outcome[c] # None
       /\ c \in logged => verdict[c] # "none"
       /\ outcome[c] \in RefusalStatuses => c \notin acted
       /\ outcome[c] \in EffectStatuses => c \in acted
       /\ outcome[c] = "accepted" => c \notin acted
       /\ answer[c] \notin {"none", "lost", "error"} => c \in logged /\ answer[c] = outcome[c]

\* The authority event of a command comes before its audit event.
InOrder(events) ==
  \A i, j \in DOMAIN events, c \in Commands :
    (events[i].event_id = AuthorityId(c) /\ events[j].event_id = AuditId(c)) => i < j

\* The audit file holds the evidence of what happened, in its order.
FileInv ==
  /\ file \in Seq(Evidence) /\ InOrder(file)
  /\ followed \in 0..Len(file)

\* The channel holds other news, and lines of the file in their order.
ChannelInv ==
  /\ IsSequence(channel) /\ InOrder(channel)
  /\ \A k \in DOMAIN channel : IsNews(channel[k]) \/ \E j \in 1..followed : channel[k] = file[j]

Views ==
  [authority_status : Statuses \union {None}, audit_status : Statuses \union {None},
   status : Statuses \union {None}]

CockpitShape(s) ==
  /\ DOMAIN s = {"seen", "commands", "kill_switch", "accounts", "controls",
                 "strategies", "orders", "events"}
  /\ s.commands \in [Commands -> Views]
  /\ s.kill_switch \in BOOLEAN
  /\ IsSequence(s.events)

\* The view of a command whose audit event was reduced is settled.
ViewSettled(s, c) ==
  IF AuditId(c) \in s.seen
  THEN s.commands[c].audit_status = outcome[c] /\ s.commands[c].status = outcome[c]
  ELSE s.commands[c].audit_status = None

ControlsInForce(s) ==
  /\ s.kill_switch => \E c \in acted : sent[c].command_type = "GlobalKillSwitchRequested"
  /\ \A control \in s.controls : \E c \in acted : control \in Control(sent[c])

\* A cockpit s to which the events with the ids in coming may still come.
Believable(s, coming) ==
  /\ CockpitShape(s)
  /\ \A id \in s.seen : id[1] = "news" \/ \E c \in logged : id \in {AuthorityId(c), AuditId(c)}
  /\ \A c \in Commands : ViewSettled(s, c)
  /\ \A c \in Commands :
       (AuditId(c) \in s.seen /\ AuthorityId(c) \in coming) => AuthorityId(c) \in s.seen
  /\ ControlsInForce(s)

Coming ==
  {channel[k].event_id : k \in DOMAIN channel}
  \union {file[j].event_id : j \in (followed + 1)..Len(file)}

\* The cockpit can be believed, whatever is still to come.
CockpitInv ==
  /\ Believable(cockpit, Coming)
  /\ waiting # 0 => AuthorityId(waiting) \notin cockpit.seen /\ AuditId(waiting) \notin cockpit.seen

\* A message that says what became of a command was shown after its last act.
MessageInv ==
  LET c == ui.message.command
  IN c # 0 =>
       /\ c \in 1..Len(sent)
       /\ ui.message.kind \in EffectStatuses \union RefusalStatuses \union {"accepted"} =>
            answer[c] \notin {"none", "lost", "error"}
       /\ ui.message.kind \in EffectStatuses => c \in acted
       /\ ui.message.kind \in RefusalStatuses => c \notin acted
       /\ ui.message.kind = "accepted" /\ c \in acted =>
            \A k \in DOMAIN file : file[k].event_id # AuditId(c)

EvidenceInv == GatewayInv /\ FileInv /\ ChannelInv /\ CockpitInv /\ MessageInv

-----------------------------------------------------------------------------
(* Sequences, step by step.                                                *)

\* A set of naturals has a least element.
LEMMA LeastExists ==
  ASSUME NEW T, T \subseteq Nat, T # {}
  PROVE  \E x \in T : \A y \in T : x <= y
  <1> DEFINE Less == {ss \in Nat \X Nat : ss[1] < ss[2]}
  <1>1. IsWellFoundedOn(Less, Nat)
    BY NatLessThanWellFounded DEF OpToRel
  <1>2. \E x \in T : \A y \in T : ~ (<< y, x >> \in Less)
    <2> HIDE DEF Less
    <2>1. QED
      BY <1>1, WFMin
  <1>3. \A x, y \in Nat : x < y => << x, y >> \in Less
    OBVIOUS
  <1> HIDE DEF Less
  <1>4. \A x, y \in T : ~ (x < y) => y <= x
    OBVIOUS
  <1>5. QED
    BY <1>2, <1>3, <1>4

\* What holds at the start and survives every step holds up to the end.
LEMMA StepByStep ==
  ASSUME NEW n \in Nat, NEW S, 0 \in S, \A k \in 1..n : k - 1 \in S => k \in S
  PROVE  0..n \subseteq S
  <1> DEFINE T == {k \in 0..n : k \notin S}
  <1> SUFFICES ASSUME T # {} PROVE FALSE
    OBVIOUS
  <1>1. PICK least \in T : \A k \in T : least <= k
    <2>1. T \subseteq Nat
      OBVIOUS
    <2> HIDE DEF T
    <2>2. QED
      BY <2>1, LeastExists
  <1>2. least - 1 \in 0..n /\ least \in 1..n
    BY <1>1
  <1>3. least - 1 \in S
    BY <1>1, <1>2
  <1>4. QED
    BY <1>1, <1>2, <1>3

\* ReduceAll passes through the cockpits after each event.
LEMMA ReduceAllSteps ==
  ASSUME NEW s, NEW events, Len(events) \in Nat
  PROVE  \E after : /\ after[0] = s
                    /\ \A k \in 1..Len(events) : after[k] = ReduceEvent(after[k - 1], events[k])
                    /\ ReduceAll(s, events) = after[Len(events)]
  <1> DEFINE n == Len(events)
             Body(m, g) == [k \in 0..m |-> IF k = 0 THEN s ELSE ReduceEvent(g[k - 1], events[k])]
             S == {m \in 0..n : \E g : g = Body(m, g)}
  <1>1. 0 \in S
    <2> DEFINE g == [k \in 0..0 |-> s]
    <2>1. g = Body(0, g)
      OBVIOUS
    <2> HIDE DEF g, Body
    <2>2. QED
      BY <2>1
  <1>2. ASSUME NEW m \in 1..n, m - 1 \in S PROVE m \in S
    <2>1. PICK g : g = Body(m - 1, g)
      BY <1>2
    <2> DEFINE h == [k \in 0..m |-> IF k = m THEN ReduceEvent(g[m - 1], events[m]) ELSE g[k]]
    <2>2. \A k \in 0..(m - 1) : g[k] = IF k = 0 THEN s ELSE ReduceEvent(g[k - 1], events[k])
      BY <2>1
    <2>3. \A k \in 0..m : h[k] = IF k = 0 THEN s ELSE ReduceEvent(h[k - 1], events[k])
      <3>1. ASSUME NEW k \in 0..m
            PROVE  h[k] = IF k = 0 THEN s ELSE ReduceEvent(h[k - 1], events[k])
        <4>1. CASE k = m
          BY <4>1
        <4>2. CASE k # m
          <5>1. k \in 0..(m - 1) /\ (k # 0 => k - 1 \in 0..m /\ k - 1 # m)
            BY <4>2
          <5>2. h[k] = g[k] /\ (k # 0 => h[k - 1] = g[k - 1])
            BY <4>2, <5>1
          <5>3. QED
            BY <2>2, <5>1, <5>2
        <4>3. QED
          BY <4>1, <4>2
      <3>2. QED
        BY <3>1
    <2>4. h = Body(m, h)
      BY <2>3
    <2> HIDE DEF h, Body
    <2>5. QED
      BY <2>4
  <1>3. n \in S
    <2> HIDE DEF S
    <2>1. 0..n \subseteq S
      BY <1>1, <1>2, StepByStep
    <2>2. QED
      BY <2>1
  <1>4. PICK g : g = Body(n, g)
    BY <1>3
  <1> DEFINE after == CHOOSE g_1 : g_1 = Body(n, g_1)
  <1>5. after = Body(n, after)
    BY <1>4
  <1>6. ReduceAll(s, events) = after[n]
    BY DEF ReduceAll
  <1> HIDE DEF after
  <1>7. after[0] = s /\ \A k \in 1..n : after[k] = ReduceEvent(after[k - 1], events[k])
    BY <1>5
  <1>8. QED
    BY <1>6, <1>7

-----------------------------------------------------------------------------
(* At: rows picked from a sequence keep their order.                       *)

Picked(positions, k) ==
  CHOOSE p \in positions : Cardinality({q \in positions : q <= p}) = k

\* Each row of At(seq, positions) is at a position of its own, and every position
\* is some row's.
LEMMA AtRows ==
  ASSUME NEW n \in Nat, NEW positions \in SUBSET (1..n), NEW seq
  PROVE  /\ Cardinality(positions) \in Nat
         /\ \A k \in 1..Cardinality(positions) :
              Picked(positions, k) \in positions /\ At(seq, positions)[k] = seq[Picked(positions, k)]
         /\ \A p \in positions : \E k \in 1..Cardinality(positions) : Picked(positions, k) = p
         /\ \A j, k \in 1..Cardinality(positions) :
              Picked(positions, j) < Picked(positions, k) => j < k
  <1> DEFINE Rank(p) == Cardinality({q \in positions : q <= p})
             m == Cardinality(positions)
  <1>1. IsFiniteSet(positions) /\ m \in Nat
    <2>1. IsFiniteSet(1..n)
      BY FS_Interval
    <2>2. IsFiniteSet(positions)
      BY <2>1, FS_Subset
    <2>3. QED
      BY <2>2, FS_CardinalityType
  <1>2. ASSUME NEW p \in positions
        PROVE  /\ IsFiniteSet({q \in positions : q <= p})
               /\ Rank(p) \in 1..m
    <2>1. IsFiniteSet({q \in positions : q <= p}) /\ Rank(p) <= m
      BY <1>1, FS_Subset
    <2>2. Rank(p) \in Nat
      BY <2>1, FS_CardinalityType
    <2>3. {q \in positions : q <= p} # {}
      OBVIOUS
    <2>4. Rank(p) # 0
      BY <2>1, <2>3, FS_EmptySet
    <2>5. QED
      BY <1>1, <2>1, <2>2, <2>4
  <1>3. ASSUME NEW p \in positions, NEW q \in positions, p < q PROVE Rank(p) < Rank(q)
    <2>1. /\ {r \in positions : r <= p} \subseteq {r \in positions : r <= q}
          /\ {r \in positions : r <= p} # {r \in positions : r <= q}
      <3>1. q \in {r \in positions : r <= q} /\ q \notin {r \in positions : r <= p}
        BY <1>3
      <3>2. \A r \in positions : r <= p => r <= q
        BY <1>3
      <3>3. QED
        BY <3>1, <3>2
    <2>2. QED
      BY <1>2, <2>1, FS_Subset
  <1>4. {Rank(p) : p \in positions} = 1..m
    <2> DEFINE rank == [p \in positions |-> Rank(p)]
               R == {Rank(p) : p \in positions}
    <2>1. rank \in Injection(positions, R)
      <3>1. \A p, q \in positions : Rank(p) = Rank(q) => p = q
        <4>1. \A p, q \in positions : p < q \/ q < p \/ p = q
          OBVIOUS
        <4>2. QED
          BY <1>2, <1>3, <4>1
      <3>2. QED
        BY <3>1 DEF Injection, IsInjective
    <2>2. rank \in Surjection(positions, R)
      BY DEF Surjection
    <2>3. Cardinality(R) = m /\ R \subseteq 1..m
      <3>1. rank \in Bijection(positions, R)
        BY <2>1, <2>2 DEF Bijection
      <3>2. Cardinality(R) = m
        <4> HIDE DEF R, rank
        <4>1. QED
          BY <1>1, <3>1, FS_Bijection DEF ExistsBijection
      <3>3. QED
        BY <1>2, <3>2
    <2>4. IsFiniteSet(1..m) /\ Cardinality(1..m) = m
      BY <1>1, FS_Interval
    <2>5. QED
      BY <2>3, <2>4, FS_Subset
  <1>5. \A k \in 1..m : \E p \in positions : Rank(p) = k
    BY <1>4
  <1>6. \A k \in 1..m : Picked(positions, k) \in positions /\ Rank(Picked(positions, k)) = k
    BY <1>5 DEF Picked
  <1>7. \A p \in positions : Picked(positions, Rank(p)) = p
    <2> SUFFICES ASSUME NEW p \in positions PROVE Picked(positions, Rank(p)) = p
      OBVIOUS
    <2> DEFINE o == Picked(positions, Rank(p))
    <2>1. o \in positions /\ Rank(o) = Rank(p)
      BY <1>2, <1>6
    <2>2. ~ (o < p) /\ ~ (p < o) /\ o \in Nat /\ p \in Nat
      <3> HIDE DEF o
      <3>1. QED
        BY <1>2, <1>3, <2>1
    <2>3. QED
      BY <2>2
  <1>8. \A k \in 1..m : At(seq, positions)[k] = seq[Picked(positions, k)]
    BY DEF At, Picked
  <1>9. ASSUME NEW j \in 1..m, NEW k \in 1..m, Picked(positions, j) < Picked(positions, k)
        PROVE  j < k
    BY <1>3, <1>6, <1>9
  <1>10. QED
    BY <1>1, <1>2, <1>6, <1>7, <1>8, <1>9

\* As many rows are picked as there are positions.
LEMMA AtIsSequence ==
  ASSUME NEW n \in Nat, NEW positions \in SUBSET (1..n), NEW seq
  PROVE  /\ DOMAIN At(seq, positions) = 1..Cardinality(positions)
         /\ Len(At(seq, positions)) = Cardinality(positions)
         /\ Len(At(seq, positions)) \in Nat
  <1>1. Cardinality(positions) \in Nat
    BY AtRows
  <1>2. At(seq, positions) \in Seq({At(seq, positions)[k] : k \in 1..Cardinality(positions)})
    <2> DEFINE m == Cardinality(positions)
               S == {At(seq, positions)[k] : k \in 1..m}
               row(k) == seq[CHOOSE p \in positions : Cardinality({q \in positions : q <= p}) = k]
    <2>1. At(seq, positions) = [k \in 1..m |-> row(k)]
      BY DEF At
    <2>2. \A k \in 1..m : row(k) \in S
      BY <2>1
    <2> HIDE DEF m, S, row
    <2>3. [k \in 1..m |-> row(k)] \in Seq(S)
      BY <1>1, <2>2 DEF m
    <2>4. QED
      BY <2>1, <2>3 DEF S, m
  <1>3. DOMAIN At(seq, positions) = 1..Cardinality(positions)
    BY DEF At
  <1>4. QED
    BY <1>1, <1>2, <1>3

-----------------------------------------------------------------------------
(* The tables, and one event reduced.                                      *)

\* The positions of a sequence.
LEMMA SequenceDomain ==
  ASSUME NEW s, IsSequence(s)
  PROVE  Len(s) \in Nat /\ DOMAIN s = 1..Len(s)
  BY DEF IsSequence

\* A searched table has a length.
LEMMA TableLength ==
  ASSUME CockpitShape(cockpit), NEW screen, NEW query
  PROVE  Len(Visible(screen, Table(screen), query)) \in Nat
  <1>1. Len(Table(screen)) \in Nat /\ DOMAIN Table(screen) = 1..Len(Table(screen))
    <2>1. ASSUME NEW rows
          PROVE  /\ Len(Ordered(rows, RowIds)) \in Nat
                 /\ DOMAIN Ordered(rows, RowIds) = 1..Len(Ordered(rows, RowIds))
      <3> DEFINE positions == {k \in DOMAIN RowIds : \E row \in rows : row.id = RowIds[k]}
                 present == At(RowIds, positions)
                 row(k) == CHOOSE row \in rows : row.id = present[k]
                 S == {row(k) : k \in 1..Len(present)}
      <3>1. Len(RowIds) \in Nat /\ DOMAIN RowIds = 1..Len(RowIds)
        BY SessionAssumption, SequenceDomain
      <3>2. Len(present) \in Nat /\ DOMAIN present = 1..Len(present)
        <4>1. positions \in SUBSET (1..Len(RowIds))
          BY <3>1
        <4> HIDE DEF positions
        <4>2. QED
          BY <3>1, <4>1, AtIsSequence
      <3>3. Ordered(rows, RowIds) = [k \in 1..Len(present) |-> row(k)]
        BY <3>2 DEF Ordered
      <3>4. \A k \in 1..Len(present) : row(k) \in S
        OBVIOUS
      <3> HIDE DEF present, row, S
      <3>5. [k \in 1..Len(present) |-> row(k)] \in Seq(S)
        BY <3>2, <3>4
      <3>6. QED
        BY <3>2, <3>3, <3>5
    <2>2. Len(cockpit.events) \in Nat /\ DOMAIN cockpit.events = 1..Len(cockpit.events)
      BY SequenceDomain DEF CockpitShape
    <2>3. Len(<< >>) \in Nat /\ DOMAIN << >> = 1..Len(<< >>)
      OBVIOUS
    <2>4. \/ Table(screen) = Ordered(AccountRows, RowIds)
          \/ Table(screen) = Ordered(cockpit.strategies, RowIds)
          \/ Table(screen) = Ordered(cockpit.orders, RowIds)
          \/ Table(screen) = cockpit.events
          \/ Table(screen) = << >>
      BY DEF Table
    <2>5. QED
      BY <2>1, <2>2, <2>3, <2>4
  <1>2. CASE screen \in Searched
    <2>1. AppMatches(screen, Table(screen), query) \in SUBSET (1..Len(Table(screen)))
      BY <1>1 DEF AppMatches
    <2>2. QED
      BY <1>1, <1>2, <2>1, AtIsSequence DEF Visible
  <1>3. CASE screen \notin Searched
    BY <1>1, <1>3 DEF Visible
  <1>4. QED
    BY <1>2, <1>3

\* The fields in which the reduction of the commands is.
SameEvidence(s, old) ==
  /\ s.seen = old.seen /\ s.commands = old.commands
  /\ s.kill_switch = old.kill_switch /\ s.controls = old.controls

\* Listing an event and marking a redraw touch no evidence.
LEMMA ListedShape ==
  ASSUME NEW s, CockpitShape(s), NEW summary
  PROVE  CockpitShape(Shown(Listed(s, summary))) /\ SameEvidence(Shown(Listed(s, summary)), s)
  <1> DEFINE t == Listed(s, summary)
             events == SubSeq(<< summary >> \o s.events, 1, Len(s.events) + 1)
             u == Shown(t)
             shown == SubSeq(t.events, 1, IF Len(t.events) < ShownEvents THEN Len(t.events) ELSE ShownEvents)
  <1>1. IsSequence(events)
    <2> DEFINE S == {s.events[k] : k \in DOMAIN s.events}
    <2>1. s.events \in Seq(S)
      BY DEF CockpitShape, IsSequence
    <2> HIDE DEF S
    <2>2. << summary >> \o s.events \in Seq(S \union {summary})
      BY <2>1
    <2>3. Len(<< summary >> \o s.events) = Len(s.events) + 1 /\ Len(s.events) \in Nat
      BY <2>1
    <2>4. events \in Seq(S \union {summary})
      BY <2>2, <2>3
    <2> HIDE DEF events
    <2>5. QED
      BY <2>4 DEF IsSequence
  <1> HIDE DEF events
  <1>2. t = [s EXCEPT !.events = events]
    BY DEF Listed, events
  <1>3. /\ DOMAIN t = DOMAIN s /\ t.events = events /\ SameEvidence(t, s)
    BY <1>2 DEF CockpitShape, SameEvidence
  <1> HIDE DEF t
  <1>4. IsSequence(shown)
    <2> DEFINE S == {events[k] : k \in DOMAIN events}
               n == IF Len(events) < ShownEvents THEN Len(events) ELSE ShownEvents
    <2>1. events \in Seq(S)
      BY <1>1 DEF IsSequence
    <2> HIDE DEF S
    <2>2. n \in 0..Len(events)
      BY <2>1, SessionAssumption
    <2> HIDE DEF n
    <2>3. SubSeq(events, 1, n) \in Seq(S)
      BY <2>1, <2>2
    <2>4. IsSequence(SubSeq(events, 1, n))
      BY <2>3 DEF IsSequence
    <2>5. QED
      BY <1>3, <2>4 DEF n
  <1> HIDE DEF shown
  <1>5. u = [t EXCEPT !.events = shown]
    BY DEF Shown, shown
  <1>6. DOMAIN u = DOMAIN t /\ u.events = shown /\ SameEvidence(u, t)
    BY <1>3, <1>5 DEF CockpitShape, SameEvidence
  <1> HIDE DEF u
  <1>7. CockpitShape(u) /\ SameEvidence(u, s)
    BY <1>3, <1>4, <1>6 DEF CockpitShape, SameEvidence
  <1>8. QED
    BY <1>7 DEF u, t

\* A domain event changes tables, and is remembered.
LEMMA NewsKeepsEvidence ==
  ASSUME NEW s, CockpitShape(s), NEW event, IsNews(event)
  PROVE  LET t == ReduceEvent(s, event) IN
         /\ CockpitShape(t)
         /\ t.seen = s.seen \/ t.seen = s.seen \union {event.event_id}
         /\ t.commands = s.commands /\ t.kill_switch = s.kill_switch /\ t.controls = s.controls
  <1>1. CASE ~ Fresh(s, event)
    BY <1>1 DEF ReduceEvent
  <1>2. CASE Fresh(s, event)
    <2> DEFINE r == [s EXCEPT !.seen = @ \union {event.event_id}]
               u == ReduceNews(r, event)
    <2>1. ReduceEvent(s, event) = Shown(Listed(u, event.summary))
      BY <1>2 DEF ReduceEvent, IsNews
    <2>2. /\ CockpitShape(r) /\ r.seen = s.seen \union {event.event_id}
          /\ r.commands = s.commands /\ r.kill_switch = s.kill_switch /\ r.controls = s.controls
      BY DEF CockpitShape
    <2> HIDE DEF r
    <2>3. CockpitShape(u) /\ SameEvidence(u, r)
      BY <2>2 DEF ReduceNews, CockpitShape, SameEvidence
    <2> HIDE DEF u
    <2>4. QED
      BY <2>1, <2>2, <2>3, ListedShape DEF SameEvidence
  <1>3. QED
    BY <1>1, <1>2

\* The view of a command after one of its events.
DecidedView(view, c) == [view EXCEPT !.authority_status = verdict[c], !.status = verdict[c]]
RecordedView(view, c) == [view EXCEPT !.audit_status = outcome[c], !.status = outcome[c]]

\* What the reducer does with the decision on a command.
LEMMA ReduceDecided ==
  ASSUME NEW s, CockpitShape(s), NEW c \in Commands, verdict[c] \in Statuses \union {None}
  PROVE  LET t == ReduceEvent(s, Decided(c)) IN
         /\ CockpitShape(t)
         /\ AuthorityId(c) \in s.seen => t = s
         /\ AuthorityId(c) \notin s.seen =>
              /\ t.seen = s.seen \union {AuthorityId(c)}
              /\ t.commands = [s.commands EXCEPT ![c] = DecidedView(@, c)]
              /\ t.kill_switch = s.kill_switch /\ t.controls = s.controls
  <1> DEFINE event == Decided(c)
  <1>1. /\ event.event_id = AuthorityId(c) /\ event.command = c /\ event.status = verdict[c]
        /\ event.event_id[1] = "authority" /\ ~ IsAudit(event)
    BY DEF Decided, AuthorityDecided, AuthorityId, IsAudit
  <1> HIDE DEF event
  <1>2. CASE AuthorityId(c) \in s.seen
    BY <1>1, <1>2 DEF ReduceEvent, Fresh, event
  <1>3. CASE AuthorityId(c) \notin s.seen
    <2> DEFINE t == Reduce(s, event)
               next == ReduceCommandAuthorityDecided(s, event)
    <2>1. ReduceEvent(s, event) = Shown(Listed(t, EvidenceSummary(event)))
      BY <1>1, <1>3 DEF ReduceEvent, Fresh
    <2>2. t = [next EXCEPT !.seen = @ \union {AuthorityId(c)}]
      BY <1>1, <1>3 DEF Reduce, Fresh
    <2>3. next = [s EXCEPT !.commands = [s.commands EXCEPT ![c] = DecidedView(@, c)]]
      BY <1>1 DEF ReduceCommandAuthorityDecided, DecidedView, CockpitShape
    <2>4. [s.commands EXCEPT ![c] = DecidedView(@, c)] \in [Commands -> Views]
      BY DEF DecidedView, CockpitShape, Views
    <2> HIDE DEF t, next
    <2>5. /\ DOMAIN next = DOMAIN s
          /\ next.commands = [s.commands EXCEPT ![c] = DecidedView(@, c)]
          /\ next.kill_switch = s.kill_switch /\ next.controls = s.controls
          /\ next.seen = s.seen /\ next.events = s.events
      BY <2>3 DEF CockpitShape
    <2>6. /\ DOMAIN t = DOMAIN next /\ t.commands = next.commands
          /\ t.kill_switch = next.kill_switch /\ t.controls = next.controls
          /\ t.seen = next.seen \union {AuthorityId(c)} /\ t.events = next.events
      BY <2>2, <2>5 DEF CockpitShape
    <2>7. CockpitShape(t)
      BY <2>4, <2>5, <2>6 DEF CockpitShape
    <2>8. QED
      BY <1>3, <2>1, <2>5, <2>6, <2>7, ListedShape DEF SameEvidence, event
  <1>4. QED
    BY <1>2, <1>3

\* What the reducer does with the outcome of a command.
LEMMA ReduceRecorded ==
  ASSUME NEW s, CockpitShape(s), NEW c \in Commands, outcome[c] \in Statuses \union {None}
  PROVE  LET t == ReduceEvent(s, Recorded(c))
             applied == outcome[c] \in EffectStatuses
         IN /\ CockpitShape(t)
            /\ AuditId(c) \in s.seen => t = s
            /\ AuditId(c) \notin s.seen =>
                 /\ t.seen = s.seen \union {AuditId(c)}
                 /\ t.commands = [s.commands EXCEPT ![c] = RecordedView(@, c)]
                 /\ t.kill_switch <=>
                      (s.kill_switch \/ (applied /\ sent[c].command_type = "GlobalKillSwitchRequested"))
                 /\ t.controls = s.controls \union (IF applied THEN Control(sent[c]) ELSE {})
  <1> DEFINE event == Recorded(c)
             applied == outcome[c] \in EffectStatuses
             set == IF applied THEN Control(sent[c]) ELSE {}
             kills == applied /\ sent[c].command_type = "GlobalKillSwitchRequested"
  <1>1. /\ event.event_id = AuditId(c) /\ event.command = c /\ event.status = outcome[c]
        /\ event.payload = sent[c] /\ event.event_id[1] = "audit" /\ IsAudit(event)
    BY DEF Recorded, AuditRecorded, AuditId, IsAudit
  <1> HIDE DEF event
  <1>2. CASE AuditId(c) \in s.seen
    BY <1>1, <1>2 DEF ReduceEvent, Fresh, event
  <1>3. CASE AuditId(c) \notin s.seen
    <2> DEFINE t == Reduce(s, event)
               next == ReduceCommandAuditRecorded(s, event)
    <2>1. ReduceEvent(s, event) = Shown(Listed(t, EvidenceSummary(event)))
      BY <1>1, <1>3 DEF ReduceEvent, Fresh
    <2>2. t = [next EXCEPT !.seen = @ \union {AuditId(c)}]
      BY <1>1, <1>3 DEF Reduce, Fresh
    <2>3. CommandWasApplied(outcome[c]) <=> applied
      BY DEF CommandWasApplied, EffectStatuses, Statuses, None
    <2>4. /\ DOMAIN next = DOMAIN s
          /\ next.commands = [s.commands EXCEPT ![c] = RecordedView(@, c)]
          /\ next.seen = s.seen /\ next.events = s.events
      BY <1>1 DEF ReduceCommandAuditRecorded, RecordedView, CockpitShape
    <2>5. next.controls = s.controls \union set
      BY <1>1, <2>3 DEF ReduceCommandAuditRecorded, CockpitShape
    <2>6. next.kill_switch = (s.kill_switch \/ kills)
      BY <1>1, <2>3 DEF ReduceCommandAuditRecorded, CockpitShape
    <2>7. [s.commands EXCEPT ![c] = RecordedView(@, c)] \in [Commands -> Views]
      BY DEF RecordedView, CockpitShape, Views
    <2> HIDE DEF t, next, kills, set
    <2>8. /\ DOMAIN t = DOMAIN next /\ t.commands = next.commands
          /\ t.kill_switch = next.kill_switch /\ t.controls = next.controls
          /\ t.seen = next.seen \union {AuditId(c)} /\ t.events = next.events
      BY <2>2, <2>4 DEF CockpitShape
    <2>9. t.kill_switch \in BOOLEAN /\ (t.kill_switch <=> s.kill_switch \/ kills)
      BY <2>6, <2>8
    <2>10. CockpitShape(t)
      BY <2>4, <2>7, <2>8, <2>9 DEF CockpitShape
    <2>11. QED
      BY <1>3, <2>1, <2>4, <2>5, <2>8, <2>9, <2>10, ListedShape
         DEF SameEvidence, event, kills, set
  <1>4. QED
    BY <1>2, <1>3

-----------------------------------------------------------------------------
(* What the cockpit believes survives the events that may come.            *)

\* The fewer events may still come, the more can be believed.
LEMMA FewerComing ==
  ASSUME NEW s, NEW coming, NEW fewer, fewer \subseteq coming, Believable(s, coming)
  PROVE  Believable(s, fewer)
  BY DEF Believable

\* One true event, in its order, keeps a cockpit believable.
LEMMA BelievableStep ==
  ASSUME GatewayInv, NEW s, NEW coming, NEW event, IsNews(event) \/ event \in Evidence,
         Believable(s, coming \union {event.event_id}),
         \A c \in Commands :
           event.event_id = AuditId(c) /\ AuthorityId(c) \in coming => AuthorityId(c) \in s.seen
  PROVE  /\ Believable(ReduceEvent(s, event), coming)
         /\ s.seen \subseteq ReduceEvent(s, event).seen
         /\ event \in Evidence => event.event_id \in ReduceEvent(s, event).seen
  <1> DEFINE t == ReduceEvent(s, event)
  <1>1. CockpitShape(s)
    BY DEF Believable
  <1>2. ASSUME NEW c \in logged
        PROVE  /\ verdict[c] \in Statuses \union {None} /\ outcome[c] \in Statuses \union {None}
               /\ verdict[c] # "none" /\ outcome[c] # None /\ c \in Commands
    BY DEF GatewayInv, G!Verdicts, Statuses, None
  <1>3. \A c, d : AuthorityId(c) # AuditId(d) /\ (AuthorityId(c) = AuthorityId(d) => c = d)
                  /\ (AuditId(c) = AuditId(d) => c = d)
    BY DEF AuthorityId, AuditId
  <1>4. CASE IsNews(event)
    <2>1. /\ CockpitShape(t)
          /\ t.seen = s.seen \/ t.seen = s.seen \union {event.event_id}
          /\ t.commands = s.commands /\ t.kill_switch = s.kill_switch /\ t.controls = s.controls
      BY <1>1, <1>4, NewsKeepsEvidence
    <2>2. event \notin Evidence
      BY <1>4 DEF IsNews, Evidence, Decided, Recorded, AuthorityDecided, AuditRecorded
    <2> HIDE DEF t
    <2>3. event.event_id[1] = "news"
          /\ \A c : event.event_id # AuthorityId(c) /\ event.event_id # AuditId(c)
      BY <1>4 DEF IsNews, AuthorityId, AuditId
    <2>4. \A c \in Commands : ViewSettled(t, c)
      BY <2>1, <2>3 DEF Believable, ViewSettled
    <2>5. Believable(t, coming)
      BY <2>1, <2>3, <2>4 DEF Believable, ControlsInForce
    <2>6. QED
      BY <2>1, <2>2, <2>5 DEF t
  <1>5. ASSUME NEW c \in logged, event = Decided(c)
        PROVE  Believable(t, coming) /\ s.seen \subseteq t.seen /\ event.event_id \in t.seen
    <2>1. event.event_id = AuthorityId(c)
      BY <1>5 DEF Decided, AuthorityDecided, AuthorityId
    <2>2. /\ CockpitShape(t)
          /\ AuthorityId(c) \in s.seen => t = s
          /\ AuthorityId(c) \notin s.seen =>
               /\ t.seen = s.seen \union {AuthorityId(c)}
               /\ t.commands = [s.commands EXCEPT ![c] = DecidedView(@, c)]
               /\ t.kill_switch = s.kill_switch /\ t.controls = s.controls
      BY <1>1, <1>2, <1>5, ReduceDecided
    <2> HIDE DEF t
    <2>3. CASE AuthorityId(c) \in s.seen
      BY <2>1, <2>2, <2>3, FewerComing
    <2>4. CASE AuthorityId(c) \notin s.seen
      <3>1. AuditId(c) \notin s.seen
        BY <1>2, <2>1, <2>4 DEF Believable
      <3>2. \A d \in Commands : ViewSettled(t, d)
        <4>1. ASSUME NEW d \in Commands PROVE ViewSettled(t, d)
          <5>1. ViewSettled(s, d) /\ (AuditId(d) \in t.seen <=> AuditId(d) \in s.seen)
            BY <1>3, <2>2, <2>4 DEF Believable
          <5>2. d # c => t.commands[d] = s.commands[d]
            BY <1>1, <2>2, <2>4 DEF CockpitShape
          <5>3. ASSUME d = c
                PROVE  t.commands[d].audit_status = s.commands[d].audit_status
            <6>1. t.commands[d] = DecidedView(s.commands[d], c) /\ s.commands[d] \in Views
              BY <1>1, <1>2, <2>2, <2>4, <5>3 DEF CockpitShape
            <6>2. QED
              BY <6>1 DEF DecidedView, Views
          <5>4. QED
            BY <3>1, <5>1, <5>2, <5>3 DEF ViewSettled
        <4>2. QED
          BY <4>1
      <3>3. \A id \in t.seen : id[1] = "news" \/ \E d \in logged : id \in {AuthorityId(d), AuditId(d)}
        BY <2>2, <2>4 DEF Believable
      <3>4. \A d \in Commands :
              (AuditId(d) \in t.seen /\ AuthorityId(d) \in coming) => AuthorityId(d) \in t.seen
        BY <1>3, <2>2, <2>4 DEF Believable
      <3>5. ControlsInForce(t)
        BY <2>2, <2>4 DEF Believable, ControlsInForce
      <3>6. QED
        BY <2>1, <2>2, <2>4, <3>2, <3>3, <3>4, <3>5 DEF Believable
    <2>5. QED
      BY <2>3, <2>4
  <1>6. ASSUME NEW c \in logged, event = Recorded(c)
        PROVE  Believable(t, coming) /\ s.seen \subseteq t.seen /\ event.event_id \in t.seen
    <2> DEFINE applied == outcome[c] \in EffectStatuses
    <2>1. event.event_id = AuditId(c)
      BY <1>6 DEF Recorded, AuditRecorded, AuditId
    <2>2. /\ CockpitShape(t)
          /\ AuditId(c) \in s.seen => t = s
          /\ AuditId(c) \notin s.seen =>
               /\ t.seen = s.seen \union {AuditId(c)}
               /\ t.commands = [s.commands EXCEPT ![c] = RecordedView(@, c)]
               /\ t.kill_switch <=>
                    (s.kill_switch \/ (applied /\ sent[c].command_type = "GlobalKillSwitchRequested"))
               /\ t.controls = s.controls \union (IF applied THEN Control(sent[c]) ELSE {})
      BY <1>1, <1>2, <1>6, ReduceRecorded
    <2> HIDE DEF t
    <2>3. CASE AuditId(c) \in s.seen
      BY <2>1, <2>2, <2>3, FewerComing
    <2>4. CASE AuditId(c) \notin s.seen
      <3>1. \A d \in Commands : ViewSettled(t, d)
        <4>1. ASSUME NEW d \in Commands PROVE ViewSettled(t, d)
          <5>1. CASE d # c
            <6>1. ViewSettled(s, d) /\ (AuditId(d) \in t.seen <=> AuditId(d) \in s.seen)
              BY <1>3, <2>2, <2>4, <5>1 DEF Believable
            <6>2. t.commands[d] = s.commands[d]
              BY <1>1, <2>2, <2>4, <5>1 DEF CockpitShape
            <6>3. QED
              BY <6>1, <6>2 DEF ViewSettled
          <5>2. CASE d = c
            <6>1. AuditId(d) \in t.seen
              BY <2>2, <2>4, <5>2
            <6>2. t.commands[d] = RecordedView(s.commands[d], c) /\ s.commands[d] \in Views
              BY <1>1, <1>2, <2>2, <2>4, <5>2 DEF CockpitShape
            <6>3. t.commands[d].audit_status = outcome[d] /\ t.commands[d].status = outcome[d]
              BY <5>2, <6>2 DEF RecordedView, Views
            <6>4. QED
              BY <6>1, <6>3 DEF ViewSettled
          <5>3. QED
            BY <5>1, <5>2
        <4>2. QED
          BY <4>1
      <3>2. \A id \in t.seen : id[1] = "news" \/ \E d \in logged : id \in {AuthorityId(d), AuditId(d)}
        BY <2>2, <2>4 DEF Believable
      <3>3. \A d \in Commands :
              (AuditId(d) \in t.seen /\ AuthorityId(d) \in coming) => AuthorityId(d) \in t.seen
        BY <1>3, <2>1, <2>2, <2>4 DEF Believable
      <3>4. ControlsInForce(t)
        <4>1. applied => c \in acted
          BY <1>2 DEF GatewayInv
        <4>2. ControlsInForce(s)
          BY DEF Believable
        <4>3. t.kill_switch => \E d \in acted : sent[d].command_type = "GlobalKillSwitchRequested"
          BY <2>2, <2>4, <4>1, <4>2 DEF ControlsInForce
        <4>4. \A control \in t.controls : \E d \in acted : control \in Control(sent[d])
          BY <2>2, <2>4, <4>1, <4>2 DEF ControlsInForce
        <4>5. QED
          BY <4>3, <4>4 DEF ControlsInForce
      <3>5. QED
        BY <2>1, <2>2, <2>4, <3>1, <3>2, <3>3, <3>4 DEF Believable
    <2>5. QED
      BY <2>3, <2>4
  <1>7. QED
    BY <1>4, <1>5, <1>6 DEF Evidence

Ids(events) == {events[k].event_id : k \in DOMAIN events}

\* Every event of a sequence that keeps the order of the evidence.
LEMMA BelievableFold ==
  ASSUME GatewayInv, NEW s, NEW coming, NEW events, IsSequence(events), InOrder(events),
         \A k \in DOMAIN events : IsNews(events[k]) \/ events[k] \in Evidence,
         \A c \in Commands : AuditId(c) \in Ids(events) /\ AuthorityId(c) \in coming =>
                               AuthorityId(c) \in Ids(events),
         Believable(s, coming \union Ids(events))
  PROVE  Believable(ReduceAll(s, events), coming)
  <1> DEFINE n == Len(events)
  <1>1. n \in Nat /\ DOMAIN events = 1..n
    BY SequenceDomain
  <1>2. PICK after : /\ after[0] = s
                     /\ \A k \in 1..n : after[k] = ReduceEvent(after[k - 1], events[k])
                     /\ ReduceAll(s, events) = after[n]
    BY <1>1, ReduceAllSteps
  <1> DEFINE Rest(k) == coming \union {events[j].event_id : j \in (k + 1)..n}
             Good(k) == /\ Believable(after[k], Rest(k))
                        /\ \A j \in 1..k : events[j] \in Evidence => events[j].event_id \in after[k].seen
             S == {k \in 0..n : Good(k)}
  <1>3. 0 \in S
    <2>1. Rest(0) = coming \union Ids(events)
      BY <1>1 DEF Ids
    <2>2. Believable(after[0], Rest(0))
      BY <1>2, <2>1
    <2>3. 0 \in 0..n /\ \A j \in 1..0 : FALSE
      BY <1>1
    <2> HIDE DEF Rest
    <2>4. QED
      BY <2>2, <2>3
  <1>4. ASSUME NEW k \in 1..n, k - 1 \in S PROVE k \in S
    <2> DEFINE event == events[k]
    <2>1. Believable(after[k - 1], Rest(k) \union {event.event_id})
      <3>1. Rest(k - 1) = Rest(k) \union {event.event_id}
        <4>1. ((k - 1) + 1)..n = ((k + 1)..n) \union {k}
          BY <1>1
        <4>2. QED
          BY <4>1
      <3>2. QED
        BY <1>4, <3>1
    <2>2. IsNews(event) \/ event \in Evidence
      BY <1>1
    <2>3. ASSUME NEW c \in Commands, event.event_id = AuditId(c), AuthorityId(c) \in Rest(k)
          PROVE  AuthorityId(c) \in after[k - 1].seen
      <3>1. AuthorityId(c) \in coming
        <4>1. ASSUME NEW j \in (k + 1)..n PROVE events[j].event_id # AuthorityId(c)
          BY <1>1, <2>3 DEF InOrder
        <4>2. QED
          BY <2>3, <4>1
      <3>2. PICK j \in 1..n : events[j].event_id = AuthorityId(c)
        <4>1. AuthorityId(c) \in Ids(events)
          BY <1>1, <2>3, <3>1 DEF Ids
        <4>2. QED
          BY <1>1, <4>1 DEF Ids
      <3>3. j \in 1..(k - 1)
        BY <1>1, <2>3, <3>2 DEF InOrder
      <3>4. events[j] \in Evidence
        BY <1>1, <3>2 DEF IsNews, AuthorityId
      <3>5. QED
        BY <1>4, <3>2, <3>3, <3>4
    <2>4. /\ Believable(ReduceEvent(after[k - 1], event), Rest(k))
          /\ after[k - 1].seen \subseteq ReduceEvent(after[k - 1], event).seen
          /\ event \in Evidence => event.event_id \in ReduceEvent(after[k - 1], event).seen
      <3> HIDE DEF Rest, event
      <3>1. QED
        BY <2>1, <2>2, <2>3, BelievableStep
    <2>5. after[k] = ReduceEvent(after[k - 1], event)
      BY <1>2
    <2>6. \A j \in 1..k : events[j] \in Evidence => events[j].event_id \in after[k].seen
      <3>1. ASSUME NEW j \in 1..k, events[j] \in Evidence PROVE events[j].event_id \in after[k].seen
        <4>1. CASE j = k
          BY <2>4, <2>5, <3>1, <4>1
        <4>2. CASE j # k
          <5>1. j \in 1..(k - 1)
            BY <4>2
          <5>2. events[j].event_id \in after[k - 1].seen
            BY <1>4, <3>1, <5>1
          <5>3. QED
            BY <2>4, <2>5, <5>2
        <4>3. QED
          BY <4>1, <4>2
      <3>2. QED
        BY <3>1
    <2>7. QED
      BY <2>4, <2>5, <2>6
  <1>5. n \in S
    <2> HIDE DEF S
    <2>1. 0..n \subseteq S
      BY <1>1, <1>3, <1>4, StepByStep
    <2>2. QED
      BY <1>1, <2>1
  <1>6. coming \subseteq Rest(n)
    OBVIOUS
  <1>7. QED
    BY <1>2, <1>5, <1>6, FewerComing

-----------------------------------------------------------------------------
(* The loop: a turn drains the channel.                                    *)

\* A sequence over some set is a sequence.
LEMMA SequenceOfSome ==
  ASSUME NEW S, NEW s \in Seq(S)
  PROVE  IsSequence(s)
  BY DEF IsSequence

\* A sequence is one over whatever set has its elements.
LEMMA SequenceElements ==
  ASSUME NEW S, NEW T, NEW s \in Seq(S), \A k \in DOMAIN s : s[k] \in T
  PROVE  s \in Seq(T)
  OBVIOUS

\* A sequence is what is drained and what is left.
LEMMA SequenceSplit ==
  ASSUME NEW s, IsSequence(s), NEW d \in 0..Len(s)
  PROVE  /\ IsSequence(SubSeq(s, 1, d)) /\ IsSequence(SubSeq(s, d + 1, Len(s)))
         /\ DOMAIN SubSeq(s, 1, d) = 1..d
         /\ DOMAIN SubSeq(s, d + 1, Len(s)) = 1..(Len(s) - d)
         /\ \A k \in 1..d : SubSeq(s, 1, d)[k] = s[k]
         /\ \A k \in 1..(Len(s) - d) : SubSeq(s, d + 1, Len(s))[k] = s[d + k]
  <1> DEFINE S == {s[k] : k \in DOMAIN s}
  <1>1. s \in Seq(S) /\ Len(s) \in Nat
    BY DEF IsSequence
  <1> HIDE DEF S
  <1>2. SubSeq(s, 1, d) \in Seq(S) /\ SubSeq(s, d + 1, Len(s)) \in Seq(S)
    BY <1>1
  <1>3. IsSequence(SubSeq(s, 1, d)) /\ IsSequence(SubSeq(s, d + 1, Len(s)))
    BY <1>2, SequenceOfSome
  <1>4. /\ DOMAIN SubSeq(s, 1, d) = 1..d
        /\ DOMAIN SubSeq(s, d + 1, Len(s)) = 1..(Len(s) - d)
    BY <1>1
  <1>5. /\ \A k \in 1..d : SubSeq(s, 1, d)[k] = s[k]
        /\ \A k \in 1..(Len(s) - d) : SubSeq(s, d + 1, Len(s))[k] = s[d + k]
    BY <1>1
  <1>6. QED
    BY <1>3, <1>4, <1>5

\* No two pieces of evidence, and no other event, share an id.
LEMMA EvidenceIds ==
  /\ \A c, d : AuthorityId(c) # AuditId(d)
  /\ \A c, d : AuthorityId(c) = AuthorityId(d) => c = d
  /\ \A c, d : AuditId(c) = AuditId(d) => c = d
  /\ \A c : AuthorityId(c)[1] # "news" /\ AuditId(c)[1] # "news"
  /\ \A c : Decided(c).event_id = AuthorityId(c) /\ Recorded(c).event_id = AuditId(c)
  /\ \A event, c : IsNews(event) => event.event_id # AuthorityId(c) /\ event.event_id # AuditId(c)
  BY DEF AuthorityId, AuditId, Decided, Recorded, AuthorityDecided, AuditRecorded, IsNews

\* What a frame leaves in the channel is in order, and what it reduces may be believed.
LEMMA DrainIsBelieved ==
  ASSUME GatewayInv, FileInv, ChannelInv, NEW s, Believable(s, Coming), DrainEvents(s),
         UNCHANGED << sent, gateway, followed >>
  PROVE  ChannelInv' /\ Believable(cockpit, Coming)'
  <1> DEFINE prefix == SubSeq(channel, 1, Drained)
             rest == SubSeq(channel, Drained + 1, Len(channel))
             left == {rest[k].event_id : k \in DOMAIN rest}
                       \union {file[j].event_id : j \in (followed + 1)..Len(file)}
  <1>1. Len(channel) \in Nat /\ DOMAIN channel = 1..Len(channel) /\ Drained \in 0..Len(channel)
    BY SequenceDomain, SessionAssumption DEF ChannelInv, Drained
  <1>2. /\ IsSequence(prefix) /\ IsSequence(rest)
        /\ DOMAIN prefix = 1..Drained
        /\ DOMAIN rest = 1..(Len(channel) - Drained)
        /\ \A k \in 1..Drained : prefix[k] = channel[k]
        /\ \A k \in 1..(Len(channel) - Drained) : rest[k] = channel[Drained + k]
    BY <1>1, SequenceSplit DEF ChannelInv
  <1>3. cockpit' = ReduceAll(s, prefix) /\ channel' = rest
    BY DEF DrainEvents
  <1>4. UNCHANGED << sent, verdict, acted, logged, answer, outcome, file, followed >>
    BY DEF gateway
  <1> HIDE DEF prefix, rest
  <1>5. /\ \A k \in DOMAIN prefix : k \in DOMAIN channel /\ prefix[k] = channel[k]
        /\ \A k \in DOMAIN rest : Drained + k \in DOMAIN channel /\ rest[k] = channel[Drained + k]
    BY <1>1, <1>2
  <1>6. InOrder(prefix) /\ InOrder(rest)
    <2>1. InOrder(prefix)
      BY <1>5 DEF ChannelInv, InOrder
    <2>2. InOrder(rest)
      <3>1. ASSUME NEW i \in DOMAIN rest, NEW j \in DOMAIN rest, NEW c \in Commands,
                   rest[i].event_id = AuthorityId(c), rest[j].event_id = AuditId(c)
            PROVE  i < j
        <4>1. Drained + i < Drained + j
          BY <1>5, <3>1 DEF ChannelInv, InOrder
        <4>2. QED
          BY <1>1, <1>2, <4>1
      <3>2. QED
        BY <3>1 DEF InOrder
    <2>3. QED
      BY <2>1, <2>2
  <1>7. file \in Seq(Evidence) /\ Len(file) \in Nat /\ DOMAIN file = 1..Len(file) /\ followed \in 0..Len(file)
    BY DEF FileInv
  <1>8. \A k \in DOMAIN prefix : IsNews(prefix[k]) \/ prefix[k] \in Evidence
    <2>1. ASSUME NEW k \in DOMAIN prefix PROVE IsNews(prefix[k]) \/ prefix[k] \in Evidence
      <3>1. IsNews(prefix[k]) \/ \E j \in 1..followed : prefix[k] = file[j]
        BY <1>5 DEF ChannelInv
      <3>2. \A j \in 1..followed : file[j] \in Evidence
        BY <1>7
      <3>3. QED
        BY <3>1, <3>2
    <2>2. QED
      BY <2>1
  <1>9. ASSUME NEW c \in Commands, AuditId(c) \in Ids(prefix), AuthorityId(c) \in left
        PROVE  FALSE
    <2>1. PICK k \in DOMAIN prefix : prefix[k].event_id = AuditId(c)
      BY <1>9 DEF Ids
    <2>2. PICK j \in 1..followed : prefix[k] = file[j]
      BY <1>5, <2>1, EvidenceIds DEF ChannelInv
    <2>3. CASE AuthorityId(c) \in {rest[i].event_id : i \in DOMAIN rest}
      <3>1. PICK i \in DOMAIN rest : rest[i].event_id = AuthorityId(c)
        BY <2>3
      <3>2. Drained + i < k
        BY <1>5, <2>1, <3>1 DEF ChannelInv, InOrder
      <3>3. QED
        BY <1>1, <1>2, <3>2
    <2>4. CASE AuthorityId(c) \in {file[i].event_id : i \in (followed + 1)..Len(file)}
      <3>1. PICK i \in (followed + 1)..Len(file) : file[i].event_id = AuthorityId(c)
        BY <2>4
      <3>2. i < j
        BY <1>7, <2>1, <2>2, <3>1 DEF FileInv, InOrder
      <3>3. QED
        BY <1>7, <3>2
    <2>5. QED
      BY <1>9, <2>3, <2>4
  <1>10. Coming = left \union Ids(prefix)
    <2> DEFINE ids == {channel[k].event_id : k \in DOMAIN channel}
               kept == {rest[k].event_id : k \in DOMAIN rest}
    <2>1. ids \subseteq kept \union Ids(prefix)
      <3>1. ASSUME NEW k \in DOMAIN channel PROVE channel[k].event_id \in kept \union Ids(prefix)
        <4>1. CASE k <= Drained
          BY <1>1, <1>2, <4>1 DEF Ids
        <4>2. CASE k > Drained
          <5>1. k - Drained \in DOMAIN rest /\ rest[k - Drained] = channel[k]
            BY <1>1, <1>2, <4>2
          <5>2. QED
            BY <5>1
        <4>3. QED
          BY <1>1, <4>1, <4>2
      <3>2. QED
        BY <3>1
    <2>2. kept \union Ids(prefix) \subseteq ids
      BY <1>5 DEF Ids
    <2>3. QED
      BY <2>1, <2>2 DEF Coming
  <1>11. Believable(ReduceAll(s, prefix), left)
    <2> HIDE DEF left
    <2>1. Believable(s, left \union Ids(prefix))
      BY <1>10
    <2>2. QED
      BY <1>2, <1>6, <1>8, <1>9, <2>1, BelievableFold
  <1>12. Coming' = left
    BY <1>3, <1>4 DEF Coming
  <1>13. Believable(cockpit, Coming)'
    <2> HIDE DEF left
    <2>1. Believable(cockpit', left)
      BY <1>3, <1>11
    <2>2. QED
      BY <1>4, <1>12, <2>1 DEF Believable, CockpitShape, ViewSettled, ControlsInForce
  <1>14. ChannelInv'
    <2>1. \A k \in DOMAIN rest : IsNews(rest[k]) \/ \E j \in 1..followed : rest[k] = file[j]
      BY <1>5 DEF ChannelInv
    <2>2. QED
      BY <1>2, <1>3, <1>4, <1>6, <2>1 DEF ChannelInv, InOrder
  <1>15. QED
    BY <1>13, <1>14

-----------------------------------------------------------------------------
(* Each step keeps EvidenceInv.                                            *)

\* Nothing was sent, logged or believed.
LEMMA InitEvidence == Init => EvidenceInv
  <1> SUFFICES ASSUME Init PROVE EvidenceInv
    OBVIOUS
  <1>1. /\ verdict = [c \in Commands |-> "none"] /\ acted = {} /\ logged = {}
        /\ answer = [c \in Commands |-> "none"] /\ outcome = [c \in Commands |-> None]
    BY DEF Init, G!Init
  <1>2. GatewayInv
    BY <1>1 DEF GatewayInv, G!Verdicts, None, EffectStatuses, RefusalStatuses
  <1>3. file = << >> /\ followed = 0 /\ channel = << >> /\ waiting = 0
        /\ ui.message = NoMessage
    BY DEF Init
  <1>4. FileInv
    BY <1>3 DEF FileInv, InOrder
  <1>5. ChannelInv
    BY <1>3 DEF ChannelInv, InOrder, IsSequence
  <1>6. /\ DOMAIN cockpit = {"seen", "commands", "kill_switch", "accounts", "controls",
                             "strategies", "orders", "events"}
        /\ cockpit.seen = {} /\ cockpit.commands = [c \in Commands |-> NewView]
        /\ cockpit.kill_switch = FALSE /\ cockpit.controls = {} /\ cockpit.events = << >>
    BY DEF Init, EmptyCockpit
  <1>7. CockpitShape(cockpit)
    <2>1. NewView \in Views
      BY DEF NewView, Views
    <2>2. IsSequence(<< >>)
      BY DEF IsSequence
    <2>3. QED
      BY <1>6, <2>1, <2>2 DEF CockpitShape
  <1>8. Believable(cockpit, Coming)
    BY <1>1, <1>6, <1>7 DEF Believable, ViewSettled, ControlsInForce, NewView
  <1>9. CockpitInv /\ MessageInv
    BY <1>3, <1>8 DEF CockpitInv, MessageInv, NoMessage
  <1>10. QED
    BY <1>2, <1>4, <1>5, <1>9 DEF EvidenceInv

\* What the next state takes over when only the cockpit, the channel and the session move.
LEMMA GatewayStays ==
  ASSUME EvidenceInv, UNCHANGED << sent, gateway, followed >>
  PROVE  GatewayInv' /\ FileInv'
  <1>1. UNCHANGED << sent, verdict, acted, logged, answer, outcome, file, followed >>
    BY DEF gateway
  <1>2. GatewayInv'
    BY <1>1 DEF EvidenceInv, GatewayInv
  <1>3. Evidence' = Evidence
    BY <1>1 DEF Evidence, Decided, Recorded
  <1>4. FileInv'
    BY <1>1, <1>3 DEF EvidenceInv, FileInv, InOrder
  <1>5. QED
    BY <1>2, <1>4

\* A key that leaves the message or clears it.
LEMMA KeyKeepsEvidence ==
  ASSUME EvidenceInv, NEW next,
         next.message = ui.message \/ next.message = NoMessage, Key(next)
  PROVE  EvidenceInv'
  <1>1. /\ UNCHANGED << sent, gateway, followed, waiting, cli >>
        /\ DrainEvents(cockpit) /\ waiting = 0 /\ ui' = next
    BY DEF Key, Turn, Looping
  <1>2. GatewayInv' /\ FileInv'
    BY <1>1, GatewayStays
  <1>3. ChannelInv' /\ Believable(cockpit, Coming)'
    BY <1>1, DrainIsBelieved DEF EvidenceInv, CockpitInv
  <1>4. CockpitInv'
    BY <1>1, <1>3 DEF CockpitInv
  <1>5. MessageInv'
    BY <1>1 DEF EvidenceInv, MessageInv, NoMessage, gateway
  <1>6. QED
    BY <1>2, <1>3, <1>4, <1>5 DEF EvidenceInv

\* No key but the one that submits touches the evidence, apart from the drain of its
\* turn.
LEMMA KeysKeepEvidence ==
  ASSUME ModalInv, EvidenceInv, Operator \/ Timeout, ~ Submit
  PROVE  EvidenceInv'
  <1>1. DOMAIN ui = Fields
    BY DEF ModalInv, SessionShape, Fields
  <1> USE DEF Fields
  <1>2. CASE GoTo \/ BeginSearch \/ CloseSearch \/ Timeout \/ RefuseSubmission
    BY <1>1, <1>2, KeyKeepsEvidence DEF GoTo, BeginSearch, CloseSearch, Timeout, RefuseSubmission
  <1>3. CASE Move
    BY <1>1, <1>3, KeyKeepsEvidence DEF Move
  <1>4. CASE EditSearch \/ OpenSelectedEvent
    BY <1>1, <1>4, KeyKeepsEvidence DEF EditSearch, OpenSelectedEvent
  <1>5. CASE BeginCommandPalette \/ CloseCommandPalette \/ TypeConfirmation
    BY <1>1, <1>5, KeyKeepsEvidence DEF BeginCommandPalette, CloseCommandPalette, TypeConfirmation
  <1>6. ASSUME NEW payload, Open(payload)
        PROVE  EvidenceInv'
    BY <1>1, <1>6, KeyKeepsEvidence DEF Open, OpenCommandModal
  <1>7. CASE OpenForRow \/ OpenGlobalKill
    BY <1>6, <1>7 DEF OpenForRow, OpenGlobalKill
  <1>8. CASE SubmitCommandPalette
    BY <1>1, <1>8, KeyKeepsEvidence DEF SubmitCommandPalette, OpenCommandModal, PaletteLeft
  <1>9. CASE CloseModal
    BY <1>1, <1>9, KeyKeepsEvidence DEF CloseModal, CloseDangerousModal
  <1>10. CASE Quit
    <2>1. /\ UNCHANGED << cockpit, channel, waiting, sent, gateway, followed >>
          /\ ui'.message = ui.message
      BY <1>1, <1>10 DEF Quit
    <2>2. GatewayInv' /\ FileInv'
      BY <2>1, GatewayStays
    <2>3. ChannelInv'
      BY <2>1 DEF EvidenceInv, ChannelInv, InOrder, gateway
    <2>4. CockpitInv'
      BY <2>1 DEF EvidenceInv, CockpitInv, Coming, Believable, CockpitShape, ViewSettled,
                  ControlsInForce, gateway
    <2>5. MessageInv'
      BY <2>1 DEF EvidenceInv, MessageInv, gateway
    <2>6. QED
      BY <2>2, <2>3, <2>4, <2>5 DEF EvidenceInv
  <1>11. QED
    BY <1>2, <1>3, <1>4, <1>5, <1>7, <1>8, <1>9, <1>10 DEF Operator

\* A command that is sent has no evidence yet, and what was sent before stays.
LEMMA SubmitKeepsEvidence ==
  ASSUME ModalInv, EvidenceInv, Submit
  PROVE  EvidenceInv'
  <1>1. /\ sent' = Append(sent, ui.dangerous_action) /\ waiting' = Len(sent) + 1
        /\ UNCHANGED << ui, cockpit, channel, verdict, acted, logged, answer, outcome, file, followed >>
    BY DEF Submit, SubmittedPayload, gateway
  <1>2. /\ Len(sent') = Len(sent) + 1 /\ Len(sent) \in Nat
        /\ \A k \in 1..Len(sent) : sent'[k] = sent[k]
    <2> DEFINE S == {sent[k] : k \in DOMAIN sent}
               e == ui.dangerous_action
    <2>1. sent' = Append(sent, e) /\ sent \in Seq(S)
      BY <1>1 DEF ModalInv, SessionShape, IsSequence
    <2> HIDE DEF S, e
    <2>2. QED
      BY <2>1
  <1>3. logged \subseteq 1..Len(sent) /\ acted \subseteq 1..Len(sent)
    BY DEF EvidenceInv, GatewayInv, G!Verdicts
  <1>4. \A c \in logged \union acted : sent'[c] = sent[c]
    BY <1>2, <1>3
  <1>5. GatewayInv'
    BY <1>1, <1>2 DEF EvidenceInv, GatewayInv
  <1>6. Evidence' = Evidence
    <2>1. \A c \in logged : Decided(c)' = Decided(c) /\ Recorded(c)' = Recorded(c)
      BY <1>1, <1>4 DEF Decided, Recorded
    <2>2. QED
      BY <1>1, <2>1 DEF Evidence
  <1>7. FileInv' /\ ChannelInv'
    BY <1>1, <1>6 DEF EvidenceInv, FileInv, ChannelInv, InOrder
  <1>8. Coming' = Coming /\ CockpitShape(cockpit)'
    BY <1>1 DEF Coming, EvidenceInv, CockpitInv, Believable, CockpitShape
  <1>9. ControlsInForce(cockpit)'
    BY <1>1, <1>4 DEF EvidenceInv, CockpitInv, Believable, ControlsInForce
  <1>10. Believable(cockpit, Coming)'
    BY <1>1, <1>8, <1>9 DEF EvidenceInv, CockpitInv, Believable, ViewSettled
  <1>11. AuthorityId(waiting') \notin cockpit.seen /\ AuditId(waiting') \notin cockpit.seen
    <2>1. waiting' \notin logged
      BY <1>1, <1>2, <1>3
    <2>2. ASSUME NEW id \in cockpit.seen PROVE id # AuthorityId(waiting') /\ id # AuditId(waiting')
      <3>1. id[1] = "news" \/ \E c \in logged : id \in {AuthorityId(c), AuditId(c)}
        BY DEF EvidenceInv, CockpitInv, Believable
      <3>2. QED
        BY <2>1, <3>1, EvidenceIds
    <2>3. QED
      BY <2>2
  <1>12. CockpitInv'
    BY <1>1, <1>10, <1>11 DEF CockpitInv
  <1>13. MessageInv'
    BY <1>1, <1>2 DEF EvidenceInv, MessageInv
  <1>14. QED
    BY <1>5, <1>7, <1>12, <1>13 DEF EvidenceInv

\* The gateway acts before the outcome is written down, and writes it down once.
LEMMA JudgeKeepsEvidence ==
  ASSUME ModalInv, EvidenceInv, NEW c \in Commands, JudgeCommand(c)
  PROVE  EvidenceInv'
  <1>1. /\ UNCHANGED << ui, waiting, sent, cockpit, channel, followed, acted, logged, answer, outcome, file >>
        /\ waiting = c /\ verdict[c] = "none"
        /\ \E v \in {"accepted", "rejected"} : verdict' = [verdict EXCEPT ![c] = v]
    BY DEF JudgeCommand, GatewayStep, session, G!Judge
  <1>2. c \in 1..Len(sent)
    BY <1>1, SessionAssumption DEF ModalInv, SessionShape, TriesOfTheModal, Commands, IsSequence
  <1>3. c \notin logged /\ c \notin acted
    BY <1>1 DEF EvidenceInv, GatewayInv
  <1>4. verdict' \in [Commands -> G!Verdicts] /\ verdict'[c] # "none"
        /\ \A d \in Commands : d # c => verdict'[d] = verdict[d]
    BY <1>1 DEF EvidenceInv, GatewayInv, G!Verdicts
  <1>5. GatewayInv'
    <2>1. outcome[c] = None
      BY <1>3 DEF EvidenceInv, GatewayInv
    <2>2. QED
      BY <1>1, <1>2, <1>3, <1>4, <2>1 DEF EvidenceInv, GatewayInv, None
  <1>6. Evidence' = Evidence
    <2>1. \A d \in logged : Decided(d)' = Decided(d) /\ Recorded(d)' = Recorded(d)
      BY <1>1, <1>3, <1>4 DEF EvidenceInv, GatewayInv, Decided, Recorded
    <2>2. QED
      BY <1>1, <2>1 DEF Evidence
  <1>7. FileInv' /\ ChannelInv'
    BY <1>1, <1>6 DEF EvidenceInv, FileInv, ChannelInv, InOrder
  <1>8. CockpitInv'
    BY <1>1 DEF EvidenceInv, CockpitInv, Coming, Believable, CockpitShape, ViewSettled, ControlsInForce
  <1>9. MessageInv'
    BY <1>1 DEF EvidenceInv, MessageInv
  <1>10. QED
    BY <1>5, <1>7, <1>8, <1>9 DEF EvidenceInv

\* The gateway acts on an accepted command, before it logs and answers.
LEMMA ActKeepsEvidence ==
  ASSUME ModalInv, EvidenceInv, NEW c \in Commands, ActOnCommand(c)
  PROVE  EvidenceInv'
  <1>1. /\ UNCHANGED << ui, waiting, sent, cockpit, channel, followed, verdict, logged, answer, outcome, file >>
        /\ outcome[c] = None /\ verdict[c] = "accepted" /\ answer[c] \in {"none", "lost"}
        /\ acted' = acted \union {c}
    BY DEF ActOnCommand, GatewayStep, session, G!Act
  <1>2. GatewayInv'
    BY <1>1 DEF EvidenceInv, GatewayInv, None, EffectStatuses, RefusalStatuses
  <1>3. Evidence' = Evidence
    BY <1>1 DEF Evidence, Decided, Recorded
  <1>4. FileInv' /\ ChannelInv'
    BY <1>1, <1>3 DEF EvidenceInv, FileInv, ChannelInv, InOrder
  <1>5. ControlsInForce(cockpit)'
    BY <1>1 DEF EvidenceInv, CockpitInv, Believable, ControlsInForce
  <1>6. CockpitInv'
    BY <1>1, <1>5 DEF EvidenceInv, CockpitInv, Coming, Believable, CockpitShape, ViewSettled
  <1>7. MessageInv'
    BY <1>1 DEF EvidenceInv, MessageInv
  <1>8. QED
    BY <1>2, <1>4, <1>6, <1>7 DEF EvidenceInv

\* The gateway appends the decision on a command and then its outcome.
LEMMA LogKeepsEvidence ==
  ASSUME ModalInv, EvidenceInv, NEW c \in Commands, LogCommand(c)
  PROVE  EvidenceInv'
  <1>1. /\ UNCHANGED << ui, waiting, sent, cockpit, channel, followed, verdict, acted, answer >>
        /\ verdict[c] # "none" /\ answer[c] = "none" /\ c \notin logged
        /\ logged' = logged \union {c}
    BY DEF LogCommand, GatewayStep, session, G!Log
  <1>2. PICK status \in AuditedStatuses(c) :
          LET decided == AuthorityDecided(c, sent[c], verdict[c])
              recorded == AuditRecorded(c, sent[c], status)
          IN \E lines \in {<< decided, recorded >>, << decided >>, << recorded >>, << >>} :
               outcome' = [outcome EXCEPT ![c] = status] /\ file' = file \o lines
    BY DEF LogCommand
  <1> DEFINE decided == AuthorityDecided(c, sent[c], verdict[c])
             recorded == AuditRecorded(c, sent[c], status)
  <1>3. PICK lines \in {<< decided, recorded >>, << decided >>, << recorded >>, << >>} :
          outcome' = [outcome EXCEPT ![c] = status] /\ file' = file \o lines
    BY <1>2
  <1> HIDE DEF decided, recorded
  <1>4. /\ status \in Statuses /\ (status \in RefusalStatuses => c \notin acted)
        /\ (status \in EffectStatuses => c \in acted) /\ (status = "accepted" => c \notin acted)
        /\ status # None
    BY <1>2 DEF EvidenceInv, GatewayInv, G!Verdicts, AuditedStatuses, Statuses,
                EffectStatuses, RefusalStatuses, None
  <1>5. /\ outcome' \in [Commands -> Statuses \union {None}] /\ outcome'[c] = status
        /\ \A d \in Commands : d # c => outcome'[d] = outcome[d]
    BY <1>3, <1>4 DEF EvidenceInv, GatewayInv
  <1>6. GatewayInv'
    BY <1>1, <1>4, <1>5 DEF EvidenceInv, GatewayInv
  <1>7. /\ \A d \in logged : Decided(d)' = Decided(d) /\ Recorded(d)' = Recorded(d)
        /\ Decided(c)' = decided /\ Recorded(c)' = recorded
    BY <1>1, <1>5 DEF EvidenceInv, GatewayInv, Decided, Recorded, decided, recorded
  <1>8. Evidence \subseteq Evidence' /\ Decided(c)' \in Evidence' /\ Recorded(c)' \in Evidence'
    BY <1>1, <1>7 DEF Evidence
  <1>9. /\ lines \in Seq({Decided(c)', Recorded(c)'}) /\ Len(lines) \in Nat /\ DOMAIN lines = 1..Len(lines)
        /\ \A k \in DOMAIN lines : lines[k] \in {Decided(c)', Recorded(c)'}
        /\ InOrder(lines)
    <2>1. \/ lines = << Decided(c)', Recorded(c)' >> \/ lines = << Decided(c)' >>
          \/ lines = << Recorded(c)' >> \/ lines = << >>
      BY <1>3, <1>7
    <2>2. Decided(c)'.event_id = AuthorityId(c) /\ Recorded(c)'.event_id = AuditId(c)
      BY <1>7 DEF AuthorityDecided, AuditRecorded, AuthorityId, AuditId, decided, recorded
    <2> DEFINE first == Decided(c)'
               second == Recorded(c)'
    <2> HIDE DEF first, second
    <2>3. ASSUME lines = << first, second >>
          PROVE  /\ lines \in Seq({first, second}) /\ Len(lines) = 2 /\ DOMAIN lines = 1..2
                 /\ lines[1] = first /\ lines[2] = second
      BY <2>3
    <2>4. ASSUME NEW e, lines = << e >>, e \in {first, second}
          PROVE  /\ lines \in Seq({first, second}) /\ Len(lines) = 1 /\ DOMAIN lines = 1..1
                 /\ lines[1] = e
      BY <2>4
    <2>5. ASSUME lines = << >>
          PROVE  lines \in Seq({first, second}) /\ Len(lines) = 0 /\ DOMAIN lines = 1..0
      BY <2>5
    <2>6. first.event_id = AuthorityId(c) /\ second.event_id = AuditId(c)
      BY <2>2 DEF first, second
    <2>7. \/ lines = << first, second >> \/ lines = << first >>
          \/ lines = << second >> \/ lines = << >>
      BY <2>1 DEF first, second
    <2>8. lines \in Seq({first, second})
      BY <2>3, <2>4, <2>5, <2>7
    <2>9. InOrder(lines)
      BY <2>3, <2>4, <2>5, <2>6, <2>7, EvidenceIds DEF InOrder
    <2>10. QED
      BY <2>8, <2>9 DEF first, second
  <1>10. \A k \in DOMAIN lines : lines[k].event_id \in {AuthorityId(c), AuditId(c)}
    BY <1>7, <1>9 DEF AuthorityDecided, AuditRecorded, AuthorityId, AuditId, decided, recorded
  <1>11. /\ file \in Seq(Evidence) /\ Len(file) \in Nat /\ DOMAIN file = 1..Len(file)
         /\ \A k \in DOMAIN file : file[k] \in Evidence
    BY DEF EvidenceInv, FileInv
  <1>12. /\ Len(file') = Len(file) + Len(lines) /\ DOMAIN file' = 1..Len(file')
         /\ file' \in Seq(Evidence')
         /\ \A k \in 1..Len(file) : file'[k] = file[k]
         /\ \A k \in 1..Len(lines) : file'[Len(file) + k] = lines[k]
    <2> DEFINE E == Evidence'
    <2>1. file \in Seq(E) /\ lines \in Seq(E) /\ file' = file \o lines
      <3>1. E = Evidence' /\ \A k \in DOMAIN file : file[k] \in E
        BY <1>8, <1>11
      <3>2. \A k \in DOMAIN lines : lines[k] \in E
        BY <1>8, <1>9
      <3> HIDE DEF E
      <3>3. QED
        BY <1>3, <1>9, <1>11, <3>1, <3>2, SequenceElements
    <2> HIDE DEF E
    <2>2. /\ Len(file') = Len(file) + Len(lines) /\ DOMAIN file' = 1..Len(file')
          /\ file' \in Seq(E)
          /\ \A k \in 1..Len(file) : file'[k] = file[k]
          /\ \A k \in 1..Len(lines) : file'[Len(file) + k] = lines[k]
      BY <2>1
    <2>3. QED
      BY <2>2 DEF E
  <1>13. \A k \in DOMAIN file : \A d : file[k].event_id \in {AuthorityId(d), AuditId(d)} => d # c
    <2>1. ASSUME NEW k \in DOMAIN file, file[k].event_id \in {AuthorityId(c), AuditId(c)}
          PROVE  FALSE
      <3>1. PICK d \in logged : file[k] = Decided(d) \/ file[k] = Recorded(d)
        BY <1>11 DEF Evidence
      <3>2. QED
        BY <1>1, <2>1, <3>1, EvidenceIds
    <2>2. QED
      BY <2>1
  <1>14. InOrder(file')
    <2>1. ASSUME NEW i \in DOMAIN file', NEW j \in DOMAIN file', NEW d \in Commands,
                 file'[i].event_id = AuthorityId(d), file'[j].event_id = AuditId(d)
          PROVE  i < j
      <3>1. CASE i \in 1..Len(file) /\ j \in 1..Len(file)
        BY <1>11, <1>12, <2>1, <3>1 DEF EvidenceInv, FileInv, InOrder
      <3>2. CASE i \in 1..Len(file) /\ j \notin 1..Len(file)
        BY <1>11, <1>12, <3>2
      <3>3. CASE i \notin 1..Len(file)
        <4>1. i - Len(file) \in DOMAIN lines /\ file'[i] = lines[i - Len(file)]
          <5>1. i - Len(file) \in 1..Len(lines) /\ i = Len(file) + (i - Len(file))
            BY <1>9, <1>11, <1>12, <3>3
          <5>2. QED
            BY <1>9, <1>12, <5>1
        <4>2. d = c
          BY <1>10, <2>1, <4>1, EvidenceIds
        <4>3. j \notin 1..Len(file)
          BY <1>11, <1>12, <1>13, <2>1, <4>2
        <4>4. j - Len(file) \in DOMAIN lines /\ file'[j] = lines[j - Len(file)]
          <5>1. j - Len(file) \in 1..Len(lines) /\ j = Len(file) + (j - Len(file))
            BY <1>9, <1>11, <1>12, <4>3
          <5>2. QED
            BY <1>9, <1>12, <5>1
        <4>5. i - Len(file) < j - Len(file)
          BY <1>9, <2>1, <4>1, <4>4 DEF InOrder
        <4>6. QED
          BY <1>11, <1>12, <4>5
      <3>4. QED
        BY <3>1, <3>2, <3>3
    <2>2. QED
      BY <2>1 DEF InOrder
  <1>15. FileInv'
    <2>1. followed' \in 0..Len(file')
      BY <1>1, <1>9, <1>11, <1>12 DEF EvidenceInv, FileInv
    <2>2. InOrder(file)'
      BY <1>14 DEF InOrder
    <2>3. QED
      BY <1>12, <2>1, <2>2 DEF FileInv
  <1>16. ChannelInv'
    <2>1. \A j \in 1..followed : file'[j] = file[j]
      BY <1>11, <1>12 DEF EvidenceInv, FileInv
    <2>2. InOrder(channel)' /\ IsSequence(channel)'
      BY <1>1 DEF EvidenceInv, ChannelInv, InOrder
    <2>3. \A k \in DOMAIN channel : IsNews(channel[k]) \/ \E j \in 1..followed : channel[k] = file'[j]
      BY <2>1 DEF EvidenceInv, ChannelInv
    <2>4. QED
      BY <1>1, <2>2, <2>3 DEF ChannelInv
  <1>17. AuthorityId(c) \notin cockpit.seen /\ AuditId(c) \notin cockpit.seen
    BY <1>1, EvidenceIds DEF EvidenceInv, CockpitInv, Believable
  <1>18. Coming' \subseteq Coming \union {AuthorityId(c), AuditId(c)}
    <2>1. ASSUME NEW j \in (followed + 1)..Len(file')
          PROVE  file'[j].event_id \in Coming \union {AuthorityId(c), AuditId(c)}
      <3>1. followed \in Nat
        BY DEF EvidenceInv, FileInv
      <3>2. CASE j \in 1..Len(file)
        <4>1. j \in (followed + 1)..Len(file) /\ file'[j] = file[j]
          BY <1>11, <1>12, <2>1, <3>1, <3>2
        <4>2. QED
          BY <4>1 DEF Coming
      <3>3. CASE j \notin 1..Len(file)
        <4>1. j - Len(file) \in 1..Len(lines) /\ j = Len(file) + (j - Len(file))
          BY <1>9, <1>11, <1>12, <2>1, <3>1, <3>3
        <4>2. file'[j] = lines[j - Len(file)] /\ j - Len(file) \in DOMAIN lines
          BY <1>9, <1>12, <4>1
        <4>3. QED
          BY <1>10, <4>2
      <3>4. QED
        BY <3>2, <3>3
    <2>2. {channel[k].event_id : k \in DOMAIN channel} \subseteq Coming
      BY DEF Coming
    <2>3. QED
      BY <1>1, <2>1, <2>2 DEF Coming
  <1>19. Believable(cockpit, Coming)'
    <2>1. CockpitShape(cockpit)' /\ ControlsInForce(cockpit)'
      BY <1>1 DEF EvidenceInv, CockpitInv, Believable, CockpitShape, ControlsInForce
    <2>2. \A id \in cockpit'.seen : id[1] = "news" \/ \E d \in logged' : id \in {AuthorityId(d), AuditId(d)}
      BY <1>1 DEF EvidenceInv, CockpitInv, Believable
    <2>3. \A d \in Commands : ViewSettled(cockpit, d)'
      <3>1. ASSUME NEW d \in Commands PROVE ViewSettled(cockpit, d)'
        <4>1. ViewSettled(cockpit, d)
          BY DEF EvidenceInv, CockpitInv, Believable
        <4>2. QED
          BY <1>1, <1>5, <1>17, <4>1 DEF ViewSettled
      <3>2. QED
        BY <3>1
    <2>4. \A d \in Commands :
            (AuditId(d) \in cockpit'.seen /\ AuthorityId(d) \in Coming') => AuthorityId(d) \in cockpit'.seen
      BY <1>1, <1>17, <1>18, EvidenceIds DEF EvidenceInv, CockpitInv, Believable
    <2>5. QED
      BY <2>1, <2>2, <2>3, <2>4 DEF Believable
  <1>20. CockpitInv'
    BY <1>1, <1>19 DEF EvidenceInv, CockpitInv
  <1>21. MessageInv'
    <2> DEFINE d == ui.message.command
    <2>1. ASSUME d # 0, ui.message.kind = "accepted", d \in acted, NEW k \in DOMAIN file'
          PROVE  file'[k].event_id # AuditId(d)
      <3>1. d # c /\ \A i \in DOMAIN file : file[i].event_id # AuditId(d)
        BY <1>1, <2>1 DEF EvidenceInv, MessageInv
      <3>2. CASE k \in 1..Len(file)
        BY <1>11, <1>12, <3>1, <3>2
      <3>3. CASE k \notin 1..Len(file)
        <4>1. k - Len(file) \in 1..Len(lines) /\ k = Len(file) + (k - Len(file))
          BY <1>9, <1>11, <1>12, <2>1, <3>3
        <4>2. file'[k] = lines[k - Len(file)] /\ k - Len(file) \in DOMAIN lines
          BY <1>9, <1>12, <4>1
        <4>3. file'[k].event_id \in {AuthorityId(c), AuditId(c)}
          BY <1>10, <4>2
        <4> HIDE DEF d
        <4>4. QED
          BY <3>1, <4>3, EvidenceIds
      <3>4. QED
        BY <3>2, <3>3
    <2>2. QED
      BY <1>1, <2>1 DEF EvidenceInv, MessageInv
  <1>22. QED
    BY <1>6, <1>15, <1>16, <1>20, <1>21 DEF EvidenceInv

\* An answer tells the outcome, or nothing.
LEMMA AnswerKeepsEvidence ==
  ASSUME ModalInv, EvidenceInv, NEW c \in Commands, AnswerCommand(c) \/ LoseAnswer(c)
  PROVE  EvidenceInv'
  <1>1. /\ UNCHANGED << ui, waiting, sent, cockpit, channel, followed, verdict, acted, logged, outcome, file >>
        /\ answer[c] = "none"
        /\ \A d \in Commands : d # c => answer'[d] = answer[d]
        /\ answer'[c] \in {"lost", "error"} \/ (c \in logged /\ answer'[c] = outcome[c])
    <2>1. CASE AnswerCommand(c)
      <3>1. PICK a \in G!Answers \ {"none", "lost"} :
              (a # "error" => c \in logged) /\ answer' = [answer EXCEPT ![c] = a]
        BY <2>1 DEF AnswerCommand, G!Answer
      <3>2. answer \in [Commands -> G!Answers]
        BY DEF ModalInv, SessionShape
      <3>3. QED
        BY <2>1, <3>1, <3>2 DEF AnswerCommand, GatewayStep, session, G!Answer
    <2>2. CASE LoseAnswer(c)
      BY <2>2 DEF LoseAnswer, GatewayStep, session, G!Lose
    <2>3. QED
      BY <2>1, <2>2
  <1>2. GatewayInv'
    BY <1>1 DEF EvidenceInv, GatewayInv
  <1>3. Evidence' = Evidence
    BY <1>1 DEF Evidence, Decided, Recorded
  <1>4. FileInv' /\ ChannelInv'
    BY <1>1, <1>3 DEF EvidenceInv, FileInv, ChannelInv, InOrder
  <1>5. CockpitInv'
    BY <1>1 DEF EvidenceInv, CockpitInv, Coming, Believable, CockpitShape, ViewSettled, ControlsInForce
  <1>6. MessageInv'
    <2>1. 1..Len(sent) \subseteq Commands
      BY SessionAssumption DEF ModalInv, SessionShape, IsSequence, Commands
    <2>2. ui.message.command = c => ui.message.kind \notin EffectStatuses \union RefusalStatuses \union {"accepted"} \/ c = 0
      BY <1>1 DEF EvidenceInv, MessageInv
    <2>3. QED
      BY <1>1, <2>1, <2>2 DEF EvidenceInv, MessageInv
  <1>7. QED
    BY <1>2, <1>4, <1>5, <1>6 DEF EvidenceInv

\* Every line of the file, and every event of the channel, is evidence of its command.
LEMMA EvidenceOf ==
  ASSUME NEW event \in Evidence
  PROVE  /\ event.command \in logged
         /\ event \in {Decided(event.command), Recorded(event.command)}
  BY DEF Evidence, Decided, Recorded, AuthorityDecided, AuditRecorded

\* What an answered submission brings is the evidence of its command, in order.
LEMMA SubmissionIsEvidence ==
  ASSUME EvidenceInv, NEW c \in logged
  PROVE  LET events == SubmissionEvents(c) IN
         /\ IsSequence(events) /\ InOrder(events)
         /\ \A k \in DOMAIN events : events[k] \in {Decided(c), Recorded(c)}
         /\ AuthorityId(c) \in Coming => AuthorityId(c) \in Ids(events)
         /\ ~ cli.tcp => \A k \in DOMAIN file :
                           file[k].command = c => \E j \in DOMAIN events : events[j] = file[k]
  <1> DEFINE events == SubmissionEvents(c)
  <1>1. CASE cli.tcp
    <2> DEFINE first == Decided(c)
               second == Recorded(c)
    <2>1. events = << first, second >>
      BY <1>1 DEF SubmissionEvents, FullResponse, Decided, Recorded
    <2>2. first.event_id = AuthorityId(c) /\ second.event_id = AuditId(c)
      BY EvidenceIds
    <2> HIDE DEF first, second, events
    <2>3. /\ events \in Seq({first, second}) /\ DOMAIN events = 1..2
          /\ events[1] = first /\ events[2] = second
      BY <2>1
    <2>4. InOrder(events)
      BY <2>2, <2>3, EvidenceIds DEF InOrder
    <2>5. IsSequence(events)
      BY <2>3, SequenceOfSome
    <2>6. \A k \in DOMAIN events : events[k] \in {first, second}
      BY <2>3
    <2>7. AuthorityId(c) \in Ids(events)
      BY <2>2, <2>3 DEF Ids
    <2>8. QED
      BY <1>1, <2>4, <2>5, <2>6, <2>7 DEF events, first, second
  <1>2. CASE ~ cli.tcp
    <2> DEFINE positions == {k \in DOMAIN file : file[k].command = c}
               m == Cardinality(positions)
    <2>1. events = At(file, positions)
      BY <1>2 DEF SubmissionEvents
    <2>2. /\ file \in Seq(Evidence) /\ InOrder(file) /\ Len(file) \in Nat /\ DOMAIN file = 1..Len(file)
          /\ \A k \in DOMAIN file : file[k] \in Evidence
      BY DEF EvidenceInv, FileInv
    <2>3. positions \in SUBSET (1..Len(file)) /\ \A k \in positions : k \in DOMAIN file /\ file[k].command = c
      BY <2>2
    <2>4. \A k \in DOMAIN file : file[k].command = c => k \in positions
      OBVIOUS
    <2> HIDE DEF positions, events
    <2>5. /\ m \in Nat
          /\ \A k \in 1..m : Picked(positions, k) \in positions /\ events[k] = file[Picked(positions, k)]
          /\ \A p \in positions : \E k \in 1..m : Picked(positions, k) = p
          /\ \A j, k \in 1..m : Picked(positions, j) < Picked(positions, k) => j < k
      <3>1. /\ Cardinality(positions) \in Nat
            /\ \A k \in 1..Cardinality(positions) :
                 Picked(positions, k) \in positions /\ At(file, positions)[k] = file[Picked(positions, k)]
            /\ \A p \in positions : \E k \in 1..Cardinality(positions) : Picked(positions, k) = p
            /\ \A j, k \in 1..Cardinality(positions) :
                 Picked(positions, j) < Picked(positions, k) => j < k
        BY <2>2, <2>3, AtRows
      <3>2. QED
        BY <2>1, <3>1
    <2>6. DOMAIN events = 1..m
      BY <2>1, <2>2, <2>3, AtIsSequence
    <2>7. \A k \in 1..m : events[k] \in {Decided(c), Recorded(c)}
      <3>1. ASSUME NEW k \in 1..m PROVE events[k] \in {Decided(c), Recorded(c)}
        <4>1. Picked(positions, k) \in DOMAIN file /\ events[k] = file[Picked(positions, k)]
              /\ file[Picked(positions, k)].command = c
          BY <2>3, <2>5
        <4>2. QED
          BY <2>2, <4>1, EvidenceOf
      <3>2. QED
        BY <3>1
    <2>8. IsSequence(events)
      <3>1. events = [k \in 1..m |-> events[k]]
        BY <2>1, <2>6 DEF At
      <3> DEFINE row(k) == events[k]
                 S == {row(k) : k \in 1..m}
      <3>2. \A k \in 1..m : row(k) \in S
        OBVIOUS
      <3>3. events = [k \in 1..m |-> row(k)]
        BY <3>1
      <3> HIDE DEF row, S
      <3>4. [k \in 1..m |-> row(k)] \in Seq(S)
        BY <2>5, <3>2
      <3>5. QED
        BY <3>3, <3>4, SequenceOfSome
    <2>9. InOrder(events)
      <3>1. ASSUME NEW i \in 1..m, NEW j \in 1..m, NEW d \in Commands,
                   events[i].event_id = AuthorityId(d), events[j].event_id = AuditId(d)
            PROVE  i < j
        <4>1. /\ Picked(positions, i) \in DOMAIN file /\ Picked(positions, j) \in DOMAIN file
              /\ events[i] = file[Picked(positions, i)] /\ events[j] = file[Picked(positions, j)]
          BY <2>3, <2>5
        <4>2. Picked(positions, i) < Picked(positions, j)
          BY <2>2, <3>1, <4>1 DEF InOrder
        <4>3. QED
          BY <2>5, <4>2
      <3>2. QED
        BY <2>6, <3>1 DEF InOrder
    <2>10. \A k \in DOMAIN file : file[k].command = c => \E j \in DOMAIN events : events[j] = file[k]
      <3>1. ASSUME NEW k \in DOMAIN file, file[k].command = c
            PROVE  \E j \in DOMAIN events : events[j] = file[k]
        <4>1. k \in positions
          BY <2>4, <3>1
        <4>2. PICK j \in 1..m : Picked(positions, j) = k
          BY <2>5, <4>1
        <4>3. QED
          BY <2>5, <2>6, <4>2
      <3>2. QED
        BY <3>1
    <2>11. ASSUME AuthorityId(c) \in Coming PROVE AuthorityId(c) \in Ids(events)
      <3>1. \E k \in DOMAIN file : file[k].event_id = AuthorityId(c)
        <4>1. followed \in 0..Len(file)
          BY DEF EvidenceInv, FileInv
        <4>2. CASE AuthorityId(c) \in {channel[k].event_id : k \in DOMAIN channel}
          <5>1. PICK k \in DOMAIN channel : channel[k].event_id = AuthorityId(c)
            BY <4>2
          <5>2. \E j \in 1..followed : channel[k] = file[j]
            BY <5>1, EvidenceIds DEF EvidenceInv, ChannelInv
          <5>3. QED
            BY <2>2, <4>1, <5>1, <5>2
        <4>3. CASE AuthorityId(c) \in {file[j].event_id : j \in (followed + 1)..Len(file)}
          BY <2>2, <4>1, <4>3
        <4>4. QED
          BY <2>11, <4>2, <4>3 DEF Coming
      <3>2. PICK k \in DOMAIN file : file[k].event_id = AuthorityId(c)
        BY <3>1
      <3>3. file[k].command = c
        BY <2>2, <3>2, EvidenceOf, EvidenceIds
      <3>4. QED
        BY <2>10, <3>2, <3>3 DEF Ids
    <2>12. QED
      BY <2>6, <2>7, <2>8, <2>9, <2>10, <2>11 DEF events
  <1>3. QED
    BY <1>1, <1>2

\* The status in the message is that of the last event known of the command.
LEMMA StatusTellsTheTruth ==
  ASSUME EvidenceInv, NEW c \in Commands, answer[c] \notin {"none", "lost", "error"}
  PROVE  /\ SubmissionStatus(c) \in EffectStatuses => c \in acted
         /\ SubmissionStatus(c) \in RefusalStatuses => c \notin acted
         /\ SubmissionStatus(c) = "accepted" /\ c \in acted =>
              \A k \in DOMAIN file : file[k].event_id # AuditId(c)
  <1>1. /\ c \in logged /\ answer[c] = outcome[c]
        /\ c \in acted => verdict[c] = "accepted"
        /\ outcome[c] \in RefusalStatuses => c \notin acted
        /\ outcome[c] \in EffectStatuses => c \in acted
        /\ outcome[c] = "accepted" => c \notin acted
        /\ verdict[c] \in {"none", "accepted", "rejected"}
    BY DEF EvidenceInv, GatewayInv, G!Verdicts
  <1>2. CASE cli.tcp
    BY <1>1, <1>2 DEF SubmissionStatus
  <1>3. CASE ~ cli.tcp
    <2> DEFINE events == SubmissionEvents(c)
               last == events[Len(events)]
    <2>1. /\ IsSequence(events) /\ InOrder(events)
          /\ \A k \in DOMAIN events : events[k] \in {Decided(c), Recorded(c)}
          /\ \A k \in DOMAIN file :
               file[k].command = c => \E j \in DOMAIN events : events[j] = file[k]
      BY <1>1, <1>3, SubmissionIsEvidence
    <2>2. SubmissionStatus(c) = IF events = << >> THEN "submitted" ELSE last.status
      BY <1>3 DEF SubmissionStatus, Last
    <2> HIDE DEF events
    <2>3. CASE events = << >>
      BY <2>2, <2>3 DEF EffectStatuses, RefusalStatuses
    <2>4. CASE events # << >>
      <3>1. Len(events) \in DOMAIN events /\ DOMAIN events = 1..Len(events) /\ Len(events) \in Nat
        BY <2>1, <2>4 DEF IsSequence
      <3>2. SubmissionStatus(c) = last.status /\ last \in {Decided(c), Recorded(c)}
        BY <2>1, <2>2, <2>4, <3>1
      <3>3. CASE last = Recorded(c)
        <4>1. last.status = outcome[c]
          BY <3>3 DEF Recorded, AuditRecorded
        <4>2. QED
          BY <1>1, <3>2, <4>1
      <3>4. CASE last = Decided(c)
        <4>1. last.status = verdict[c] /\ last.event_id = AuthorityId(c)
          BY <3>4 DEF Decided, AuthorityDecided, AuthorityId
        <4>2. ASSUME NEW k \in DOMAIN file, file[k].event_id = AuditId(c) PROVE FALSE
          <5>1. file[k].command = c
            <6>1. file[k] \in Evidence
              BY DEF EvidenceInv, FileInv
            <6>2. QED
              BY <4>2, <6>1, EvidenceOf, EvidenceIds
          <5>2. PICK j \in DOMAIN events : events[j] = file[k]
            BY <2>1, <5>1
          <5>3. Len(events) < j
            BY <2>1, <3>1, <4>1, <4>2, <5>2 DEF InOrder
          <5>4. QED
            BY <3>1, <5>3
        <4>3. QED
          BY <1>1, <3>2, <4>1, <4>2 DEF EffectStatuses, RefusalStatuses
      <3>5. QED
        BY <3>2, <3>3, <3>4
    <2>5. QED
      BY <2>3, <2>4
  <1>4. QED
    BY <1>2, <1>3

\* A submission returns with evidence or without, and the message says so.
LEMMA ReturnKeepsEvidence ==
  ASSUME ModalInv, EvidenceInv, ReturnFromSubmit
  PROVE  EvidenceInv'
  <1>1. /\ UNCHANGED << cli, sent, gateway, followed >> /\ waiting' = 0
        /\ waiting # 0 /\ answer[waiting] # "none"
    BY DEF ReturnFromSubmit
  <1>2. waiting \in 1..Len(sent) /\ waiting \in Commands
    BY <1>1, SessionAssumption DEF ModalInv, SessionShape, TriesOfTheModal, Commands, IsSequence
  <1>3. GatewayInv' /\ FileInv'
    BY <1>1, GatewayStays
  <1>4. "message" \in DOMAIN ui
    BY DEF ModalInv, SessionShape
  <1>5. CASE answer[waiting] \in {"error", "lost"}
    <2>1. DrainEvents(cockpit) /\ ui'.message = Message("failed", waiting)
      BY <1>4, <1>5 DEF ReturnFromSubmit
    <2>2. ChannelInv' /\ Believable(cockpit, Coming)'
      BY <1>1, <2>1, DrainIsBelieved DEF EvidenceInv, CockpitInv
    <2>3. MessageInv'
      BY <1>1, <1>2, <2>1 DEF MessageInv, Message, EffectStatuses, RefusalStatuses
    <2>4. QED
      BY <1>1, <1>3, <2>2, <2>3 DEF EvidenceInv, CockpitInv
  <1>6. CASE answer[waiting] \notin {"error", "lost"}
    <2> DEFINE events == SubmissionEvents(waiting)
               status == SubmissionStatus(waiting)
    <2>1. DrainEvents(ReduceAll(cockpit, events)) /\ ui'.message = Message(status, waiting)
      BY <1>4, <1>6 DEF ReturnFromSubmit, Answered, CloseDangerousModal, ModalInv, SessionShape
    <2>2. waiting \in logged
      BY <1>1, <1>2, <1>6 DEF EvidenceInv, GatewayInv
    <2>3. /\ IsSequence(events) /\ InOrder(events)
          /\ \A k \in DOMAIN events : events[k] \in {Decided(waiting), Recorded(waiting)}
          /\ AuthorityId(waiting) \in Coming => AuthorityId(waiting) \in Ids(events)
      BY <2>2, SubmissionIsEvidence DEF EvidenceInv
    <2> HIDE DEF events, status
    <2>4. Ids(events) \subseteq {AuthorityId(waiting), AuditId(waiting)}
      BY <2>3, EvidenceIds DEF Ids
    <2>5. Believable(cockpit, Coming \union Ids(events))
      <3>1. Believable(cockpit, Coming) /\ AuditId(waiting) \notin cockpit.seen
        BY <1>1 DEF EvidenceInv, CockpitInv
      <3>2. \A d \in Commands : AuthorityId(d) \in Ids(events) => d = waiting
        BY <2>4, EvidenceIds
      <3>3. QED
        BY <3>1, <3>2 DEF Believable
    <2>6. \A k \in DOMAIN events : events[k] \in Evidence
      BY <2>2, <2>3 DEF Evidence
    <2>7. \A d \in Commands : AuditId(d) \in Ids(events) /\ AuthorityId(d) \in Coming =>
                               AuthorityId(d) \in Ids(events)
      BY <2>3, <2>4, EvidenceIds
    <2>8. Believable(ReduceAll(cockpit, events), Coming)
      BY <2>3, <2>5, <2>6, <2>7, BelievableFold DEF EvidenceInv
    <2>9. ChannelInv' /\ Believable(cockpit, Coming)'
      BY <1>1, <2>1, <2>8, DrainIsBelieved DEF EvidenceInv
    <2>10. MessageInv'
      <3>1. /\ status \in EffectStatuses => waiting \in acted
            /\ status \in RefusalStatuses => waiting \notin acted
            /\ status = "accepted" /\ waiting \in acted =>
                 \A k \in DOMAIN file : file[k].event_id # AuditId(waiting)
        BY <1>1, <1>2, <1>6, StatusTellsTheTruth DEF status
      <3>2. UNCHANGED << sent, answer, acted, file >>
        BY <1>1 DEF gateway
      <3>3. ui'.message.command = waiting /\ ui'.message.kind = status
        BY <2>1 DEF Message
      <3>4. QED
        BY <1>1, <1>2, <1>6, <3>1, <3>2, <3>3 DEF MessageInv
    <2>11. QED
      BY <1>1, <1>3, <2>9, <2>10 DEF EvidenceInv, CockpitInv
  <1>7. QED
    BY <1>5, <1>6

\* One more event in the channel.
LEMMA SequenceAppend ==
  ASSUME NEW s, IsSequence(s), NEW e
  PROVE  /\ IsSequence(Append(s, e)) /\ DOMAIN Append(s, e) = 1..(Len(s) + 1) /\ Len(s) \in Nat
         /\ DOMAIN s = 1..Len(s)
         /\ Append(s, e)[Len(s) + 1] = e /\ \A k \in 1..Len(s) : Append(s, e)[k] = s[k]
  <1> DEFINE S == {s[k] : k \in DOMAIN s}
  <1>1. s \in Seq(S)
    BY DEF IsSequence
  <1> HIDE DEF S
  <1>2. Append(s, e) \in Seq(S \union {e})
    BY <1>1
  <1>3. IsSequence(Append(s, e))
    BY <1>2, SequenceOfSome
  <1>4. QED
    BY <1>1, <1>3

\* Other news come in at the end of the channel.
LEMMA PublishKeepsEvidence ==
  ASSUME ModalInv, EvidenceInv, PublishNews
  PROVE  EvidenceInv'
  <1>1. PICK event \in cli.news : channel' = Append(channel, event)
    BY DEF PublishNews
  <1>2. UNCHANGED << ui, waiting, sent, cockpit, gateway, followed >>
    BY DEF PublishNews, session
  <1>3. IsNews(event)
    BY SessionAssumption DEF ModalInv, SessionShape, IsNews
  <1>4. GatewayInv' /\ FileInv'
    BY <1>2, GatewayStays
  <1>5. UNCHANGED << verdict, acted, logged, answer, outcome, file >>
    BY <1>2 DEF gateway
  <1>6. /\ IsSequence(channel') /\ DOMAIN channel' = 1..(Len(channel) + 1) /\ Len(channel) \in Nat
        /\ DOMAIN channel = 1..Len(channel)
        /\ channel'[Len(channel) + 1] = event /\ \A k \in DOMAIN channel : channel'[k] = channel[k]
    BY <1>1, SequenceAppend DEF EvidenceInv, ChannelInv
  <1>7. \A k \in DOMAIN channel' : k \in DOMAIN channel \/ (k = Len(channel) + 1 /\ channel'[k] = event)
    BY <1>6
  <1>8. InOrder(channel)'
    <2>1. ASSUME NEW i \in DOMAIN channel', NEW j \in DOMAIN channel', NEW c \in Commands,
                 channel'[i].event_id = AuthorityId(c), channel'[j].event_id = AuditId(c)
          PROVE  i < j
      <3>1. i \in DOMAIN channel /\ j \in DOMAIN channel
        BY <1>3, <1>7, <2>1, EvidenceIds
      <3>2. QED
        BY <1>6, <2>1, <3>1 DEF EvidenceInv, ChannelInv, InOrder
    <2>2. QED
      BY <2>1 DEF InOrder
  <1>9. \A k \in DOMAIN channel' : IsNews(channel'[k]) \/ \E j \in 1..followed : channel'[k] = file[j]
    <2>1. \A k \in DOMAIN channel : IsNews(channel[k]) \/ \E j \in 1..followed : channel[k] = file[j]
      BY DEF EvidenceInv, ChannelInv
    <2>2. QED
      BY <1>3, <1>6, <1>7, <2>1
  <1>10. ChannelInv'
    BY <1>2, <1>5, <1>6, <1>8, <1>9 DEF ChannelInv
  <1>11. \A c \in Commands : AuthorityId(c) \in Coming' => AuthorityId(c) \in Coming
    <2>1. \A id \in Coming' : id \in Coming \/ id = event.event_id
      BY <1>2, <1>5, <1>6, <1>7 DEF Coming
    <2>2. QED
      BY <1>3, <2>1, EvidenceIds
  <1>12. CockpitInv'
    BY <1>2, <1>5, <1>11 DEF EvidenceInv, CockpitInv, Believable, CockpitShape, ViewSettled, ControlsInForce
  <1>13. MessageInv'
    BY <1>2, <1>5 DEF EvidenceInv, MessageInv
  <1>14. QED
    BY <1>4, <1>10, <1>12, <1>13 DEF EvidenceInv

\* The next line of the audit file goes to the channel.
LEMMA FollowKeepsEvidence ==
  ASSUME ModalInv, EvidenceInv, FollowAudit
  PROVE  EvidenceInv'
  <1> DEFINE line == file[followed + 1]
  <1>1. /\ UNCHANGED << ui, waiting, sent, cockpit, verdict, acted, logged, answer, outcome, file >>
        /\ followed' = followed + 1 /\ followed < Len(file)
        /\ channel' = channel \/ channel' = Append(channel, line)
    BY DEF FollowAudit, session, gateway
  <1>2. GatewayInv'
    BY <1>1 DEF EvidenceInv, GatewayInv
  <1>3. Evidence' = Evidence
    BY <1>1 DEF Evidence, Decided, Recorded
  <1>4. Len(file) \in Nat /\ DOMAIN file = 1..Len(file) /\ followed \in 0..Len(file)
    BY DEF EvidenceInv, FileInv
  <1>5. FileInv'
    BY <1>1, <1>3, <1>4 DEF EvidenceInv, FileInv, InOrder
  <1>6. IsSequence(channel) /\ InOrder(channel)
        /\ \A k \in DOMAIN channel : IsNews(channel[k]) \/ \E j \in 1..followed : channel[k] = file[j]
    BY DEF EvidenceInv, ChannelInv
  <1>7. 1..followed \subseteq 1..followed' /\ followed + 1 \in 1..followed' /\ followed + 1 \in DOMAIN file
    BY <1>1, <1>4
  <1>8. ChannelInv'
    <2>1. CASE channel' = channel
      BY <1>1, <1>6, <1>7, <2>1 DEF ChannelInv, InOrder
    <2>2. CASE channel' = Append(channel, line)
      <3> HIDE DEF line
      <3>1. /\ IsSequence(channel') /\ DOMAIN channel' = 1..(Len(channel) + 1) /\ Len(channel) \in Nat
            /\ DOMAIN channel = 1..Len(channel)
            /\ channel'[Len(channel) + 1] = line /\ \A k \in DOMAIN channel : channel'[k] = channel[k]
        BY <1>6, <2>2, SequenceAppend
      <3>2. \A k \in DOMAIN channel' : k \in DOMAIN channel \/ (k = Len(channel) + 1 /\ channel'[k] = line)
        BY <3>1
      <3>3. InOrder(channel')
        <4>1. ASSUME NEW i \in DOMAIN channel', NEW j \in DOMAIN channel', NEW c \in Commands,
                     channel'[i].event_id = AuthorityId(c), channel'[j].event_id = AuditId(c)
              PROVE  i < j
          <5>1. CASE i \in DOMAIN channel /\ j \in DOMAIN channel
            BY <1>6, <3>1, <4>1, <5>1 DEF InOrder
          <5>2. CASE i \in DOMAIN channel /\ j \notin DOMAIN channel
            BY <3>1, <3>2, <5>2
          <5>3. CASE i \notin DOMAIN channel
            <6>1. line.event_id = AuthorityId(c)
              BY <3>2, <4>1, <5>3
            <6>2. j \in DOMAIN channel /\ channel[j].event_id = AuditId(c)
              BY <3>1, <3>2, <4>1, <6>1, EvidenceIds
            <6>3. PICK k \in 1..followed : channel[j] = file[k]
              BY <1>6, <6>2, EvidenceIds
            <6>4. k \in DOMAIN file
              BY <1>4
            <6>5. followed + 1 < k
              BY <1>7, <6>1, <6>2, <6>3, <6>4 DEF EvidenceInv, FileInv, InOrder, line
            <6>6. QED
              BY <1>4, <6>5
          <5>4. QED
            BY <5>1, <5>2, <5>3
        <4>2. QED
          BY <4>1 DEF InOrder
      <3>4. \A k \in DOMAIN channel' : IsNews(channel'[k]) \/ \E j \in 1..followed' : channel'[k] = file[j]
        BY <1>6, <1>7, <3>1, <3>2 DEF line
      <3>5. InOrder(channel)'
        BY <3>3 DEF InOrder
      <3>6. QED
        BY <1>1, <3>1, <3>4, <3>5 DEF ChannelInv
    <2>3. QED
      BY <1>1, <2>1, <2>2
  <1>9. Coming' \subseteq Coming
    <2>1. {channel'[k].event_id : k \in DOMAIN channel'} \subseteq
            {channel[k].event_id : k \in DOMAIN channel} \union {line.event_id}
      <3>1. CASE channel' = channel
        BY <3>1
      <3>2. CASE channel' = Append(channel, line)
        <4> HIDE DEF line
        <4>1. \A k \in DOMAIN channel' :
                (k \in DOMAIN channel /\ channel'[k] = channel[k]) \/ channel'[k] = line
          BY <1>6, <3>2, SequenceAppend
        <4>2. QED
          BY <4>1
      <3>3. QED
        BY <1>1, <3>1, <3>2
    <2>2. line.event_id \in Coming
      BY <1>1, <1>4 DEF Coming
    <2>3. (followed' + 1)..Len(file) \subseteq (followed + 1)..Len(file)
      BY <1>1, <1>4
    <2>4. {file[j].event_id : j \in (followed' + 1)..Len(file)} \subseteq Coming
      BY <2>3 DEF Coming
    <2> HIDE DEF line
    <2>5. Coming' = {channel'[k].event_id : k \in DOMAIN channel'}
                      \union {file[j].event_id : j \in (followed' + 1)..Len(file)}
      BY <1>1 DEF Coming
    <2>6. {channel[k].event_id : k \in DOMAIN channel} \subseteq Coming
      BY DEF Coming
    <2>7. QED
      BY <2>1, <2>2, <2>4, <2>5, <2>6
  <1>10. CockpitInv'
    BY <1>1, <1>9 DEF EvidenceInv, CockpitInv, Believable, CockpitShape, ViewSettled, ControlsInForce
  <1>11. MessageInv'
    BY <1>1 DEF EvidenceInv, MessageInv
  <1>12. QED
    BY <1>2, <1>5, <1>8, <1>10, <1>11 DEF EvidenceInv

-----------------------------------------------------------------------------
(* The modes of the screen.                                                *)

\* At most one of modal, palette and search is open.
UiInv ==
  /\ ui.search_active \in BOOLEAN /\ ui.command_palette_active \in BOOLEAN
  /\ ui.screen \in Screens /\ ui.index \in [Indexed -> Nat]
  /\ ModalOpen => ~ ui.command_palette_active /\ ~ ui.search_active
  /\ ~ (ui.command_palette_active /\ ui.search_active)

\* A key opens at most one of modal, palette and search.
LEMMA KeysKeepUi ==
  ASSUME ModalInv, CockpitShape(cockpit), UiInv, Operator \/ Timeout
  PROVE  UiInv'
  <1>1. DOMAIN ui = Fields /\ ui.index \in [Indexed -> Nat] /\ NoSelection \in [Indexed -> Nat]
        /\ cli.pages \subseteq Screens
    BY SessionAssumption DEF ModalInv, SessionShape, Fields, UiInv, NoSelection
  <1> USE DEF Fields, Key, Turn
  <1>2. CASE GoTo
    BY <1>1, <1>2 DEF GoTo, UiInv, ModalOpen
  <1>3. CASE Move
    <2> DEFINE place == IndexOf(ui.screen)
               n == Len(Visible(ui.screen, Table(ui.screen), ui.query))
               here == ui.index[place]
    <2>1. place \in Indexed
      BY <1>3 DEF Move, IndexOf, Indexed
    <2>2. n \in Nat
      BY TableLength
    <2> HIDE DEF n, place
    <2>3. here \in Nat
      BY <1>1, <2>1
    <2> HIDE DEF here
    <2>4. NextIndex(here, n) \in Nat /\ PreviousIndex(here) \in Nat
      BY <2>2, <2>3 DEF NextIndex, PreviousIndex
    <2>5. PICK next \in {NextIndex(here, n), PreviousIndex(here)} :
            ui' = [ui EXCEPT !.index = [ui.index EXCEPT ![place] = next]]
      BY <1>3 DEF Move, here, n, place
    <2>6. [ui.index EXCEPT ![place] = next] \in [Indexed -> Nat]
      BY <1>1, <2>1, <2>4
    <2>7. QED
      BY <1>1, <2>5, <2>6 DEF UiInv, ModalOpen
  <1>4. CASE BeginSearch \/ EditSearch \/ CloseSearch
    BY <1>1, <1>4 DEF BeginSearch, EditSearch, CloseSearch, NormalMode, UiInv, ModalOpen
  <1>5. ASSUME NEW payload, Open(payload)
        PROVE  UiInv'
    BY <1>1, <1>5 DEF Open, OpenCommandModal, NormalMode, UiInv, ModalOpen
  <1>6. CASE OpenForRow \/ OpenGlobalKill
    BY <1>5, <1>6 DEF OpenForRow, OpenGlobalKill
  <1>7. CASE OpenSelectedEvent
    <2>1. PICK page \in {"Orders", "Strategies"} :
            Key(IF SelectedRow = NoRow THEN [ui EXCEPT !.message = NoMessage]
                ELSE [ui EXCEPT !.query = IF page = "Orders" THEN SelectedRow.chain ELSE SelectedRow.strategy,
                                !.index[page] = 0, !.screen = page])
      BY <1>7 DEF OpenSelectedEvent
    <2>2. page \in Screens /\ page \in Indexed
      BY DEF Screens, Indexed
    <2>3. [ui.index EXCEPT ![page] = 0] \in [Indexed -> Nat]
      BY <1>1, <2>2
    <2>4. CASE SelectedRow = NoRow
      BY <1>1, <2>1, <2>4 DEF UiInv, ModalOpen
    <2>5. CASE SelectedRow # NoRow
      <3>1. /\ ui'.index = [ui.index EXCEPT ![page] = 0] /\ ui'.screen = page
            /\ ui'.search_active = ui.search_active
            /\ ui'.command_palette_active = ui.command_palette_active
            /\ ui'.dangerous_action = ui.dangerous_action
        BY <1>1, <2>1, <2>5
      <3>2. QED
        BY <2>2, <2>3, <3>1 DEF UiInv, ModalOpen
    <2>6. QED
      BY <2>4, <2>5
  <1>8. CASE BeginCommandPalette \/ CloseCommandPalette
    BY <1>1, <1>8 DEF BeginCommandPalette, CloseCommandPalette, NormalMode, UiInv, ModalOpen
  <1>9. CASE SubmitCommandPalette
    BY <1>1, <1>9 DEF SubmitCommandPalette, OpenCommandModal, PaletteLeft, UiInv, ModalOpen
  <1>10. CASE CloseModal \/ TypeConfirmation \/ RefuseSubmission
    BY <1>1, <1>10 DEF CloseModal, TypeConfirmation, RefuseSubmission, CloseDangerousModal, UiInv, ModalOpen
  <1>11. CASE Submit \/ Quit \/ Timeout
    BY <1>1, <1>11 DEF Submit, Quit, Timeout, UiInv, ModalOpen
  <1>12. QED
    BY <1>2, <1>3, <1>4, <1>6, <1>7, <1>8, <1>9, <1>10, <1>11 DEF Operator

\* A submission that returns opens nothing.
LEMMA ReturnKeepsUi ==
  ASSUME ModalInv, UiInv, ReturnFromSubmit
  PROVE  UiInv'
  BY DEF ReturnFromSubmit, Answered, CloseDangerousModal, ModalInv, SessionShape, UiInv, ModalOpen

-----------------------------------------------------------------------------
(* The theorems.                                                           *)

\* Every step preserves the invariants of evidence and screen.
LEMMA StepKeepsEvidence ==
  ASSUME ModalInv, EvidenceInv, UiInv, [Next]_vars
  PROVE  EvidenceInv' /\ UiInv'
  <1>1. CASE Operator \/ Timeout
    <2>1. EvidenceInv'
      BY <1>1, KeysKeepEvidence, SubmitKeepsEvidence DEF Operator
    <2>2. UiInv'
      BY <1>1, KeysKeepUi DEF EvidenceInv, CockpitInv, Believable
    <2>3. QED
      BY <2>1, <2>2
  <1>2. CASE ReturnFromSubmit
    BY <1>2, ReturnKeepsEvidence, ReturnKeepsUi
  <1>3. CASE Gateway \/ PublishNews \/ FollowAudit
    <2>1. EvidenceInv'
      BY <1>3, JudgeKeepsEvidence, ActKeepsEvidence, LogKeepsEvidence, AnswerKeepsEvidence,
         PublishKeepsEvidence, FollowKeepsEvidence DEF Gateway
    <2>2. UNCHANGED ui
      BY <1>3 DEF Gateway, PublishNews, FollowAudit, JudgeCommand, ActOnCommand, LogCommand,
                  AnswerCommand, LoseAnswer, GatewayStep, session
    <2>3. QED
      BY <2>1, <2>2 DEF UiInv, ModalOpen
  <1>4. CASE UNCHANGED vars
    <2>1. UNCHANGED << ui, waiting, sent, cockpit, channel, verdict, acted, logged, answer, outcome, file, followed >>
      BY <1>4 DEF vars, session, gateway
    <2>2. Evidence' = Evidence
      BY <2>1 DEF Evidence, Decided, Recorded
    <2>3. GatewayInv' /\ FileInv' /\ ChannelInv' /\ MessageInv'
      BY <2>1, <2>2 DEF EvidenceInv, GatewayInv, FileInv, ChannelInv, InOrder, MessageInv
    <2>4. CockpitInv'
      BY <2>1 DEF EvidenceInv, CockpitInv, Coming, Believable, CockpitShape, ViewSettled, ControlsInForce
    <2>5. UiInv'
      BY <2>1 DEF UiInv, ModalOpen
    <2>6. QED
      BY <2>3, <2>4, <2>5 DEF EvidenceInv
  <1>5. QED
    BY <1>1, <1>2, <1>3, <1>4 DEF Next

\* What the cockpit knows of commands, and the modes of its screen, are consistent
\* with the gateway and its audit file in every reachable state.
THEOREM EvidenceInvariant == Spec => [](ModalInv /\ EvidenceInv /\ UiInv)
  <1>1. Init => EvidenceInv /\ UiInv
    <2>1. Init => UiInv
      BY DEF Init, UiInv, ModalOpen, NoSelection, Screens
    <2>2. QED
      BY <2>1, InitEvidence
  <1>2. ModalInv /\ (EvidenceInv /\ UiInv) /\ [Next]_vars => (EvidenceInv /\ UiInv)'
    BY StepKeepsEvidence
  <1>3. QED
    BY <1>1, <1>2, ModalInvariant, PTL DEF Spec

\* Every variable has its type, and the modal, the palette and the search are
\* never open together.
THEOREM TypeCorrect == Spec => []TypeOK
  <1>1. ModalInv /\ EvidenceInv /\ UiInv => TypeOK
    <2> SUFFICES ASSUME ModalInv, EvidenceInv, UiInv PROVE TypeOK
      OBVIOUS
    <2>1. acted \subseteq 1..Len(sent)
      BY DEF EvidenceInv, GatewayInv, G!Verdicts
    <2>2. followed <= Len(file)
      BY DEF EvidenceInv, FileInv
    <2>3. \A c \in Commands : outcome[c] \in Statuses \union {None}
      BY DEF EvidenceInv, GatewayInv
    <2>4. cli \in Sessions /\ tries \subseteq 1..Len(sent)
          /\ waiting \in {0, Len(sent)} /\ (waiting # 0 => ModalOpen)
      BY DEF ModalInv, SessionShape, TriesOfTheModal
    <2>5. QED
      BY <2>1, <2>2, <2>3, <2>4 DEF TypeOK, UiInv
  <1>2. QED
    BY <1>1, EvidenceInvariant, PTL

\* Once its audit event is reduced, a command shows its outcome: neither its
\* authority event nor a second copy of either puts the status back.
THEOREM OutcomeStaysShown == Spec => []StatusIsTheOutcome
  <1>1. EvidenceInv => StatusIsTheOutcome
    BY DEF EvidenceInv, CockpitInv, Believable, ViewSettled, StatusIsTheOutcome, GatewayInv
  <1>2. QED
    BY <1>1, EvidenceInvariant, PTL

\* A kill switch or a control of an account is shown only when a command that sets
\* it took effect outside of the cockpit.
THEOREM ShownControlsTookEffect == Spec => []ShownControlsAreInForce
  <1>1. EvidenceInv => ShownControlsAreInForce
    BY DEF EvidenceInv, CockpitInv, Believable, ControlsInForce, ShownControlsAreInForce
  <1>2. QED
    BY <1>1, EvidenceInvariant, PTL

\* The message after a submission does not contradict what became of the command.
THEOREM MessagesTellTheTruth == Spec => []MessageTellsTheTruth
  <1>1. EvidenceInv => MessageTellsTheTruth
    BY DEF EvidenceInv, MessageInv, MessageTellsTheTruth, EffectStatuses, RefusalStatuses, AuditId
  <1>2. QED
    BY <1>1, EvidenceInvariant, PTL

\* The two copies of the search agree on the pages with command keys, for any rows:
\* the row that a command key acts on is the highlighted one.
THEOREM CommandsHitTheHighlighted == Spec => []CommandsTargetTheHighlighted
  <1>1. ASSUME NEW screen, NEW table, NEW query, screen # "Events"
        PROVE  Visible(screen, table, query) = Drawn(screen, table, query)
    BY <1>1 DEF Visible, Drawn, AppMatches, RenderMatches
  <1>2. CommandsTargetTheHighlighted
    <2>1. KeyCommands(ui.screen) # {} => ui.screen # "Events"
      BY DEF KeyCommands
    <2>2. QED
      BY <1>1, <2>1 DEF CommandsTargetTheHighlighted, SelectedRow, HighlightedRow, Selected, Highlighted
  <1>3. QED
    BY <1>2, PTL
=============================================================================
