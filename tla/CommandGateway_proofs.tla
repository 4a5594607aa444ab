------------------------ MODULE CommandGateway_proofs ------------------------
(***************************************************************************)
(* Proofs about CommandGateway, for any number of workers, commands and    *)
(* crashes.  GatewayInv is the inductive invariant.                        *)
(***************************************************************************)
EXTENDS CommandGateway, TLAPS

\* A command that a worker was sent is one of Commands.
LEMMA CmdType ==
  ASSUME TypeOK, NEW w \in Workers, taken[w] # 0
  PROVE  Cmd(w) \in Commands
  BY GatewayAssumption DEF TypeOK, Cmd, Commands

\* The gateway starts with nothing sent, launched or written.
LEMMA InitInv == Init => GatewayInv
  <1> SUFFICES ASSUME Init PROVE GatewayInv
    OBVIOUS
  <1>1. TypeOK
    <2>1. DOMAIN audit = {}
      BY DEF Init
    <2>2. taken \in [Workers -> 0..MaxCommands] /\ crashes \in 0..MaxCrashes
      BY GatewayAssumption DEF Init
    <2>3. written \in [Workers -> 0..4]
      BY DEF Init
    <2>4. QED
      BY <2>1, <2>2, <2>3 DEF Init, TypeOK, Statuses, AllRoutes
  <1>2. audit \in Seq({Newline} \union AuditEvents)
    BY DEF Init
  <1>3. FutureUntouched /\ ChildInv
    BY DEF Init, FutureUntouched, ChildInv, Commands
  <1>4. \A w \in Workers : WorkerInv(w) /\ ReplyInv(w)
    BY DEF Init, WorkerInv, ReplyInv
  <1>5. OneWriter /\ AuditReadableUnlessOverlapped /\ AuditTellsTheStory
    BY DEF Init, OneWriter, AuditReadableUnlessOverlapped, AuditTellsTheStory
  <1>6. QED
    BY <1>1, <1>2, <1>3, <1>4, <1>5 DEF GatewayInv

\* What AuditEvent makes is an event, with the fields it was given.
LEMMA EventIsNoNewline ==
  ASSUME NEW c, NEW stage \in {"authority", "audit"}, NEW status
  PROVE  /\ AuditEvent(c, stage, status) # Newline
         /\ AuditEvent(c, stage, status).cmd = c
         /\ AuditEvent(c, stage, status).stage = stage
         /\ AuditEvent(c, stage, status).status = status
  BY DEF AuditEvent, Newline

\* What one write appends.
LEMMA WrittenPiece ==
  ASSUME GatewayInv, NEW w \in Workers, WritePiece(w)
  PROVE  LET c == Cmd(w)
             e == Pieces(w)[written[w] + 1]
         IN  /\ written[w] \in 0..3 /\ c \in Commands
             /\ written[w] = 0 => e = AuditEvent(c, "authority", authority[c])
             /\ written[w] = 2 => e = AuditEvent(c, "audit", reply[w])
             /\ written[w] \in {1, 3} => e = Newline
             /\ e \in {Newline} \union AuditEvents
             /\ audit' \in Seq({Newline} \union AuditEvents)
             /\ Len(audit') = Len(audit) + 1
             /\ \A i \in DOMAIN audit : i \in DOMAIN audit' /\ audit'[i] = audit[i]
             /\ audit'[Len(audit')] = e
             /\ DOMAIN audit' = 1..Len(audit')
             /\ DOMAIN audit = 1..Len(audit)
  <1> DEFINE c == Cmd(w)
             e == Pieces(w)[written[w] + 1]
  <1>1. /\ written[w] \in 0..3 /\ c \in Commands
        /\ reply[w] \in Statuses \ {"none", "error"}
        /\ authority[c] \in {"accepted", "rejected"}
    BY CmdType DEF GatewayInv, WorkerInv, ReplyInv, WritePiece, TypeOK
  <1>2. /\ written[w] = 0 => e = AuditEvent(c, "authority", authority[c])
        /\ written[w] = 2 => e = AuditEvent(c, "audit", reply[w])
        /\ written[w] \in {1, 3} => e = Newline
    BY <1>1 DEF Pieces
  <1>3. e \in {Newline} \union AuditEvents
    <2>1. AuditEvent(c, "authority", authority[c]) \in AuditEvents
      BY <1>1 DEF AuditEvents, AuditEvent, Statuses
    <2>2. AuditEvent(c, "audit", reply[w]) \in AuditEvents
      BY <1>1 DEF AuditEvents, AuditEvent
    <2>3. QED
      BY <1>1, <1>2, <2>1, <2>2
  <1>4. audit' = Append(audit, e) /\ audit \in Seq({Newline} \union AuditEvents)
    BY DEF WritePiece, GatewayInv
  <1> HIDE DEF c, e
  <1>5. /\ audit' \in Seq({Newline} \union AuditEvents)
        /\ Len(audit') = Len(audit) + 1
        /\ \A i \in DOMAIN audit : i \in DOMAIN audit' /\ audit'[i] = audit[i]
        /\ audit'[Len(audit')] = e
        /\ DOMAIN audit' = 1..Len(audit')
        /\ DOMAIN audit = 1..Len(audit)
    BY <1>3, <1>4
  <1>6. QED
    BY <1>1, <1>2, <1>3, <1>5 DEF c, e

\* The steps that take a worker on with its command.
Progress(w) == Work(w) \/ FeedRisk(w) \/ Feed(w) \/ FeedBreaks(w)

\* The steps that do more than keep or release an output.
Moves ==
  \/ \E w \in Workers : Receive(w) \/ Progress(w)
  \/ \E c \in Commands : ChildActs(c) \/ ChildExits(c)
  \/ Crash

\* Every step keeps the types.
LEMMA TypeStep ==
  ASSUME GatewayInv, Moves
  PROVE  TypeOK'
  <1> USE DEF GatewayInv, Goto, Fail, Audit
  <1>1. ASSUME NEW w \in Workers, Receive(w) \/ DecideFails(w)
        PROVE  TypeOK'
    <2>1. CASE Receive(w)
      BY <2>1, GatewayAssumption DEF TypeOK, Receive
    <2>2. CASE DecideFails(w)
      BY <2>2 DEF TypeOK, DecideFails, Statuses
    <2>3. QED
      BY <1>1, <2>1, <2>2
  <1>2. ASSUME NEW w \in Workers,
               Decide(w) \/ FeedRisk(w) \/ CheckRisk(w) \/ CheckRiskFails(w)
        PROVE  TypeOK'
    BY <1>2 DEF TypeOK, Decide, CheckRisk, FeedRisk, CheckRiskFails, Accept, Reject, Statuses
  <1>3. ASSUME NEW w \in Workers,
               \/ DispatchNothing(w) \/ Launch(w) \/ LaunchFails(w) \/ Feed(w) \/ FeedBreaks(w)
               \/ Collect(w) \/ Timeout(w) \/ CollectTimedOut(w)
        PROVE  TypeOK'
    <2>1. CASE DispatchNothing(w)
      BY <2>1 DEF TypeOK, DispatchNothing, Statuses
    <2>2. CASE Launch(w)
      BY <2>2 DEF TypeOK, Launch
    <2>3. CASE LaunchFails(w)
      BY <2>3 DEF TypeOK, LaunchFails, DispatchFailed, Statuses
    <2>4. CASE Collect(w)
      <3> HIDE DEF GatewayInv, Goto, Fail, Audit
      <3>1. Fail(w) \/ \E status \in Statuses : Audit(w, status)
        BY <2>4 DEF Collect, DispatchFailed, Statuses
      <3>2. UNCHANGED << taken, holding, route, authority, child, acted, written, audit,
                         answers, crashes, overlapped >>
        BY <2>4 DEF Collect
      <3>3. QED
        BY <3>1, <3>2 DEF GatewayInv, TypeOK, Goto, Fail, Audit, Statuses
    <2>5. CASE Timeout(w) \/ CollectTimedOut(w)
      BY <2>5 DEF TypeOK, Timeout, CollectTimedOut, DispatchFailed, Statuses
    <2>6. CASE Feed(w) \/ FeedBreaks(w)
      BY <2>6 DEF TypeOK, Feed, FeedBreaks, Statuses
    <2>7. QED
      BY <1>3, <2>1, <2>2, <2>3, <2>4, <2>5, <2>6
  <1>4. ASSUME NEW w \in Workers,
               OpenAudit(w) \/ OpenFails(w) \/ WriteFails(w) \/ Respond(w)
        PROVE  TypeOK'
    BY <1>4 DEF TypeOK, OpenAudit, OpenFails, WriteFails, Respond, Statuses
  <1>5. ASSUME NEW c \in Commands, ChildActs(c) \/ ChildExits(c)
        PROVE  TypeOK'
    <2>1. CASE ChildActs(c)
      BY <2>1 DEF TypeOK, ChildActs
    <2>2. CASE ChildExits(c)
      BY <2>2 DEF TypeOK, ChildExits
    <2>3. QED
      BY <1>5, <2>1, <2>2
  <1>6. CASE Crash
    BY <1>6, GatewayAssumption DEF TypeOK, Crash, Statuses
  <1>7. ASSUME NEW w \in Workers, WritePiece(w)
        PROVE  TypeOK'
    <2>1. \A i \in DOMAIN audit' :
            audit'[i] # Newline => audit'[i].status \in Statuses \ {"none", "error"}
      <3>1. audit' \in Seq({Newline} \union AuditEvents)
        BY <1>7, WrittenPiece
      <3>2. \A e \in AuditEvents : e.status \in Statuses \ {"none", "error"}
        BY DEF AuditEvents
      <3>3. QED
        BY <3>1, <3>2
    <2> written[w] \in 0..3
      BY <1>7, WrittenPiece
    <2>2. written' \in [Workers -> 0..4] /\ pc' \in [Workers ->
            {"idle", "decide", "feed_risk", "risk", "dispatch", "feeding",
             "waiting", "timed_out", "append", "write", "respond"}]
      BY <1>7 DEF TypeOK, WritePiece
    <2>3. QED
      BY <1>7, <2>1, <2>2 DEF TypeOK, WritePiece, Statuses
  <1>8. QED
    BY <1>1, <1>2, <1>3, <1>4, <1>5, <1>6, <1>7 DEF Moves, Progress, Work

\* A worker's step changes nothing of the other workers and their commands.
LEMMA WorkFrame ==
  ASSUME GatewayInv, NEW w \in Workers, Progress(w)
  PROVE  /\ taken' = taken /\ acted' = acted
         /\ pc[w] # "idle" /\ Cmd(w) \in Commands /\ Cmd(w)' = Cmd(w)
         /\ \A c \in Commands : c # Cmd(w) =>
              authority'[c] = authority[c] /\ child'[c] = child[c] /\ answers'[c] = answers[c]
         /\ \A v \in Workers : v # w =>
              /\ pc'[v] = pc[v] /\ written'[v] = written[v] /\ reply'[v] = reply[v]
              /\ Cmd(v)' = Cmd(v) /\ Cmd(v) # Cmd(w)
  <1> USE DEF Goto, Fail, Audit
  <1>1. /\ taken' = taken /\ acted' = acted
        /\ pc[w] # "idle"
    BY DEF Progress, Work, DecideFails, Decide, CheckRisk, FeedRisk, CheckRiskFails, DispatchNothing, Launch, Feed, FeedBreaks,
           LaunchFails, Collect, Timeout, CollectTimedOut, OpenAudit, OpenFails, WritePiece, WriteFails, Respond
  <1>2. Cmd(w) \in Commands
    BY <1>1, CmdType DEF GatewayInv, WorkerInv
  <1>3. \A v \in Workers : Cmd(v)' = Cmd(v) /\ (v # w => Cmd(v) # Cmd(w))
    BY <1>1 DEF Cmd
  <1>4. ASSUME NEW c \in Commands, c # Cmd(w)
        PROVE  authority'[c] = authority[c] /\ child'[c] = child[c] /\ answers'[c] = answers[c]
    BY <1>2, <1>4 DEF GatewayInv, TypeOK,
           Progress, Work, DecideFails, Decide, Accept, Reject, CheckRisk, FeedRisk, CheckRiskFails, DispatchNothing,
           Launch, Feed, FeedBreaks, LaunchFails, Collect, Timeout, CollectTimedOut, DispatchFailed, OpenAudit, OpenFails,
           WritePiece, WriteFails, Respond
  <1>5. ASSUME NEW v \in Workers, v # w
        PROVE  pc'[v] = pc[v] /\ written'[v] = written[v] /\ reply'[v] = reply[v]
    BY <1>5 DEF GatewayInv, TypeOK,
           Progress, Work, DecideFails, Decide, Accept, Reject, CheckRisk, FeedRisk, CheckRiskFails, DispatchNothing,
           Launch, Feed, FeedBreaks, LaunchFails, Collect, Timeout, CollectTimedOut, DispatchFailed, OpenAudit, OpenFails,
           WritePiece, WriteFails, Respond
  <1>6. QED
    BY <1>1, <1>2, <1>3, <1>4, <1>5

\* No step touches a command that was not sent yet.
LEMMA FutureStep ==
  ASSUME GatewayInv, Moves
  PROVE  FutureUntouched'
  <1> SUFFICES ASSUME NEW v \in Workers, NEW k \in 1..MaxCommands, k > taken'[v]
               PROVE  /\ authority'[<< v, k >>] = "none" /\ child'[<< v, k >>] = "none"
                      /\ << v, k >> \notin acted' /\ answers'[<< v, k >>] = "none"
    BY DEF FutureUntouched
  <1> USE DEF GatewayInv, TypeOK, FutureUntouched
  <1>0. << v, k >> \in Commands
    BY DEF Commands
  <1>1. CASE \E w \in Workers : Receive(w)
    <2>1. k > taken[v]
      BY <1>1, GatewayAssumption DEF Receive
    <2>2. QED
      BY <1>1, <2>1 DEF Receive
  <1>2. ASSUME NEW w \in Workers, Progress(w)
        PROVE  /\ authority'[<< v, k >>] = "none" /\ child'[<< v, k >>] = "none"
               /\ << v, k >> \notin acted' /\ answers'[<< v, k >>] = "none"
    <2>1. taken' = taken /\ acted' = acted
      BY <1>2, WorkFrame
    <2>2. << v, k >> # Cmd(w)
      BY <2>1 DEF Cmd
    <2>3. /\ authority'[<< v, k >>] = authority[<< v, k >>]
          /\ child'[<< v, k >>] = child[<< v, k >>]
          /\ answers'[<< v, k >>] = answers[<< v, k >>]
      BY <1>0, <1>2, <2>2, WorkFrame
    <2>4. QED
      BY <2>1, <2>3
  <1>3. CASE \E c \in Commands : ChildActs(c) \/ ChildExits(c)
    BY <1>0, <1>3 DEF ChildActs, ChildExits
  <1>4. CASE Crash
    <2>1. \A w \in Workers : pc[w] # "idle" => << v, k >> # Cmd(w)
      BY <1>4 DEF Crash, Cmd
    <2>2. QED
      BY <1>0, <1>4, <2>1 DEF Crash
  <1>5. QED
    BY <1>1, <1>2, <1>3, <1>4 DEF Moves

\* Where a worker is tells what it has done with its command.
LEMMA WorkerStep ==
  ASSUME GatewayInv, Moves, NEW v \in Workers
  PROVE  WorkerInv(v)'
  <1> USE DEF GatewayInv, TypeOK, WorkerInv, Goto, Fail, Audit
  <1>0. pc[v] # "idle" => Cmd(v) \in Commands
    BY CmdType
  <1>1. ASSUME NEW w \in Workers, Receive(w)
        PROVE  WorkerInv(v)'
    <2>1. /\ taken' = [taken EXCEPT ![w] = taken[w] + 1] /\ pc' = [pc EXCEPT ![w] = "decide"]
          /\ written' = [written EXCEPT ![w] = 0]
          /\ UNCHANGED << authority, child, acted, answers >>
      BY <1>1 DEF Receive
    <2>2. CASE v = w
      <3>1. taken[w] + 1 \in 1..MaxCommands /\ taken[w] + 1 > taken[w]
        BY <1>1, GatewayAssumption DEF Receive
      <3>2. QED
        BY <2>1, <2>2, <3>1 DEF FutureUntouched, Cmd
    <2>3. CASE v # w
      BY <2>1, <2>3 DEF Cmd
    <2>4. QED
      BY <2>2, <2>3
  <1>2. ASSUME NEW w \in Workers, Progress(w)
        PROVE  WorkerInv(v)'
    <2>1. CASE v # w
      BY <1>0, <1>2, <2>1, WorkFrame
    <2>2. CASE v = w
      <3> USE <2>2
      <3>0. Cmd(v)' = Cmd(v) /\ taken' = taken /\ acted' = acted /\ Cmd(v) \in Commands
        BY <1>2, WorkFrame
      <3>1. CASE DecideFails(v) \/ CheckRiskFails(v) \/ FeedRisk(v) \/ FeedBreaks(v)
        BY <3>0, <3>1 DEF DecideFails, CheckRiskFails, FeedRisk, FeedBreaks
      <3>2. CASE Decide(v) \/ CheckRisk(v)
        BY <3>0, <3>2 DEF Decide, CheckRisk, Accept, Reject
      <3>3. CASE DispatchNothing(v) \/ LaunchFails(v)
        BY <3>0, <3>3 DEF DispatchNothing, LaunchFails, DispatchFailed
      <3>4. CASE Launch(v) \/ Feed(v)
        BY <3>0, <3>4 DEF Launch, Feed
      <3>5. CASE Collect(v)
        BY <3>0, <3>5 DEF Collect, DispatchFailed
      <3>6. CASE Timeout(v) \/ CollectTimedOut(v)
        BY <3>0, <3>6 DEF Timeout, CollectTimedOut, DispatchFailed
      <3>7. CASE OpenAudit(v) \/ OpenFails(v) \/ WriteFails(v)
        BY <3>0, <3>7 DEF OpenAudit, OpenFails, WriteFails
      <3>8. CASE WritePiece(v)
        <4>1. written[v] \in 0..3 /\ (written[v] # 3 => written[v] + 1 < 4)
          BY <3>8 DEF WritePiece
        <4>2. QED
          BY <3>0, <3>8, <4>1 DEF WritePiece
      <3>9. CASE Respond(v)
        BY <3>0, <3>9 DEF Respond
      <3>10. QED
        BY <1>2, <3>1, <3>2, <3>3, <3>4, <3>5, <3>6, <3>7, <3>8, <3>9 DEF Progress, Work
    <2>3. QED
      BY <2>1, <2>2
  <1>3. ASSUME NEW c \in Commands, ChildActs(c) \/ ChildExits(c)
        PROVE  WorkerInv(v)'
    <2>1. UNCHANGED << pc, taken, written, authority, answers >> /\ Cmd(v)' = Cmd(v)
      BY <1>3 DEF ChildActs, ChildExits, Cmd
    <2>2. /\ pc[v] \in {"decide", "feed_risk", "risk", "dispatch"} => child'[Cmd(v)] = "none"
          /\ pc[v] = "feeding" => child'[Cmd(v)] = "unread"
          /\ pc[v] \in {"decide", "feed_risk", "risk", "dispatch", "feeding"} => Cmd(v) \notin acted'
      BY <1>0, <1>3 DEF ChildActs, ChildExits
    <2>3. QED
      BY <2>1, <2>2
  <1>4. CASE Crash
    <2>1. \A w \in Workers : w # v => Cmd(w) # Cmd(v)
      BY DEF Cmd
    <2>2. Cmd(v)' = Cmd(v)
      BY <1>4 DEF Crash, Cmd
    <2>3. QED
      BY <1>0, <1>4, <2>1, <2>2 DEF Crash
  <1>5. QED
    BY <1>1, <1>2, <1>3, <1>4 DEF Moves

\* A child runs for a worker that waits for it, or for one that died.
LEMMA ChildStep ==
  ASSUME GatewayInv, Moves
  PROVE  ChildInv'
  <1> USE DEF GatewayInv, TypeOK, Goto, Fail, Audit
  <1>1. ASSUME NEW v \in Workers, NEW k \in 1..MaxCommands, child'[<< v, k >>] = "running"
        PROVE  /\ authority'[<< v, k >>] = "accepted"
               /\ answers'[<< v, k >>] = "lost" \/ (taken'[v] = k /\ pc'[v] = "waiting")
    <2> DEFINE c == << v, k >>
    <2>0. c \in Commands /\ (taken[v] = k <=> Cmd(v) = c) /\ (\A w \in Workers : w # v => Cmd(w) # c)
      BY DEF Commands, Cmd
    <2>1. CASE \E w \in Workers : Receive(w)
      BY <1>1, <2>1 DEF ChildInv, Receive
    <2>2. ASSUME NEW w \in Workers, Progress(w), c # Cmd(w)
          PROVE  /\ authority'[c] = "accepted"
                 /\ answers'[c] = "lost" \/ (taken'[v] = k /\ pc'[v] = "waiting")
      <3>1. /\ authority'[c] = authority[c] /\ child'[c] = child[c] /\ answers'[c] = answers[c]
            /\ taken' = taken
        BY <2>0, <2>2, WorkFrame
      <3>2. v # w => pc'[v] = pc[v]
        BY <2>2, WorkFrame
      <3>3. QED
        <4>1. child[c] = "running"
          BY <1>1, <3>1
        <4>2. authority[c] = "accepted" /\ (answers[c] = "lost" \/ (taken[v] = k /\ pc[v] = "waiting"))
          BY <4>1 DEF ChildInv
        <4>3. taken[v] = k => v # w
          BY <2>0, <2>2
        <4>4. QED
          BY <3>1, <3>2, <4>2, <4>3
    <2>3. ASSUME Progress(v), c = Cmd(v)
          PROVE  /\ authority'[c] = "accepted"
                 /\ answers'[c] = "lost" \/ (taken'[v] = k /\ pc'[v] = "waiting")
      <3> USE <1>1, <2>0, <2>3
      <3> pc[v] # "idle" /\ taken' = taken
        BY WorkFrame
      <3>0. taken[v] = k /\ taken' = taken /\ answers[c] = "none"
        BY DEF WorkerInv
      <3>1. CASE DecideFails(v) \/ CheckRiskFails(v) \/ FeedRisk(v) \/ FeedBreaks(v)
        BY <3>0, <3>1 DEF DecideFails, CheckRiskFails, FeedRisk, FeedBreaks, ChildInv
      <3>2. CASE Decide(v) \/ CheckRisk(v)
        BY <3>0, <3>2 DEF Decide, CheckRisk, Accept, Reject, ChildInv
      <3>3. CASE DispatchNothing(v) \/ LaunchFails(v)
        BY <3>0, <3>3 DEF DispatchNothing, LaunchFails, DispatchFailed, ChildInv
      <3>4. CASE Launch(v) \/ Feed(v)
        BY <3>0, <3>4 DEF Launch, Feed, WorkerInv
      <3>5. CASE Collect(v)
        BY <3>0, <3>5 DEF Collect
      <3>6. CASE Timeout(v)
        BY <3>0, <3>6 DEF Timeout
      <3>7. CASE CollectTimedOut(v)
        <4>1. child' = child /\ child[c] # "running"
          BY <3>0, <3>7 DEF CollectTimedOut, ReplyInv
        <4>2. QED
          BY <4>1
      <3>8. CASE OpenAudit(v) \/ OpenFails(v) \/ WriteFails(v) \/ WritePiece(v)
        BY <3>0, <3>8 DEF OpenAudit, OpenFails, WriteFails, WritePiece, ChildInv
      <3>9. CASE Respond(v)
        BY <3>0, <3>9 DEF Respond, ChildInv
      <3>10. QED
        BY <3>1, <3>2, <3>3, <3>4, <3>5, <3>6, <3>7, <3>8, <3>9 DEF Progress, Work
    <2>4. ASSUME NEW d \in Commands, ChildActs(d) \/ ChildExits(d)
          PROVE  /\ authority'[c] = "accepted"
                 /\ answers'[c] = "lost" \/ (taken'[v] = k /\ pc'[v] = "waiting")
      BY <1>1, <2>0, <2>4 DEF ChildActs, ChildExits, ChildInv
    <2>5. CASE Crash
      BY <1>1, <2>0, <2>5 DEF Crash, ChildInv
    <2>6. QED
      BY <2>0, <2>1, <2>2, <2>3, <2>4, <2>5 DEF Moves
  <1>2. ASSUME NEW c \in Commands
        PROVE  /\ child'[c] = "succeeded" => c \in acted'
               /\ child'[c] = "declined" => c \notin acted'
    <2>1. ASSUME NEW w \in Workers, Receive(w) \/ Progress(w)
          PROVE  acted' = acted /\ child'[c] \in {child[c], "unread", "running", "killed"}
      BY <2>1 DEF Receive, Progress, Work, DecideFails, Decide, CheckRisk, FeedRisk, CheckRiskFails, DispatchNothing, Launch, Feed, FeedBreaks,
           LaunchFails, Collect, Timeout, CollectTimedOut, OpenAudit, OpenFails, WritePiece, WriteFails, Respond
    <2>2. ASSUME NEW d \in Commands, ChildActs(d) \/ ChildExits(d)
          PROVE  /\ child'[c] = "succeeded" => c \in acted'
                 /\ child'[c] = "declined" => c \notin acted'
      BY <2>2 DEF ChildActs, ChildExits, ChildInv
    <2>3. CASE Crash
      BY <2>3 DEF Crash, ChildInv
    <2>4. QED
      BY <2>1, <2>2, <2>3 DEF Moves, ChildInv
  <1>3. QED
    BY <1>1, <1>2 DEF ChildInv

\* Only WritePiece touches the audit file, and it only appends.
LEMMA AuditGrows ==
  ASSUME GatewayInv, Moves
  PROVE  /\ \A i \in DOMAIN audit : i \in DOMAIN audit' /\ audit'[i] = audit[i]
         /\ \A c, stage : InAudit(c, stage) => InAudit(c, stage)'
  <1>1. \A i \in DOMAIN audit : i \in DOMAIN audit' /\ audit'[i] = audit[i]
    <2>1. ASSUME NEW w \in Workers, WritePiece(w)
          PROVE  \A i \in DOMAIN audit : i \in DOMAIN audit' /\ audit'[i] = audit[i]
      BY <2>1, WrittenPiece
    <2>2. (\E w \in Workers : WritePiece(w)) \/ audit' = audit
      BY DEF Moves, Progress, Work, Receive, DecideFails, Decide, CheckRisk, FeedRisk, CheckRiskFails, DispatchNothing,
             Launch, Feed, FeedBreaks, LaunchFails, Collect, Timeout, CollectTimedOut, OpenAudit, OpenFails, WriteFails, Respond,
             ChildActs, ChildExits, Crash
    <2>3. QED
      BY <2>1, <2>2
  <1>2. QED
    BY <1>1 DEF InAudit

\* A worker that has its answer keeps it true until the client has it.
LEMMA ReplyStep ==
  ASSUME GatewayInv, Moves, NEW v \in Workers
  PROVE  ReplyInv(v)'
  <1>0. /\ pc[v] # "idle" => Cmd(v) \in Commands
        /\ ReplyInv(v) /\ WorkerInv(v)
    BY CmdType DEF GatewayInv, WorkerInv
  <1> USE DEF Goto, Fail, Audit
  <1>1. ASSUME NEW w \in Workers, Receive(w)
        PROVE  ReplyInv(v)'
    <2>1. /\ UNCHANGED << reply, child, acted, authority, audit >>
          /\ pc'[w] = "decide"
          /\ w # v => pc'[v] = pc[v] /\ written'[v] = written[v] /\ taken'[v] = taken[v]
      BY <1>1 DEF Receive, GatewayInv, TypeOK
    <2>2. CASE v = w
      BY <2>1, <2>2 DEF ReplyInv
    <2>3. CASE v # w
      BY <1>0, <2>1, <2>3 DEF ReplyInv, Cmd, InAudit
    <2>4. QED
      BY <2>2, <2>3
  <1>2. ASSUME NEW w \in Workers, Progress(w), w # v
        PROVE  ReplyInv(v)'
    <2>1. /\ pc'[v] = pc[v] /\ written'[v] = written[v] /\ reply'[v] = reply[v]
          /\ Cmd(v)' = Cmd(v) /\ acted' = acted
      BY <1>2, WorkFrame
    <2>2. pc[v] # "idle" => authority'[Cmd(v)] = authority[Cmd(v)] /\ child'[Cmd(v)] = child[Cmd(v)]
      BY <1>0, <1>2, WorkFrame
    <2>3. QED
      BY <1>0, <2>1, <2>2, AuditGrows DEF ReplyInv
  <1>3. ASSUME Progress(v)
        PROVE  ReplyInv(v)'
    <2>0. Cmd(v)' = Cmd(v) /\ acted' = acted /\ Cmd(v) \in Commands /\ taken' = taken
      BY <1>3, WorkFrame
    <2> USE <1>0, <2>0
    <2>1. CASE DecideFails(v) \/ CheckRiskFails(v) \/ FeedRisk(v) \/ FeedBreaks(v)
      BY <2>1 DEF DecideFails, CheckRiskFails, FeedRisk, FeedBreaks, ReplyInv, WorkerInv, GatewayInv, TypeOK
    <2>2. CASE Decide(v) \/ CheckRisk(v)
      BY <2>2 DEF Decide, CheckRisk, Accept, Reject, ReplyInv, WorkerInv, GatewayInv, TypeOK
    <2>3. CASE DispatchNothing(v) \/ LaunchFails(v)
      BY <2>3 DEF DispatchNothing, LaunchFails, DispatchFailed, ReplyInv, WorkerInv, GatewayInv, TypeOK
    <2>4. CASE Launch(v) \/ Feed(v)
      BY <2>4 DEF Launch, Feed, ReplyInv, GatewayInv, TypeOK
    <2>5. CASE Collect(v)
      <3>1. /\ child[Cmd(v)] = "succeeded" => Cmd(v) \in acted
            /\ child[Cmd(v)] = "declined" => Cmd(v) \notin acted
        BY DEF GatewayInv, ChildInv
      <3>2. QED
        BY <2>5, <3>1 DEF Collect, DispatchFailed, ReplyInv, WorkerInv, GatewayInv, TypeOK
    <2>6. CASE Timeout(v) \/ CollectTimedOut(v)
      BY <2>6 DEF Timeout, CollectTimedOut, DispatchFailed, ReplyInv, WorkerInv, GatewayInv, TypeOK
    <2>7. CASE OpenAudit(v)
      BY <2>7 DEF OpenAudit, ReplyInv, WorkerInv, GatewayInv, TypeOK
    <2>8. CASE OpenFails(v) \/ WriteFails(v)
      BY <2>8 DEF OpenFails, WriteFails, ReplyInv, GatewayInv, TypeOK
    <2>9. CASE WritePiece(v)
      <3> DEFINE e == Pieces(v)[written[v] + 1]
      <3>1. /\ written[v] \in 0..3
            /\ written[v] = 0 => e = AuditEvent(Cmd(v), "authority", authority[Cmd(v)])
            /\ written[v] = 2 => e = AuditEvent(Cmd(v), "audit", reply[v])
            /\ Len(audit') \in DOMAIN audit' /\ audit'[Len(audit')] = e
        BY <2>9, WrittenPiece
      <3>2. /\ UNCHANGED << reply, child, authority >>
            /\ written'[v] = written[v] + 1
            /\ pc'[v] = IF written[v] = 3 THEN "respond" ELSE "write"
            /\ pc[v] = "write"
        BY <2>9 DEF WritePiece, GatewayInv, TypeOK
      <3>3. written[v] = 0 => \E i \in DOMAIN audit' :
                                 audit'[i] = AuditEvent(Cmd(v), "authority", authority[Cmd(v)])
        BY <3>1
      <3>4. written[v] = 2 => InAudit(Cmd(v), "audit")'
        BY <3>1, EventIsNoNewline DEF InAudit
      <3>5. written[v] = 3 => InAudit(Cmd(v), "authority")
        BY <3>2, EventIsNoNewline DEF InAudit, ReplyInv
      <3> HIDE DEF e
      <3>6. written[v] >= 1 => \E i \in DOMAIN audit' :
                                 audit'[i] = AuditEvent(Cmd(v), "authority", authority[Cmd(v)])
        BY <3>2, AuditGrows DEF ReplyInv
      <3>7. written[v] = 3 => InAudit(Cmd(v), "audit")
        BY <3>2 DEF ReplyInv
      <3>8. QED
        BY <3>1, <3>2, <3>3, <3>4, <3>5, <3>6, <3>7, AuditGrows DEF ReplyInv
    <2>10. CASE Respond(v)
      BY <2>10 DEF Respond, ReplyInv, GatewayInv, TypeOK
    <2>11. QED
      BY <1>3, <2>1, <2>2, <2>3, <2>4, <2>5, <2>6, <2>7, <2>8, <2>9, <2>10 DEF Progress, Work
  <1>4. ASSUME NEW c \in Commands, ChildActs(c) \/ ChildExits(c)
        PROVE  ReplyInv(v)'
    <2>1. /\ UNCHANGED << pc, reply, authority, written, audit >> /\ Cmd(v)' = Cmd(v)
          /\ child[c] = "running"
      BY <1>4 DEF ChildActs, ChildExits, Cmd
    <2>2. pc[v] # "idle" /\ Cmd(v) # c =>
            child'[Cmd(v)] = child[Cmd(v)] /\ (Cmd(v) \in acted' <=> Cmd(v) \in acted)
      BY <1>0, <1>4 DEF ChildActs, ChildExits, GatewayInv, TypeOK
    <2>3. QED
      BY <1>0, <2>1, <2>2 DEF ReplyInv, InAudit
  <1>5. CASE Crash
    <2>1. /\ UNCHANGED << taken, reply, authority, child, acted, written, audit >>
          /\ pc'[v] \in {pc[v], "idle"}
      BY <1>5 DEF Crash
    <2>2. QED
      BY <1>0, <2>1 DEF ReplyInv, InAudit, Cmd
  <1>6. QED
    BY <1>1, <1>2, <1>3, <1>4, <1>5 DEF Moves

\* Appends that do not overlap leave at most one line open, in its writer's hands.
LEMMA WriterStep ==
  ASSUME GatewayInv, Moves
  PROVE  OneWriter'
  <1> USE DEF Goto, Fail, Audit
  <1> SUFFICES ASSUME ~ overlapped'
      PROVE /\ \A v, w \in Workers : pc'[v] = "write" /\ pc'[w] = "write" => v = w
            /\ audit' # << >> /\ audit'[Len(audit')] # Newline =>
                 \E w \in Workers : pc'[w] = "write" /\ written'[w] \in {1, 3}
    BY DEF OneWriter, Newline
  <1>1. ~ overlapped
    BY DEF Moves, Progress, Work, Receive, DecideFails, Decide, CheckRisk, FeedRisk, CheckRiskFails, DispatchNothing,
           Launch, Feed, FeedBreaks, LaunchFails, Collect, Timeout, CollectTimedOut, OpenAudit, OpenFails, WritePiece, WriteFails,
           Respond, ChildActs, ChildExits, Crash
  <1>2. /\ \A v, w \in Workers : pc[v] = "write" /\ pc[w] = "write" => v = w
        /\ audit # << >> /\ audit[Len(audit)] # Newline =>
             \E w \in Workers : pc[w] = "write" /\ written[w] \in {1, 3}
    BY <1>1 DEF GatewayInv, OneWriter
  <1>3. CASE \E w \in Workers : WritePiece(w)
    <2>1. PICK w \in Workers : WritePiece(w)
      BY <1>3
    <2>2. /\ written[w] \in 0..3 /\ pc[w] = "write"
          /\ written[w] \in {1, 3} => audit'[Len(audit')] = Newline
          /\ written'[w] = written[w] + 1
          /\ pc'[w] = IF written[w] = 3 THEN "respond" ELSE "write"
          /\ \A v \in Workers : v # w => pc'[v] = pc[v]
      BY <2>1, WrittenPiece DEF WritePiece, GatewayInv, TypeOK
    <2>3. QED
      BY <1>2, <2>2
  <1>4. CASE \E w \in Workers : OpenAudit(w)
    <2>1. PICK w \in Workers : OpenAudit(w)
      BY <1>4
    <2>2. /\ \A v \in Workers : v # w => pc[v] # "write" /\ pc'[v] = pc[v]
          /\ audit' = audit /\ written' = written /\ pc[w] = "append"
      BY <2>1 DEF OpenAudit, GatewayInv, TypeOK
    <2>3. QED
      BY <1>2, <2>2
  <1>5. CASE (\E w \in Workers : WriteFails(w)) \/ Crash
    <2>1. \A w \in Workers : pc'[w] = "write" => pc[w] = "write"
      BY <1>5 DEF WriteFails, Crash, GatewayInv, TypeOK
    <2>2. \A w \in Workers : pc[w] = "write" => pc'[w] = "write"
      <3>1. ~ \E w \in Workers : WriteFails(w)
        BY DEF WriteFails
      <3>2. CASE Crash
        BY <3>2 DEF Crash
      <3>3. QED
        BY <1>5, <3>1, <3>2
    <2>3. audit' = audit /\ written' = written
      BY <1>5 DEF WriteFails, Crash
    <2>4. QED
      BY <1>2, <2>1, <2>2, <2>3
  <1>6. CASE \E w \in Workers : Receive(w)
    <2>1. /\ \A w \in Workers : (pc'[w] = "write" <=> pc[w] = "write") /\
                                (pc[w] = "write" => written'[w] = written[w])
          /\ audit' = audit
      BY <1>6 DEF Receive, GatewayInv, TypeOK
    <2>2. QED
      BY <1>2, <2>1
  <1>7. ASSUME NEW w \in Workers,
               \/ DecideFails(w) \/ Decide(w) \/ FeedRisk(w) \/ CheckRisk(w) \/ CheckRiskFails(w)
               \/ DispatchNothing(w) \/ Launch(w) \/ Feed(w) \/ FeedBreaks(w)
               \/ LaunchFails(w) \/ Collect(w) \/ Timeout(w) \/ CollectTimedOut(w)
               \/ OpenFails(w) \/ Respond(w)
        PROVE  /\ \A v \in Workers : pc'[v] = "write" <=> pc[v] = "write"
               /\ audit' = audit /\ written' = written
    BY <1>7 DEF DecideFails, Decide, CheckRisk, FeedRisk, CheckRiskFails, Accept, Reject, DispatchNothing, Launch,
           Feed, FeedBreaks, LaunchFails, Collect, Timeout, CollectTimedOut, DispatchFailed, OpenFails, Respond, GatewayInv, TypeOK
  <1>8. ASSUME NEW c \in Commands, ChildActs(c) \/ ChildExits(c)
        PROVE  UNCHANGED << pc, audit, written >>
    BY <1>8 DEF ChildActs, ChildExits
  <1>9. QED
    BY <1>2, <1>3, <1>4, <1>5, <1>6, <1>7, <1>8 DEF Moves, Progress, Work

\* A write goes after a whole line or completes the open one.
LEMMA ReadableStep ==
  ASSUME GatewayInv, Moves
  PROVE  AuditReadableUnlessOverlapped'
  <1> SUFFICES ASSUME ~ overlapped', NEW i \in DOMAIN audit', audit'[i] # Newline
      PROVE Alone(i)'
    BY DEF AuditReadableUnlessOverlapped, Newline
  <1> USE DEF Goto, Fail, Audit
  <1>1. ~ overlapped
    BY DEF Moves, Progress, Work, Receive, DecideFails, Decide, CheckRisk, FeedRisk, CheckRiskFails, DispatchNothing,
           Launch, Feed, FeedBreaks, LaunchFails, Collect, Timeout, CollectTimedOut, OpenAudit, OpenFails, WritePiece, WriteFails,
           Respond, ChildActs, ChildExits, Crash
  <1>2. \A k \in DOMAIN audit : audit[k] # Newline => Alone(k)
    BY <1>1 DEF GatewayInv, AuditReadableUnlessOverlapped
  <1>3. CASE audit' = audit
    BY <1>2, <1>3 DEF Alone, Newline
  <1>4. ASSUME NEW w \in Workers, WritePiece(w)
        PROVE  Alone(i)'
    <2>0. pc[w] = "write" /\ Len(audit) \in Nat
      BY <1>4 DEF WritePiece, GatewayInv
    <2>1. /\ written[w] \in 0..3
          /\ written[w] \in {1, 3} => audit'[Len(audit')] = Newline
          /\ Len(audit') = Len(audit) + 1
          /\ DOMAIN audit' = 1..Len(audit') /\ DOMAIN audit = 1..Len(audit)
          /\ \A k \in DOMAIN audit : audit'[k] = audit[k]
      BY <1>4, WrittenPiece
    <2>2. written[w] \in {0, 2} => audit = << >> \/ audit[Len(audit)] = Newline
      BY <1>1, <2>0, <2>1 DEF GatewayInv, OneWriter
    <2>3. CASE i = Len(audit')
      <3>1. written[w] \in {0, 2}
        BY <2>0, <2>1, <2>3
      <3>2. i = 1 \/ audit'[i - 1] = Newline
        BY <2>0, <2>1, <2>2, <2>3, <3>1
      <3>3. QED
        BY <2>3, <3>2 DEF Alone, Newline
    <2>4. CASE i # Len(audit')
      <3>1. i \in DOMAIN audit /\ audit[i] # Newline /\ Alone(i)
        BY <1>2, <2>0, <2>1, <2>4
      <3>2. i = 1 \/ audit'[i - 1] = Newline
        BY <2>0, <2>1, <3>1 DEF Alone
      <3>3. i # Len(audit) => audit'[i + 1] = Newline
        BY <2>0, <2>1, <3>1 DEF Alone
      <3>4. i = Len(audit) => audit'[i + 1] = Newline
        BY <2>0, <2>1, <2>2, <3>1
      <3>5. QED
        BY <3>2, <3>3, <3>4 DEF Alone, Newline
    <2>5. QED
      BY <2>3, <2>4
  <1>5. (\E w \in Workers : WritePiece(w)) \/ audit' = audit
    BY DEF Moves, Progress, Work, Receive, DecideFails, Decide, CheckRisk, FeedRisk, CheckRiskFails, DispatchNothing,
           Launch, Feed, FeedBreaks, LaunchFails, Collect, Timeout, CollectTimedOut, OpenAudit, OpenFails, WriteFails, Respond,
           ChildActs, ChildExits, Crash
  <1>6. QED
    BY <1>3, <1>4, <1>5

\* That the event at i, an outcome, is preceded by the decision it follows from.
Told(file, i) ==
  \E j \in 1..(i - 1) :
    /\ file[j] # Newline
    /\ file[j].cmd = file[i].cmd /\ file[j].stage = "authority"
    /\ file[j].status = "rejected" => file[i].status = "rejected"

\* An outcome is written after the decision it follows from.
LEMMA StoryStep ==
  ASSUME GatewayInv, Moves
  PROVE  AuditTellsTheStory'
  <1> SUFFICES ASSUME NEW i \in DOMAIN audit', audit'[i] # Newline, audit'[i].stage = "audit"
      PROVE  Told(audit', i)
    BY DEF AuditTellsTheStory, Told, Newline
  <1>1. \A k \in DOMAIN audit : audit[k] # Newline /\ audit[k].stage = "audit" => Told(audit, k)
    BY DEF GatewayInv, AuditTellsTheStory, Told
  <1>2. CASE audit' = audit
    BY <1>1, <1>2
  <1>3. ASSUME NEW w \in Workers, WritePiece(w)
        PROVE  Told(audit', i)
    <2> DEFINE e == Pieces(w)[written[w] + 1]
    <2>1. /\ written[w] \in 0..3
          /\ written[w] = 0 => e = AuditEvent(Cmd(w), "authority", authority[Cmd(w)])
          /\ written[w] = 2 => e = AuditEvent(Cmd(w), "audit", reply[w])
          /\ written[w] \in {1, 3} => e = Newline
          /\ Len(audit') = Len(audit) + 1 /\ Len(audit) \in Nat
          /\ audit'[Len(audit')] = e
          /\ DOMAIN audit' = 1..Len(audit') /\ DOMAIN audit = 1..Len(audit)
          /\ \A k \in DOMAIN audit : audit'[k] = audit[k]
      BY <1>3, WrittenPiece DEF GatewayInv
    <2> HIDE DEF e
    <2>2. CASE i = Len(audit')
      <3>1. written[w] = 2 /\ e.cmd = Cmd(w) /\ e.status = reply[w]
        BY <2>1, <2>2, EventIsNoNewline
      <3>2. PICK j \in DOMAIN audit : audit[j] = AuditEvent(Cmd(w), "authority", authority[Cmd(w)])
        BY <1>3, <3>1 DEF GatewayInv, ReplyInv, WritePiece
      <3>3. authority[Cmd(w)] = "rejected" => reply[w] = "rejected"
        BY <1>3 DEF GatewayInv, ReplyInv, WritePiece
      <3>4. /\ j \in 1..(i - 1) /\ audit'[j] # Newline
            /\ audit'[j].cmd = Cmd(w) /\ audit'[j].stage = "authority"
            /\ audit'[j].status = authority[Cmd(w)]
        BY <2>1, <2>2, <3>2, EventIsNoNewline
      <3>5. QED
        BY <2>1, <2>2, <3>1, <3>3, <3>4 DEF Told
    <2>3. CASE i # Len(audit')
      <3>1. i \in DOMAIN audit /\ Told(audit, i)
        BY <1>1, <2>1, <2>3
      <3>2. PICK j \in 1..(i - 1) :
              /\ audit[j] # Newline
              /\ audit[j].cmd = audit[i].cmd /\ audit[j].stage = "authority"
              /\ audit[j].status = "rejected" => audit[i].status = "rejected"
        BY <3>1 DEF Told
      <3>3. audit'[j] = audit[j] /\ audit'[i] = audit[i]
        BY <2>1, <3>1
      <3>4. QED
        BY <3>2, <3>3 DEF Told
    <2>4. QED
      BY <2>2, <2>3
  <1>4. (\E w \in Workers : WritePiece(w)) \/ audit' = audit
    BY DEF Moves, Progress, Work, Receive, DecideFails, Decide, CheckRisk, FeedRisk, CheckRiskFails, DispatchNothing,
           Launch, Feed, FeedBreaks, LaunchFails, Collect, Timeout, CollectTimedOut, OpenAudit, OpenFails, WriteFails, Respond,
           ChildActs, ChildExits, Crash
  <1>5. QED
    BY <1>2, <1>3, <1>4

\* Processes that a child left behind change nothing but what they hold.
LEMMA HoldingStep ==
  ASSUME GatewayInv, (\E w \in Workers : HoldOutput(w)) \/ (\E c \in Commands : ReleaseOutput(c))
  PROVE  /\ UNCHANGED << pc, taken, route, authority, reply, child, acted, written, audit,
                         answers, crashes, overlapped >>
         /\ holding' \subseteq Commands
  <1>1. ASSUME NEW w \in Workers, HoldOutput(w)
        PROVE  Cmd(w) \in Commands
    BY <1>1, CmdType DEF HoldOutput, GatewayInv, WorkerInv
  <1>2. QED
    BY <1>1 DEF HoldOutput, ReleaseOutput, GatewayInv, TypeOK

\* GatewayInv holds in every reachable state.
THEOREM InductiveInvariant == Spec => []GatewayInv
  <1>1. Init => GatewayInv
    BY InitInv
  <1>2. GatewayInv /\ [Next]_vars => GatewayInv'
    <2> SUFFICES ASSUME GatewayInv, [Next]_vars PROVE GatewayInv'
      OBVIOUS
    <2>1. CASE Moves
      <3>1. audit' \in Seq({Newline} \union AuditEvents)
        <4>1. ASSUME NEW w \in Workers, WritePiece(w)
              PROVE  audit' \in Seq({Newline} \union AuditEvents)
          BY <4>1, WrittenPiece
        <4>2. (\E w \in Workers : WritePiece(w)) \/ audit' = audit
          BY <2>1 DEF Moves, Progress, Work, Receive, DecideFails, Decide, CheckRisk, FeedRisk, CheckRiskFails,
             DispatchNothing, Launch, Feed, FeedBreaks, LaunchFails, Collect, Timeout, CollectTimedOut, OpenAudit, OpenFails,
             WriteFails, Respond, ChildActs, ChildExits, Crash
        <4>3. QED
          BY <4>1, <4>2 DEF GatewayInv
      <3>2. TypeOK' /\ FutureUntouched' /\ ChildInv' /\ OneWriter'
        BY <2>1, TypeStep, FutureStep, ChildStep, WriterStep
      <3>3. \A w \in Workers : WorkerInv(w)' /\ ReplyInv(w)'
        BY <2>1, WorkerStep, ReplyStep
      <3>4. AuditReadableUnlessOverlapped' /\ AuditTellsTheStory'
        BY <2>1, ReadableStep, StoryStep
      <3>5. QED
        BY <3>1, <3>2, <3>3, <3>4 DEF GatewayInv, AuditEvents, Newline, Commands, Statuses
    <2>2. ASSUME UNCHANGED << pc, taken, route, authority, reply, child, acted, written, audit,
                              answers, crashes, overlapped >>,
                 holding' \subseteq Commands
          PROVE  GatewayInv'
      <3>1. TypeOK' /\ FutureUntouched' /\ ChildInv' /\ OneWriter'
        <4>1. TypeOK'
          BY <2>2 DEF GatewayInv, TypeOK
        <4>2. FutureUntouched' /\ ChildInv'
          BY <2>2 DEF GatewayInv, FutureUntouched, ChildInv
        <4>3. OneWriter'
          BY <2>2 DEF GatewayInv, OneWriter, Newline
        <4>4. QED
          BY <4>1, <4>2, <4>3
      <3>2. \A w \in Workers : WorkerInv(w)' /\ ReplyInv(w)'
        BY <2>2 DEF GatewayInv, WorkerInv, ReplyInv, Cmd, InAudit
      <3>3. AuditReadableUnlessOverlapped' /\ AuditTellsTheStory'
        BY <2>2 DEF GatewayInv, AuditReadableUnlessOverlapped, AuditTellsTheStory, Alone
      <3>4. QED
        BY <2>2, <3>1, <3>2, <3>3 DEF GatewayInv, AuditEvents, Newline, Commands, Statuses
    <2>3. CASE UNCHANGED vars
      BY <2>2, <2>3 DEF vars, GatewayInv, TypeOK
    <2>4. QED
      BY <2>1, <2>2, <2>3, HoldingStep DEF Next, Moves, Progress
  <1>3. QED
    BY <1>1, <1>2, PTL DEF Spec

\* The gateway's state is always well typed.
THEOREM TypeCorrect == Spec => []TypeOK
  BY InductiveInvariant, PTL DEF GatewayInv

\* Unless appends overlap or break off, every event in the audit file can be
\* read back, whatever the number of workers, commands and crashes.
THEOREM AuditIsReadable == Spec => []AuditReadableUnlessOverlapped
  BY InductiveInvariant, PTL DEF GatewayInv

\* In the audit file every outcome follows the decision it rests on, also when
\* workers interleave their writes and die between them.
THEOREM StoryIsTold == Spec => []AuditTellsTheStory
  BY InductiveInvariant, PTL DEF GatewayInv

-----------------------------------------------------------------------------
(* The refinement of CommandOutcome.                                       *)

LoggedCommands == {c \in Commands : InAudit(c, "authority") /\ InAudit(c, "audit")}

\* Taking a command is no step of CommandOutcome.
LEMMA ReceiveStutters ==
  ASSUME GatewayInv, NEW w \in Workers, Receive(w)
  PROVE  UNCHANGED Outcome!vars
  BY DEF Receive, Outcome!vars, InAudit

\* A worker's step judges, logs or answers its command, or changes nothing of it.
LEMMA WorkRefines ==
  ASSUME GatewayInv, NEW w \in Workers, Progress(w)
  PROVE  Outcome!Next \/ UNCHANGED Outcome!vars
  <1> USE DEF Goto, Fail, Audit
  <1> DEFINE c == Cmd(w)
  <1>0. c \in Commands /\ answers[c] = "none" /\ WorkerInv(w) /\ ReplyInv(w) /\ TypeOK
    BY WorkFrame DEF GatewayInv, WorkerInv
  <1>1. CASE \/ DecideFails(w) \/ CheckRiskFails(w) \/ DispatchNothing(w) \/ Launch(w)
             \/ FeedRisk(w) \/ Feed(w) \/ FeedBreaks(w) \/ LaunchFails(w) \/ Collect(w) \/ Timeout(w) \/ CollectTimedOut(w)
             \/ OpenAudit(w) \/ OpenFails(w) \/ WriteFails(w)
    <2>1. UNCHANGED << authority, acted, audit, answers >>
      BY <1>1 DEF DecideFails, CheckRiskFails, FeedRisk, DispatchNothing, Launch, Feed, FeedBreaks, LaunchFails, Collect,
                  Timeout, CollectTimedOut, OpenAudit, OpenFails, WriteFails
    <2>2. QED
      BY <2>1 DEF Outcome!vars, InAudit
  <1>2. CASE Decide(w) \/ CheckRisk(w)
    <2>1. authority[c] = "none"
      BY <1>0, <1>2 DEF Decide, CheckRisk, WorkerInv
    <2>2. /\ UNCHANGED << acted, audit, answers >>
          /\ \/ authority' = authority
             \/ \E v \in {"accepted", "rejected"} : authority' = [authority EXCEPT ![c] = v]
      BY <1>2 DEF Decide, CheckRisk, Accept, Reject
    <2>3. LoggedCommands' = LoggedCommands
      BY <2>2 DEF LoggedCommands, InAudit
    <2>4. CASE authority' = authority
      BY <2>2, <2>3, <2>4 DEF Outcome!vars, LoggedCommands
    <2>5. CASE \E v \in {"accepted", "rejected"} : authority' = [authority EXCEPT ![c] = v]
      <3>1. Outcome!Judge(c)
        BY <1>0, <2>1, <2>2, <2>3, <2>5 DEF Outcome!Judge, LoggedCommands
      <3>2. QED
        BY <1>0, <3>1 DEF Outcome!Next
    <2>6. QED
      BY <2>2, <2>4, <2>5
  <1>3. CASE WritePiece(w)
    <2> DEFINE e == Pieces(w)[written[w] + 1]
    <2>1. /\ e = Newline \/ e.cmd = c
          /\ \A k \in DOMAIN audit : k \in DOMAIN audit' /\ audit'[k] = audit[k]
          /\ \A k \in DOMAIN audit' : k \in DOMAIN audit \/ audit'[k] = e
      <3>1. /\ written[w] \in 0..3
            /\ written[w] = 0 => e = AuditEvent(Cmd(w), "authority", authority[Cmd(w)])
            /\ written[w] = 2 => e = AuditEvent(Cmd(w), "audit", reply[w])
            /\ written[w] \in {1, 3} => e = Newline
        BY <1>3, WrittenPiece
      <3>2. /\ Len(audit') = Len(audit) + 1
            /\ audit'[Len(audit')] = e
            /\ DOMAIN audit' = 1..Len(audit') /\ DOMAIN audit = 1..Len(audit)
            /\ \A k \in DOMAIN audit : k \in DOMAIN audit' /\ audit'[k] = audit[k]
        BY <1>3, WrittenPiece
      <3>3. e = Newline \/ e.cmd = c
        BY <3>1, EventIsNoNewline
      <3>4. Len(audit) \in Nat
        BY DEF GatewayInv
      <3>5. QED
        BY <3>2, <3>3, <3>4
    <2> HIDE DEF e
    <2>2. \A d \in Commands, stage \in {"authority", "audit"} :
            /\ InAudit(d, stage) => InAudit(d, stage)'
            /\ InAudit(d, stage)' /\ d # c => InAudit(d, stage)
      BY <2>1 DEF InAudit, Newline
    <2>3. LoggedCommands' = LoggedCommands \/ LoggedCommands' = LoggedCommands \union {c}
      BY <1>0, <2>2 DEF LoggedCommands, Commands
    <2>4. UNCHANGED << authority, acted, answers >> /\ authority[c] # "none"
      BY <1>0, <1>3 DEF WritePiece, ReplyInv
    <2>5. CASE LoggedCommands' = LoggedCommands
      BY <2>4, <2>5 DEF Outcome!vars, LoggedCommands
    <2>6. CASE LoggedCommands' = LoggedCommands \union {c}
      <3>1. Outcome!Log(c)
        BY <1>0, <2>4, <2>6 DEF Outcome!Log, LoggedCommands
      <3>2. QED
        BY <1>0, <3>1 DEF Outcome!Next
    <2>7. QED
      BY <2>3, <2>5, <2>6
  <1>4. CASE Respond(w)
    <2>1. /\ UNCHANGED << authority, acted, audit >>
          /\ answers' = [answers EXCEPT ![c] = reply[w]]
          /\ pc[w] = "respond"
      BY <1>4 DEF Respond
    <2>2. LoggedCommands' = LoggedCommands
      BY <2>1 DEF LoggedCommands, InAudit
    <2>3. /\ reply[w] \in Outcome!Answers \ {"none", "lost"}
          /\ reply[w] # "error" => c \in LoggedCommands
          /\ reply[w] \in {"dispatched", "applied"} => c \in acted
          /\ reply[w] \in {"accepted", "rejected", "unsupported_execution"} => c \notin acted
      BY <1>0, <2>1 DEF ReplyInv, TypeOK, Statuses, Outcome!Answers, LoggedCommands
    <2>4. Outcome!Answer(c)
      BY <1>0, <2>1, <2>2, <2>3 DEF Outcome!Answer, LoggedCommands
    <2>5. QED
      BY <1>0, <2>4 DEF Outcome!Next
  <1>5. QED
    BY <1>1, <1>2, <1>3, <1>4 DEF Progress, Work

\* A child acts only for an accepted command whose client has no answer.
LEMMA ChildRefines ==
  ASSUME GatewayInv, NEW c \in Commands, ChildActs(c) \/ ChildExits(c)
  PROVE  Outcome!Next \/ UNCHANGED Outcome!vars
  <1>1. CASE ChildExits(c)
    BY <1>1 DEF ChildExits, Outcome!vars, InAudit
  <1>2. CASE ChildActs(c)
    <2>1. PICK v \in Workers, k \in 1..MaxCommands : c = << v, k >>
      BY DEF Commands
    <2>2. child[c] = "running" /\ c \notin acted /\ acted' = acted \union {c}
          /\ UNCHANGED << authority, audit, answers >>
      BY <1>2 DEF ChildActs
    <2>3. authority[c] = "accepted" /\ answers[c] \in {"none", "lost"}
      <3>1. authority[c] = "accepted" /\ (answers[c] = "lost" \/ (taken[v] = k /\ pc[v] = "waiting"))
        BY <2>1, <2>2 DEF GatewayInv, ChildInv
      <3>2. taken[v] = k /\ pc[v] = "waiting" => answers[c] = "none"
        BY <2>1 DEF GatewayInv, WorkerInv, Cmd
      <3>3. QED
        BY <3>1, <3>2
    <2>4. LoggedCommands' = LoggedCommands
      BY <2>2 DEF LoggedCommands, InAudit
    <2>5. Outcome!Act(c)
      BY <2>2, <2>3, <2>4 DEF Outcome!Act, LoggedCommands
    <2>6. QED
      BY <2>5 DEF Outcome!Next
  <1>3. QED
    BY <1>1, <1>2

\* A crash loses the answers of the commands that were being worked on.
LEMMA CrashRefines ==
  ASSUME GatewayInv, Crash
  PROVE  Outcome!Next
  <1>1. PICK Dead \in SUBSET {w \in Workers : pc[w] # "idle"} :
          answers' = [c \in Commands |->
            IF \E w \in Dead : c = Cmd(w) THEN "lost" ELSE answers[c]]
    BY DEF Crash
  <1> DEFINE S == {Cmd(w) : w \in Dead}
  <1>2. S \subseteq Commands /\ \A c \in S : answers[c] = "none"
    <2>1. ASSUME NEW w \in Dead
          PROVE  Cmd(w) \in Commands /\ answers[Cmd(w)] = "none"
      BY CmdType DEF GatewayInv, WorkerInv
    <2>2. QED
      BY <2>1
  <1>3. answers' = [c \in Commands |-> IF c \in S THEN "lost" ELSE answers[c]]
    BY <1>1
  <1>4. UNCHANGED << authority, acted, audit >>
    BY DEF Crash
  <1>5. LoggedCommands' = LoggedCommands
    BY <1>4 DEF LoggedCommands, InAudit
  <1> HIDE DEF S
  <1>6. Outcome!Lose(S)
    BY <1>2, <1>3, <1>4, <1>5 DEF Outcome!Lose, LoggedCommands
  <1>7. QED
    BY <1>2, <1>6 DEF Outcome!Next

\* The gateway keeps the promises of CommandOutcome: every step of its threads,
\* children and crashes is a step of the abstract command life or leaves it alone.
THEOREM PromisesAreKept == Spec => KeepsPromises
  <1>1. Init => Outcome!Init
    <2> SUFFICES ASSUME Init PROVE Outcome!Init
      OBVIOUS
    <2>1. LoggedCommands = {}
      BY DEF Init, LoggedCommands, InAudit
    <2>2. QED
      BY <2>1 DEF Init, Outcome!Init, LoggedCommands
  <1>2. GatewayInv /\ [Next]_vars => [Outcome!Next]_Outcome!vars
    <2> SUFFICES ASSUME GatewayInv, [Next]_vars
                 PROVE  Outcome!Next \/ UNCHANGED Outcome!vars
      OBVIOUS
    <2>1. CASE UNCHANGED vars
      BY <2>1 DEF vars, Outcome!vars, InAudit
    <2>2. CASE Moves
      BY <2>2, ReceiveStutters, WorkRefines, ChildRefines, CrashRefines DEF Moves
    <2>3. CASE (\E w \in Workers : HoldOutput(w)) \/ (\E c \in Commands : ReleaseOutput(c))
      BY <2>3, HoldingStep DEF Outcome!vars, InAudit
    <2>4. QED
      BY <2>1, <2>2, <2>3 DEF Next, Moves, Progress
  <1>3. QED
    BY <1>1, <1>2, InductiveInvariant, PTL DEF Spec, KeepsPromises, Outcome!Spec
=============================================================================
