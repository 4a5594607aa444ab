---------------------------- MODULE CommandGateway ----------------------------
(***************************************************************************)
(* command-gateway: process_command run by the client threads of --serve,  *)
(* or by the one-shot processes the TUI launches, against one audit file.  *)
(* A worker takes a command through the authority decision, the external   *)
(* risk check and the dispatch to a child process, and only then appends   *)
(* the authority and the audit event and answers.  Workers interleave at   *)
(* every child process and at every write; the gateway may die anywhere.   *)
(*                                                                         *)
(* What decide() looks at is left to AuthorityPolicy: here it may decide   *)
(* either way, or fail; "rejected" is any status a refusal has.  The child *)
(* processes are external: an adapter may never read its command, or only  *)
(* a part of it, has read all of it when it acts, acts at most once, exits *)
(* with success, or says that it applied the command, only if it acted,    *)
(* may decline or give another status of its own, may fail before or after *)
(* it acted, may hang, and may leave a process behind that keeps its       *)
(* output open.                                                            *)
(***************************************************************************)
EXTENDS Integers, Sequences, SequencesExt, FiniteSets

CONSTANTS
  Workers,
  RiskChecked,     \* workers whose gateway is given --risk-check-bin
  Routes,          \* what dispatch_command may find for a command
  MaxCommands,     \* bound: commands a worker is sent
  MaxCrashes       \* bound: times the gateway dies

AllRoutes == {"none", "external", "broker_control"}

ASSUME GatewayAssumption ==
  /\ RiskChecked \subseteq Workers
  /\ Routes \subseteq AllRoutes
  /\ MaxCommands \in Nat
  /\ MaxCrashes \in Nat

Commands == Workers \X (1..MaxCommands)

VARIABLES
  pc,          \* where each worker is in process_command
  taken,       \* commands each worker was sent
  route,       \* of each worker's current command
  authority,   \* status of the AuthorityDecision, per command
  reply,       \* the status the worker will audit and answer
  child,       \* the child process launched for each command
  acted,       \* commands whose child took effect
  holding,     \* commands whose child started a process that has its output open
  written,     \* writes the worker has made of its two audit lines
  audit,       \* the audit file, one element per write
  answers,     \* what the client was told, per command
  crashes,
  overlapped   \* history: two workers were writing at once, or one broke off

vars == << pc, taken, route, authority, reply, child, acted, holding,
           written, audit, answers, crashes, overlapped >>

Cmd(w) == << w, taken[w] >>
Newline == [stage |-> "newline"]
AuditEvent(c, stage, status) == [cmd |-> c, stage |-> stage, status |-> status]

Init ==
  /\ pc = [w \in Workers |-> "idle"]
  /\ taken = [w \in Workers |-> 0]
  /\ route = [w \in Workers |-> "none"]
  /\ authority = [c \in Commands |-> "none"]
  /\ reply = [w \in Workers |-> "none"]
  /\ child = [c \in Commands |-> "none"]
  /\ acted = {} /\ holding = {}
  /\ written = [w \in Workers |-> 0]
  /\ audit = << >>
  /\ answers = [c \in Commands |-> "none"]
  /\ crashes = 0
  /\ overlapped = FALSE

Goto(w, label) == pc' = [pc EXCEPT ![w] = label]

\* A `?` of process_command: the worker answers an error and audits nothing.
Fail(w) == Goto(w, "respond") /\ reply' = [reply EXCEPT ![w] = "error"]

\* process_command has its status and reason.
Audit(w, status) == Goto(w, "append") /\ reply' = [reply EXCEPT ![w] = status]

-----------------------------------------------------------------------------
\* handle_gateway_client reads the next command of its connection.
Receive(w) ==
  /\ pc[w] = "idle"
  /\ taken[w] < MaxCommands
  /\ taken' = [taken EXCEPT ![w] = @ + 1]
  /\ \E r \in Routes : route' = [route EXCEPT ![w] = r]
  /\ written' = [written EXCEPT ![w] = 0]
  /\ Goto(w, "decide")
  /\ UNCHANGED << holding, authority, reply, child, acted, audit, answers, crashes, overlapped >>

\* An undecodable, invalid or expired envelope, an unreadable policy, or a risk
\* adapter that cannot be launched.
DecideFails(w) ==
  /\ pc[w] = "decide"
  /\ Fail(w)
  /\ UNCHANGED << taken, holding, route, authority, child, acted, written, audit,
                  answers, crashes, overlapped >>

Reject(w) ==
  /\ authority' = [authority EXCEPT ![Cmd(w)] = "rejected"]
  /\ Audit(w, "rejected")

Accept(w) ==
  /\ authority' = [authority EXCEPT ![Cmd(w)] = "accepted"]
  /\ Goto(w, "dispatch")
  /\ UNCHANGED reply

\* decide(): an accepted command goes to the risk check if there is one.
Decide(w) ==
  /\ pc[w] = "decide"
  /\ \/ Reject(w)
     \/ w \notin RiskChecked /\ Accept(w)
     \/ w \in RiskChecked /\ Goto(w, "feed_risk") /\ UNCHANGED << authority, reply >>
  /\ UNCHANGED << taken, holding, route, child, acted, written, audit, answers, crashes, overlapped >>

\* run_json_adapter writes the command to the risk adapter before any deadline
\* runs: when this returns, and whether, is up to the adapter.
FeedRisk(w) ==
  /\ pc[w] = "feed_risk"
  /\ \/ Goto(w, "risk") /\ UNCHANGED reply
     \/ Fail(w)
  /\ UNCHANGED << taken, holding, route, authority, child, acted, written, audit,
                  answers, crashes, overlapped >>

\* apply_external_risk_check: any status but "accepted" refuses the command.
CheckRisk(w) ==
  /\ pc[w] = "risk" /\ Cmd(w) \notin holding
  /\ Reject(w) \/ Accept(w)
  /\ UNCHANGED << taken, holding, route, child, acted, written, audit, answers, crashes, overlapped >>

\* The risk adapter fails, hangs or answers nonsense.
CheckRiskFails(w) ==
  /\ pc[w] = "risk" /\ Cmd(w) \notin holding
  /\ Fail(w)
  /\ UNCHANGED << taken, holding, route, authority, child, acted, written, audit,
                  answers, crashes, overlapped >>

-----------------------------------------------------------------------------
\* dispatch_command

\* No adapter takes the command and broker control is off.
DispatchNothing(w) ==
  /\ pc[w] = "dispatch" /\ route[w] = "none"
  /\ Audit(w, "accepted")
  /\ UNCHANGED << taken, holding, route, authority, child, acted, written, audit,
                  answers, crashes, overlapped >>

\* dispatch_broker_control starts its child, which has its command in its
\* arguments; run_json_adapter starts one that must be written its command.
Launch(w) ==
  /\ pc[w] = "dispatch"
  /\ \/ /\ route[w] = "broker_control"
        /\ child' = [child EXCEPT ![Cmd(w)] = "running"]
        /\ Goto(w, "waiting")
     \/ /\ route[w] = "external"
        /\ child' = [child EXCEPT ![Cmd(w)] = "unread"]
        /\ Goto(w, "feeding")
  /\ UNCHANGED << taken, holding, route, authority, reply, acted, written, audit,
                  answers, crashes, overlapped >>

\* The blocking write of the command to the adapter returns.
Feed(w) ==
  /\ pc[w] = "feeding"
  /\ child' = [child EXCEPT ![Cmd(w)] = "running"]
  /\ Goto(w, "waiting")
  /\ UNCHANGED << taken, holding, route, authority, reply, acted, written, audit,
                  answers, crashes, overlapped >>

\* The adapter closed its input first: the `?` leaves it running, without a command.
FeedBreaks(w) ==
  /\ pc[w] = "feeding"
  /\ Fail(w)
  /\ UNCHANGED << taken, holding, route, authority, child, acted, written, audit,
                  answers, crashes, overlapped >>

\* Mutant: the error of broker-control-gateway itself becomes the status.
DispatchFailed_AuditsError(w) ==
  IF route[w] = "external" THEN Fail(w) ELSE Audit(w, "error")

\* How a dispatch that went wrong ends: an error of the external adapter is
\* returned, one of broker-control-gateway becomes the audited status.
DispatchFailed(w) ==
  IF route[w] = "external" THEN Fail(w) ELSE Audit(w, "execution_failed")

\* The child cannot be started, or broker control has no mapping for the command.
LaunchFails(w) ==
  /\ pc[w] = "dispatch" /\ route[w] # "none"
  /\ \/ DispatchFailed(w)
     \/ route[w] = "broker_control" /\ Audit(w, "unsupported_execution")
  /\ UNCHANGED << taken, holding, route, authority, child, acted, written, audit,
                  answers, crashes, overlapped >>

\* wait_with_timeout sees the child exited and reads its output to the end; its
\* status and output decide.
Collect(w) ==
  /\ pc[w] = "waiting" /\ Cmd(w) \notin holding
  /\ child[Cmd(w)] \in {"succeeded", "declined", "reported", "failed"}
  /\ CASE child[Cmd(w)] = "succeeded" ->
            \/ Audit(w, "dispatched")
            \/ route[w] = "external" /\ Audit(w, "applied")
       [] child[Cmd(w)] = "declined" -> Audit(w, "rejected")
       [] child[Cmd(w)] = "reported" -> Audit(w, "other")
       [] OTHER -> DispatchFailed(w)
  /\ UNCHANGED << taken, holding, route, authority, child, acted, written, audit,
                  answers, crashes, overlapped >>

\* Mutant: the deadline passes and the child is left running.
Timeout_NoKill(w) ==
  /\ pc[w] = "waiting"
  /\ Goto(w, "timed_out")
  /\ UNCHANGED << taken, holding, route, authority, reply, child, acted, written, audit,
                  answers, crashes, overlapped >>

\* Mutant: the deadline only applies to a child that acted.
Timeout_AfterEffect(w) ==
  /\ pc[w] = "waiting" /\ Cmd(w) \in acted
  /\ child' = [child EXCEPT ![Cmd(w)] = "killed"]
  /\ Goto(w, "timed_out")
  /\ UNCHANGED << taken, holding, route, authority, reply, acted, written, audit, answers,
                  crashes, overlapped >>

\* wait_with_timeout kills a child whose exit it has not seen by the deadline.
Timeout(w) ==
  /\ pc[w] = "waiting"
  /\ child' = [child EXCEPT ![Cmd(w)] = "killed"]
  /\ Goto(w, "timed_out")
  /\ UNCHANGED << taken, holding, route, authority, reply, acted, written, audit, answers,
                  crashes, overlapped >>

\* The output of the killed child is read to its end before the error is returned.
CollectTimedOut(w) ==
  /\ pc[w] = "timed_out" /\ Cmd(w) \notin holding
  /\ DispatchFailed(w)
  /\ UNCHANGED << taken, holding, route, authority, child, acted, written, audit,
                  answers, crashes, overlapped >>

\* The child processes (external).

ChildActs(c) ==
  /\ child[c] = "running"
  /\ c \notin acted
  /\ acted' = acted \union {c}
  /\ UNCHANGED << pc, taken, holding, route, authority, reply, child, written, audit,
                  answers, crashes, overlapped >>

ChildExits(c) ==
  /\ child[c] = "running"
  /\ \E code \in {"succeeded", "declined", "reported", "failed"} :
       /\ code = "succeeded" => c \in acted
       /\ code = "declined" => c \notin acted
       /\ code \in {"declined", "reported"} => route[c[1]] = "external"
       /\ child' = [child EXCEPT ![c] = code]
  /\ UNCHANGED << pc, taken, holding, route, authority, reply, acted, written, audit,
                  answers, crashes, overlapped >>

\* A child, the risk adapter too, may start a process that inherits its output:
\* the gateway reads to the end of it, not just to the end of the child.
HoldOutput(w) ==
  /\ \/ pc[w] = "risk"
     \/ pc[w] = "waiting" /\ child[Cmd(w)] = "running"
  /\ holding' = holding \union {Cmd(w)}
  /\ UNCHANGED << pc, taken, route, authority, reply, child, acted, written, audit,
                  answers, crashes, overlapped >>

ReleaseOutput(c) ==
  /\ c \in holding
  /\ holding' = holding \ {c}
  /\ UNCHANGED << pc, taken, route, authority, reply, child, acted, written, audit,
                  answers, crashes, overlapped >>

-----------------------------------------------------------------------------
\* append_audit_events: writeln! writes the event and its newline separately.

\* Mutant: the events are appended in the order the client wants them.
Pieces_AuditFirst(w) ==
  << AuditEvent(Cmd(w), "audit", reply[w]), Newline,
     AuditEvent(Cmd(w), "authority", authority[Cmd(w)]), Newline >>

Pieces(w) ==
  << AuditEvent(Cmd(w), "authority", authority[Cmd(w)]), Newline,
     AuditEvent(Cmd(w), "audit", reply[w]), Newline >>

OpenAudit(w) ==
  /\ pc[w] = "append"
  /\ Goto(w, "write")
  /\ overlapped' = (overlapped \/ \E v \in Workers \ {w} : pc[v] = "write")
  /\ UNCHANGED << taken, holding, route, authority, reply, child, acted, written, audit,
                  answers, crashes >>

\* The directory or the file cannot be made or opened.
OpenFails(w) ==
  /\ pc[w] = "append"
  /\ Fail(w)
  /\ UNCHANGED << taken, holding, route, authority, child, acted, written, audit,
                  answers, crashes, overlapped >>

\* Mutant: the last newline is left to the next writer.
WritePiece_NoLastNewline(w) ==
  /\ pc[w] = "write"
  /\ audit' = Append(audit, Pieces(w)[written[w] + 1])
  /\ written' = [written EXCEPT ![w] = @ + 1]
  /\ pc' = [pc EXCEPT ![w] = IF written[w] = 2 THEN "respond" ELSE "write"]
  /\ UNCHANGED << taken, holding, route, authority, reply, child, acted, answers, crashes, overlapped >>

WritePiece(w) ==
  /\ pc[w] = "write"
  /\ audit' = Append(audit, Pieces(w)[written[w] + 1])
  /\ written' = [written EXCEPT ![w] = @ + 1]
  /\ pc' = [pc EXCEPT ![w] = IF written[w] = 3 THEN "respond" ELSE "write"]
  /\ UNCHANGED << taken, holding, route, authority, reply, child, acted, answers, crashes, overlapped >>

WriteFails(w) ==
  /\ pc[w] = "write"
  /\ Fail(w)
  /\ overlapped' = TRUE
  /\ UNCHANGED << taken, holding, route, authority, child, acted, written, audit, answers, crashes >>

Respond(w) ==
  /\ pc[w] = "respond"
  /\ answers' = [answers EXCEPT ![Cmd(w)] = reply[w]]
  /\ Goto(w, "idle")
  /\ UNCHANGED << taken, holding, route, authority, reply, child, acted, written, audit,
                  crashes, overlapped >>

\* A gateway process dies with the workers it runs: all of them under --serve,
\* one when the TUI launched it for a command.  The children live on.
Crash ==
  /\ crashes < MaxCrashes
  /\ crashes' = crashes + 1
  /\ \E Dead \in SUBSET {w \in Workers : pc[w] # "idle"} :
       /\ Dead # {}
       /\ pc' = [w \in Workers |-> IF w \in Dead THEN "idle" ELSE pc[w]]
       /\ answers' = [c \in Commands |->
            IF \E w \in Dead : c = Cmd(w) THEN "lost" ELSE answers[c]]
       /\ overlapped' = (overlapped \/ \E w \in Dead : pc[w] = "write")
  /\ UNCHANGED << taken, holding, route, authority, reply, child, acted, written, audit >>

\* The steps a worker takes by itself once it has a command.
Work(w) ==
  \/ DecideFails(w) \/ Decide(w) \/ CheckRisk(w) \/ CheckRiskFails(w)
  \/ DispatchNothing(w) \/ Launch(w) \/ LaunchFails(w)
  \/ Collect(w) \/ Timeout(w) \/ CollectTimedOut(w)
  \/ OpenAudit(w) \/ OpenFails(w) \/ WritePiece(w) \/ WriteFails(w) \/ Respond(w)

Next ==
  \/ \E w \in Workers : Receive(w) \/ Work(w) \/ HoldOutput(w)
                          \/ FeedRisk(w) \/ Feed(w) \/ FeedBreaks(w)
  \/ \E c \in Commands : ChildActs(c) \/ ChildExits(c) \/ ReleaseOutput(c)
  \/ Crash

Spec == Init /\ [][Next]_vars

\* Every worker is scheduled.  Clients, adapters and crashes owe nothing, nor
\* does a write to an adapter's input ever have to return.
FairSpec == Spec /\ \A w \in Workers : WF_vars(Work(w))

-----------------------------------------------------------------------------
\* The adapter may give "applied", for "executed" too, and "other", which is any.
Statuses == {"none", "error", "accepted", "rejected", "dispatched", "applied",
             "other", "unsupported_execution", "execution_failed"}

\* The gateway's state is well typed; a worker at its audit lines has decided.
TypeOK ==
  /\ pc \in [Workers -> {"idle", "decide", "feed_risk", "risk", "dispatch", "feeding",
                         "waiting", "timed_out", "append", "write", "respond"}]
  /\ taken \in [Workers -> 0..MaxCommands]
  /\ route \in [Workers -> AllRoutes]
  /\ authority \in [Commands -> {"none", "accepted", "rejected"}]
  /\ reply \in [Workers -> Statuses]
  /\ child \in [Commands -> {"none", "unread", "running", "succeeded", "declined",
                           "reported", "failed", "killed"}]
  /\ acted \subseteq Commands /\ holding \subseteq Commands
  /\ written \in [Workers -> 0..4]
  /\ \A i \in DOMAIN audit : audit[i] # Newline => audit[i].status \in Statuses \ {"none", "error"}
  /\ answers \in [Commands -> Statuses \union {"lost"}]
  /\ crashes \in 0..MaxCrashes
  /\ overlapped \in BOOLEAN

InAudit(c, stage) ==
  \E i \in DOMAIN audit : audit[i] # Newline /\ audit[i].cmd = c /\ audit[i].stage = stage

\* The gateway keeps the promises of CommandOutcome: whatever the adapters,
\* the clock and the file system do, a command acts only if it was accepted,
\* once, and not after its answer; an answer other than an error is true and
\* its two events are in the audit file.
Outcome == INSTANCE CommandOutcome
  WITH verdict <- authority,
       logged <- {c \in Commands : InAudit(c, "authority") /\ InAudit(c, "audit")},
       answer <- answers
KeepsPromises == Outcome!Spec

\* A reader of the file decodes the events that are alone on their line.
Alone(i) ==
  /\ i = 1 \/ audit[i - 1] = Newline
  /\ i = Len(audit) \/ audit[i + 1] = Newline

\* Unless two workers' appends overlapped, or one broke off, every event in
\* the audit file can be read back.
AuditReadableUnlessOverlapped ==
  ~ overlapped => \A i \in DOMAIN audit : audit[i] # Newline => Alone(i)

\* The file tells each command's story in order and once: a command's audit
\* event follows its authority event, and only a command whose authority
\* event says accepted was audited as anything but rejected.
AuditTellsTheStory ==
  \A i \in DOMAIN audit : (audit[i] # Newline /\ audit[i].stage = "audit") =>
    \E j \in 1..(i - 1) :
      /\ audit[j] # Newline
      /\ audit[j].cmd = audit[i].cmd /\ audit[j].stage = "authority"
      /\ audit[j].status = "rejected" => audit[i].status = "rejected"

\* README.md:451-452: a slow adapter "cannot stall the gateway control path".  Every
\* command that is taken is answered, unless the gateway dies, an adapter does not
\* take its command (writeln! has no deadline), or a process that an adapter started
\* keeps the adapter's output open (wait_with_output has none either).
EveryCommandAnswered == \A w \in Workers :
  pc[w] # "idle" ~> \/ pc[w] = "idle"
                    \/ pc[w] \in {"feed_risk", "feeding"}
                    \/ pc[w] \in {"risk", "waiting", "timed_out"} /\ Cmd(w) \in holding

\* README.md:443-444: the TUI reads the events of the gateway it launched from
\* the audit file.  It finds them, if the gateway answered.
AnsweredIsReadable ==
  \A c \in Commands : answers[c] \notin {"none", "lost", "error"} =>
    \A stage \in {"authority", "audit"} :
      \E i \in DOMAIN audit :
        audit[i] # Newline /\ audit[i].cmd = c /\ audit[i].stage = stage /\ Alone(i)
-----------------------------------------------------------------------------
(* The strengthening that makes the safety properties inductive.           *)

AuditEvents ==
  [cmd : Commands, stage : {"authority", "audit"}, status : Statuses \ {"none", "error"}]

\* The commands that a worker was not yet sent have left no trace.
FutureUntouched ==
  \A w \in Workers : \A k \in 1..MaxCommands : k > taken[w] =>
    /\ authority[<< w, k >>] = "none" /\ child[<< w, k >>] = "none"
    /\ << w, k >> \notin acted /\ answers[<< w, k >>] = "none"

\* What a worker has done with its command, by where it is.
WorkerInv(w) ==
  LET c == Cmd(w) IN
  /\ pc[w] # "idle" => taken[w] # 0 /\ answers[c] = "none"
  /\ pc[w] \in {"decide", "feed_risk", "risk"} => authority[c] = "none"
  /\ pc[w] \in {"dispatch", "feeding", "waiting", "timed_out"} => authority[c] = "accepted"
  /\ pc[w] \in {"decide", "feed_risk", "risk", "dispatch"} => child[c] = "none"
  /\ pc[w] = "feeding" => child[c] = "unread"
  /\ pc[w] \in {"decide", "feed_risk", "risk", "dispatch", "feeding"} => c \notin acted
  /\ pc[w] \in {"decide", "feed_risk", "risk", "dispatch", "feeding", "waiting",
                "timed_out", "append"} => written[w] = 0
  /\ pc[w] = "write" => written[w] < 4

\* A worker that has its answer: the answer is true and stays so, for the child
\* has ended, and what was written of it is in the file.
ReplyInv(w) ==
  LET c == Cmd(w) IN
  /\ pc[w] \in {"timed_out", "append", "write", "respond"} => child[c] # "running"
  /\ pc[w] \in {"append", "write", "respond"} =>
       /\ reply[w] # "none"
       /\ reply[w] \in {"dispatched", "applied"} => c \in acted
       /\ reply[w] \in {"accepted", "rejected", "unsupported_execution"} => c \notin acted
  /\ pc[w] \in {"append", "write"} =>
       /\ reply[w] # "error" /\ authority[c] # "none"
       /\ authority[c] = "rejected" => reply[w] = "rejected"
  /\ pc[w] = "write" =>
       /\ written[w] >= 1 => \E i \in DOMAIN audit : audit[i] = AuditEvent(c, "authority", authority[c])
       /\ written[w] >= 3 => InAudit(c, "audit")
  /\ pc[w] = "respond" /\ reply[w] # "error" => InAudit(c, "authority") /\ InAudit(c, "audit")

\* A child runs while its worker waits for it, or on its own once that died.
ChildInv ==
  /\ \A w \in Workers : \A k \in 1..MaxCommands : child[<< w, k >>] = "running" =>
       /\ authority[<< w, k >>] = "accepted"
       /\ answers[<< w, k >>] = "lost" \/ (taken[w] = k /\ pc[w] = "waiting")
  /\ \A c \in Commands :
       /\ child[c] = "succeeded" => c \in acted
       /\ child[c] = "declined" => c \notin acted

\* Unless appends overlapped, one worker writes, and a line is open only in its hands.
OneWriter ==
  ~ overlapped =>
    /\ \A v, w \in Workers : pc[v] = "write" /\ pc[w] = "write" => v = w
    /\ audit # << >> /\ audit[Len(audit)] # Newline =>
         \E w \in Workers : pc[w] = "write" /\ written[w] \in {1, 3}

GatewayInv ==
  /\ TypeOK /\ audit \in Seq({Newline} \union AuditEvents)
  /\ FutureUntouched /\ ChildInv
  /\ \A w \in Workers : WorkerInv(w) /\ ReplyInv(w)
  /\ OneWriter
  /\ AuditReadableUnlessOverlapped /\ AuditTellsTheStory
=============================================================================
