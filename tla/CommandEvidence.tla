--------------------------- MODULE CommandEvidence ---------------------------
(***************************************************************************)
(* How the cockpit reduces the two events of a command, the decision of    *)
(* its authority and the audit record of its outcome, into the evidence    *)
(* shown for the command, the global kill switch and the runtime controls  *)
(* of accounts.  A cockpit is a record; Reduce returns the next one.       *)
(***************************************************************************)
EXTENDS CommandKinds

\* "applied", for "executed" too, and "other" are statuses that an adapter gives.
Statuses == {"accepted", "rejected", "dispatched", "applied", "other",
             "unsupported_execution", "execution_failed"}

\* CommandAuthorityDecided and CommandAuditRecorded, as command-gateway numbers them.
AuthorityDecided(c, payload, status) ==
  [event_id |-> << "authority", c >>, command |-> c, payload |-> payload, status |-> status]
AuditRecorded(c, payload, status) ==
  [event_id |-> << "audit", c >>, command |-> c, payload |-> payload, status |-> status]
IsAudit(event) == event.event_id[1] = "audit"

NewView == [authority_status |-> None, audit_status |-> None, status |-> None]

\* Mutant: an accepted command counts as applied.
CommandWasApplied_Accepted(status) == status \in {"accepted", "dispatched", "applied", "executed"}
CommandWasApplied(status) == status \in {"dispatched", "applied", "executed"}

\* The runtime control that an applied command sets, and for which account.
Control(payload) ==
  CASE payload.command_type \in {"AccountKillSwitchRequested", "CancelAllOrdersForAccountRequested"} ->
         {<< payload.account, "cancel_all" >>}
    [] payload.command_type = "FlattenAccountRequested" -> {<< payload.account, "flatten_only" >>}
    [] payload.command_type = "CancelAllOrdersForSymbolRequested" /\ payload.object = "*" ->
         {<< payload.account, "cancel_all" >>}
    [] payload.command_type = "FlattenSymbolRequested" /\ payload.object = "*" ->
         {<< payload.account, "flatten_only" >>}
    [] OTHER -> {}

ReduceCommandAuthorityDecided(s, event) ==
  [s EXCEPT !.commands[event.command] =
               [@ EXCEPT !.authority_status = event.status, !.status = event.status]]

ReduceCommandAuditRecorded(s, event) ==
  LET applied == CommandWasApplied(event.status)
      set == IF applied THEN Control(event.payload) ELSE {}
  IN [s EXCEPT
        !.commands[event.command] =
           [@ EXCEPT !.audit_status = event.status, !.status = event.status],
        !.kill_switch = @ \/ (applied /\ event.payload.command_type = "GlobalKillSwitchRequested"),
        !.accounts = @ \union {entry[1] : entry \in set},
        !.controls = @ \union set]

\* Mutant: an event is reduced however often it arrives.
Fresh_Always(s, event) == event.event_id = event.event_id
Fresh(s, event) == event.event_id \notin s.seen

Reduce(s, event) ==
  IF ~Fresh(s, event) THEN s
  ELSE LET next == IF IsAudit(event) THEN ReduceCommandAuditRecorded(s, event)
                   ELSE ReduceCommandAuthorityDecided(s, event)
       IN [next EXCEPT !.seen = @ \union {event.event_id}]
=============================================================================
