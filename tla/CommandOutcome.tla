---------------------------- MODULE CommandOutcome ----------------------------
(***************************************************************************)
(* What command-gateway promises of a command, without its threads, child  *)
(* processes and audit file: it is judged once, acts at most once and only *)
(* when it was accepted, and once its client has an answer it does not act *)
(* any more.  Only an answer other than an error proves that its evidence  *)
(* is in the audit file.  When the gateway dies the client has no answer,  *)
(* and what was launched may still act.                                    *)
(***************************************************************************)
EXTENDS FiniteSets

CONSTANT Commands

VARIABLES
  verdict,   \* the authority decision
  acted,     \* commands that took effect outside the gateway
  logged,    \* commands whose authority and audit events are in the file
  answer     \* what the client knows

vars == << verdict, acted, logged, answer >>

Verdicts == {"none", "accepted", "rejected"}
Answers == {"none", "lost", "error", "accepted", "rejected", "dispatched",
            "applied", "other", "unsupported_execution", "execution_failed"}

Init ==
  /\ verdict = [c \in Commands |-> "none"]
  /\ acted = {}
  /\ logged = {}
  /\ answer = [c \in Commands |-> "none"]

Judge(c) ==
  /\ verdict[c] = "none" /\ answer[c] = "none"
  /\ \E v \in {"accepted", "rejected"} : verdict' = [verdict EXCEPT ![c] = v]
  /\ UNCHANGED << acted, logged, answer >>

Act(c) ==
  /\ verdict[c] = "accepted" /\ answer[c] \in {"none", "lost"}
  /\ c \notin acted
  /\ acted' = acted \union {c}
  /\ UNCHANGED << verdict, logged, answer >>

Log(c) ==
  /\ verdict[c] # "none" /\ answer[c] = "none"
  /\ logged' = logged \union {c}
  /\ UNCHANGED << verdict, acted, answer >>

\* The answers a client can act on tell the truth.
Answer(c) ==
  /\ answer[c] = "none"
  /\ \E a \in Answers \ {"none", "lost"} :
       /\ a # "error" => c \in logged
       /\ a \in {"dispatched", "applied"} => c \in acted
       /\ a \in {"accepted", "rejected", "unsupported_execution"} => c \notin acted
       /\ answer' = [answer EXCEPT ![c] = a]
  /\ UNCHANGED << verdict, acted, logged >>

Lose(S) ==
  /\ \A c \in S : answer[c] = "none"
  /\ answer' = [c \in Commands |-> IF c \in S THEN "lost" ELSE answer[c]]
  /\ UNCHANGED << verdict, acted, logged >>

Next ==
  \/ \E c \in Commands : Judge(c) \/ Act(c) \/ Log(c) \/ Answer(c)
  \/ \E S \in SUBSET Commands : Lose(S)

Spec == Init /\ [][Next]_vars
=============================================================================
