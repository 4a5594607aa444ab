--------------------------- MODULE MCEventSources ---------------------------
(* Small deployments of EventSources: one reader on each source with three  *)
(* events, one of which does not decode, and a state-projectiond whose      *)
(* snapshot starts a trade-tui.                                             *)
EXTENDS EventSources

A(name) == [kind |-> "account", account |-> name]
Signal == [kind |-> "signal"]
NotDecodable == [kind |-> "garbled"]

One(r, source, load) ==
  [log |-> << A("main"), Signal, NotDecodable >>, readers |-> {r}, source |-> [x \in {r} |-> source],
   load |-> load, snapshot |-> FALSE, starts |-> 2, losses |-> 1]
Both(log, source) ==
  [log |-> log, readers |-> Readers, load |-> FALSE, snapshot |-> TRUE, starts |-> 1, losses |-> 0,
   source |-> [r \in Readers |-> IF r = "trade-tui" THEN source ELSE "jetstream"]]

SomeSetups ==
  {One("state-projectiond", source, TRUE) : source \in {"nats", "jetstream"}}
  \union {One("trade-tui", source, TRUE) : source \in {"nats", "jetstream", "jsonl"}}
  \union {Both(<< A("main"), Signal >>, source) : source \in {"none", "jetstream"}}
TwoAccounts == {Both(<< A("main"), A("other") >>, "none")}
=============================================================================
