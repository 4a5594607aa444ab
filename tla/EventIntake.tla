----------------------------- MODULE EventIntake -----------------------------
(***************************************************************************)
(* The front half of trade-core's reduce_event: what every envelope passes *)
(* through before its payload reaches a projection.  An envelope whose     *)
(* event_id was seen is counted and dropped; any other one moves the       *)
(* producer's last sequence number and the counters that tell an operator  *)
(* whether the feed is complete.                                           *)
(*                                                                         *)
(* The transports (core NATS, JetStream redelivery, JSONL replay) hand     *)
(* over any published envelope, in any order, any number of times or       *)
(* never.  The second half of reduce_event, the dispatch on the payload,   *)
(* neither reads nor writes these variables; StrategyTable composes the    *)
(* two for the strategies, OrderLifecycle models the rest of it for orders.*)
(***************************************************************************)
EXTENDS Integers, FiniteSets

CONSTANTS
  Producers,      \* values of EventEnvelope.producer
  Unnumbered,     \* producers that stamp every envelope with sequence 0
  MaxSent,        \* bound: envelopes a producer publishes
  MaxDuplicates   \* bound: dropped deliveries that are counted

ASSUME IntakeAssumption ==
  /\ Unnumbered \subseteq Producers
  /\ MaxSent \in Nat
  /\ MaxDuplicates \in Nat

VARIABLES
  sent,                        \* envelopes each producer has published
  seen_event_ids,
  last_sequence_by_producer,
  duplicate_events,
  out_of_order_events,
  sequence_gaps,
  events_ingested,
  reordered    \* history: a producer's envelope was ingested after a later one

stateVars == << seen_event_ids, last_sequence_by_producer, duplicate_events,
                out_of_order_events, sequence_gaps, events_ingested >>
vars == << sent, stateVars, reordered >>

Absent == -1   \* the producer has no entry in last_sequence_by_producer

-----------------------------------------------------------------------------
\* reduce_event on an envelope e = [event_id, producer, sequence]

CountDuplicate(e) ==
  /\ e.event_id \in seen_event_ids
  /\ duplicate_events' = duplicate_events + 1
  /\ UNCHANGED << seen_event_ids, last_sequence_by_producer,
                  out_of_order_events, sequence_gaps, events_ingested >>

OutOfOrder(previous, sequence) == previous # Absent /\ sequence <= previous

\* Mutant: one missing envelope is let pass.
GapAfter_TolerateOne(previous, sequence) ==
  IF previous # Absent /\ sequence > previous + 2
    THEN sequence - previous - 1 ELSE 0

\* Mutant: a gap counts once, however wide.
GapAfter_PerGap(previous, sequence) ==
  IF previous # Absent /\ sequence > previous + 1 THEN 1 ELSE 0

GapAfter(previous, sequence) ==
  IF previous # Absent /\ sequence > previous + 1
    THEN sequence - previous - 1 ELSE 0

\* Mutant: the early return of duplicates is gone.
IngestEnvelope_NoDedup(e) ==
  LET previous == last_sequence_by_producer[e.producer] IN
  /\ seen_event_ids' = seen_event_ids \union {e.event_id}
  /\ last_sequence_by_producer' =
       [last_sequence_by_producer EXCEPT ![e.producer] = e.sequence]
  /\ out_of_order_events' = out_of_order_events +
       (IF OutOfOrder(previous, e.sequence) THEN 1 ELSE 0)
  /\ sequence_gaps' = sequence_gaps + GapAfter(previous, e.sequence)
  /\ events_ingested' = events_ingested + 1
  /\ UNCHANGED duplicate_events

IngestEnvelope(e) ==
  LET previous == last_sequence_by_producer[e.producer] IN
  /\ e.event_id \notin seen_event_ids
  /\ seen_event_ids' = seen_event_ids \union {e.event_id}
  /\ last_sequence_by_producer' =
       [last_sequence_by_producer EXCEPT ![e.producer] = e.sequence]
  /\ out_of_order_events' = out_of_order_events +
       (IF OutOfOrder(previous, e.sequence) THEN 1 ELSE 0)
  /\ sequence_gaps' = sequence_gaps + GapAfter(previous, e.sequence)
  /\ events_ingested' = events_ingested + 1
  /\ UNCHANGED duplicate_events

-----------------------------------------------------------------------------
\* The n-th envelope of producer p; its event_id is unique to it.
Envelope(p, n) ==
  [event_id |-> << p, n >>,
   producer |-> p,
   sequence |-> IF p \in Unnumbered THEN 0 ELSE n]

\* The envelopes of p that were ingested, by their publication number.
Received(p) == {n \in 1..MaxSent : << p, n >> \in seen_event_ids}

Init ==
  /\ sent = [p \in Producers |-> 0]
  /\ seen_event_ids = {}
  /\ last_sequence_by_producer = [p \in Producers |-> Absent]
  /\ duplicate_events = 0
  /\ out_of_order_events = 0
  /\ sequence_gaps = 0
  /\ events_ingested = 0
  /\ reordered = FALSE

Publish(p) ==
  /\ sent[p] < MaxSent
  /\ sent' = [sent EXCEPT ![p] = @ + 1]
  /\ UNCHANGED << stateVars, reordered >>

Redeliver(p, n) ==
  /\ duplicate_events < MaxDuplicates
  /\ CountDuplicate(Envelope(p, n))
  /\ UNCHANGED << sent, reordered >>

Deliver(p, n) ==
  /\ IngestEnvelope(Envelope(p, n))
  /\ reordered' = (reordered \/ \E m \in Received(p) : m > n)
  /\ UNCHANGED sent

Next ==
  \E p \in Producers :
    \/ Publish(p)
    \/ \E n \in 1..sent[p] : Redeliver(p, n) \/ Deliver(p, n)

Spec == Init /\ [][Next]_vars

-----------------------------------------------------------------------------
\* The state is well typed: the counters are naturals and every last sequence
\* is one the producer has stamped (AppState and its ConnectionState).
TypeOK ==
  /\ sent \in [Producers -> 0..MaxSent]
  /\ seen_event_ids \subseteq {<< p, n >> : p \in Producers, n \in 1..MaxSent}
  /\ last_sequence_by_producer \in [Producers -> {Absent} \union 0..MaxSent]
  /\ duplicate_events \in Nat
  /\ out_of_order_events \in Nat
  /\ sequence_gaps \in Nat
  /\ events_ingested \in Nat
  /\ reordered \in BOOLEAN

\* Quiet counters are proof of completeness: if reduce_event has counted no
\* gap and nothing out of order, then what was ingested from a numbered
\* producer is an unbroken run of its sequence, however deliveries were lost,
\* repeated or interleaved with the other producers'.
QuietCountersMeanContiguous ==
  (out_of_order_events = 0 /\ sequence_gaps = 0) =>
    \A p \in Producers \ Unnumbered :
      \A m, n \in Received(p) : m..n \subseteq Received(p)

\* out_of_order_events is raised exactly when some producer's envelope was
\* ingested after a later one of the same producer: duplicates, losses and
\* the interleaving of producers never raise it, and no reordering escapes.
OutOfOrderIffReordered == (out_of_order_events > 0) <=> reordered

\* The envelopes that were skipped: not ingested, between two that were.
Skipped ==
  {id \in Producers \X (1..MaxSent) :
     /\ id \notin seen_event_ids
     /\ \E m, n \in Received(id[1]) : m < id[2] /\ id[2] < n}

\* Until something arrives out of order, sequence_gaps is exact: it is the
\* number of envelopes, over all producers, that were skipped between the
\* first and the last one ingested.
GapsExactWhileInOrder ==
  out_of_order_events = 0 => sequence_gaps = Cardinality(Skipped)

-----------------------------------------------------------------------------
(* The strengthening that makes the two counter properties inductive.      *)

\* While nothing came out of order, a numbered producer's last sequence is
\* the greatest one ingested from it.
LastIsGreatest ==
  out_of_order_events = 0 =>
    \A p \in Producers \ Unnumbered :
      IF last_sequence_by_producer[p] = Absent
        THEN Received(p) = {}
        ELSE /\ last_sequence_by_producer[p] \in Received(p)
             /\ \A m \in Received(p) : m <= last_sequence_by_producer[p]

\* While moreover no gap was counted, everything from an ingested envelope up
\* to the last one was ingested.
UnbrokenToLast ==
  (out_of_order_events = 0 /\ sequence_gaps = 0) =>
    \A p \in Producers \ Unnumbered :
      \A m \in Received(p) : m..last_sequence_by_producer[p] \subseteq Received(p)

\* With every producer numbered, the counter and the history agree.
ReorderingCounted == Unnumbered = {} => OutOfOrderIffReordered

\* While nothing came out of order, at most one envelope of a producer without
\* numbers was ingested.
UnnumberedOnce ==
  out_of_order_events = 0 =>
    \A p \in Unnumbered :
      IF last_sequence_by_producer[p] = Absent
        THEN Received(p) = {}
        ELSE last_sequence_by_producer[p] = 0 /\ \E n \in 1..MaxSent : Received(p) = {n}

\* The skipped envelopes can be counted, whatever the number of producers.
GapsCounted == out_of_order_events = 0 => IsFiniteSet(Skipped) /\ GapsExactWhileInOrder

IntakeInv ==
  /\ TypeOK /\ LastIsGreatest /\ UnbrokenToLast /\ ReorderingCounted
  /\ UnnumberedOnce /\ GapsCounted
=============================================================================
