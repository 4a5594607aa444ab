------------------------------ MODULE AuditRing ------------------------------
(***************************************************************************)
(* The audit ring that reduce_event fills after the counters of            *)
(* EventIntake: the last events, listed on the events page and exported as *)
(* evidence.  Events that repeat a view (snapshots, heartbeats, health,    *)
(* diagnostics) are coalesced: one takes the place of the entry of its     *)
(* type and aggregate, if there is one.  All others, the life cycles of    *)
(* orders, signals, commands and alerts, push out the oldest entry.        *)
(***************************************************************************)
EXTENDS EventIntake, Sequences, SequencesExt

CONSTANTS
  Capacity,         \* entries (500 in the code)
  Aggregates,       \* type and aggregate of the coalescible events
  AggregateOf(_)    \* what an event_id is about: one of them, or Lifecycle

Lifecycle == "lifecycle"

Ids == Producers \X (1..MaxSent)

ASSUME RingAssumption ==
  /\ Capacity \in Nat \ {0}
  /\ IsFiniteSet(Aggregates) /\ Lifecycle \notin Aggregates
  /\ \A id \in Ids : AggregateOf(id) \in Aggregates \union {Lifecycle}

VARIABLES
  audit,              \* AppState.audit: event ids, the oldest first
  events_coalesced,
  ingested            \* history: every event id ingested, in order

ringVars == << vars, audit, events_coalesced, ingested >>

IsLifecycle(id) == AggregateOf(id) = Lifecycle

\* EventRingBuffer::push
Pushed(ring, id) == Append(IF Len(ring) = Capacity THEN Tail(ring) ELSE ring, id)

\* The entries that a coalescible event may replace.
Coalescing(ring, id) == {k \in DOMAIN ring : AggregateOf(ring[k]) = AggregateOf(id)}

\* Mutant: whatever is about the same aggregate is coalesced.
Coalesces_Always(ring, id) == Coalescing(ring, id) # {}
Coalesces(ring, id) == ~IsLifecycle(id) /\ Coalescing(ring, id) # {}

\* push, or push_or_replace_coalesced, which replaces the latest such entry
Recorded(ring, id) ==
  IF Coalesces(ring, id) THEN [ring EXCEPT ![Max(Coalescing(ring, id))] = id]
  ELSE Pushed(ring, id)

RingInit == Init /\ audit = << >> /\ events_coalesced = 0 /\ ingested = << >>

DeliverToRing(p, n) ==
  LET id == Envelope(p, n).event_id IN
  /\ Deliver(p, n)
  /\ audit' = Recorded(audit, id)
  /\ events_coalesced' = events_coalesced + (IF Coalesces(audit, id) THEN 1 ELSE 0)
  /\ ingested' = Append(ingested, id)

RingNext ==
  \E p \in Producers :
    \/ Publish(p) /\ UNCHANGED << audit, events_coalesced, ingested >>
    \/ \E n \in 1..sent[p] :
         \/ Redeliver(p, n) /\ UNCHANGED << audit, events_coalesced, ingested >>
         \/ DeliverToRing(p, n)

RingSpec == RingInit /\ [][RingNext]_ringVars

-----------------------------------------------------------------------------
LifecycleIn(ids) == {k \in DOMAIN ids : IsLifecycle(ids[k])}
Precedes(ids, a, b) == \E i, j \in DOMAIN ids : i < j /\ ids[i] = a /\ ids[j] = b

\* docs/gap-closure-register.md:19: coalescing works "without dropping lifecycle
\* evidence".  The ring holds the latest life cycle events, each once, without a
\* gap and in the order they were ingested, at least as many as remain when each
\* coalesced aggregate takes one entry: however many views arrive in between, and
\* although a view that replaces another one never moves to the end.
LifecycleEvidenceKept ==
  LET kept == {audit[k] : k \in LifecycleIn(audit)}
      all == {ingested[k] : k \in LifecycleIn(ingested)}
  IN /\ kept \subseteq all
     /\ \A k, l \in LifecycleIn(audit) : audit[k] = audit[l] => k = l
     /\ \A a \in kept, b \in all : Precedes(ingested, a, b) => b \in kept /\ Precedes(audit, a, b)
     /\ \/ all \subseteq kept
        \/ Cardinality(LifecycleIn(audit)) >= Capacity - Cardinality(Aggregates)
-----------------------------------------------------------------------------
(* The strengthening that makes it inductive.                              *)

RingTypes ==
  /\ audit \in Seq(Ids) /\ Len(audit) <= Capacity
  /\ ingested \in Seq(Ids)
  /\ \A k \in DOMAIN ingested : ingested[k] \in seen_event_ids
  /\ \A k \in DOMAIN audit : \E i \in DOMAIN ingested : ingested[i] = audit[k]

\* No event has two entries, and no view has two.
EntriesOnce == \A k, l \in DOMAIN audit : audit[k] = audit[l] => k = l
ViewsOnce ==
  \A k, l \in DOMAIN audit :
    ~ IsLifecycle(audit[k]) /\ AggregateOf(audit[k]) = AggregateOf(audit[l]) => k = l

\* What came after a life cycle event that is kept is kept, and further back.
LatestKept ==
  \A i, j \in LifecycleIn(ingested), k \in DOMAIN audit :
    i < j /\ audit[k] = ingested[i] => \E l \in DOMAIN audit : k < l /\ audit[l] = ingested[j]

\* Life cycle events are dropped from a full ring only.
DroppedWhenFull ==
  Len(audit) = Capacity
  \/ \A i \in LifecycleIn(ingested) : \E k \in DOMAIN audit : audit[k] = ingested[i]

RingInv == RingTypes /\ EntriesOnce /\ ViewsOnce /\ LatestKept /\ DroppedWhenFull
=============================================================================
