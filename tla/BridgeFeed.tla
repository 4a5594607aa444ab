------------------------------ MODULE BridgeFeed ------------------------------
(***************************************************************************)
(* tools/publish_paper_cockpit_bridge.py feeding the reducer.  Each cycle  *)
(* the bridge reads its last sequence number from the state file, numbers  *)
(* a batch of events after it, publishes them one by one and only then     *)
(* writes the state file back.  The number is also the event_id, which is  *)
(* what reduce_event drops duplicates by: a bridge that dies between a     *)
(* publish and the save numbers its next, different, events the same.      *)
(***************************************************************************)
EXTENDS Integers, Sequences, SequencesExt, FiniteSets

CONSTANTS
  MaxBatch,        \* bound: events a cycle builds
  MaxFacts,        \* bound: events built over all cycles
  MaxCrashes,      \* bound: cycles that end in an exception or a kill
  MaxReadErrors,   \* bound: cycles that cannot read the state file
  MaxDuplicates    \* bound: dropped deliveries that are counted

ASSUME BridgeAssumption ==
  {MaxBatch, MaxFacts, MaxCrashes, MaxReadErrors, MaxDuplicates} \subseteq Nat

VARIABLES
  saved_sequence,   \* the "sequence" in the state file
  in_cycle,         \* a batch was built and the state file not yet saved
  state_sequence,   \* the "sequence" in memory
  batch,            \* built and not yet published
  stream,           \* what the JetStream stream stored, in order
  facts,            \* history: events built so far; each carries a new fact
  crashes,
  read_errors,
  lost_facts,       \* history: facts the reducer dropped and never saw before
  reduced_facts,    \* history: facts the reducer ingested
  seen_event_ids, last_sequence_by_producer, duplicate_events,
  out_of_order_events, sequence_gaps, events_ingested

bridgeVars == << saved_sequence, in_cycle, state_sequence, batch, facts,
                 crashes, read_errors >>
reducerVars == << seen_event_ids, last_sequence_by_producer, duplicate_events,
                  out_of_order_events, sequence_gaps, events_ingested >>
vars == << bridgeVars, stream, lost_facts, reduced_facts, reducerVars >>

Bridge == "paper-cockpit-bridge"

Intake == INSTANCE EventIntake
  WITH Producers <- {Bridge}, Unnumbered <- {}, MaxSent <- MaxFacts,
       sent <- [p \in {Bridge} |-> Len(stream)], reordered <- FALSE

Init ==
  /\ saved_sequence = 0
  /\ in_cycle = FALSE
  /\ state_sequence = 0
  /\ batch = << >>
  /\ stream = << >>
  /\ facts = 0
  /\ crashes = 0
  /\ read_errors = 0
  /\ lost_facts = {}
  /\ reduced_facts = {}
  /\ seen_event_ids = {}
  /\ last_sequence_by_producer = [p \in {Bridge} |-> Intake!Absent]
  /\ duplicate_events = 0
  /\ out_of_order_events = 0
  /\ sequence_gaps = 0
  /\ events_ingested = 0

-----------------------------------------------------------------------------
\* The bridge

\* envelope(): the next sequence number names the event.
BridgeEnvelope(sequence, fact) ==
  [event_id |-> sequence, producer |-> Bridge, sequence |-> sequence, fact |-> fact]

\* state_load and build_events: a state file that cannot be read counts as empty.
BuildBatch ==
  /\ ~ in_cycle
  /\ \E loaded \in {saved_sequence} \union (IF read_errors < MaxReadErrors THEN {0} ELSE {}),
        k \in 1..MaxBatch :
       /\ facts + k <= MaxFacts
       /\ read_errors' = read_errors + (IF loaded = saved_sequence THEN 0 ELSE 1)
       /\ state_sequence' = loaded + k
       /\ batch' = [i \in 1..k |-> BridgeEnvelope(loaded + i, facts + i)]
       /\ facts' = facts + k
  /\ in_cycle' = TRUE
  /\ UNCHANGED << saved_sequence, crashes, stream, lost_facts, reduced_facts, reducerVars >>

\* publish_events, one event: the stream stores it before it answers.
PublishNext ==
  /\ in_cycle
  /\ batch # << >>
  /\ stream' = Append(stream, Head(batch))
  /\ batch' = Tail(batch)
  /\ UNCHANGED << saved_sequence, in_cycle, state_sequence, facts, crashes,
                  read_errors, lost_facts, reduced_facts, reducerVars >>

\* Mutant: the state file is written from the sequence that was loaded.
SaveState_Stale ==
  /\ in_cycle
  /\ batch = << >>
  /\ in_cycle' = FALSE
  /\ UNCHANGED << saved_sequence, state_sequence, batch, facts, crashes,
                  read_errors, stream, lost_facts, reduced_facts, reducerVars >>

\* state_save, after the last publish was answered.
SaveState ==
  /\ in_cycle
  /\ batch = << >>
  /\ saved_sequence' = state_sequence
  /\ in_cycle' = FALSE
  /\ UNCHANGED << state_sequence, batch, facts, crashes, read_errors, stream,
                  lost_facts, reduced_facts, reducerVars >>

\* Mutant: what was left of the batch is published by the next cycle.
Crash_KeepsBatch ==
  /\ in_cycle
  /\ crashes < MaxCrashes
  /\ crashes' = crashes + 1
  /\ in_cycle' = FALSE
  /\ UNCHANGED << saved_sequence, state_sequence, batch, facts, read_errors, stream,
                  lost_facts, reduced_facts, reducerVars >>

\* A publish raises, its answer times out, or the process is killed: nothing
\* of the cycle is saved and the next process starts from the state file.
Crash ==
  /\ in_cycle
  /\ crashes < MaxCrashes
  /\ crashes' = crashes + 1
  /\ in_cycle' = FALSE
  /\ batch' = << >>
  /\ UNCHANGED << saved_sequence, state_sequence, facts, read_errors, stream,
                  lost_facts, reduced_facts, reducerVars >>

-----------------------------------------------------------------------------
\* The reducer, fed from the stream; any stored message may come again.

Ingest(i) ==
  /\ Intake!IngestEnvelope(stream[i])
  /\ reduced_facts' = reduced_facts \union {stream[i].fact}
  /\ UNCHANGED << bridgeVars, stream, lost_facts >>

DropAsDuplicate(i) ==
  /\ duplicate_events < MaxDuplicates
  /\ Intake!CountDuplicate(stream[i])
  /\ lost_facts' = lost_facts \union ({stream[i].fact} \ reduced_facts)
  /\ UNCHANGED << bridgeVars, stream, reduced_facts >>

Next ==
  \/ BuildBatch \/ PublishNext \/ SaveState \/ Crash
  \/ \E i \in DOMAIN stream : Ingest(i) \/ DropAsDuplicate(i)

Spec == Init /\ [][Next]_vars

-----------------------------------------------------------------------------
TypeOK ==
  /\ saved_sequence \in 0..MaxFacts
  /\ state_sequence \in 0..MaxFacts
  /\ in_cycle \in BOOLEAN
  /\ ~ in_cycle => batch = << >>
  /\ \A i \in DOMAIN batch : batch[i].sequence <= state_sequence
  /\ Len(stream) <= facts
  /\ seen_event_ids \subseteq 1..MaxFacts
  /\ lost_facts \intersect reduced_facts = {}

\* What a crash can cost: as long as the state file can be read, the facts
\* the reducer drops for carrying a used event_id are at most one batch per
\* crashed cycle.  Without a crash none is dropped.
LossBoundedByCrashes ==
  read_errors = 0 => Cardinality(lost_facts) <= MaxBatch * crashes

\* Being idempotent by event_id (README.md:156) loses nothing: an event
\* dropped as a duplicate is one that was reduced before.
OnlyRepeatsDropped == lost_facts = {}
=============================================================================
