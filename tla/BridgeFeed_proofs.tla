---------------------------- MODULE BridgeFeed_proofs ----------------------------
(***************************************************************************)
(* What the crashes of the bridge can cost, for any batch size and any     *)
(* number of crashes: every fact that the reducer dropped for a used       *)
(* event_id is from a crashed cycle, or took its number from a fact of one *)
(* that was reduced in its place.                                          *)
(***************************************************************************)
EXTENDS BridgeFeed, FunctionTheorems, FiniteSetTheorems, TLAPS

USE DEF Bridge

Message == [event_id : Nat, producer : {Bridge}, sequence : Nat, fact : Nat]
Stored == 1..Len(stream)

\* Counters and bounds.
CountersInv ==
  /\ saved_sequence \in Nat /\ state_sequence \in Nat /\ facts \in Nat
  /\ crashes \in Nat /\ read_errors \in Nat
  /\ in_cycle \in BOOLEAN
  /\ facts <= MaxFacts /\ saved_sequence <= facts /\ state_sequence <= facts

\* The rest of the batch carries the last numbers and the last facts.
BatchInv ==
  /\ batch \in Seq(Message)
  /\ ~ in_cycle => batch = << >>
  /\ Len(batch) <= state_sequence
  /\ \A k \in 1..Len(batch) :
       /\ batch[k].event_id = state_sequence - Len(batch) + k
       /\ batch[k].sequence = batch[k].event_id
       /\ batch[k].fact = facts - Len(batch) + k

\* The stream holds facts that left the batch, each under one number.
StreamInv ==
  /\ stream \in Seq(Message)
  /\ Len(stream) + Len(batch) <= facts
  /\ \A i \in Stored :
       /\ stream[i].event_id \in 1..facts
       /\ stream[i].fact \in 1..(facts - Len(batch))
  /\ \A i, j \in Stored :
       stream[i].fact = stream[j].fact => stream[i].event_id = stream[j].event_id

\* A number was seen with the fact that was reduced under it; a lost fact
\* carries a number that was seen.
ReducerInv ==
  /\ \A e \in seen_event_ids : \E i \in Stored :
       stream[i].event_id = e /\ stream[i].fact \in reduced_facts
  /\ \A f \in lost_facts : \E i \in Stored :
       stream[i].fact = f /\ stream[i].event_id \in seen_event_ids
  /\ lost_facts \intersect reduced_facts = {}

\* spoilt: the facts built in crashed cycles.  Any other fact in the stream has
\* a number up to the saved one or is of the current cycle, and these numbers
\* name one fact each.
Spoilt(spoilt) ==
  /\ spoilt \subseteq 1..facts
  /\ Cardinality(spoilt) <= MaxBatch * crashes
  /\ in_cycle =>
       /\ saved_sequence <= state_sequence - Len(batch)
       /\ state_sequence - saved_sequence <= MaxBatch
       /\ state_sequence - saved_sequence <= facts
  /\ \A i \in Stored : stream[i].fact \notin spoilt =>
       \/ stream[i].event_id <= saved_sequence
       \/ /\ in_cycle
          /\ saved_sequence < stream[i].event_id
          /\ stream[i].event_id <= state_sequence - Len(batch)
          /\ stream[i].fact = facts - state_sequence + stream[i].event_id
  /\ \A i, j \in Stored :
       /\ stream[i].fact \notin spoilt
       /\ stream[j].fact \notin spoilt
       /\ stream[i].event_id = stream[j].event_id
       => stream[i].fact = stream[j].fact

FeedInv ==
  /\ CountersInv /\ BatchInv /\ StreamInv /\ ReducerInv
  /\ read_errors = 0 => \E spoilt : Spoilt(spoilt)

-----------------------------------------------------------------------------
\* The inductive invariant.

\* Nothing was published, and no number was given.
LEMMA InitFeedInv == Init => FeedInv
<1> SUFFICES ASSUME Init PROVE FeedInv
  OBVIOUS
<1>1. MaxBatch \in Nat /\ MaxFacts \in Nat
  BY BridgeAssumption
<1> USE DEF Init
<1>2. CountersInv
  <2>1. in_cycle \in BOOLEAN
    OBVIOUS
  <2>2. facts \in Nat /\ facts <= MaxFacts
    BY <1>1
  <2>3. QED
    BY <2>1, <2>2 DEF CountersInv
<1>3. Len(batch) = 0 /\ Len(stream) = 0 /\ Stored = {}
  BY DEF Stored
<1>4. BatchInv
  <2>1. batch \in Seq(Message)
    OBVIOUS
  <2>2. QED
    BY <1>3, <2>1 DEF BatchInv
<1>5. StreamInv
  <2>1. stream \in Seq(Message)
    OBVIOUS
  <2>2. QED
    BY <1>3, <2>1 DEF StreamInv
<1>6. ReducerInv
  BY DEF ReducerInv
<1>7. Spoilt({})
  <2>1. Cardinality({}) = 0
    BY FS_EmptySet
  <2>2. QED
    BY <1>1, <1>3, <2>1 DEF Spoilt
<1>8. QED
  BY <1>2, <1>4, <1>5, <1>6, <1>7 DEF FeedInv

\* What a step leaves alone.
LEMMA SameStream ==
  ASSUME StreamInv, UNCHANGED << stream, batch, facts >>
  PROVE  StreamInv'
BY DEF StreamInv, Stored

\* The batch depends on the bridge alone.
LEMMA SameBatch ==
  ASSUME BatchInv, UNCHANGED << batch, state_sequence, facts, in_cycle >>
  PROVE  BatchInv'
BY DEF BatchInv

\* What is lost depends on the stream and the reducer alone.
LEMMA SameReducer ==
  ASSUME ReducerInv, UNCHANGED << stream, lost_facts, reduced_facts, seen_event_ids >>
  PROVE  ReducerInv'
BY DEF ReducerInv, Stored

\* What each step may do to the reducer: the stream grows, one stored message
\* is reduced or one is dropped.
LEMMA ReducerStep ==
  ASSUME ReducerInv, \A i \in Stored : i \in Stored' /\ stream'[i] = stream[i],
         \/ UNCHANGED << lost_facts, reduced_facts, seen_event_ids >>
         \/ \E i \in Stored :
              /\ seen_event_ids' = seen_event_ids \union {stream[i].event_id}
              /\ reduced_facts' = reduced_facts \union {stream[i].fact}
              /\ lost_facts' = lost_facts
              /\ stream[i].fact \notin lost_facts
         \/ \E i \in Stored :
              /\ stream[i].event_id \in seen_event_ids
              /\ lost_facts' = lost_facts \union ({stream[i].fact} \ reduced_facts)
              /\ UNCHANGED << reduced_facts, seen_event_ids >>
  PROVE  ReducerInv'
<1>1. \A e \in seen_event_ids' : \E i \in Stored :
        stream[i].event_id = e /\ stream[i].fact \in reduced_facts'
  BY DEF ReducerInv
<1>2. \A f \in lost_facts' : \E i \in Stored :
        stream[i].fact = f /\ stream[i].event_id \in seen_event_ids'
  BY DEF ReducerInv
<1>3. lost_facts' \intersect reduced_facts' = {}
  BY DEF ReducerInv
<1>4. \A e \in seen_event_ids' : \E i \in Stored' :
        stream'[i].event_id = e /\ stream'[i].fact \in reduced_facts'
  BY <1>1
<1>5. \A f \in lost_facts' : \E i \in Stored' :
        stream'[i].fact = f /\ stream'[i].event_id \in seen_event_ids'
  BY <1>2
<1>6. QED
  BY <1>3, <1>4, <1>5 DEF ReducerInv

\* A cycle numbers its batch from the state file.
LEMMA BuildKeeps == FeedInv /\ BuildBatch => FeedInv'
<1> SUFFICES ASSUME FeedInv, BuildBatch PROVE FeedInv'
  OBVIOUS
<1>1. MaxBatch \in Nat /\ MaxFacts \in Nat
  BY BridgeAssumption
<1> USE <1>1
<1>2. PICK loaded \in {saved_sequence} \union (IF read_errors < MaxReadErrors THEN {0} ELSE {}),
           k \in 1..MaxBatch :
        /\ facts + k <= MaxFacts
        /\ read_errors' = read_errors + (IF loaded = saved_sequence THEN 0 ELSE 1)
        /\ state_sequence' = loaded + k
        /\ batch' = [i \in 1..k |-> BridgeEnvelope(loaded + i, facts + i)]
        /\ facts' = facts + k
  BY DEF BuildBatch
<1>3. /\ ~ in_cycle /\ in_cycle'
      /\ UNCHANGED << saved_sequence, crashes, stream, lost_facts, reduced_facts,
                      seen_event_ids >>
  BY DEF BuildBatch, reducerVars
<1>4. /\ CountersInv /\ BatchInv /\ StreamInv /\ ReducerInv
      /\ read_errors = 0 => \E spoilt : Spoilt(spoilt)
  BY DEF FeedInv
<1>5. batch = << >> /\ Len(batch) = 0
  BY <1>3, <1>4 DEF BatchInv
<1>6. loaded \in Nat /\ loaded <= facts /\ k \in Nat \ {0} /\ k <= MaxBatch
  BY <1>2, <1>4 DEF CountersInv
<1>7. CountersInv'
  BY <1>2, <1>3, <1>4, <1>6 DEF CountersInv
<1>8. batch' \in Seq(Message) /\ Len(batch') = k
  <2>1. \A i \in 1..k : BridgeEnvelope(loaded + i, facts + i) \in Message
    BY <1>4, <1>6 DEF BridgeEnvelope, Message, CountersInv
  <2>2. QED
    BY <1>2, <1>6, <2>1
<1>9. BatchInv'
  <2>1. \A i \in 1..k : /\ batch'[i].event_id = loaded + i
                         /\ batch'[i].sequence = loaded + i
                         /\ batch'[i].fact = facts + i
    BY <1>2 DEF BridgeEnvelope
  <2>2. /\ state_sequence' - k = loaded /\ facts' - k = facts
        /\ k <= state_sequence'
    BY <1>2, <1>4, <1>6 DEF CountersInv
  <2>3. QED
    BY <1>3, <1>8, <2>1, <2>2 DEF BatchInv
<1>10. StreamInv'
  <2>1. facts' - Len(batch') = facts /\ facts <= facts' /\ facts \in Nat /\ facts' \in Nat
    BY <1>2, <1>4, <1>6, <1>8 DEF CountersInv
  <2>2. stream' = stream /\ stream \in Seq(Message) /\ Stored' = Stored
    BY <1>3, <1>4 DEF StreamInv, Stored
  <2>3. Len(stream) + Len(batch') <= facts'
    <3>1. Len(stream) + Len(batch) <= facts
      BY <1>4 DEF StreamInv
    <3>2. Len(stream) \in Nat /\ Len(stream) <= facts
      BY <1>5, <2>1, <2>2, <3>1
    <3>3. facts' = facts + k
      BY <1>2
    <3>4. QED
      BY <1>6, <1>8, <2>1, <3>2, <3>3
  <2>4. \A i \in Stored : /\ stream[i].event_id \in 1..facts'
                          /\ stream[i].fact \in 1..facts
    BY <1>4, <1>5, <2>1 DEF StreamInv
  <2>5. QED
    BY <1>4, <2>1, <2>2, <2>3, <2>4 DEF StreamInv
<1>11. ReducerInv'
  BY <1>3, <1>4, SameReducer
<1>12. ASSUME read_errors' = 0 PROVE \E spoilt : Spoilt(spoilt)'
  <2>1. read_errors = 0 /\ loaded = saved_sequence
    BY <1>2, <1>4, <1>12 DEF CountersInv
  <2>2. PICK spoilt : Spoilt(spoilt)
    BY <1>4, <2>1
  <2>3. Spoilt(spoilt)'
    BY <1>2, <1>3, <1>4, <1>5, <1>6, <1>8, <2>1, <2>2 DEF Spoilt, Stored, CountersInv
  <2>4. QED
    BY <2>3
<1>13. QED
  BY <1>7, <1>9, <1>10, <1>11, <1>12 DEF FeedInv

\* The next fact of the batch goes to the stream under its number.
LEMMA PublishKeeps == FeedInv /\ PublishNext => FeedInv'
<1> SUFFICES ASSUME FeedInv, PublishNext PROVE FeedInv'
  OBVIOUS
<1>1. MaxBatch \in Nat /\ MaxFacts \in Nat
  BY BridgeAssumption
<1> USE <1>1
<1> DEFINE m == Head(batch)
           n == Len(stream) + 1
<1>2. /\ CountersInv /\ BatchInv /\ StreamInv /\ ReducerInv
      /\ read_errors = 0 => \E spoilt : Spoilt(spoilt)
  BY DEF FeedInv
<1>3. /\ in_cycle /\ batch # << >>
      /\ stream' = Append(stream, m) /\ batch' = Tail(batch)
      /\ UNCHANGED << saved_sequence, in_cycle, state_sequence, facts, crashes,
                      read_errors, lost_facts, reduced_facts, seen_event_ids >>
  BY DEF PublishNext, reducerVars
<1>4. /\ Len(batch) \in Nat \ {0} /\ m = batch[1] /\ m \in Message
      /\ Len(batch') = Len(batch) - 1 /\ batch' \in Seq(Message)
      /\ \A k \in 1..Len(batch') : batch'[k] = batch[k + 1]
  BY <1>2, <1>3 DEF BatchInv
<1>5. /\ Len(stream) \in Nat /\ stream' \in Seq(Message) /\ Len(stream') = n
      /\ \A i \in Stored : stream'[i] = stream[i]
      /\ stream'[n] = m
  BY <1>2, <1>3, <1>4 DEF StreamInv, Stored
<1>6. Stored' = Stored \union {n} /\ n \notin Stored
  BY <1>5 DEF Stored
<1>7. /\ m.event_id = state_sequence - Len(batch) + 1
      /\ m.fact = facts - Len(batch) + 1
  BY <1>2, <1>4 DEF BatchInv
<1> HIDE DEF m, n
<1>8. CountersInv'
  BY <1>2, <1>3 DEF CountersInv
<1>9. BatchInv'
  BY <1>2, <1>3, <1>4 DEF BatchInv, CountersInv
<1>10. m.event_id \in 1..facts /\ m.fact \in 1..(facts - Len(batch) + 1)
  BY <1>2, <1>4, <1>7 DEF CountersInv, BatchInv
<1>11. StreamInv'
  <2>1. \A i \in Stored : stream[i].fact # m.fact
    BY <1>2, <1>4, <1>7 DEF StreamInv, CountersInv
  <2>2. \A i, j \in Stored : stream[i].fact = stream[j].fact =>
          stream[i].event_id = stream[j].event_id
    BY <1>2 DEF StreamInv
  <2>3. \A i, j \in Stored' : stream'[i].fact = stream'[j].fact =>
          stream'[i].event_id = stream'[j].event_id
    BY <1>5, <1>6, <2>1, <2>2
  <2>4. \A i \in Stored : /\ stream[i].event_id \in 1..facts
                          /\ stream[i].fact \in 1..(facts - Len(batch))
    BY <1>2 DEF StreamInv
  <2>5. facts - Len(batch') = facts - Len(batch) + 1 /\ facts - Len(batch) \in Int
    BY <1>2, <1>4 DEF CountersInv
  <2>6. \A i \in Stored' : /\ stream'[i].event_id \in 1..facts
                           /\ stream'[i].fact \in 1..(facts - Len(batch'))
    BY <1>5, <1>6, <1>10, <2>4, <2>5
  <2>7. Len(stream') + Len(batch') <= facts
    BY <1>2, <1>4, <1>5 DEF StreamInv, CountersInv, n
  <2>8. QED
    BY <1>3, <1>5, <2>3, <2>6, <2>7 DEF StreamInv
<1>12. ReducerInv'
  <2>1. \A i \in Stored : i \in Stored' /\ stream'[i] = stream[i]
    BY <1>5, <1>6
  <2>2. QED
    BY <1>2, <1>3, <2>1, ReducerStep
<1>13. ASSUME read_errors' = 0 PROVE \E spoilt : Spoilt(spoilt)'
  <2>1. PICK spoilt : Spoilt(spoilt)
    BY <1>2, <1>3, <1>13
  <2>2. /\ saved_sequence \in Nat /\ state_sequence \in Nat /\ facts \in Nat
        /\ saved_sequence <= state_sequence - Len(batch)
        /\ m.event_id = state_sequence - Len(batch) + 1
        /\ m.fact = facts - Len(batch) + 1
        /\ state_sequence - Len(batch') = state_sequence - Len(batch) + 1
    BY <1>2, <1>3, <1>4, <1>7, <2>1 DEF Spoilt, CountersInv
  <2>3. \A i \in Stored : stream[i].event_id \in Int /\ stream[i].fact \in Int
    BY <1>2 DEF StreamInv
  <2>4. \A i \in Stored : stream[i].fact \notin spoilt =>
       \/ stream[i].event_id <= saved_sequence
       \/ /\ saved_sequence < stream[i].event_id
          /\ stream[i].event_id <= state_sequence - Len(batch)
          /\ stream[i].fact = facts - state_sequence + stream[i].event_id
    BY <2>1 DEF Spoilt
  <2>5. \A i \in Stored : stream[i].fact \notin spoilt => stream[i].event_id < m.event_id
    BY <1>4, <2>2, <2>3, <2>4
  <2>6. \A i, j \in Stored' :
       /\ stream'[i].fact \notin spoilt
       /\ stream'[j].fact \notin spoilt
       /\ stream'[i].event_id = stream'[j].event_id
       => stream'[i].fact = stream'[j].fact
    <3>1. \A i \in Stored : stream[i].fact \notin spoilt => stream[i].event_id # m.event_id
      BY <1>2, <1>10, <2>5 DEF StreamInv
    <3>2. QED
      BY <1>5, <1>6, <2>1, <3>1 DEF Spoilt
  <2>7. \A i \in Stored' : stream'[i].fact \notin spoilt =>
       \/ stream'[i].event_id <= saved_sequence
       \/ /\ saved_sequence < stream'[i].event_id
          /\ stream'[i].event_id <= state_sequence - Len(batch')
          /\ stream'[i].fact = facts - state_sequence + stream'[i].event_id
    <3>1. ASSUME NEW i \in Stored, stream[i].fact \notin spoilt
          PROVE  \/ stream[i].event_id <= saved_sequence
                 \/ /\ saved_sequence < stream[i].event_id
                    /\ stream[i].event_id <= state_sequence - Len(batch')
                    /\ stream[i].fact = facts - state_sequence + stream[i].event_id
      BY <1>4, <2>2, <2>3, <2>4, <3>1
    <3>2. /\ saved_sequence < m.event_id
          /\ m.event_id <= state_sequence - Len(batch')
          /\ m.fact = facts - state_sequence + m.event_id
      BY <1>4, <2>2
    <3>3. QED
      BY <1>5, <1>6, <3>1, <3>2
  <2>8. in_cycle' /\ saved_sequence' <= state_sequence' - Len(batch')
    BY <1>3, <1>4, <2>2
  <2>9. /\ spoilt \subseteq 1..facts
        /\ Cardinality(spoilt) <= MaxBatch * crashes
        /\ state_sequence - saved_sequence <= MaxBatch
        /\ state_sequence - saved_sequence <= facts
    BY <1>3, <2>1 DEF Spoilt
  <2>10. Spoilt(spoilt)'
    BY <1>3, <2>6, <2>7, <2>8, <2>9 DEF Spoilt
  <2>11. QED
    BY <2>10
<1>14. QED
  BY <1>8, <1>9, <1>11, <1>12, <1>13 DEF FeedInv

\* A cycle that published its batch saves the last number.
LEMMA SaveKeeps == FeedInv /\ SaveState => FeedInv'
<1> SUFFICES ASSUME FeedInv, SaveState PROVE FeedInv'
  OBVIOUS
<1>1. MaxBatch \in Nat /\ MaxFacts \in Nat
  BY BridgeAssumption
<1> USE <1>1
<1>2. /\ CountersInv /\ BatchInv /\ StreamInv /\ ReducerInv
      /\ read_errors = 0 => \E spoilt : Spoilt(spoilt)
  BY DEF FeedInv
<1>3. /\ in_cycle /\ batch = << >> /\ Len(batch) = 0
      /\ saved_sequence' = state_sequence /\ in_cycle' = FALSE
      /\ UNCHANGED << state_sequence, batch, facts, crashes, read_errors, stream,
                      lost_facts, reduced_facts, seen_event_ids >>
  BY DEF SaveState, reducerVars
<1>4. CountersInv'
  <2>1. in_cycle' \in BOOLEAN
    BY <1>3
  <2>2. QED
    BY <1>2, <1>3, <2>1 DEF CountersInv
<1>5. BatchInv'
  BY <1>2, <1>3 DEF BatchInv
<1>6. CountersInv' /\ BatchInv' /\ StreamInv' /\ ReducerInv'
  BY <1>2, <1>3, <1>4, <1>5, SameStream, SameReducer
<1>7. ASSUME read_errors' = 0 PROVE \E spoilt : Spoilt(spoilt)'
  <2>1. PICK spoilt : Spoilt(spoilt)
    BY <1>2, <1>3, <1>7
  <2>2. \A i \in Stored : stream[i].fact \notin spoilt =>
          stream[i].event_id <= state_sequence
    BY <1>2, <1>3, <2>1 DEF Spoilt, CountersInv, StreamInv
  <2>3. Spoilt(spoilt)'
    BY <1>3, <2>1, <2>2 DEF Spoilt, Stored
  <2>4. QED
    BY <2>3
<1>8. QED
  BY <1>6, <1>7 DEF FeedInv

\* A crash spoils the facts of its cycle, at most MaxBatch of them.
LEMMA CrashKeeps == FeedInv /\ Crash => FeedInv'
<1> SUFFICES ASSUME FeedInv, Crash PROVE FeedInv'
  OBVIOUS
<1>1. MaxBatch \in Nat /\ MaxFacts \in Nat
  BY BridgeAssumption
<1> USE <1>1
<1>2. /\ CountersInv /\ BatchInv /\ StreamInv /\ ReducerInv
      /\ read_errors = 0 => \E spoilt : Spoilt(spoilt)
  BY DEF FeedInv
<1>3. /\ in_cycle /\ in_cycle' = FALSE /\ crashes' = crashes + 1
      /\ batch' = << >> /\ Len(batch') = 0
      /\ UNCHANGED << saved_sequence, state_sequence, facts, read_errors, stream,
                      lost_facts, reduced_facts, seen_event_ids >>
  BY DEF Crash, reducerVars
<1>4. Len(batch) \in Nat /\ batch' \in Seq(Message)
  BY <1>2, <1>3 DEF BatchInv
<1>5. CountersInv'
  <2>1. in_cycle' \in BOOLEAN
    BY <1>3
  <2>2. QED
    BY <1>2, <1>3, <2>1 DEF CountersInv
<1>6. CountersInv' /\ BatchInv'
  BY <1>2, <1>3, <1>4, <1>5 DEF BatchInv, CountersInv
<1>7. StreamInv'
  <2>1. \A i \in Stored : stream[i].fact \in 1..facts
    BY <1>2, <1>4 DEF StreamInv, CountersInv
  <2>2. Len(stream) + 0 <= facts
    BY <1>2, <1>4 DEF StreamInv, CountersInv
  <2>3. stream \in Seq(Message) /\ Len(stream) \in Nat /\ Stored' = Stored
    BY <1>2, <1>3 DEF StreamInv, Stored
  <2>4. \A i \in Stored : stream[i].event_id \in 1..facts
    BY <1>2 DEF StreamInv
  <2>5. \A k, l \in Stored :
          stream[k].fact = stream[l].fact => stream[k].event_id = stream[l].event_id
    BY <1>2 DEF StreamInv
  <2>6. Len(stream') + Len(batch') <= facts' /\ facts' - Len(batch') = facts
    BY <1>2, <1>3, <2>2, <2>3 DEF CountersInv
  <2>7. QED
    BY <1>3, <2>1, <2>3, <2>4, <2>5, <2>6 DEF StreamInv
<1>8. ReducerInv'
  BY <1>2, <1>3, SameReducer
<1>9. ASSUME read_errors' = 0 PROVE \E spoilt : Spoilt(spoilt)'
  <2>1. PICK spoilt : Spoilt(spoilt)
    BY <1>2, <1>3, <1>9
  <2> DEFINE cycle == (facts - (state_sequence - saved_sequence) + 1)..facts
             more == spoilt \union cycle
  <2>2. cycle \subseteq 1..facts /\ state_sequence - saved_sequence \in 0..MaxBatch
    BY <1>2, <1>3, <1>4, <2>1 DEF Spoilt, CountersInv
  <2>3. IsFiniteSet(cycle) /\ Cardinality(cycle) <= MaxBatch
    <3> DEFINE first == facts - (state_sequence - saved_sequence) + 1
    <3>1. first \in Int /\ facts \in Int /\ facts - first + 1 <= MaxBatch
      BY <1>2, <2>2 DEF CountersInv
    <3> HIDE DEF first
    <3>2. IsFiniteSet(first..facts)
          /\ Cardinality(first..facts) = IF first > facts THEN 0 ELSE facts - first + 1
      BY <3>1, FS_Interval
    <3>3. Cardinality(first..facts) <= MaxBatch
      BY <3>1, <3>2
    <3>4. QED
      BY <3>2, <3>3 DEF first
  <2>4. IsFiniteSet(spoilt)
    <3>1. IsFiniteSet(1..facts)
      BY <1>2, FS_Interval DEF CountersInv
    <3>2. QED
      BY <2>1, <3>1, FS_Subset DEF Spoilt
  <2>5. Cardinality(more) <= MaxBatch * (crashes + 1)
    <3>1. Cardinality(more) = Cardinality(spoilt) + Cardinality(cycle)
                                - Cardinality(spoilt \cap cycle)
      BY <2>3, <2>4, FS_Union
    <3>2. IsFiniteSet(spoilt \cap cycle)
      BY <2>3, FS_Subset
    <3>3. /\ Cardinality(spoilt) \in Nat /\ Cardinality(cycle) \in Nat
          /\ Cardinality(spoilt \cap cycle) \in Nat
      BY <2>3, <2>4, <3>2, FS_CardinalityType
    <3>4. Cardinality(spoilt) <= MaxBatch * crashes
      BY <2>1 DEF Spoilt
    <3>5. MaxBatch * (crashes + 1) = MaxBatch * crashes + MaxBatch
          /\ MaxBatch * crashes \in Nat
      BY <1>2 DEF CountersInv
    <3> HIDE DEF more, cycle
    <3>6. QED
      BY <2>3, <3>1, <3>3, <3>4, <3>5
  <2>6. \A i \in Stored : stream[i].fact \notin more => stream[i].event_id <= saved_sequence
    <3>1. SUFFICES ASSUME NEW i \in Stored, stream[i].fact \notin spoilt,
                          saved_sequence < stream[i].event_id,
                          stream[i].event_id <= state_sequence - Len(batch),
                          stream[i].fact = facts - state_sequence + stream[i].event_id
                   PROVE  stream[i].fact \in cycle
      BY <2>1 DEF Spoilt
    <3>2. stream[i].event_id \in Nat /\ stream[i].fact \in Nat
      BY <1>2 DEF StreamInv, CountersInv, Message, Stored
    <3>3. QED
      BY <1>2, <1>4, <3>1, <3>2 DEF CountersInv
  <2>7. more \subseteq 1..facts
    BY <2>1, <2>2 DEF Spoilt
  <2>8. \A i \in Stored : stream[i].fact \notin more => stream[i].fact \notin spoilt
    OBVIOUS
  <2>9. \A i, j \in Stored :
          /\ stream[i].fact \notin more
          /\ stream[j].fact \notin more
          /\ stream[i].event_id = stream[j].event_id
          => stream[i].fact = stream[j].fact
    BY <2>1, <2>8 DEF Spoilt
  <2> HIDE DEF more
  <2>10. Stored' = Stored
    BY <1>3 DEF Stored
  <2>11. PICK bound : bound = more   \* more speaks of the state before
    OBVIOUS
  <2>12. Spoilt(bound)'
    <3>1. ~ in_cycle' /\ crashes' = crashes + 1
      BY <1>3
    <3>2. Cardinality(bound) <= MaxBatch * crashes'
      BY <2>5, <2>11, <3>1
    <3>3. /\ bound \subseteq 1..facts'
          /\ \A i \in Stored' : stream'[i].fact \notin bound =>
               stream'[i].event_id <= saved_sequence'
          /\ \A i, j \in Stored' :
               /\ stream'[i].fact \notin bound
               /\ stream'[j].fact \notin bound
               /\ stream'[i].event_id = stream'[j].event_id
               => stream'[i].fact = stream'[j].fact
      BY <1>3, <2>6, <2>7, <2>9, <2>10, <2>11
    <3>4. QED
      BY <3>1, <3>2, <3>3 DEF Spoilt
  <2>13. QED
    BY <2>12
<1>10. QED
  BY <1>6, <1>7, <1>8, <1>9 DEF FeedInv

\* The reducer takes an event of the stream, or drops it as seen.
LEMMA IngestKeeps ==
  ASSUME FeedInv, NEW i \in DOMAIN stream, Ingest(i) \/ DropAsDuplicate(i)
  PROVE  FeedInv'
<1>1. /\ CountersInv /\ BatchInv /\ StreamInv /\ ReducerInv
      /\ read_errors = 0 => \E spoilt : Spoilt(spoilt)
  BY DEF FeedInv
<1>2. UNCHANGED << bridgeVars, stream >> /\ i \in Stored
  BY <1>1 DEF Ingest, DropAsDuplicate, Stored, StreamInv
<1>3. CountersInv'
  BY <1>1, <1>2 DEF CountersInv, bridgeVars
<1>4. CountersInv' /\ BatchInv' /\ StreamInv'
  BY <1>1, <1>2, <1>3, SameBatch, SameStream DEF bridgeVars
<1>5. Stored' = Stored /\ stream' = stream
  BY <1>2 DEF Stored
<1>6. ASSUME Ingest(i) PROVE ReducerInv'
  <2>1. /\ stream[i].event_id \notin seen_event_ids
        /\ seen_event_ids' = seen_event_ids \union {stream[i].event_id}
        /\ reduced_facts' = reduced_facts \union {stream[i].fact}
        /\ UNCHANGED << stream, lost_facts >>
    BY <1>6 DEF Ingest, Intake!IngestEnvelope
  <2>2. stream[i].fact \notin lost_facts
    BY <1>1, <1>2, <2>1 DEF ReducerInv, StreamInv
  <2>3. QED
    BY <1>1, <1>2, <1>5, <2>1, <2>2, ReducerStep
<1>7. ASSUME DropAsDuplicate(i) PROVE ReducerInv'
  <2>1. /\ stream[i].event_id \in seen_event_ids
        /\ lost_facts' = lost_facts \union ({stream[i].fact} \ reduced_facts)
        /\ UNCHANGED << stream, reduced_facts, seen_event_ids >>
    BY <1>7 DEF DropAsDuplicate, Intake!CountDuplicate
  <2>2. QED
    BY <1>1, <1>2, <1>5, <2>1, ReducerStep
<1>8. ReducerInv'
  <2>1. Ingest(i) \/ DropAsDuplicate(i)
    OBVIOUS
  <2>2. QED
    BY <1>6, <1>7, <2>1
<1>9. ASSUME NEW spoilt, Spoilt(spoilt) PROVE Spoilt(spoilt)'
  BY <1>2, <1>9 DEF Spoilt, Stored, bridgeVars
<1>10. read_errors' = read_errors
  BY <1>2 DEF bridgeVars
<1>11. QED
  BY <1>1, <1>4, <1>8, <1>9, <1>10 DEF FeedInv

\* Every step preserves the invariant.
LEMMA NextFeedInv == FeedInv /\ [Next]_vars => FeedInv'
<1> SUFFICES ASSUME FeedInv, [Next]_vars PROVE FeedInv'
  OBVIOUS
<1>1. CASE UNCHANGED vars
  <2>1. CountersInv' /\ BatchInv' /\ StreamInv' /\ ReducerInv'
    <3>1. CountersInv'
      BY <1>1 DEF FeedInv, vars, bridgeVars, CountersInv
    <3>2. QED
      BY <1>1, <3>1, SameBatch, SameStream, SameReducer
      DEF FeedInv, vars, bridgeVars, reducerVars
  <2>2. ASSUME NEW spoilt, Spoilt(spoilt) PROVE Spoilt(spoilt)'
    BY <1>1, <2>2 DEF vars, bridgeVars, Spoilt, Stored
  <2>3. read_errors' = read_errors
    BY <1>1 DEF vars, bridgeVars
  <2>4. QED
    BY <2>1, <2>2, <2>3 DEF FeedInv
<1>2. QED
  BY <1>1, BuildKeeps, PublishKeeps, SaveKeeps, CrashKeeps, IngestKeeps DEF Next

\* FeedInv, the inductive invariant, holds for any batch size and any number of
\* cycles, crashes and unreadable state files.
THEOREM FeedInvariant == Spec => []FeedInv
BY InitFeedInv, NextFeedInv, PTL DEF Spec

\* The bridge, its stream and the reducer behind it are well typed (TypeOK).
THEOREM FeedTypeCorrect == Spec => []TypeOK
<1>1. FeedInv => TypeOK
  <2> SUFFICES ASSUME FeedInv PROVE TypeOK
    OBVIOUS
  <2>1. CountersInv /\ BatchInv /\ StreamInv /\ ReducerInv
    BY DEF FeedInv
  <2>2. /\ saved_sequence \in 0..MaxFacts /\ state_sequence \in 0..MaxFacts
        /\ in_cycle \in BOOLEAN
    BY <2>1, BridgeAssumption DEF CountersInv
  <2>3. /\ ~ in_cycle => batch = << >>
        /\ lost_facts \intersect reduced_facts = {}
    BY <2>1 DEF BatchInv, ReducerInv
  <2>4. \A k \in DOMAIN batch : batch[k].sequence <= state_sequence
    <3>1. /\ batch \in Seq(Message) /\ Len(batch) \in Nat
          /\ state_sequence \in Nat
      BY <2>1 DEF BatchInv, CountersInv
    <3>2. \A k \in 1..Len(batch) : batch[k].sequence = state_sequence - Len(batch) + k
      BY <2>1 DEF BatchInv
    <3>3. QED
      BY <3>1, <3>2
  <2>5. Len(stream) <= facts
    BY <2>1 DEF StreamInv, BatchInv, CountersInv
  <2>6. seen_event_ids \subseteq 1..MaxFacts
    <3>1. ASSUME NEW e \in seen_event_ids PROVE e \in 1..facts
      BY <2>1, <3>1 DEF ReducerInv, StreamInv
    <3>2. QED
      BY <2>1, <3>1, BridgeAssumption DEF CountersInv
  <2>7. QED
    BY <2>2, <2>3, <2>4, <2>5, <2>6 DEF TypeOK
<1>2. QED
  BY <1>1, FeedInvariant, PTL

-----------------------------------------------------------------------------
\* Each lost fact that is not spoilt gave way to a spoilt one that was reduced
\* under its number, and to no other's: the lost facts are not more than the
\* spoilt ones.
LEMMA LostAreSpoilt ==
  ASSUME StreamInv, ReducerInv, facts \in Nat, NEW spoilt, Spoilt(spoilt)
  PROVE  Cardinality(lost_facts) <= Cardinality(spoilt)
<1> DEFINE InPlaceOf(g, f) ==
             /\ g \in spoilt /\ g \in reduced_facts
             /\ \E i, j \in Stored : /\ stream[i].fact = f /\ stream[j].fact = g
                                     /\ stream[i].event_id = stream[j].event_id
           cause == [f \in lost_facts |->
                       IF f \in spoilt THEN f ELSE CHOOSE g : InPlaceOf(g, f)]
<1>1. ASSUME NEW f \in lost_facts, f \notin spoilt
      PROVE  InPlaceOf(cause[f], f)
  <2>1. PICK i \in Stored : stream[i].fact = f /\ stream[i].event_id \in seen_event_ids
    BY <1>1 DEF ReducerInv
  <2>2. PICK j \in Stored : stream[j].event_id = stream[i].event_id
                              /\ stream[j].fact \in reduced_facts
    BY <2>1 DEF ReducerInv
  <2>3. f \notin reduced_facts
    BY <1>1 DEF ReducerInv
  <2>4. stream[j].fact \in spoilt
    BY <1>1, <2>1, <2>2, <2>3 DEF Spoilt
  <2>5. InPlaceOf(stream[j].fact, f)
    BY <2>1, <2>2, <2>4
  <2>6. InPlaceOf(CHOOSE g : InPlaceOf(g, f), f)
    <3> HIDE DEF InPlaceOf
    <3>1. QED
      BY <2>5
  <2>7. QED
    BY <1>1, <2>6
<1>2. \A f \in lost_facts : f \in spoilt => cause[f] = f
  OBVIOUS
<1>3. cause \in [lost_facts -> spoilt]
  <2>1. \A f \in lost_facts : cause[f] \in spoilt
    BY <1>1, <1>2
  <2>2. QED
    BY <2>1
<1> HIDE DEF cause
<1>4. ASSUME NEW f \in lost_facts, NEW g \in lost_facts, cause[f] = cause[g]
      PROVE  f = g
  <2>1. \A h \in lost_facts : h \notin reduced_facts
    BY DEF ReducerInv
  <2>2. CASE f \in spoilt \/ g \in spoilt
    BY <1>1, <1>2, <1>4, <2>1, <2>2
  <2>3. CASE f \notin spoilt /\ g \notin spoilt
    <3>1. PICK i, j \in Stored :
            /\ stream[i].fact = f /\ stream[j].fact = cause[f]
            /\ stream[i].event_id = stream[j].event_id
      BY <1>1, <2>3
    <3>2. PICK k, l \in Stored :
            /\ stream[k].fact = g /\ stream[l].fact = cause[g]
            /\ stream[k].event_id = stream[l].event_id
      BY <1>1, <2>3
    <3>3. stream[j].event_id = stream[l].event_id
      BY <1>4, <3>1, <3>2 DEF StreamInv
    <3>4. QED
      BY <2>3, <3>1, <3>2, <3>3 DEF Spoilt
  <2>4. QED
    BY <2>2, <2>3
<1>5. cause \in Injection(lost_facts, spoilt)
  BY <1>3, <1>4 DEF Injection, IsInjective
<1>6. IsFiniteSet(spoilt)
  <2>1. IsFiniteSet(1..facts)
    BY FS_Interval
  <2>2. QED
    BY <2>1, FS_Subset DEF Spoilt
<1>7. QED
  BY <1>5, <1>6, FS_Injection

\* LossBoundedByCrashes: with a readable state file the reducer loses at most
\* one batch per crashed cycle of the bridge, and nothing without a crash.
THEOREM LossIsBounded == Spec => []LossBoundedByCrashes
<1>1. FeedInv => LossBoundedByCrashes
  <2> SUFFICES ASSUME FeedInv, read_errors = 0
               PROVE  Cardinality(lost_facts) <= MaxBatch * crashes
    BY DEF LossBoundedByCrashes
  <2>1. PICK spoilt : Spoilt(spoilt)
    BY DEF FeedInv
  <2>2. Cardinality(lost_facts) <= Cardinality(spoilt)
    BY <2>1, LostAreSpoilt DEF FeedInv, CountersInv
  <2>3. Cardinality(spoilt) <= MaxBatch * crashes
    BY <2>1 DEF Spoilt
  <2>4. /\ MaxBatch * crashes \in Nat
        /\ Cardinality(spoilt) \in Nat /\ Cardinality(lost_facts) \in Nat
    <3>1. facts \in Nat /\ crashes \in Nat /\ MaxBatch \in Nat
      BY BridgeAssumption DEF FeedInv, CountersInv
    <3>2. IsFiniteSet(1..facts)
      BY <3>1, FS_Interval
    <3>3. IsFiniteSet(spoilt)
      BY <2>1, <3>2, FS_Subset DEF Spoilt
    <3>4. IsFiniteSet(lost_facts)
      <4>1. \A f \in lost_facts : \E i \in Stored : f = stream[i].fact
        BY DEF FeedInv, ReducerInv
      <4>2. \A i \in Stored : stream[i].fact \in 1..(facts - Len(batch))
        BY DEF FeedInv, StreamInv
      <4>3. Len(batch) \in Nat
        BY DEF FeedInv, BatchInv
      <4>4. lost_facts \subseteq 1..facts
        BY <3>1, <4>1, <4>2, <4>3
      <4>5. QED
        BY <3>2, <4>4, FS_Subset
    <3>5. MaxBatch * crashes \in Nat
      BY <3>1
    <3>6. QED
      BY <3>3, <3>4, <3>5, FS_CardinalityType
  <2>5. QED
    BY <2>2, <2>3, <2>4
<1>2. QED
  BY <1>1, FeedInvariant, PTL
=============================================================================
