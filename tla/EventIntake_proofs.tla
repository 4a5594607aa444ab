------------------------- MODULE EventIntake_proofs -------------------------
(***************************************************************************)
(* Proofs about EventIntake, AuditRing and StrategyTable, the three parts  *)
(* of reduce_event on one stream of envelopes, for any set of producers    *)
(* and any bounds.  Each has an inductive invariant, which the next one    *)
(* rests on: IntakeInv ties the counters to what was received, RingInv the *)
(* ring to what was ingested, and TableInv the rows and the chains to the  *)
(* history of what was heard.                                              *)
(***************************************************************************)
EXTENDS StrategyTable, FiniteSetTheorems, SequenceTheorems, WellFoundedInduction, TLAPS

\* The numbers an envelope of a producer may carry.
LEMMA EnvelopeType ==
  ASSUME NEW p \in Producers, NEW n \in 1..MaxSent
  PROVE  /\ Envelope(p, n).event_id = << p, n >>
         /\ Envelope(p, n).producer = p
         /\ Envelope(p, n).sequence \in 0..MaxSent
         /\ p \notin Unnumbered => Envelope(p, n).sequence = n
  BY IntakeAssumption DEF Envelope

\* Delivering envelope n of p adds n to what was received from p, which did
\* not hold it, and nothing to what was received from the others.
LEMMA DeliverReceived ==
  ASSUME TypeOK, NEW p \in Producers, NEW n \in 1..MaxSent, Deliver(p, n)
  PROVE  /\ n \notin Received(p)
         /\ Received(p)' = Received(p) \union {n}
         /\ \A q \in Producers : q # p => Received(q)' = Received(q)
  <1>1. /\ << p, n >> \notin seen_event_ids
        /\ seen_event_ids' = seen_event_ids \union {<< p, n >>}
    BY EnvelopeType DEF Deliver, IngestEnvelope
  <1>2. n \notin Received(p)
    BY <1>1 DEF Received
  <1>3. Received(p)' = Received(p) \union {n}
    BY <1>1 DEF Received
  <1>4. ASSUME NEW q \in Producers, q # p
        PROVE  Received(q)' = Received(q)
    BY <1>1, <1>4 DEF Received
  <1>5. QED
    BY <1>2, <1>3, <1>4

\* The counters never decrease, and a delivery that leaves them quiet was not
\* out of order (and left no gap).
LEMMA DeliverCounters ==
  ASSUME TypeOK, NEW p \in Producers, NEW n \in 1..MaxSent, Deliver(p, n)
  PROVE  LET previous == last_sequence_by_producer[p]
             sequence == Envelope(p, n).sequence
         IN  /\ out_of_order_events' \in Nat
             /\ sequence_gaps' \in Nat
             /\ out_of_order_events' >= out_of_order_events
             /\ sequence_gaps' >= sequence_gaps
             /\ out_of_order_events' = 0 =>
                  (previous = Absent \/ sequence > previous)
             /\ (out_of_order_events' > out_of_order_events) <=>
                  (previous # Absent /\ sequence <= previous)
             /\ (sequence_gaps' = 0 /\ previous # Absent) => sequence <= previous + 1
  <1> DEFINE previous == last_sequence_by_producer[p]
             sequence == Envelope(p, n).sequence
  <1>1. /\ previous \in Int
        /\ sequence \in Int
        /\ out_of_order_events \in Nat
        /\ sequence_gaps \in Nat
    BY EnvelopeType, IntakeAssumption DEF TypeOK, Absent
  <1>2. /\ out_of_order_events' = out_of_order_events +
             (IF OutOfOrder(previous, sequence) THEN 1 ELSE 0)
        /\ sequence_gaps' = sequence_gaps + GapAfter(previous, sequence)
    BY EnvelopeType DEF Deliver, IngestEnvelope
  <1> HIDE DEF previous, sequence
  <1>3. QED
    BY <1>1, <1>2 DEF OutOfOrder, GapAfter, previous, sequence

-----------------------------------------------------------------------------
\* Nothing was received, and nothing counted.
LEMMA InitInv == Init => IntakeInv
  <1> SUFFICES ASSUME Init PROVE IntakeInv
    OBVIOUS
  <1>1. TypeOK
    <2>1. 0 \in 0..MaxSent
      BY IntakeAssumption
    <2>2. sent \in [Producers -> 0..MaxSent]
      BY <2>1 DEF Init
    <2>3. last_sequence_by_producer \in [Producers -> {Absent} \union 0..MaxSent]
      BY DEF Init
    <2>4. seen_event_ids = {} /\ reordered \in BOOLEAN
      BY DEF Init
    <2>5. /\ duplicate_events \in Nat /\ out_of_order_events \in Nat
          /\ sequence_gaps \in Nat /\ events_ingested \in Nat
      BY DEF Init
    <2>6. QED
      BY <2>2, <2>3, <2>4, <2>5 DEF TypeOK
  <1>2. \A p \in Producers : Received(p) = {}
    BY DEF Init, Received
  <1>3. LastIsGreatest /\ UnbrokenToLast
    BY <1>2 DEF Init, LastIsGreatest, UnbrokenToLast, Absent
  <1>4. ReorderingCounted
    BY DEF Init, ReorderingCounted, OutOfOrderIffReordered
  <1>5. UnnumberedOnce
    BY <1>2, IntakeAssumption DEF Init, UnnumberedOnce, Absent
  <1>6. GapsCounted
    <2>1. Skipped = {}
      BY <1>2 DEF Skipped
    <2>2. QED
      BY <2>1, FS_EmptySet DEF Init, GapsCounted, GapsExactWhileInOrder
  <1>7. QED
    BY <1>1, <1>3, <1>4, <1>5, <1>6 DEF IntakeInv

\* A step that touches neither what was seen nor the counters and the last
\* sequences keeps these facts.
LEMMA FrameInv ==
  ASSUME IntakeInv,
         UNCHANGED << seen_event_ids, last_sequence_by_producer,
                      out_of_order_events, sequence_gaps, reordered >>
  PROVE  /\ LastIsGreatest' /\ UnbrokenToLast' /\ ReorderingCounted'
         /\ UnnumberedOnce' /\ GapsCounted'
  <1>1. LastIsGreatest' /\ UnbrokenToLast' /\ ReorderingCounted'
    BY DEF IntakeInv, LastIsGreatest, UnbrokenToLast, ReorderingCounted,
           OutOfOrderIffReordered, Received
  <1>2. UnnumberedOnce'
    BY DEF IntakeInv, UnnumberedOnce, Received
  <1>3. Skipped' = Skipped
    BY DEF Skipped, Received
  <1>4. GapsCounted'
    BY <1>3 DEF IntakeInv, GapsCounted, GapsExactWhileInOrder
  <1>5. QED
    BY <1>1, <1>2, <1>4

\* An envelope that is the first of its producer, or follows the latest one
\* ingested, adds to the skipped ones those between the two.
LEMMA DeliverSkipped ==
  ASSUME TypeOK, NEW p \in Producers, NEW n \in 1..MaxSent, Deliver(p, n),
         NEW last \in 0..MaxSent, last < n,
         IF last = 0 THEN Received(p) = {}
         ELSE last \in Received(p) /\ \A m \in Received(p) : m <= last
  PROVE  Skipped' = Skipped \union
           (IF last = 0 THEN {} ELSE {p} \X ((last + 1)..(n - 1)))
  <1> DEFINE added == IF last = 0 THEN {} ELSE {p} \X ((last + 1)..(n - 1))
  <1>1. /\ seen_event_ids' = seen_event_ids \union {<< p, n >>}
        /\ Received(p)' = Received(p) \union {n}
        /\ \A q \in Producers : q # p => Received(q)' = Received(q)
    BY DeliverReceived, EnvelopeType DEF Deliver, IngestEnvelope
  <1>2. MaxSent \in Nat /\ \A q \in Producers : Received(q) \subseteq 1..MaxSent
    BY IntakeAssumption DEF Received
  <1>3. \A m \in Received(p) : m < n
    BY <1>2
  <1>4. ASSUME NEW q \in Producers, NEW k \in 1..MaxSent
        PROVE  (<< q, k >> \in Skipped') <=> (<< q, k >> \in Skipped \union added)
    <2>1. (<< q, k >> \in Skipped) <=>
            (<< q, k >> \notin seen_event_ids /\ \E a, b \in Received(q) : a < k /\ k < b)
      BY DEF Skipped
    <2>2. (<< q, k >> \in Skipped') <=>
            (<< q, k >> \notin seen_event_ids' /\ \E a, b \in Received(q)' : a < k /\ k < b)
      BY DEF Skipped
    <2>3. (<< q, k >> \in added) <=> (last # 0 /\ q = p /\ k \in (last + 1)..(n - 1))
      OBVIOUS
    <2>4. CASE q # p
      BY <1>1, <2>1, <2>2, <2>3, <2>4
    <2>5. CASE q = p
      <3>1. (<< q, k >> \notin seen_event_ids') <=> (k \notin Received(p) /\ k # n)
        BY <1>1, <2>5 DEF Received
      <3>2. (<< q, k >> \notin seen_event_ids) <=> (k \notin Received(p))
        BY <2>5 DEF Received
      <3>3. CASE last = 0
        <4>1. Received(p) = {} /\ Received(p)' = {n}
          BY <1>1, <3>3
        <4>2. QED
          BY <1>2, <2>1, <2>2, <2>3, <2>5, <3>3, <4>1
      <3>4. CASE last # 0
        <4>1. last \in Received(p) /\ \A m \in Received(p) : m <= last
          BY <3>4
        <4>2. (\E a, b \in Received(q)' : a < k /\ k < b) <=>
                (k < n /\ \E a \in Received(p) : a < k)
          BY <1>1, <1>2, <1>3, <2>5
        <4>3. ASSUME k \notin Received(p)
              PROVE  (\E a \in Received(p) : a < k) <=>
                       (k > last \/ \E a, b \in Received(p) : a < k /\ k < b)
          BY <1>2, <4>1, <4>3
        <4>4. \A b \in Received(p) : k > last => ~ (k < b)
          BY <1>2, <4>1
        <4>5. (\E a, b \in Received(p) : a < k /\ k < b) => k < n
          BY <1>2, <1>3
        <4>6. k > last => k \notin Received(p)
          BY <1>2, <4>1
        <4>7. k \in (last + 1)..(n - 1) <=> (k > last /\ k < n)
          OBVIOUS
        <4>8. QED
          BY <2>1, <2>2, <2>3, <2>5, <3>1, <3>2, <3>4, <4>2, <4>3, <4>5, <4>6, <4>7
      <3>5. QED
        BY <3>3, <3>4
    <2>6. QED
      BY <2>4, <2>5
  <1>5. /\ Skipped \subseteq Producers \X (1..MaxSent)
        /\ Skipped' \subseteq Producers \X (1..MaxSent)
        /\ added \subseteq Producers \X (1..MaxSent)
    <2>1. Skipped \subseteq Producers \X (1..MaxSent)
      BY DEF Skipped
    <2>2. Skipped' \subseteq Producers \X (1..MaxSent)
      BY DEF Skipped
    <2>3. (last + 1)..(n - 1) \subseteq 1..MaxSent
      BY <1>2
    <2>4. added \subseteq Producers \X (1..MaxSent)
      BY <2>3
    <2>5. QED
      BY <2>1, <2>2, <2>4
  <1> HIDE DEF added
  <1>6. QED
    BY <1>4, <1>5 DEF added

\* An unseen envelope moves the counters as the invariant says.
LEMMA DeliverInv ==
  ASSUME IntakeInv, NEW p \in Producers, NEW n \in 1..sent[p], Deliver(p, n)
  PROVE  IntakeInv'
  <1> DEFINE last == last_sequence_by_producer[p]
             sequence == Envelope(p, n).sequence
  <1>1. n \in 1..MaxSent /\ TypeOK
    BY IntakeAssumption DEF IntakeInv, TypeOK
  <1>2. /\ last_sequence_by_producer' = [last_sequence_by_producer EXCEPT ![p] = sequence]
        /\ sequence \in 0..MaxSent
        /\ p \notin Unnumbered => sequence = n
        /\ seen_event_ids' = seen_event_ids \union {<< p, n >>}
        /\ events_ingested' = events_ingested + 1
        /\ reordered' = (reordered \/ \E m \in Received(p) : m > n)
        /\ UNCHANGED << sent, duplicate_events >>
    BY <1>1, EnvelopeType DEF Deliver, IngestEnvelope
  <1>3. TypeOK'
    BY <1>1, <1>2, DeliverCounters DEF TypeOK
  <1>4. /\ last_sequence_by_producer'[p] = sequence
        /\ \A q \in Producers : q # p =>
             /\ last_sequence_by_producer'[q] = last_sequence_by_producer[q]
             /\ Received(q)' = Received(q)
        /\ Received(p)' = Received(p) \union {n}
        /\ n \notin Received(p)
    BY <1>1, <1>2, DeliverReceived DEF TypeOK
  <1>5. LastIsGreatest'
    <2> SUFFICES ASSUME out_of_order_events' = 0,
                        NEW q \in Producers \ Unnumbered
                 PROVE  IF last_sequence_by_producer'[q] = Absent
                          THEN Received(q)' = {}
                          ELSE /\ last_sequence_by_producer'[q] \in Received(q)'
                               /\ \A m \in Received(q)' : m <= last_sequence_by_producer'[q]
      BY DEF LastIsGreatest
    <2>1. out_of_order_events = 0
      BY <1>1, DeliverCounters DEF TypeOK
    <2>2. CASE q # p
      BY <1>4, <2>1, <2>2 DEF IntakeInv, LastIsGreatest
    <2>3. CASE q = p
      <3>1. last = Absent \/ n > last
        BY <1>1, <1>2, <2>3, DeliverCounters
      <3>2. \A m \in Received(p) : m < n
        <4>1. IF last = Absent THEN Received(p) = {}
              ELSE last \in Received(p) /\ \A m \in Received(p) : m <= last
          BY <2>1, <2>3 DEF IntakeInv, LastIsGreatest
        <4>2. last \in Int /\ n \in Int /\ \A m \in Received(p) : m \in Int
          BY <1>1 DEF TypeOK, Absent, Received
        <4>3. QED
          BY <3>1, <4>1, <4>2
      <3>3. QED
        BY <1>1, <1>2, <1>4, <2>3, <3>2 DEF Absent, Received
    <2>4. QED
      BY <2>2, <2>3
  <1>6. UnbrokenToLast'
    <2> SUFFICES ASSUME out_of_order_events' = 0, sequence_gaps' = 0,
                        NEW q \in Producers \ Unnumbered,
                        NEW m \in Received(q)'
                 PROVE  m..last_sequence_by_producer'[q] \subseteq Received(q)'
      BY DEF UnbrokenToLast
    <2>1. out_of_order_events = 0 /\ sequence_gaps = 0
      BY <1>1, DeliverCounters DEF TypeOK
    <2>2. CASE q # p
      BY <1>4, <2>1, <2>2 DEF IntakeInv, UnbrokenToLast
    <2>3. CASE q = p
      <3>1. last_sequence_by_producer'[q] = n
        BY <1>2, <1>4, <2>3
      <3>2. CASE m = n
        BY <1>1, <1>4, <2>3, <3>1, <3>2
      <3>3. CASE m \in Received(p)
        <4>1. last # Absent /\ m..last \subseteq Received(p)
          BY <2>1, <2>3, <3>3 DEF IntakeInv, LastIsGreatest, UnbrokenToLast
        <4>2. n <= last + 1
          BY <1>1, <1>2, <2>3, <4>1, DeliverCounters
        <4>3. m..n \subseteq (m..last) \union {n}
          BY <1>1, <3>3, <4>2 DEF Received, TypeOK, Absent
        <4>4. QED
          BY <1>4, <2>3, <3>1, <4>1, <4>3
      <3>4. QED
        BY <1>4, <2>3, <3>2, <3>3
    <2>4. QED
      BY <2>2, <2>3
  <1>7. ReorderingCounted'
    <2> SUFFICES ASSUME Unnumbered = {}
                 PROVE  (out_of_order_events' > 0) <=> reordered'
      BY DEF ReorderingCounted, OutOfOrderIffReordered
    <2>1. (out_of_order_events > 0) <=> reordered
      BY DEF IntakeInv, ReorderingCounted, OutOfOrderIffReordered
    <2>2. CASE out_of_order_events > 0
      BY <1>1, <1>2, <2>1, <2>2, DeliverCounters DEF TypeOK
    <2>3. CASE out_of_order_events = 0
      <3>1. (out_of_order_events' > 0) <=> (last # Absent /\ n <= last)
        BY <1>1, <1>2, <2>3, DeliverCounters DEF TypeOK
      <3>2. (last # Absent /\ n <= last) <=> (\E m \in Received(p) : m > n)
        <4>1. IF last = Absent THEN Received(p) = {}
              ELSE last \in Received(p) /\ \A m \in Received(p) : m <= last
          BY <2>3 DEF IntakeInv, LastIsGreatest
        <4>2. last \in Int /\ n \in Int /\ \A m \in Received(p) : m \in Int
          BY <1>1 DEF TypeOK, Absent, Received
        <4>3. ASSUME last # Absent, n <= last
              PROVE  \E m \in Received(p) : m > n
          BY <1>4, <4>1, <4>2, <4>3
        <4>4. ASSUME NEW m \in Received(p), m > n
              PROVE  last # Absent /\ n <= last
          BY <4>1, <4>2, <4>4
        <4>5. QED
          BY <4>3, <4>4
      <3>3. ~ reordered
        BY <2>1, <2>3
      <3>4. QED
        BY <1>2, <3>1, <3>2, <3>3
    <2>4. QED
      BY <1>1, <2>2, <2>3 DEF TypeOK
  <1>8. UnnumberedOnce'
    <2> SUFFICES ASSUME out_of_order_events' = 0, NEW q \in Unnumbered
                 PROVE  IF last_sequence_by_producer'[q] = Absent
                          THEN Received(q)' = {}
                          ELSE /\ last_sequence_by_producer'[q] = 0
                               /\ \E k \in 1..MaxSent : Received(q)' = {k}
      BY DEF UnnumberedOnce
    <2>1. out_of_order_events = 0 /\ q \in Producers
      BY <1>1, DeliverCounters, IntakeAssumption DEF TypeOK
    <2>2. CASE q # p
      BY <1>4, <2>1, <2>2 DEF IntakeInv, UnnumberedOnce
    <2>3. CASE q = p
      <3>1. sequence = 0
        BY <2>3 DEF Envelope
      <3>2. last = Absent
        <4>1. last = Absent \/ sequence > last
          BY <1>1, DeliverCounters
        <4>2. last = Absent \/ last = 0
          BY <2>1, <2>3 DEF IntakeInv, UnnumberedOnce
        <4>3. QED
          BY <3>1, <4>1, <4>2
      <3>3. Received(p) = {}
        BY <2>1, <2>3, <3>2 DEF IntakeInv, UnnumberedOnce
      <3>4. QED
        BY <1>1, <1>4, <2>3, <3>1, <3>3 DEF Absent
    <2>4. QED
      BY <2>2, <2>3
  <1>9. GapsCounted'
    <2> SUFFICES ASSUME out_of_order_events' = 0
                 PROVE  IsFiniteSet(Skipped') /\ sequence_gaps' = Cardinality(Skipped')
      BY DEF GapsCounted, GapsExactWhileInOrder
    <2>1. out_of_order_events = 0
      BY <1>1, DeliverCounters DEF TypeOK
    <2>2. IsFiniteSet(Skipped) /\ sequence_gaps = Cardinality(Skipped)
      BY <2>1 DEF IntakeInv, GapsCounted, GapsExactWhileInOrder
    <2>3. sequence_gaps' = sequence_gaps + GapAfter(last, sequence)
      BY EnvelopeType, <1>1 DEF Deliver, IngestEnvelope
    <2>4. last = Absent \/ sequence > last
      BY <1>1, DeliverCounters
    <2>5. CASE last = Absent
      <3>1. Received(p) = {}
        BY <2>1, <2>5, IntakeAssumption DEF IntakeInv, LastIsGreatest, UnnumberedOnce
      <3>2. Skipped' = Skipped
        <4>1. 0 \in 0..MaxSent /\ 0 < n
          BY <1>1, IntakeAssumption
        <4>2. Skipped' = Skipped \union {}
          BY <1>1, <3>1, <4>1, DeliverSkipped
        <4>3. QED
          BY <4>2
      <3>3. QED
        BY <2>2, <2>3, <2>5, <3>2, <1>1 DEF GapAfter, TypeOK
    <2>6. CASE last # Absent
      <3>1. p \notin Unnumbered
        <4>1. p \in Unnumbered => last = 0 /\ sequence = 0
          BY <2>1, <2>6 DEF IntakeInv, UnnumberedOnce, Envelope
        <4>2. QED
          BY <2>4, <2>6, <4>1
      <3>2. last \in Received(p) /\ \A m \in Received(p) : m <= last
        BY <2>1, <2>6, <3>1 DEF IntakeInv, LastIsGreatest
      <3>3. last \in 1..MaxSent /\ last < n /\ sequence = n /\ n \in Int
        BY <1>1, <1>2, <2>4, <2>6, <3>1, <3>2 DEF Received
      <3> DEFINE between == (last + 1)..(n - 1)
                 added == {p} \X between
      <3>4. Skipped' = Skipped \union added
        BY <1>1, <3>2, <3>3, DeliverSkipped
      <3>5. Skipped \intersect added = {}
        <4>1. ASSUME NEW k \in between PROVE << p, k >> \notin Skipped
          <5>1. \A b \in Received(p) : ~ (k < b)
            BY <3>2, <3>3 DEF Received
          <5>2. QED
            BY <5>1 DEF Skipped
        <4>2. QED
          BY <4>1
      <3>6. IsFiniteSet(between) /\ Cardinality(between) = n - last - 1
        <4>1. last + 1 \in Int /\ n - 1 \in Int
          BY <3>3
        <4>2. /\ IsFiniteSet(between)
              /\ Cardinality(between) = IF last + 1 > n - 1 THEN 0 ELSE (n - 1) - (last + 1) + 1
          BY <4>1, FS_Interval
        <4>3. last \in Int
          BY <3>3
        <4> HIDE DEF between
        <4>4. QED
          BY <3>3, <4>2, <4>3
      <3>7. IsFiniteSet(added) /\ Cardinality(added) = n - last - 1
        <4> HIDE DEF between
        <4>1. IsFiniteSet({p}) /\ Cardinality({p}) = 1
          BY FS_Singleton
        <4>2. IsFiniteSet(added) /\ Cardinality(added) = Cardinality({p}) * Cardinality(between)
          BY <3>6, <4>1, FS_Product
        <4>3. QED
          BY <3>3, <3>6, <4>1, <4>2
      <3> HIDE DEF added
      <3>8. IsFiniteSet(Skipped') /\ Cardinality(Skipped') = Cardinality(Skipped) + Cardinality(added)
        <4>1. Cardinality(Skipped) \in Nat /\ Cardinality(added) \in Nat
          BY <2>2, <3>7, FS_CardinalityType
        <4>2. /\ IsFiniteSet(Skipped \union added)
              /\ Cardinality(Skipped \union added) =
                   Cardinality(Skipped) + Cardinality(added) - Cardinality(Skipped \intersect added)
          BY <2>2, <3>7, FS_Union
        <4>3. Cardinality(Skipped \union added) = Cardinality(Skipped) + Cardinality(added)
          <5> DEFINE all == Cardinality(Skipped \union added)
          <5>1. Cardinality(Skipped \intersect added) = 0
            BY <3>5, FS_EmptySet
          <5>2. all = Cardinality(Skipped) + Cardinality(added) - 0
            BY <4>2, <5>1
          <5> HIDE DEF all
          <5>3. all = Cardinality(Skipped) + Cardinality(added)
            BY <4>1, <5>2
          <5>4. QED
            BY <5>3 DEF all
        <4>4. QED
          BY <3>4, <4>2, <4>3
      <3>9. GapAfter(last, sequence) = n - last - 1
        BY <2>6, <3>3 DEF GapAfter
      <3>10. QED
        BY <2>2, <2>3, <3>7, <3>8, <3>9
    <2>7. QED
      BY <2>5, <2>6
  <1>10. QED
    BY <1>3, <1>5, <1>6, <1>7, <1>8, <1>9 DEF IntakeInv

\* Every step preserves the invariant.
LEMMA StepInv == IntakeInv /\ [Next]_vars => IntakeInv'
  <1> SUFFICES ASSUME IntakeInv, [Next]_vars PROVE IntakeInv'
    OBVIOUS
  <1>1. ASSUME NEW p \in Producers, Publish(p)
        PROVE  IntakeInv'
    <2>1. TypeOK'
      BY <1>1, IntakeAssumption DEF IntakeInv, TypeOK, Publish, stateVars
    <2>2. QED
      BY <1>1, <2>1, FrameInv DEF IntakeInv, Publish, stateVars
  <1>2. ASSUME NEW p \in Producers, NEW n \in 1..sent[p], Redeliver(p, n)
        PROVE  IntakeInv'
    <2>1. TypeOK'
      BY <1>2 DEF IntakeInv, TypeOK, Redeliver, CountDuplicate
    <2>2. QED
      BY <1>2, <2>1, FrameInv DEF IntakeInv, Redeliver, CountDuplicate
  <1>3. ASSUME NEW p \in Producers, NEW n \in 1..sent[p], Deliver(p, n)
        PROVE  IntakeInv'
    BY <1>3, DeliverInv
  <1>4. CASE UNCHANGED vars
    <2>1. TypeOK'
      BY <1>4 DEF IntakeInv, TypeOK, vars, stateVars
    <2>2. QED
      BY <1>4, <2>1, FrameInv DEF IntakeInv, vars, stateVars
  <1>5. QED
    BY <1>1, <1>2, <1>3, <1>4 DEF Next

-----------------------------------------------------------------------------
\* Whatever is delivered to reduce_event and in whatever order, its counters,
\* its last sequences and what it ingested stay related as IntakeInv says.
THEOREM IntakeInvariant == Spec => []IntakeInv
  BY InitInv, StepInv, PTL DEF Spec

\* reduce_event keeps the intake state well typed, whatever is delivered.
THEOREM IntakeTypeCorrect == Spec => []TypeOK
  <1>1. IntakeInv => TypeOK
    BY DEF IntakeInv
  <1>2. QED
    BY <1>1, InitInv, StepInv, PTL DEF Spec

\* For any producers: while reduce_event reports no gap and nothing out of
\* order, it has ingested an unbroken run from every numbered producer.
THEOREM QuietCountersComplete == Spec => []QuietCountersMeanContiguous
  <1>1. IntakeInv => QuietCountersMeanContiguous
    <2> SUFFICES ASSUME IntakeInv, out_of_order_events = 0, sequence_gaps = 0,
                        NEW p \in Producers \ Unnumbered,
                        NEW m \in Received(p), NEW n \in Received(p)
                 PROVE  m..n \subseteq Received(p)
      BY DEF QuietCountersMeanContiguous
    <2>1. /\ m..last_sequence_by_producer[p] \subseteq Received(p)
          /\ last_sequence_by_producer[p] # Absent
          /\ n <= last_sequence_by_producer[p]
      BY DEF IntakeInv, UnbrokenToLast, LastIsGreatest
    <2>2. /\ m \in Int /\ n \in Int
          /\ last_sequence_by_producer[p] \in Int
      BY DEF IntakeInv, TypeOK, Received, Absent
    <2>3. QED
      BY <2>1, <2>2
  <1>2. QED
    BY <1>1, InitInv, StepInv, PTL DEF Spec

\* When every producer numbers its envelopes, reduce_event counts something
\* out of order if and only if something was.
THEOREM OutOfOrderExact == Spec => [](Unnumbered = {} => OutOfOrderIffReordered)
  <1>1. IntakeInv => (Unnumbered = {} => OutOfOrderIffReordered)
    BY DEF IntakeInv, ReorderingCounted
  <1>2. QED
    BY <1>1, InitInv, StepInv, PTL DEF Spec

\* Until something comes out of order, the gaps that reduce_event counts are the
\* envelopes that were skipped, for any producers, numbered or not.
THEOREM GapsAreExact == Spec => []GapsExactWhileInOrder
  <1>1. IntakeInv => GapsExactWhileInOrder
    BY DEF IntakeInv, GapsCounted, GapsExactWhileInOrder
  <1>2. QED
    BY <1>1, InitInv, StepInv, PTL DEF Spec

-----------------------------------------------------------------------------
(* The ring.                                                               *)

\* A step of the ring is a step of the intake.
LEMMA RingStepIsStep == [RingNext]_ringVars => [Next]_vars
  <1>1. ASSUME RingNext PROVE Next
    <2>1. PICK p \in Producers :
            \/ Publish(p)
            \/ \E n \in 1..sent[p] : Redeliver(p, n) \/ DeliverToRing(p, n)
      BY <1>1 DEF RingNext
    <2>2. QED
      BY <2>1 DEF Next, DeliverToRing
  <1>2. QED
    BY <1>1 DEF ringVars

\* In the ring, the event has taken the place of an entry for the same view.
Coalesced(ring, id) ==
  /\ ~ IsLifecycle(id) /\ Len(ring) = Len(audit)
  /\ \E pos \in 1..Len(audit) :
       /\ AggregateOf(audit[pos]) = AggregateOf(id)
       /\ ring[pos] = id
       /\ \A k \in 1..Len(audit) : k # pos => ring[k] = audit[k]

\* It was appended, behind a full ring without its oldest entry.
Appended(ring, id) ==
  /\ IsLifecycle(id) \/ \A k \in 1..Len(audit) : AggregateOf(audit[k]) # AggregateOf(id)
  /\ \E drop \in {0, 1} :
       /\ drop = 1 => Len(audit) = Capacity
       /\ drop <= Len(audit) /\ Len(ring) = Len(audit) - drop + 1
       /\ ring[Len(audit) - drop + 1] = id
       /\ \A k \in 1..(Len(audit) - drop) : ring[k] = audit[k + drop]

\* What recording an event does to the ring: one of the two.
LEMMA RecordedEntries ==
  ASSUME RingInv, NEW id \in Ids, NEW ring, ring = Recorded(audit, id)
  PROVE  /\ ring \in Seq(Ids) /\ Len(ring) <= Capacity
         /\ Coalesced(ring, id) \/ Appended(ring, id)
  <1>1. /\ audit \in Seq(Ids) /\ Len(audit) \in Nat /\ Len(audit) <= Capacity
        /\ DOMAIN audit = 1..Len(audit)
        /\ Capacity \in Nat /\ Capacity > 0
    BY RingAssumption, LenProperties DEF RingInv, RingTypes
  <1>2. CASE Coalesces(audit, id)
    <2> DEFINE same == Coalescing(audit, id)
               pos == Max(same)
    <2>1. ~ IsLifecycle(id) /\ same # {}
      BY <1>2 DEF Coalesces
    <2>2. PICK only \in same : TRUE
      BY <2>1
    <2>3. only \in 1..Len(audit) /\ AggregateOf(audit[only]) = AggregateOf(id)
      BY <1>1, <2>2 DEF Coalescing
    <2>4. \A k \in same : k = only
      <3>1. ~ IsLifecycle(audit[only])
        BY <2>1, <2>3 DEF IsLifecycle
      <3>2. \A k \in same : k \in DOMAIN audit /\ AggregateOf(audit[only]) = AggregateOf(audit[k])
        BY <2>3 DEF Coalescing
      <3>3. QED
        BY <1>1, <2>3, <3>1, <3>2 DEF RingInv, ViewsOnce
    <2>5. pos = only
      <3>1. same = {only}
        BY <2>2, <2>4
      <3>2. pos = CHOOSE x \in {only} : \A y \in {only} : x >= y
        BY <3>1 DEF Max
      <3>3. only >= only
        BY <2>3
      <3>4. QED
        BY <3>2, <3>3
    <2>6. ring = [audit EXCEPT ![only] = id]
      BY <1>2, <2>5 DEF Recorded
    <2>7. /\ ring \in Seq(Ids) /\ Len(ring) = Len(audit)
          /\ \A k \in 1..Len(audit) : ring[k] = IF k = only THEN id ELSE audit[k]
      BY <1>1, <2>3, <2>6, ExceptSeq
    <2>8. QED
      BY <1>1, <2>1, <2>3, <2>7 DEF Coalesced
  <1>3. CASE ~ Coalesces(audit, id)
    <2>1. IsLifecycle(id) \/ \A k \in 1..Len(audit) : AggregateOf(audit[k]) # AggregateOf(id)
      BY <1>1, <1>3 DEF Coalesces, Coalescing
    <2>2. CASE Len(audit) = Capacity
      <3> DEFINE rest == Tail(audit)
      <3>1. audit # << >>
        BY <1>1, <2>2
      <3>2. /\ rest \in Seq(Ids) /\ Len(rest) = Len(audit) - 1
            /\ \A k \in 1..Len(rest) : rest[k] = audit[k + 1]
        BY <1>1, <3>1, HeadTailProperties
      <3>3. ring = Append(rest, id)
        BY <1>3, <2>2 DEF Recorded, Pushed
      <3> HIDE DEF rest
      <3>4. /\ ring \in Seq(Ids) /\ Len(ring) = Len(rest) + 1
            /\ \A k \in 1..Len(rest) : ring[k] = rest[k]
            /\ ring[Len(rest) + 1] = id
        BY <3>2, <3>3, AppendProperties
      <3>5. \A k \in 1..(Len(audit) - 1) : ring[k] = audit[k + 1]
        BY <3>2, <3>4
      <3>6. /\ Len(ring) = Len(audit) - 1 + 1 /\ ring[Len(audit) - 1 + 1] = id
            /\ 1 <= Len(audit) /\ Len(ring) <= Capacity
        BY <1>1, <2>2, <3>2, <3>4
      <3>7. QED
        BY <2>1, <2>2, <3>4, <3>5, <3>6 DEF Appended
    <2>3. CASE Len(audit) # Capacity
      <3>1. ring = Append(audit, id)
        BY <1>3, <2>3 DEF Recorded, Pushed
      <3>2. /\ ring \in Seq(Ids) /\ Len(ring) = Len(audit) + 1
            /\ \A k \in 1..Len(audit) : ring[k] = audit[k]
            /\ ring[Len(audit) + 1] = id
        BY <1>1, <3>1, AppendProperties
      <3>3. /\ Len(ring) = Len(audit) - 0 + 1 /\ ring[Len(audit) - 0 + 1] = id
            /\ 0 <= Len(audit) /\ Len(ring) <= Capacity
        <4>1. Len(audit) - 0 + 1 = Len(audit) + 1
          BY <1>1
        <4>2. Len(audit) + 1 <= Capacity
          <5> DEFINE size == Len(audit)
          <5>1. size \in Nat /\ size <= Capacity /\ size # Capacity
            BY <1>1, <2>3
          <5> HIDE DEF size
          <5>2. size + 1 <= Capacity
            BY <1>1, <5>1
          <5>3. QED
            BY <5>2 DEF size
        <4>3. QED
          BY <1>1, <3>2, <4>1, <4>2
      <3>4. \A k \in 1..(Len(audit) - 0) : ring[k] = audit[k + 0]
        <4> DEFINE size == Len(audit)
        <4>1. size \in Nat /\ \A k \in 1..size : ring[k] = audit[k]
          BY <1>1, <3>2
        <4> HIDE DEF size
        <4>2. \A k \in 1..(size - 0) : k \in 1..size /\ k + 0 = k
          BY <4>1
        <4>3. \A k \in 1..(size - 0) : ring[k] = audit[k + 0]
          BY <4>1, <4>2
        <4>4. QED
          BY <4>3 DEF size
      <3>5. QED
        BY <2>1, <3>2, <3>3, <3>4 DEF Appended
    <2>4. QED
      BY <2>2, <2>3
  <1>4. QED
    BY <1>2, <1>3

\* What is ingested is new to the ring and to the history.
LEMMA DeliveredIsNew ==
  ASSUME IntakeInv, RingInv, NEW p \in Producers, NEW n \in 1..sent[p], DeliverToRing(p, n)
  PROVE  LET id == << p, n >> IN
         /\ id \in Ids
         /\ \A k \in DOMAIN audit : audit[k] # id
         /\ \A k \in DOMAIN ingested : ingested[k] # id
         /\ audit' = Recorded(audit, id)
         /\ ingested' = Append(ingested, id)
         /\ seen_event_ids' = seen_event_ids \union {id}
  <1>1. n \in 1..MaxSent
    BY IntakeAssumption DEF IntakeInv, TypeOK
  <1>2. Envelope(p, n).event_id = << p, n >> /\ Envelope(p, n).producer = p
    BY <1>1, EnvelopeType
  <1>3. << p, n >> \notin seen_event_ids /\ seen_event_ids' = seen_event_ids \union {<< p, n >>}
    BY <1>2 DEF DeliverToRing, Deliver, IngestEnvelope
  <1>4. audit' = Recorded(audit, << p, n >>) /\ ingested' = Append(ingested, << p, n >>)
    BY <1>2 DEF DeliverToRing
  <1>5. \A k \in DOMAIN ingested : ingested[k] # << p, n >>
    BY <1>3 DEF RingInv, RingTypes
  <1>6. \A k \in DOMAIN audit : audit[k] # << p, n >>
    BY <1>5 DEF RingInv, RingTypes
  <1>7. QED
    BY <1>1, <1>3, <1>4, <1>5, <1>6 DEF Ids

\* The ring is empty at first.
LEMMA InitRing == RingInit => RingInv
  <1> SUFFICES ASSUME RingInit PROVE RingInv
    OBVIOUS
  <1>1. audit = << >> /\ ingested = << >>
    BY DEF RingInit
  <1>2. << >> \in Seq(Ids) /\ Len(<< >>) = 0 /\ DOMAIN << >> = {}
    BY EmptySeq
  <1>3. RingTypes
    BY <1>1, <1>2, RingAssumption DEF RingTypes
  <1>4. EntriesOnce /\ ViewsOnce /\ LatestKept /\ DroppedWhenFull
    BY <1>1, <1>2 DEF EntriesOnce, ViewsOnce, LatestKept, DroppedWhenFull, LifecycleIn
  <1>5. QED
    BY <1>3, <1>4 DEF RingInv

\* The ring takes an event in.
LEMMA DeliverToRingInv ==
  ASSUME IntakeInv, RingInv, NEW p \in Producers, NEW n \in 1..sent[p], DeliverToRing(p, n)
  PROVE  RingInv'
  <1> DEFINE id == << p, n >>
  <1>1. /\ id \in Ids
        /\ \A k \in DOMAIN audit : audit[k] # id
        /\ \A k \in DOMAIN ingested : ingested[k] # id
        /\ audit' = Recorded(audit, id)
        /\ ingested' = Append(ingested, id)
        /\ seen_event_ids' = seen_event_ids \union {id}
    BY DeliveredIsNew
  <1> HIDE DEF id
  <1> DEFINE size == Len(audit)
             heard == Len(ingested)
  <1>2. /\ audit \in Seq(Ids) /\ DOMAIN audit = 1..size /\ size \in Nat
        /\ ingested \in Seq(Ids) /\ DOMAIN ingested = 1..heard /\ heard \in Nat
    BY LenProperties DEF RingInv, RingTypes
  <1>3. /\ audit' \in Seq(Ids) /\ Len(audit') <= Capacity
        /\ \/ /\ ~ IsLifecycle(id) /\ Len(audit') = size
              /\ \E pos \in 1..size :
                   /\ AggregateOf(audit[pos]) = AggregateOf(id)
                   /\ audit'[pos] = id
                   /\ \A k \in 1..size : k # pos => audit'[k] = audit[k]
           \/ /\ IsLifecycle(id) \/ \A k \in 1..size : AggregateOf(audit[k]) # AggregateOf(id)
              /\ \E drop \in {0, 1} :
                   /\ drop = 1 => size = Capacity
                   /\ drop <= size /\ Len(audit') = size - drop + 1
                   /\ audit'[size - drop + 1] = id
                   /\ \A k \in 1..(size - drop) : audit'[k] = audit[k + drop]
    <2>1. /\ audit' \in Seq(Ids) /\ Len(audit') <= Capacity
          /\ Coalesced(audit', id) \/ Appended(audit', id)
      BY <1>1, RecordedEntries
    <2>2. QED
      BY <2>1 DEF Coalesced, Appended
  <1>4. /\ ingested' \in Seq(Ids) /\ Len(ingested') = heard + 1
        /\ \A k \in 1..heard : ingested'[k] = ingested[k]
        /\ ingested'[heard + 1] = id
    BY <1>1, <1>2, AppendProperties
  <1>5. DOMAIN ingested' = 1..(heard + 1) /\ DOMAIN audit' = 1..Len(audit') /\ Len(audit') \in Nat
    BY <1>3, <1>4, LenProperties
  <1> HIDE DEF size, heard
  <1>6. /\ \A k \in 1..heard : ingested[k] \in seen_event_ids
        /\ \A k \in 1..size : \E i \in 1..heard : ingested[i] = audit[k]
    BY <1>2 DEF RingInv, RingTypes
  <1>7. \A k \in 1..(heard + 1) : ingested'[k] \in seen_event_ids'
    <2> SUFFICES ASSUME NEW k \in 1..(heard + 1) PROVE ingested'[k] \in seen_event_ids'
      OBVIOUS
    <2>1. CASE k = heard + 1
      BY <1>1, <1>4, <2>1
    <2>2. CASE k # heard + 1
      <3>1. k \in 1..heard
        BY <1>2, <2>2
      <3>2. QED
        BY <1>1, <1>4, <1>6, <3>1
    <2>3. QED
      BY <2>1, <2>2
  <1>8. \A i \in LifecycleIn(ingested') :
          (i \in LifecycleIn(ingested) /\ ingested'[i] = ingested[i] /\ i < heard + 1)
          \/ (i = heard + 1 /\ IsLifecycle(id) /\ ingested'[i] = id)
    <2> SUFFICES ASSUME NEW i \in 1..(heard + 1), IsLifecycle(ingested'[i])
                 PROVE  (i \in LifecycleIn(ingested) /\ ingested'[i] = ingested[i] /\ i < heard + 1)
                        \/ (i = heard + 1 /\ IsLifecycle(id) /\ ingested'[i] = id)
      BY <1>5 DEF LifecycleIn
    <2>1. CASE i = heard + 1
      BY <1>4, <2>1
    <2>2. CASE i # heard + 1
      <3>1. i \in 1..heard /\ i < heard + 1
        BY <1>2, <2>2
      <3>2. QED
        BY <1>2, <1>4, <3>1 DEF LifecycleIn
    <2>3. QED
      BY <2>1, <2>2
  <1>9. \A k \in 1..size, l \in 1..size : audit[k] = audit[l] => k = l
    BY <1>2 DEF RingInv, EntriesOnce
  <1>10. \A k \in 1..size, l \in 1..size :
           ~ IsLifecycle(audit[k]) /\ AggregateOf(audit[k]) = AggregateOf(audit[l]) => k = l
    BY <1>2 DEF RingInv, ViewsOnce
  <1>11. \A i \in LifecycleIn(ingested), j \in LifecycleIn(ingested), k \in 1..size :
           i < j /\ audit[k] = ingested[i] => \E l \in 1..size : k < l /\ audit[l] = ingested[j]
    BY <1>2 DEF RingInv, LatestKept
  <1>12. size = Capacity
         \/ \A i \in LifecycleIn(ingested) : \E k \in 1..size : audit[k] = ingested[i]
    BY <1>2 DEF RingInv, DroppedWhenFull, size
  <1>13. \A i \in LifecycleIn(ingested) :
           i \in 1..heard /\ IsLifecycle(ingested[i]) /\ ingested[i] # id
    BY <1>1, <1>2 DEF LifecycleIn
  <1>14. \A k \in 1..size : audit[k] # id
    BY <1>1, <1>2
  <1>15. \E i \in 1..(heard + 1) : ingested'[i] = id
    BY <1>2, <1>4
  <1>16. \A k \in 1..size : \E i \in 1..(heard + 1) : ingested'[i] = audit[k]
    <2> SUFFICES ASSUME NEW k \in 1..size PROVE \E i \in 1..(heard + 1) : ingested'[i] = audit[k]
      OBVIOUS
    <2>1. PICK i \in 1..heard : ingested[i] = audit[k]
      BY <1>6
    <2>2. i \in 1..(heard + 1) /\ ingested'[i] = audit[k]
      BY <1>2, <1>4, <2>1
    <2>3. QED
      BY <2>2
  <1>17. Capacity \in Nat
    BY RingAssumption
  \* An older entry for the same view is replaced.
  <1>18. ASSUME ~ IsLifecycle(id), Len(audit') = size,
                NEW pos \in 1..size,
                AggregateOf(audit[pos]) = AggregateOf(id),
                audit'[pos] = id,
                \A k \in 1..size : k # pos => audit'[k] = audit[k]
         PROVE  RingInv'
    <2>1. DOMAIN audit' = 1..size
      BY <1>5, <1>18
    <2>2. ~ IsLifecycle(audit[pos])
      BY <1>18 DEF IsLifecycle
    <2>3. RingTypes'
      <3>1. \A k \in 1..size : \E i \in 1..(heard + 1) : ingested'[i] = audit'[k]
        BY <1>15, <1>16, <1>18
      <3>2. QED
        BY <1>3, <1>4, <1>5, <1>7, <2>1, <3>1 DEF RingTypes
    <2>4. EntriesOnce'
      BY <1>9, <1>14, <1>18, <2>1 DEF EntriesOnce
    <2>5. ViewsOnce'
      <3> SUFFICES ASSUME NEW k \in 1..size, NEW l \in 1..size, ~ IsLifecycle(audit'[k]),
                          AggregateOf(audit'[k]) = AggregateOf(audit'[l])
                   PROVE  k = l
        BY <2>1 DEF ViewsOnce
      <3>1. /\ AggregateOf(audit'[k]) = AggregateOf(audit[k])
            /\ AggregateOf(audit'[l]) = AggregateOf(audit[l])
        BY <1>18
      <3>2. ~ IsLifecycle(audit[k])
        BY <3>1 DEF IsLifecycle
      <3>3. QED
        BY <1>10, <3>1, <3>2
    <2>6. LatestKept'
      <3> SUFFICES ASSUME NEW i \in LifecycleIn(ingested'), NEW j \in LifecycleIn(ingested'),
                          NEW k \in 1..size, i < j, audit'[k] = ingested'[i]
                   PROVE  \E l \in 1..size : k < l /\ audit'[l] = ingested'[j]
        BY <2>1 DEF LatestKept
      <3>1. /\ i \in LifecycleIn(ingested) /\ ingested'[i] = ingested[i]
            /\ j \in LifecycleIn(ingested) /\ ingested'[j] = ingested[j]
        BY <1>8, <1>18
      <3>2. audit[k] = ingested[i]
        BY <1>13, <1>18, <3>1
      <3>3. PICK l \in 1..size : k < l /\ audit[l] = ingested[j]
        BY <1>11, <3>1, <3>2
      <3>4. l # pos
        BY <1>13, <2>2, <3>1, <3>3
      <3>5. QED
        BY <1>18, <3>1, <3>3, <3>4
    <2>7. DroppedWhenFull'
      <3> SUFFICES ASSUME size # Capacity, NEW i \in LifecycleIn(ingested')
                   PROVE  \E k \in 1..size : audit'[k] = ingested'[i]
        BY <1>18, <2>1 DEF DroppedWhenFull
      <3>1. i \in LifecycleIn(ingested) /\ ingested'[i] = ingested[i]
        BY <1>8, <1>18
      <3>2. PICK k \in 1..size : audit[k] = ingested[i]
        BY <1>12, <3>1
      <3>3. k # pos
        BY <1>13, <2>2, <3>1, <3>2
      <3>4. QED
        BY <1>18, <3>1, <3>2, <3>3
    <2>8. QED
      BY <2>3, <2>4, <2>5, <2>6, <2>7 DEF RingInv
  \* The event is appended, and the oldest entry dropped if the ring was full.
  <1>19. ASSUME IsLifecycle(id) \/ \A k \in 1..size : AggregateOf(audit[k]) # AggregateOf(id),
                NEW drop \in {0, 1},
                drop = 1 => size = Capacity,
                drop <= size, Len(audit') = size - drop + 1,
                audit'[size - drop + 1] = id,
                \A k \in 1..(size - drop) : audit'[k] = audit[k + drop]
         PROVE  RingInv'
    <2> DEFINE last == size - drop + 1
    <2>1. DOMAIN audit' = 1..last /\ last \in Nat /\ last \in 1..last /\ audit'[last] = id
      BY <1>2, <1>5, <1>19
    <2>2. \A k \in 1..last : k # last =>
            k < last /\ k + drop \in 1..size /\ audit'[k] = audit[k + drop]
      BY <1>2, <1>19
    <2>3. \A k \in 1..size : k > drop =>
            k - drop \in 1..last /\ k - drop < last /\ audit'[k - drop] = audit[k]
      <3> SUFFICES ASSUME NEW k \in 1..size, k > drop
                   PROVE  k - drop \in 1..last /\ k - drop < last /\ audit'[k - drop] = audit[k]
        OBVIOUS
      <3>1. k - drop \in 1..(size - drop) /\ (k - drop) + drop = k
        BY <1>2
      <3>2. QED
        BY <1>2, <1>19, <3>1
    <2>4. \A k \in 1..last : k \in Int /\ \A l \in 1..last : k + drop = l + drop => k = l
      OBVIOUS
    <2> HIDE DEF last
    <2>5. RingTypes'
      <3>1. \A k \in 1..last : \E i \in 1..(heard + 1) : ingested'[i] = audit'[k]
        BY <1>15, <1>16, <2>1, <2>2
      <3>2. QED
        BY <1>3, <1>4, <1>5, <1>7, <2>1, <3>1 DEF RingTypes
    <2>6. EntriesOnce'
      <3> SUFFICES ASSUME NEW k \in 1..last, NEW l \in 1..last, audit'[k] = audit'[l]
                   PROVE  k = l
        BY <2>1 DEF EntriesOnce
      <3>1. CASE k # last /\ l # last
        BY <1>9, <2>2, <2>4, <3>1
      <3>2. CASE k = last \/ l = last
        BY <1>14, <2>1, <2>2, <3>2
      <3>3. QED
        BY <3>1, <3>2
    <2>7. ViewsOnce'
      <3> SUFFICES ASSUME NEW k \in 1..last, NEW l \in 1..last, ~ IsLifecycle(audit'[k]),
                          AggregateOf(audit'[k]) = AggregateOf(audit'[l])
                   PROVE  k = l
        BY <2>1 DEF ViewsOnce
      <3>1. CASE k # last /\ l # last
        BY <1>10, <2>2, <2>4, <3>1
      <3>2. CASE k = last
        <4>1. ~ IsLifecycle(id) /\ \A m \in 1..size : AggregateOf(audit[m]) # AggregateOf(id)
          BY <1>19, <2>1, <3>2
        <4>2. QED
          BY <2>1, <2>2, <3>2, <4>1
      <3>3. CASE l = last
        <4>1. ~ IsLifecycle(id)
          BY <2>1, <3>3 DEF IsLifecycle
        <4>2. \A m \in 1..size : AggregateOf(audit[m]) # AggregateOf(id)
          BY <1>19, <4>1
        <4>3. QED
          BY <2>1, <2>2, <3>3, <4>2
      <3>4. QED
        BY <3>1, <3>2, <3>3
    <2>8. LatestKept'
      <3> SUFFICES ASSUME NEW i \in LifecycleIn(ingested'), NEW j \in LifecycleIn(ingested'),
                          NEW k \in 1..last, i < j, audit'[k] = ingested'[i]
                   PROVE  \E l \in 1..last : k < l /\ audit'[l] = ingested'[j]
        BY <2>1 DEF LatestKept
      <3>1. i \in LifecycleIn(ingested) /\ ingested'[i] = ingested[i]
        <4>1. i # heard + 1
          <5>1. j \in 1..(heard + 1)
            BY <1>5 DEF LifecycleIn
          <5>2. QED
            BY <1>2, <5>1
        <4>2. QED
          BY <1>8, <4>1
      <3>2. k # last
        BY <1>13, <2>1, <3>1
      <3>3. k + drop \in 1..size /\ audit[k + drop] = ingested[i] /\ k < last
        BY <2>2, <3>1, <3>2
      <3>4. CASE j = heard + 1
        BY <1>4, <2>1, <3>3, <3>4
      <3>5. CASE j # heard + 1
        <4>1. j \in LifecycleIn(ingested) /\ ingested'[j] = ingested[j]
          BY <1>8, <3>5
        <4>2. PICK l \in 1..size : k + drop < l /\ audit[l] = ingested[j]
          BY <1>11, <3>1, <3>3, <4>1
        <4>3. l > drop /\ k < l - drop
          BY <4>2
        <4>4. l - drop \in 1..last /\ audit'[l - drop] = ingested'[j]
          BY <2>3, <4>1, <4>2, <4>3
        <4>5. QED
          BY <4>3, <4>4
      <3>6. QED
        BY <3>4, <3>5
    <2>9. DroppedWhenFull'
      <3> SUFFICES ASSUME Len(audit') # Capacity, NEW i \in LifecycleIn(ingested')
                   PROVE  \E k \in 1..last : audit'[k] = ingested'[i]
        BY <2>1 DEF DroppedWhenFull
      <3>1. drop = 0 /\ size # Capacity
        BY <1>2, <1>3, <1>5, <1>17, <1>19
      <3>2. CASE i = heard + 1
        BY <1>4, <2>1, <3>2
      <3>3. CASE i # heard + 1
        <4>1. i \in LifecycleIn(ingested) /\ ingested'[i] = ingested[i]
          BY <1>8, <3>3
        <4>2. PICK k \in 1..size : audit[k] = ingested[i]
          BY <1>12, <3>1, <4>1
        <4>3. k > drop
          BY <3>1, <4>2
        <4>4. QED
          BY <2>3, <4>1, <4>2, <4>3
      <3>4. QED
        BY <3>2, <3>3
    <2>10. QED
      BY <2>5, <2>6, <2>7, <2>8, <2>9 DEF RingInv
  <1>20. QED
    BY <1>3, <1>18, <1>19

\* Every step preserves the invariant of the ring.
LEMMA RingStep == IntakeInv /\ RingInv /\ [RingNext]_ringVars => RingInv'
  <1> SUFFICES ASSUME IntakeInv, RingInv, [RingNext]_ringVars PROVE RingInv'
    OBVIOUS
  <1>1. ASSUME UNCHANGED << audit, ingested, seen_event_ids >> PROVE RingInv'
    BY <1>1 DEF RingInv, RingTypes, EntriesOnce, ViewsOnce, LatestKept, DroppedWhenFull, LifecycleIn
  <1>2. ASSUME NEW p \in Producers, Publish(p) /\ UNCHANGED << audit, events_coalesced, ingested >>
        PROVE  RingInv'
    BY <1>1, <1>2 DEF Publish, stateVars
  <1>3. ASSUME NEW p \in Producers, NEW n \in 1..sent[p],
               Redeliver(p, n) /\ UNCHANGED << audit, events_coalesced, ingested >>
        PROVE  RingInv'
    BY <1>1, <1>3 DEF Redeliver, CountDuplicate
  <1>4. ASSUME NEW p \in Producers, NEW n \in 1..sent[p], DeliverToRing(p, n)
        PROVE  RingInv'
    BY <1>4, DeliverToRingInv
  <1>5. CASE UNCHANGED ringVars
    BY <1>1, <1>5 DEF ringVars, vars, stateVars
  <1>6. QED
    BY <1>2, <1>3, <1>4, <1>5 DEF RingNext

\* Whatever views arrive, an entry stands for each event and each view once, and
\* the life cycle events leave the ring in the order they came.
THEOREM RingInvariant == RingSpec => [](IntakeInv /\ RingInv)
  <1>1. RingInit => IntakeInv /\ RingInv
    BY InitInv, InitRing DEF RingInit
  <1>2. IntakeInv /\ RingInv /\ [RingNext]_ringVars => IntakeInv' /\ RingInv'
    BY StepInv, RingStep, RingStepIsStep
  <1>3. QED
    BY <1>1, <1>2, PTL DEF RingSpec

\* Coalescing drops no evidence: of the entries at most one for each aggregate is
\* taken by views, the others hold the latest life cycle events, for any ring size.
THEOREM LifecycleIsKept == RingSpec => []LifecycleEvidenceKept
  <1>1. IntakeInv /\ RingInv => LifecycleEvidenceKept
    <2> SUFFICES ASSUME RingInv PROVE LifecycleEvidenceKept
      OBVIOUS
    <2> DEFINE size == Len(audit)
               kept == {audit[k] : k \in LifecycleIn(audit)}
               all == {ingested[k] : k \in LifecycleIn(ingested)}
    <2>1. DOMAIN audit = 1..size /\ size \in Nat /\ \A k \in 1..size : audit[k] \in Ids
      BY LenProperties, ElementOfSeq DEF RingInv, RingTypes
    <2>2. kept \subseteq all
      BY DEF RingInv, RingTypes, LifecycleIn
    <2>3. \A k, l \in LifecycleIn(audit) : audit[k] = audit[l] => k = l
      BY DEF RingInv, EntriesOnce, LifecycleIn
    <2>4. ASSUME NEW a \in kept, NEW b \in all, Precedes(ingested, a, b)
          PROVE  b \in kept /\ Precedes(audit, a, b)
      <3>1. PICK k \in DOMAIN audit : audit[k] = a /\ IsLifecycle(a)
        BY DEF LifecycleIn
      <3>2. IsLifecycle(b)
        BY DEF LifecycleIn
      <3>3. PICK i \in DOMAIN ingested, j \in DOMAIN ingested :
              i < j /\ ingested[i] = a /\ ingested[j] = b
        BY <2>4 DEF Precedes
      <3>4. i \in LifecycleIn(ingested) /\ j \in LifecycleIn(ingested)
        BY <3>1, <3>2, <3>3 DEF LifecycleIn
      <3>5. PICK l \in DOMAIN audit : k < l /\ audit[l] = b
        BY <3>1, <3>3, <3>4 DEF RingInv, LatestKept
      <3>6. QED
        BY <3>1, <3>2, <3>5 DEF Precedes, LifecycleIn
    <2>5. ASSUME ~ (all \subseteq kept)
          PROVE  Cardinality(LifecycleIn(audit)) >= Capacity - Cardinality(Aggregates)
      <3>1. size = Capacity
        <4>1. PICK i \in LifecycleIn(ingested) : ingested[i] \notin kept
          BY <2>5
        <4>2. \A k \in DOMAIN audit : audit[k] # ingested[i]
          BY <4>1 DEF LifecycleIn
        <4>3. QED
          BY <4>1, <4>2 DEF RingInv, DroppedWhenFull
      <3> DEFINE views == (1..size) \ LifecycleIn(audit)
      <3>2. IsFiniteSet(1..size) /\ Cardinality(1..size) = size
        BY <2>1, FS_Interval
      <3>3. LifecycleIn(audit) \subseteq 1..size
        BY <2>1 DEF LifecycleIn
      <3>4. IsFiniteSet(views) /\ Cardinality(views) = size - Cardinality(LifecycleIn(audit))
        <4>1. (1..size) \intersect LifecycleIn(audit) = LifecycleIn(audit)
          BY <3>3
        <4>2. QED
          BY <3>2, <4>1, FS_Difference
      <3>5. Cardinality(views) <= Cardinality(Aggregates)
        <4> DEFINE about == [k \in views |-> AggregateOf(audit[k])]
        <4>1. about \in [views -> Aggregates]
          BY <2>1, RingAssumption DEF LifecycleIn, IsLifecycle
        <4>2. \A k, l \in views : about[k] = about[l] => k = l
          BY <2>1 DEF RingInv, ViewsOnce, LifecycleIn
        <4>3. about \in Injection(views, Aggregates)
          BY <4>1, <4>2 DEF Injection, IsInjective
        <4>4. QED
          BY <4>3, RingAssumption, FS_Injection
      <3>6. /\ Cardinality(LifecycleIn(audit)) \in Nat /\ Cardinality(views) \in Nat
            /\ Cardinality(Aggregates) \in Nat
        BY <3>2, <3>3, <3>4, RingAssumption, FS_CardinalityType, FS_Subset
      <3> HIDE DEF views, size
      <3>7. QED
        BY <2>1, <3>1, <3>4, <3>5, <3>6
    <2>6. QED
      BY <2>2, <2>3, <2>4, <2>5 DEF LifecycleEvidenceKept
  <1>2. QED
    BY <1>1, RingInvariant, PTL

-----------------------------------------------------------------------------
(* The strategy rows: what was heard so far, and before each event.        *)

\* A set of naturals has a least element.
LEMMA LeastExists ==
  ASSUME NEW T, T \subseteq Nat, T # {}
  PROVE  \E x \in T : \A y \in T : x <= y
  <1> DEFINE Less == {ss \in Nat \X Nat : ss[1] < ss[2]}
  <1>1. IsWellFoundedOn(Less, Nat)
    BY NatLessThanWellFounded DEF OpToRel
  <1>2. \E x \in T : \A y \in T : ~ (<< y, x >> \in Less)
    <2> HIDE DEF Less
    <2>1. QED
      BY <1>1, WFMin
  <1>3. \A x, y \in Nat : x < y => << x, y >> \in Less
    OBVIOUS
  <1> HIDE DEF Less
  <1>4. \A x, y \in T : ~ (x < y) => y <= x
    OBVIOUS
  <1>5. QED
    BY <1>2, <1>3, <1>4

\* Max and Min of positions are among them.
LEMMA ExtremesExist ==
  ASSUME NEW m \in Nat, NEW T, T \subseteq 1..m, T # {}
  PROVE  Max(T) \in T /\ Min(T) \in T
  <1>1. \E x \in T : \A y \in T : x <= y
    <2>1. T \subseteq Nat
      OBVIOUS
    <2>2. QED
      BY <2>1, LeastExists
  <1>2. Min(T) \in T
    BY <1>1 DEF Min
  <1>3. \E x \in T : \A y \in T : x >= y
    <2> DEFINE left == {m - y : y \in T}
    <2>1. left \subseteq Nat /\ left # {}
      <3>1. \A y \in T : m - y \in Nat
        OBVIOUS
      <3>2. QED
        BY <3>1
    <2>2. PICK least \in left : \A z \in left : least <= z
      <3> HIDE DEF left
      <3>1. QED
        BY <2>1, LeastExists
    <2>3. PICK x \in T : least = m - x
      OBVIOUS
    <2>4. \A y \in T : m - x <= m - y
      BY <2>2, <2>3
    <2>5. \A y \in T : x >= y
      BY <2>4
    <2>6. QED
      BY <2>5
  <1>4. Max(T) \in T
    BY <1>3 DEF Max
  <1>5. QED
    BY <1>2, <1>4

\* The latest of some earlier positions and a new one is the new one.
LEMMA MaxOfNew ==
  ASSUME NEW m \in Nat, NEW T, T \subseteq 1..m
  PROVE  Max(T \union {m + 1}) = m + 1
  <1> DEFINE U == T \union {m + 1}
  <1>1. m + 1 \in U /\ \A y \in U : m + 1 >= y /\ y \in Int
    OBVIOUS
  <1>2. \A x \in U : (\A y \in U : x >= y) => x = m + 1
    BY <1>1
  <1> HIDE DEF U
  <1>3. Max(U) = m + 1
    BY <1>1, <1>2 DEF Max
  <1>4. QED
    BY <1>3 DEF U

\* The least of one.
LEMMA MinOfOne ==
  ASSUME NEW m \in Nat
  PROVE  Min({m}) = m
  BY DEF Min

\* An event more is heard: the ones before stay what they were.
LEMMA HeardStep ==
  ASSUME RingInv, NEW id \in Ids, ingested' = Append(ingested, id),
         NEW now, now = Len(ingested) + 1
  PROVE  /\ now \in Nat /\ now >= 1
         /\ HeardSoFar = 1..(now - 1) /\ HeardSoFar' = 1..now /\ Len(ingested') = now
         /\ \A k \in 1..(now - 1) : Heard(k)' = Heard(k)
         /\ Heard(now)' = PayloadOf(id)
  <1>1. ingested \in Seq(Ids) /\ Len(ingested) \in Nat /\ DOMAIN ingested = 1..Len(ingested)
    BY LenProperties DEF RingInv, RingTypes
  <1>2. /\ ingested' \in Seq(Ids) /\ Len(ingested') = Len(ingested) + 1
        /\ \A k \in 1..Len(ingested) : ingested'[k] = ingested[k]
        /\ ingested'[Len(ingested) + 1] = id
    BY <1>1, AppendProperties
  <1>3. DOMAIN ingested' = 1..(Len(ingested) + 1)
    BY <1>2, LenProperties
  <1>4. now \in Nat /\ now >= 1 /\ Len(ingested) = now - 1
    BY <1>1
  <1>5. \A k \in 1..(now - 1) : Heard(k)' = Heard(k)
    BY <1>2, <1>4 DEF Heard
  <1>6. Heard(now)' = PayloadOf(id)
    BY <1>2 DEF Heard
  <1>7. HeardSoFar = 1..(now - 1) /\ HeardSoFar' = 1..now /\ Len(ingested') = now
    BY <1>1, <1>2, <1>3, <1>4 DEF HeardSoFar
  <1>8. QED
    BY <1>4, <1>5, <1>6, <1>7

\* Nothing changes of what came before an event.
LEMMA PastIsKept ==
  ASSUME RingInv, NEW id \in Ids, ingested' = Append(ingested, id),
         NEW now, now = Len(ingested) + 1, NEW k \in 1..now
  PROVE  /\ \A corr, kinds : NamedBefore(corr, k, kinds)' = NamedBefore(corr, k, kinds)
         /\ \A corr : KnownTo(corr, k)' = KnownTo(corr, k)
         /\ \A row : ReportsBefore(row, k)' = ReportsBefore(row, k)
         /\ \A row : OwnedBefore(row, k)' = OwnedBefore(row, k)
         /\ \A row : NamesItself(row, k)' = NamesItself(row, k)
  <1>1. now \in Nat /\ \A j \in 1..(now - 1) : Heard(j)' = Heard(j)
    BY HeardStep
  <1>2. k - 1 \in Nat /\ \A j \in 1..(k - 1) : Heard(j)' = Heard(j)
    BY <1>1
  <1>3. ASSUME NEW corr, NEW kinds
        PROVE  NamedBefore(corr, k, kinds)' = NamedBefore(corr, k, kinds)
    BY <1>2 DEF NamedBefore
  <1>4. ASSUME NEW corr PROVE KnownTo(corr, k)' = KnownTo(corr, k)
    <2> DEFINE sure == NamedBefore(corr, k, {"SignalGenerated", "IntentCreated"})
               risk == NamedBefore(corr, k, {"RiskDecisionMade"})
    <2>1. sure' = sure /\ risk' = risk
      BY <1>3
    <2>2. sure \subseteq 1..(k - 1) /\ risk \subseteq 1..(k - 1)
      BY DEF NamedBefore
    <2>3. /\ KnownTo(corr, k) = CASE sure # {} -> Heard(Max(sure)).strategy_id
                                  [] sure = {} /\ risk # {} -> Heard(Min(risk)).strategy_id
                                  [] OTHER -> NoId
          /\ KnownTo(corr, k)' = CASE sure # {} -> Heard(Max(sure))'.strategy_id
                                  [] sure = {} /\ risk # {} -> Heard(Min(risk))'.strategy_id
                                  [] OTHER -> NoId
      BY <2>1 DEF KnownTo
    <2> HIDE DEF sure, risk
    <2>4. sure # {} => Heard(Max(sure))' = Heard(Max(sure))
      BY <1>2, <2>1, <2>2, ExtremesExist
    <2>5. risk # {} => Heard(Min(risk))' = Heard(Min(risk))
      BY <1>2, <2>1, <2>2, ExtremesExist
    <2>6. QED
      BY <2>3, <2>4, <2>5
  <1>5. ASSUME NEW row PROVE ReportsBefore(row, k)' = ReportsBefore(row, k)
    BY <1>2 DEF ReportsBefore
  <1>6. ASSUME NEW row PROVE OwnedBefore(row, k)' = OwnedBefore(row, k)
    <2>1. ReportsBefore(row, k) \subseteq 1..(k - 1)
      BY DEF ReportsBefore
    <2>2. QED
      BY <1>2, <1>5, <2>1 DEF OwnedBefore
  <1>7. ASSUME NEW row PROVE NamesItself(row, k)' = NamesItself(row, k)
    <2> DEFINE reports == ReportsBefore(row, k)
    <2>1. reports' = reports
      BY <1>5
    <2>2. reports \subseteq 1..(k - 1)
      BY DEF ReportsBefore
    <2>3. /\ NamesItself(row, k) = (reports # {} => CanonicalId(Heard(Max(reports))) = row)
          /\ NamesItself(row, k)' = (reports # {} => CanonicalId(Heard(Max(reports))') = row)
      BY <2>1 DEF NamesItself, CanonicalId
    <2> HIDE DEF reports
    <2>4. reports # {} => Heard(Max(reports))' = Heard(Max(reports))
      BY <1>2, <2>1, <2>2, ExtremesExist
    <2>5. QED
      BY <2>3, <2>4
  <1>8. QED
    BY <1>3, <1>4, <1>5, <1>6, <1>7

\* What the event adds to what comes before the next one.
LEMMA PresentIsAdded ==
  ASSUME RingInv, NEW id \in Ids, ingested' = Append(ingested, id),
         NEW now, now = Len(ingested) + 1, NEW e, e = PayloadOf(id)
  PROVE  /\ \A corr, kinds : NamedBefore(corr, now + 1, kinds)' = NamedBefore(corr, now, kinds)
              \union (IF e.kind \in kinds /\ e.corr = corr THEN {now} ELSE {})
         /\ \A row : ReportsBefore(row, now + 1)' = ReportsBefore(row, now)
              \union (IF e.kind = "telemetry" /\ ProjectedId(e) = row THEN {now} ELSE {})
         /\ \A row : OwnedBefore(row, now + 1)' = OwnedBefore(row, now)
              \union (IF e.kind = "telemetry" /\ ProjectedId(e) = row /\ e.account_id # None
                      THEN {now} ELSE {})
         /\ \A row : NamesItself(row, now + 1)' =
              (IF e.kind = "telemetry" /\ ProjectedId(e) = row
               THEN CanonicalId(e) = row ELSE NamesItself(row, now))
  <1>1. /\ now \in Nat /\ now >= 1
        /\ \A k \in 1..(now - 1) : Heard(k)' = Heard(k)
        /\ Heard(now)' = e
    BY HeardStep
  <1>2. /\ now \notin 1..(now - 1) /\ 1..((now + 1) - 1) = (1..(now - 1)) \union {now}
        /\ now - 1 \in Nat /\ (now - 1) + 1 = now
    BY <1>1
  <1>3. ASSUME NEW corr, NEW kinds
        PROVE  NamedBefore(corr, now + 1, kinds)' = NamedBefore(corr, now, kinds)
                 \union (IF e.kind \in kinds /\ e.corr = corr THEN {now} ELSE {})
    BY <1>1, <1>2 DEF NamedBefore
  <1>4. ASSUME NEW row
        PROVE  ReportsBefore(row, now + 1)' = ReportsBefore(row, now)
                 \union (IF e.kind = "telemetry" /\ ProjectedId(e) = row THEN {now} ELSE {})
    BY <1>1, <1>2 DEF ReportsBefore, ProjectedId
  <1>5. ASSUME NEW row
        PROVE  OwnedBefore(row, now + 1)' = OwnedBefore(row, now)
                 \union (IF e.kind = "telemetry" /\ ProjectedId(e) = row /\ e.account_id # None
                         THEN {now} ELSE {})
    <2>1. ReportsBefore(row, now) \subseteq 1..(now - 1)
      BY DEF ReportsBefore
    <2>2. OwnedBefore(row, now + 1)' =
            {j \in ReportsBefore(row, now + 1)' : Heard(j)'.account_id # None}
      BY DEF OwnedBefore
    <2>3. OwnedBefore(row, now) = {j \in ReportsBefore(row, now) : Heard(j).account_id # None}
      BY DEF OwnedBefore
    <2>4. QED
      BY <1>1, <1>4, <2>1, <2>2, <2>3
  <1>6. ASSUME NEW row
        PROVE  NamesItself(row, now + 1)' =
                 (IF e.kind = "telemetry" /\ ProjectedId(e) = row
                  THEN CanonicalId(e) = row ELSE NamesItself(row, now))
    <2>1. PICK before : before = ReportsBefore(row, now)
      OBVIOUS
    <2>2. PICK after : after = ReportsBefore(row, now + 1)'
      OBVIOUS
    <2>3. NamesItself(row, now) = (before # {} => CanonicalId(Heard(Max(before))) = row)
      BY <2>1 DEF NamesItself
    <2>4. NamesItself(row, now + 1)' = (after # {} => CanonicalId(Heard(Max(after)))' = row)
      BY <2>2 DEF NamesItself, CanonicalId
    <2>5. before \subseteq 1..(now - 1)
      BY <2>1 DEF ReportsBefore
    <2>6. CASE e.kind = "telemetry" /\ ProjectedId(e) = row
      <3>1. after = before \union {now}
        BY <1>4, <2>1, <2>2, <2>6
      <3>2. Max(after) = now
        BY <1>2, <2>5, <3>1, MaxOfNew
      <3>3. CanonicalId(Heard(now))' = CanonicalId(e)
        BY <1>1 DEF CanonicalId
      <3>4. QED
        BY <2>4, <2>6, <3>1, <3>2, <3>3
    <2>7. CASE ~ (e.kind = "telemetry" /\ ProjectedId(e) = row)
      <3>1. after = before
        BY <1>4, <2>1, <2>2, <2>7
      <3>2. before # {} => Max(before) \in 1..(now - 1)
        BY <1>2, <2>5, ExtremesExist
      <3>3. before # {} => CanonicalId(Heard(Max(before)))' = CanonicalId(Heard(Max(before)))
        BY <1>1, <3>2 DEF CanonicalId
      <3>4. QED
        BY <2>3, <2>4, <2>7, <3>1, <3>3
    <2>8. QED
      BY <2>6, <2>7
  <1>7. QED
    BY <1>3, <1>4, <1>5, <1>6

\* The row that event e writes, and those that give way to it, from what was known.
Target(e, now) ==
  CASE e.kind = "telemetry" -> ProjectedId(e)
    [] e.kind = "OrderSubmitted" -> KnownTo(e.corr, now)
    [] e.kind = "RiskDecisionMade" -> NoId
    [] OTHER -> e.strategy_id
GivesWay(row, e, now) ==
  /\ e.kind = "telemetry" /\ CanonicalId(e) = row /\ ProjectedId(e) # row
  /\ OwnedBefore(row, now) = {} /\ NamesItself(row, now)

WritesOf(row, kind) == {k \in Writes(row) : Heard(k).kind = kind}

\* The event is written to its row, or starts the row anew.
LEMMA WritesStep ==
  ASSUME RingInv, NEW id \in Ids, ingested' = Append(ingested, id),
         NEW now, now = Len(ingested) + 1, NEW e, e = PayloadOf(id), NEW row
  PROVE  /\ Writes(row) \subseteq 1..(now - 1)
         /\ Writes(row)' = IF GivesWay(row, e, now) THEN {}
              ELSE Writes(row) \union (IF Target(e, now) = row THEN {now} ELSE {})
         /\ \A kind : WritesOf(row, kind)' = IF GivesWay(row, e, now) THEN {}
              ELSE WritesOf(row, kind)
                     \union (IF Target(e, now) = row /\ e.kind = kind THEN {now} ELSE {})
  <1>1. /\ now \in Nat /\ now >= 1
        /\ HeardSoFar = 1..(now - 1) /\ HeardSoFar' = 1..now
        /\ \A k \in 1..(now - 1) : Heard(k)' = Heard(k)
        /\ Heard(now)' = e
    BY HeardStep
  <1>2. /\ now \notin 1..(now - 1) /\ 1..now = (1..(now - 1)) \union {now}
        /\ \A k \in 1..(now - 1) : k < now /\ k \in 1..now /\ ~ (now < k)
        /\ now \in 1..now /\ ~ (now < now)
    BY <1>1
  <1>3. \A k \in 1..now :
          /\ \A corr : KnownTo(corr, k)' = KnownTo(corr, k)
          /\ OwnedBefore(row, k)' = OwnedBefore(row, k)
          /\ NamesItself(row, k)' = NamesItself(row, k)
    BY PastIsKept
  <1>4. \A k \in 1..(now - 1) : WrittenBy(k)' = WrittenBy(k)
    BY <1>1, <1>2, <1>3 DEF WrittenBy, ProjectedId
  <1>5. WrittenBy(now)' = Target(e, now)
    BY <1>1, <1>2, <1>3 DEF WrittenBy, ProjectedId, Target
  <1>6. GaveWay(row) \subseteq 1..(now - 1)
    BY <1>1 DEF GaveWay
  <1>7. GaveWay(row)' = GaveWay(row) \union (IF GivesWay(row, e, now) THEN {now} ELSE {})
    <2>1. \A k \in 1..(now - 1) : (k \in GaveWay(row)') <=> (k \in GaveWay(row))
      BY <1>1, <1>2, <1>3 DEF GaveWay, CanonicalId, ProjectedId
    <2>2. (now \in GaveWay(row)') <=> GivesWay(row, e, now)
      BY <1>1, <1>2, <1>3 DEF GaveWay, GivesWay, CanonicalId, ProjectedId
    <2>3. GaveWay(row)' \subseteq 1..now
      BY <1>1 DEF GaveWay
    <2>4. QED
      BY <1>2, <1>6, <2>1, <2>2, <2>3
  <1>8. GivesWay(row, e, now) => Target(e, now) # row
    BY DEF GivesWay, Target
  <1>9. Writes(row) \subseteq 1..(now - 1)
    BY <1>1 DEF Writes
  <1>10. \A k \in 1..now : (k \in Writes(row)') <=>
           (WrittenBy(k)' = row /\ \A g \in GaveWay(row)' : g < k)
    BY <1>1 DEF Writes
  <1>11. \A k \in 1..(now - 1) : (k \in Writes(row)) <=>
           (WrittenBy(k) = row /\ \A g \in GaveWay(row) : g < k)
    BY <1>1 DEF Writes
  <1>12. \A k \in 1..(now - 1) : (k \in Writes(row)') <=>
           (k \in Writes(row) /\ ~ GivesWay(row, e, now))
    BY <1>2, <1>4, <1>7, <1>10, <1>11
  <1>13. (now \in Writes(row)') <=> (Target(e, now) = row)
    BY <1>2, <1>5, <1>6, <1>7, <1>8, <1>10
  <1>14. Writes(row)' \subseteq 1..now
    BY <1>1 DEF Writes
  <1>15. Writes(row)' = IF GivesWay(row, e, now) THEN {}
           ELSE Writes(row) \union (IF Target(e, now) = row THEN {now} ELSE {})
    <2>1. CASE GivesWay(row, e, now)
      BY <1>2, <1>8, <1>12, <1>13, <1>14, <2>1
    <2>2. CASE ~ GivesWay(row, e, now)
      BY <1>2, <1>9, <1>12, <1>13, <1>14, <2>2
    <2>3. QED
      BY <2>1, <2>2
  <1>16. ASSUME NEW kind
         PROVE  WritesOf(row, kind)' = IF GivesWay(row, e, now) THEN {}
                  ELSE WritesOf(row, kind)
                         \union (IF Target(e, now) = row /\ e.kind = kind THEN {now} ELSE {})
    BY <1>1, <1>9, <1>15 DEF WritesOf
  <1>17. QED
    BY <1>9, <1>15, <1>16

-----------------------------------------------------------------------------
(* What a payload does to the rows.                                        *)

RowFields == {"canonical", "account", "signals", "intents", "orders"}
RowsShaped == \A row \in DOMAIN strategies : DOMAIN strategies[row] = RowFields

\* The row as the handler finds it, and the row an event writes in this state.
RowOf(row) == IF row \in DOMAIN strategies THEN strategies[row] ELSE NewRow
TargetNow(e) ==
  CASE e.kind = "telemetry" -> ProjectedId(e)
    [] e.kind = "OrderSubmitted" -> chain_strategy[e.corr]
    [] e.kind = "RiskDecisionMade" -> NoId
    [] OTHER -> e.strategy_id
Gone(e) ==
  {row \in DOMAIN strategies :
     /\ e.kind = "telemetry" /\ CanonicalId(e) = row /\ ProjectedId(e) # row
     /\ IsLegacyAlias(strategies[row], row)}

PayloadKinds == {"telemetry", "SignalGenerated", "IntentCreated", "RiskDecisionMade", "OrderSubmitted"}

\* A new row counts nothing and belongs to nobody.
LEMMA NewRowFields ==
  /\ DOMAIN NewRow = RowFields
  /\ NewRow.canonical = NoId /\ NewRow.account = None
  /\ NewRow.signals = 0 /\ NewRow.intents = 0 /\ NewRow.orders = 0
  BY DEF NewRow, RowFields

\* Counting an event touches one counter of one row.
OnlyCounted(table, row, counter) ==
  /\ DOMAIN table = DOMAIN strategies \union {row}
  /\ \A other \in DOMAIN table : other # row => table[other] = strategies[other]
  /\ DOMAIN table[row] = RowFields
  /\ \A field \in RowFields :
       table[row][field] = IF field = counter THEN RowOf(row)[field] + 1 ELSE RowOf(row)[field]

\* Counting on a row starts it, if it is not there.
LEMMA CountedRows ==
  ASSUME RowsShaped, NEW row, NEW counter \in {"signals", "intents", "orders"},
         NEW table, table = Counted(strategies, row, counter)
  PROVE  OnlyCounted(table, row, counter)
  <1> DEFINE before == GetOrInsert(strategies, row)
  <1>1. /\ DOMAIN before = DOMAIN strategies \union {row}
        /\ \A other \in DOMAIN before : other # row => before[other] = strategies[other]
        /\ before[row] = RowOf(row)
    BY DEF GetOrInsert, RowOf
  <1>2. DOMAIN RowOf(row) = RowFields
    BY NewRowFields DEF RowsShaped, RowOf
  <1>3. table = [before EXCEPT ![row] = [before[row] EXCEPT ![counter] = before[row][counter] + 1]]
    BY DEF Counted
  <1> HIDE DEF before
  <1>4. /\ DOMAIN table = DOMAIN before
        /\ \A other \in DOMAIN before : other # row => table[other] = before[other]
        /\ table[row] = [before[row] EXCEPT ![counter] = before[row][counter] + 1]
    BY <1>1, <1>3
  <1>5. counter \in RowFields
    BY DEF RowFields
  <1>6. /\ DOMAIN table[row] = RowFields
        /\ \A field \in RowFields :
             table[row][field] = IF field = counter THEN RowOf(row)[field] + 1 ELSE RowOf(row)[field]
    BY <1>1, <1>2, <1>4, <1>5
  <1>7. QED
    BY <1>1, <1>4, <1>6 DEF OnlyCounted

\* Each event writes the row it is meant for, if there is one, and leaves the
\* others alone but for the one that gives way.
LEMMA PayloadRows ==
  ASSUME RowsShaped, NEW e, e.kind \in PayloadKinds, ReducePayload(e),
         e.kind \in {"SignalGenerated", "IntentCreated"} => e.strategy_id # NoId,
         e.kind = "telemetry" => ProjectedId(e) # NoId
  PROVE  LET target == TargetNow(e)
             old == RowOf(target)
             new == strategies'[target]
         IN /\ DOMAIN strategies' = (DOMAIN strategies \ Gone(e))
                  \union (IF target = NoId THEN {} ELSE {target})
            /\ \A row \in DOMAIN strategies' : row # target => strategies'[row] = strategies[row]
            /\ target # NoId =>
                 /\ DOMAIN new = RowFields
                 /\ new.signals = IF e.kind = "SignalGenerated" THEN old.signals + 1 ELSE old.signals
                 /\ new.intents = IF e.kind = "IntentCreated" THEN old.intents + 1 ELSE old.intents
                 /\ new.orders = IF e.kind = "OrderSubmitted" THEN old.orders + 1 ELSE old.orders
                 /\ new.canonical = IF e.kind = "telemetry" THEN CanonicalId(e) ELSE old.canonical
                 /\ new.account = IF e.kind = "telemetry" /\ e.account_id # None
                                  THEN e.account_id ELSE old.account
  <1> DEFINE target == TargetNow(e)
             old == RowOf(target)
             new == strategies'[target]
             Goal == /\ DOMAIN strategies' = (DOMAIN strategies \ Gone(e))
                          \union (IF target = NoId THEN {} ELSE {target})
                     /\ \A row \in DOMAIN strategies' : row # target => strategies'[row] = strategies[row]
                     /\ target # NoId =>
                          /\ DOMAIN new = RowFields
                          /\ new.signals = IF e.kind = "SignalGenerated" THEN old.signals + 1 ELSE old.signals
                          /\ new.intents = IF e.kind = "IntentCreated" THEN old.intents + 1 ELSE old.intents
                          /\ new.orders = IF e.kind = "OrderSubmitted" THEN old.orders + 1 ELSE old.orders
                          /\ new.canonical = IF e.kind = "telemetry" THEN CanonicalId(e) ELSE old.canonical
                          /\ new.account = IF e.kind = "telemetry" /\ e.account_id # None
                                           THEN e.account_id ELSE old.account
  <1> SUFFICES Goal
    OBVIOUS
  <1>1. ASSUME NEW counter \in {"signals", "intents", "orders"}, target # NoId,
               strategies' = Counted(strategies, target, counter),
               counter = "signals" <=> e.kind = "SignalGenerated",
               counter = "intents" <=> e.kind = "IntentCreated",
               counter = "orders" <=> e.kind = "OrderSubmitted",
               e.kind # "telemetry"
        PROVE  Goal
    <2>1. /\ DOMAIN strategies' = DOMAIN strategies \union {target}
          /\ \A other \in DOMAIN strategies' : other # target => strategies'[other] = strategies[other]
          /\ DOMAIN new = RowFields
          /\ \A field \in RowFields :
               new[field] = IF field = counter THEN old[field] + 1 ELSE old[field]
      <3>1. PICK table : table = strategies'
        OBVIOUS
      <3>2. PICK row : row = target
        OBVIOUS
      <3>3. table = Counted(strategies, row, counter)
        BY <1>1, <3>1, <3>2
      <3>4. OnlyCounted(table, row, counter)
        BY <1>1, <3>3, CountedRows
      <3>5. QED
        BY <3>1, <3>2, <3>4 DEF OnlyCounted
    <2>2. Gone(e) = {}
      BY <1>1 DEF Gone
    <2> HIDE DEF target, old, new
    <2>3. /\ new.signals = IF counter = "signals" THEN old.signals + 1 ELSE old.signals
          /\ new.intents = IF counter = "intents" THEN old.intents + 1 ELSE old.intents
          /\ new.orders = IF counter = "orders" THEN old.orders + 1 ELSE old.orders
          /\ new.canonical = old.canonical /\ new.account = old.account
      BY <2>1 DEF RowFields
    <2>4. QED
      BY <1>1, <2>1, <2>2, <2>3
  <1>2. CASE ReduceSignalGenerated(e)
    <2>1. /\ e.kind = "SignalGenerated" /\ target = e.strategy_id
          /\ strategies' = Counted(strategies, target, "signals")
      BY <1>2 DEF ReduceSignalGenerated, TargetNow
    <2> HIDE DEF target, Goal
    <2>2. QED
      BY <1>1, <2>1
  <1>3. CASE ReduceIntentCreated(e)
    <2>1. /\ e.kind = "IntentCreated" /\ target = e.strategy_id
          /\ strategies' = Counted(strategies, target, "intents")
      BY <1>3 DEF ReduceIntentCreated, TargetNow
    <2> HIDE DEF target, Goal
    <2>2. QED
      BY <1>1, <2>1
  <1>4. ASSUME e.kind # "telemetry", target = NoId, strategies' = strategies
        PROVE  Goal
    <2>1. Gone(e) = {}
      BY <1>4 DEF Gone
    <2> HIDE DEF target
    <2>2. QED
      BY <1>4, <2>1
  <1>5. CASE ReduceRiskDecision(e)
    <2>1. e.kind = "RiskDecisionMade" /\ target = NoId /\ strategies' = strategies
      BY <1>5 DEF ReduceRiskDecision, TargetNow
    <2> HIDE DEF target, Goal
    <2>2. QED
      BY <1>4, <2>1
  <1>6. CASE ReduceOrderSubmitted(e)
    <2>1. /\ e.kind = "OrderSubmitted"
          /\ strategies' = IF target = NoId THEN strategies
                           ELSE Counted(strategies, target, "orders")
      BY <1>6 DEF ReduceOrderSubmitted, TargetNow
    <2> HIDE DEF target, Goal
    <2>2. QED
      BY <1>1, <1>4, <2>1
  <1>7. CASE ReduceTelemetry(e)
    <2> DEFINE p == ProjectedId(e)
               q == CanonicalId(e)
               kept == DropLegacyAlias(strategies, p, q)
               before == GetOrInsert(kept, p)
    <2>1. /\ e.kind = "telemetry" /\ target = p
          /\ strategies' = Identified(kept, e)
      BY <1>7 DEF ReduceTelemetry, TargetNow
    <2>2. p # NoId
      BY <2>1
    <2>3. /\ DOMAIN kept = DOMAIN strategies \ Gone(e)
          /\ \A row \in DOMAIN kept : kept[row] = strategies[row]
          /\ p \notin Gone(e)
      BY <2>1 DEF DropLegacyAlias, Gone, Restrict
    <2>4. strategies' = [before EXCEPT
            ![p] = [[before[p] EXCEPT !.canonical = q] EXCEPT
                      !.account = IF e.account_id = None THEN @ ELSE e.account_id]]
      <3>1. p \in DOMAIN before
        BY DEF GetOrInsert
      <3> DEFINE one == [before EXCEPT ![p].canonical = q]
      <3>2. strategies' = [one EXCEPT ![p].account = IF e.account_id = None THEN @ ELSE e.account_id]
        BY <2>1 DEF Identified
      <3> HIDE DEF before, p, q
      <3>3. one[p] = [before[p] EXCEPT !.canonical = q] /\ DOMAIN one = DOMAIN before
        BY <3>1
      <3>4. one = [before EXCEPT ![p] = [before[p] EXCEPT !.canonical = q]]
        OBVIOUS
      <3>5. QED
        BY <3>1, <3>2, <3>3, <3>4
    <2>5. /\ DOMAIN before = DOMAIN kept \union {p}
          /\ \A row \in DOMAIN before : row # p => before[row] = kept[row]
          /\ before[p] = RowOf(p)
      BY <2>3 DEF GetOrInsert, RowOf
    <2>6. DOMAIN RowOf(p) = RowFields
      BY NewRowFields DEF RowsShaped, RowOf
    <2> HIDE DEF before, kept, p, q
    <2>7. /\ DOMAIN strategies' = DOMAIN before
          /\ \A row \in DOMAIN before : row # p => strategies'[row] = before[row]
          /\ strategies'[p] = [[before[p] EXCEPT !.canonical = q] EXCEPT
                                 !.account = IF e.account_id = None THEN @ ELSE e.account_id]
      BY <2>4, <2>5
    <2>8. /\ DOMAIN strategies'[p] = RowFields
          /\ strategies'[p].signals = RowOf(p).signals
          /\ strategies'[p].intents = RowOf(p).intents
          /\ strategies'[p].orders = RowOf(p).orders
          /\ strategies'[p].canonical = q
          /\ strategies'[p].account = IF e.account_id = None THEN RowOf(p).account ELSE e.account_id
      BY <2>5, <2>6, <2>7 DEF RowFields
    <2>9. old = RowOf(p) /\ new = strategies'[p] /\ q = CanonicalId(e)
      BY <2>1 DEF q
    <2> HIDE DEF target, old, new
    <2>10. /\ DOMAIN strategies' = (DOMAIN strategies \ Gone(e)) \union {p}
           /\ \A row \in DOMAIN strategies' : row # p => strategies'[row] = strategies[row]
      BY <2>3, <2>5, <2>7
    <2>11. /\ DOMAIN new = RowFields
           /\ new.signals = IF e.kind = "SignalGenerated" THEN old.signals + 1 ELSE old.signals
           /\ new.intents = IF e.kind = "IntentCreated" THEN old.intents + 1 ELSE old.intents
           /\ new.orders = IF e.kind = "OrderSubmitted" THEN old.orders + 1 ELSE old.orders
           /\ new.canonical = IF e.kind = "telemetry" THEN CanonicalId(e) ELSE old.canonical
           /\ new.account = IF e.kind = "telemetry" /\ e.account_id # None
                            THEN e.account_id ELSE old.account
      BY <2>1, <2>8, <2>9
    <2>12. QED
      BY <2>1, <2>2, <2>10, <2>11
  <1>8. QED
    BY <1>2, <1>3, <1>5, <1>6, <1>7 DEF ReducePayload

-----------------------------------------------------------------------------
(* The rows and the chains, related to what was heard.                     *)

Naming == {"SignalGenerated", "IntentCreated", "RiskDecisionMade"}

\* A chain knows the strategy that it should, and one if any was named.
ChainsInv ==
  /\ DOMAIN chain_strategy = Correlations
  /\ \A corr \in Correlations :
       /\ chain_strategy[corr] = KnownTo(corr, Len(ingested) + 1)
       /\ chain_strategy[corr] = NoId <=> NamedBefore(corr, Len(ingested) + 1, Naming) = {}

RowPresent(row) == row \in DOMAIN strategies <=> Writes(row) # {}

RowCounts(row) ==
  row \in DOMAIN strategies =>
    /\ strategies[row].signals = Cardinality(WritesOf(row, "SignalGenerated"))
    /\ strategies[row].intents = Cardinality(WritesOf(row, "IntentCreated"))
    /\ strategies[row].orders = Cardinality(WritesOf(row, "OrderSubmitted"))

\* A row that an account reported is there and shows the last one.
RowOwner(row) ==
  LET owned == OwnedBefore(row, Len(ingested) + 1)
  IN /\ owned # {} =>
          /\ row \in DOMAIN strategies
          /\ strategies[row].account = Heard(Max(owned)).account_id
          /\ strategies[row].account # None
     /\ owned = {} /\ row \in DOMAIN strategies => strategies[row].account = None

\* A row has the canonical name that was reported last, unless it was started anew.
RowCanonical(row) ==
  LET reports == ReportsBefore(row, Len(ingested) + 1)
  IN /\ row \in DOMAIN strategies =>
          \/ strategies[row].canonical = NoId
          \/ reports # {} /\ strategies[row].canonical = CanonicalId(Heard(Max(reports)))
     /\ row \notin DOMAIN strategies \/ strategies[row].canonical = NoId =>
          NamesItself(row, Len(ingested) + 1)

RowExact(row) == RowPresent(row) /\ RowCounts(row) /\ RowOwner(row) /\ RowCanonical(row)

\* The table, and what the chains know, are what the history of events makes them.
TableInv ==
  RowsShaped /\ NoId \notin DOMAIN strategies /\ ChainsInv /\ \A row : row # NoId => RowExact(row)

\* The earliest of some positions stays the earliest.
LEMMA MinOfMore ==
  ASSUME NEW m \in Nat, NEW T, T \subseteq 1..m, T # {}
  PROVE  Min(T \union {m + 1}) = Min(T)
  <1>1. PICK least \in T : \A y \in T : least <= y
    <2>1. T \subseteq Nat
      OBVIOUS
    <2>2. QED
      BY <2>1, LeastExists
  <1>2. \A x \in T : x \in Int /\ x < m + 1
    OBVIOUS
  <1>3. Min(T) = least
    <2>1. \A x \in T : (\A y \in T : x <= y) => x = least
      BY <1>1, <1>2
    <2>2. QED
      BY <1>1, <2>1 DEF Min
  <1> DEFINE U == T \union {m + 1}
  <1>4. least \in U /\ \A y \in U : least <= y
    BY <1>1, <1>2
  <1>5. \A x \in U : (\A y \in U : x <= y) => x = least
    BY <1>1, <1>2
  <1> HIDE DEF U
  <1>6. Min(U) = least
    BY <1>4, <1>5 DEF Min
  <1>7. QED
    BY <1>3, <1>6 DEF U

\* What an event says, and names.
LEMMA PayloadType ==
  ASSUME NEW id \in Ids, NEW e, e = PayloadOf(id)
  PROVE  /\ e.kind \in PayloadKinds
         /\ e.kind \in Naming => e.strategy_id # NoId
         /\ e.kind # "telemetry" => e.corr \in Correlations
         /\ e.kind = "telemetry" => ProjectedId(e) # NoId /\ CanonicalId(e) # NoId
  <1>1. \/ e.kind = "telemetry" /\ e.strategy_id # NoId
        \/ /\ e.kind \in {"SignalGenerated", "IntentCreated", "RiskDecisionMade"}
           /\ e.corr \in Correlations /\ e.strategy_id # NoId
        \/ e.kind = "OrderSubmitted" /\ e.corr \in Correlations
    BY TableAssumption
  <1>2. /\ e.kind \in PayloadKinds
        /\ e.kind \in Naming => e.strategy_id # NoId
        /\ e.kind # "telemetry" => e.corr \in Correlations
    BY <1>1 DEF PayloadKinds, Naming
  <1>3. ASSUME e.kind = "telemetry" PROVE ProjectedId(e) # NoId /\ CanonicalId(e) # NoId
    <2>1. e.strategy_id # NoId
      BY <1>1, <1>3
    <2>2. e.account_id # None => StrategyId(e.account_id, e.strategy_id) # NoId
      BY DEF StrategyId, NoId
    <2>3. CanonicalId(e) # NoId
      BY <2>1 DEF CanonicalId
    <2>4. ProjectedId(e) # NoId
      <3>1. CASE e.strategy_instance_id # NoId
        BY <3>1 DEF ProjectedId
      <3>2. CASE e.strategy_instance_id = NoId /\ e.account_id \in {None, e.strategy_id.account}
        BY <2>1, <3>2 DEF ProjectedId
      <3>3. CASE e.strategy_instance_id = NoId /\ e.account_id \notin {None, e.strategy_id.account}
        BY <2>2, <3>3 DEF ProjectedId
      <3>4. QED
        BY <3>1, <3>2, <3>3
    <2>5. QED
      BY <2>3, <2>4
  <1>4. QED
    BY <1>2, <1>3

\* A chain learns of a strategy as the later ones are to know it.
LEMMA ChainsStep ==
  ASSUME RingInv, ChainsInv, NEW id \in Ids, ingested' = Append(ingested, id),
         ReducePayload(PayloadOf(id))
  PROVE  ChainsInv'
  <1>1. PICK now : now = Len(ingested) + 1
    OBVIOUS
  <1>2. PICK e : e = PayloadOf(id)
    OBVIOUS
  <1>3. /\ now \in Nat /\ now >= 1 /\ Len(ingested') = now
        /\ \A k \in 1..(now - 1) : Heard(k)' = Heard(k)
        /\ Heard(now)' = e
    BY <1>1, <1>2, HeardStep
  <1>4. \A corr, kinds : NamedBefore(corr, now + 1, kinds)' = NamedBefore(corr, now, kinds)
          \union (IF e.kind \in kinds /\ e.corr = corr THEN {now} ELSE {})
    BY <1>1, <1>2, PresentIsAdded
  <1>5. /\ e.kind \in PayloadKinds /\ (e.kind \in Naming => e.strategy_id # NoId)
        /\ e.kind # "telemetry" => e.corr \in Correlations
    BY <1>2, PayloadType
  <1>6. /\ DOMAIN chain_strategy' = Correlations
        /\ \A corr \in Correlations : chain_strategy'[corr] =
             CASE e.kind \in {"SignalGenerated", "IntentCreated"} /\ e.corr = corr -> e.strategy_id
               [] e.kind = "RiskDecisionMade" /\ e.corr = corr /\ chain_strategy[corr] = NoId ->
                    e.strategy_id
               [] OTHER -> chain_strategy[corr]
    <2>1. ReducePayload(e) /\ DOMAIN chain_strategy = Correlations
      BY <1>2 DEF ChainsInv
    <2>2. CASE ReduceTelemetry(e) \/ ReduceOrderSubmitted(e)
      BY <2>1, <2>2 DEF ReduceTelemetry, ReduceOrderSubmitted
    <2>3. CASE ReduceSignalGenerated(e) \/ ReduceIntentCreated(e)
      <3>1. /\ e.kind \in {"SignalGenerated", "IntentCreated"}
            /\ chain_strategy' = [chain_strategy EXCEPT ![e.corr] = e.strategy_id]
        BY <2>3 DEF ReduceSignalGenerated, ReduceIntentCreated
      <3>2. QED
        BY <2>1, <3>1
    <2>4. CASE ReduceRiskDecision(e)
      <3>1. /\ e.kind = "RiskDecisionMade"
            /\ chain_strategy' = [chain_strategy EXCEPT ![e.corr] =
                                    IF @ = NoId THEN e.strategy_id ELSE @]
        BY <2>4 DEF ReduceRiskDecision
      <3>2. QED
        BY <2>1, <3>1
    <2>5. QED
      BY <2>1, <2>2, <2>3, <2>4 DEF ReducePayload
  <1>7. ASSUME NEW corr \in Correlations
        PROVE  /\ chain_strategy'[corr] = KnownTo(corr, now + 1)'
               /\ chain_strategy'[corr] = NoId <=> NamedBefore(corr, now + 1, Naming)' = {}
    <2>1. PICK sure : sure = NamedBefore(corr, now, {"SignalGenerated", "IntentCreated"})
      OBVIOUS
    <2>2. PICK risk : risk = NamedBefore(corr, now, {"RiskDecisionMade"})
      OBVIOUS
    <2>3. PICK sure1 : sure1 = NamedBefore(corr, now + 1, {"SignalGenerated", "IntentCreated"})'
      OBVIOUS
    <2>4. PICK risk1 : risk1 = NamedBefore(corr, now + 1, {"RiskDecisionMade"})'
      OBVIOUS
    <2>5. /\ sure1 = sure \union
               (IF e.kind \in {"SignalGenerated", "IntentCreated"} /\ e.corr = corr THEN {now} ELSE {})
          /\ risk1 = risk \union (IF e.kind = "RiskDecisionMade" /\ e.corr = corr THEN {now} ELSE {})
      BY <1>4, <2>1, <2>2, <2>3, <2>4
    <2>6. /\ NamedBefore(corr, now, Naming) = sure \union risk
          /\ sure \subseteq 1..(now - 1) /\ risk \subseteq 1..(now - 1)
      BY <2>1, <2>2 DEF NamedBefore, Naming
    <2>7. NamedBefore(corr, now + 1, Naming)' = sure1 \union risk1
      BY <2>3, <2>4 DEF NamedBefore, Naming
    <2>8. KnownTo(corr, now) = CASE sure # {} -> Heard(Max(sure)).strategy_id
                                 [] sure = {} /\ risk # {} -> Heard(Min(risk)).strategy_id
                                 [] OTHER -> NoId
      BY <2>1, <2>2 DEF KnownTo
    <2>9. KnownTo(corr, now + 1)' = CASE sure1 # {} -> Heard(Max(sure1))'.strategy_id
                                      [] sure1 = {} /\ risk1 # {} -> Heard(Min(risk1))'.strategy_id
                                      [] OTHER -> NoId
      BY <2>3, <2>4 DEF KnownTo
    <2>10. /\ chain_strategy[corr] = KnownTo(corr, now)
           /\ chain_strategy[corr] = NoId <=> sure \union risk = {}
      BY <1>1, <2>6 DEF ChainsInv
    <2>11. now - 1 \in Nat /\ (now - 1) + 1 = now
      BY <1>3
    <2>12. /\ sure # {} => Heard(Max(sure))' = Heard(Max(sure))
           /\ risk # {} => Heard(Min(risk))' = Heard(Min(risk))
      <3>1. sure # {} => Max(sure) \in 1..(now - 1)
        BY <2>6, <2>11, ExtremesExist
      <3>2. risk # {} => Min(risk) \in 1..(now - 1)
        BY <2>6, <2>11, ExtremesExist
      <3>3. QED
        BY <1>3, <3>1, <3>2
    <2>13. CASE e.kind \in {"SignalGenerated", "IntentCreated"} /\ e.corr = corr
      <3>1. sure1 = sure \union {now} /\ Max(sure1) = now
        BY <2>5, <2>6, <2>11, <2>13, MaxOfNew
      <3>2. chain_strategy'[corr] = e.strategy_id /\ e.strategy_id # NoId
        BY <1>5, <1>6, <2>13 DEF Naming
      <3>3. KnownTo(corr, now + 1)' = e.strategy_id
        BY <1>3, <2>9, <3>1
      <3>4. QED
        BY <2>7, <3>1, <3>2, <3>3
    <2>14. CASE e.kind = "RiskDecisionMade" /\ e.corr = corr
      <3>1. sure1 = sure /\ risk1 = risk \union {now} /\ e.strategy_id # NoId
        BY <1>5, <2>5, <2>14 DEF Naming
      <3>2. CASE chain_strategy[corr] = NoId
        <4>1. sure = {} /\ risk = {}
          BY <2>10, <3>2
        <4>2. Min(risk1) = now
          BY <1>3, <3>1, <4>1, MinOfOne
        <4>3. chain_strategy'[corr] = e.strategy_id
          BY <1>6, <2>14, <3>2
        <4>4. KnownTo(corr, now + 1)' = e.strategy_id
          BY <1>3, <2>9, <3>1, <4>1, <4>2
        <4>5. QED
          BY <2>7, <3>1, <4>3, <4>4
      <3>3. CASE chain_strategy[corr] # NoId
        <4>1. chain_strategy'[corr] = chain_strategy[corr]
          BY <1>6, <2>14, <3>3
        <4>2. sure = {} => risk # {} /\ Min(risk1) = Min(risk)
          BY <2>6, <2>10, <2>11, <3>1, <3>3, MinOfMore
        <4>3. KnownTo(corr, now + 1)' = KnownTo(corr, now)
          BY <2>8, <2>9, <2>12, <3>1, <4>2
        <4>4. QED
          BY <2>7, <2>10, <3>1, <3>3, <4>1, <4>3
      <3>4. QED
        BY <3>2, <3>3
    <2>15. CASE e.kind \notin Naming \/ e.corr # corr
      <3>1. sure1 = sure /\ risk1 = risk /\ chain_strategy'[corr] = chain_strategy[corr]
        BY <1>6, <2>5, <2>15 DEF Naming
      <3>2. KnownTo(corr, now + 1)' = KnownTo(corr, now)
        BY <2>8, <2>9, <2>12, <3>1
      <3>3. QED
        BY <2>7, <2>10, <3>1, <3>2
    <2>16. QED
      BY <2>13, <2>14, <2>15 DEF Naming
  <1>8. Len(ingested)' + 1 = now + 1
    BY <1>3
  <1>9. QED
    BY <1>6, <1>7, <1>8 DEF ChainsInv

\* The row gives way in the table as in the history.
LEMMA GoneIsGivesWay ==
  ASSUME NEW now, now = Len(ingested) + 1, NEW e, NEW row \in DOMAIN strategies, RowExact(row)
  PROVE  row \in Gone(e) <=> GivesWay(row, e, now)
  <1>1. PICK view : view = strategies[row]
    OBVIOUS
  <1>2. PICK reports : reports = ReportsBefore(row, now)
    OBVIOUS
  <1>3. NamesItself(row, now) = (reports # {} => CanonicalId(Heard(Max(reports))) = row)
    BY <1>2 DEF NamesItself
  <1>4. view.account = None <=> OwnedBefore(row, now) = {}
    BY <1>1 DEF RowExact, RowOwner
  <1>5. /\ view.canonical = NoId \/ (reports # {} /\ view.canonical = CanonicalId(Heard(Max(reports))))
        /\ view.canonical = NoId => NamesItself(row, now)
    BY <1>1, <1>2 DEF RowExact, RowCanonical
  <1>6. view.canonical \in {NoId, row} <=> NamesItself(row, now)
    BY <1>3, <1>5
  <1>7. IsLegacyAlias(view, row) <=> (OwnedBefore(row, now) = {} /\ NamesItself(row, now))
    BY <1>4, <1>6 DEF IsLegacyAlias
  <1>8. QED
    BY <1>1, <1>7 DEF Gone, GivesWay

\* The outcome of an event for one row, by whether it is written or gives way.
Outcome(row, e, now) ==
  LET mine == Target(e, now) = row
      old == RowOf(row)
      new == strategies'[row]
  IN /\ GivesWay(row, e, now) => ~ mine
     /\ row \in DOMAIN strategies' <=>
          (mine \/ (row \in DOMAIN strategies /\ ~ GivesWay(row, e, now)))
     /\ row \in DOMAIN strategies' /\ ~ mine => new = strategies[row]
     /\ mine =>
          /\ DOMAIN new = RowFields
          /\ new.signals = IF e.kind = "SignalGenerated" THEN old.signals + 1 ELSE old.signals
          /\ new.intents = IF e.kind = "IntentCreated" THEN old.intents + 1 ELSE old.intents
          /\ new.orders = IF e.kind = "OrderSubmitted" THEN old.orders + 1 ELSE old.orders
          /\ new.canonical = IF e.kind = "telemetry" THEN CanonicalId(e) ELSE old.canonical
          /\ new.account = IF e.kind = "telemetry" /\ e.account_id # None
                           THEN e.account_id ELSE old.account

\* What an event does to the table, row by row.
LEMMA OutcomeForRows ==
  ASSUME TableInv, NEW id \in Ids, NEW e, e = PayloadOf(id), ReducePayload(e),
         NEW now, now = Len(ingested) + 1
  PROVE  /\ NoId \notin DOMAIN strategies'
         /\ \A row : row # NoId => Outcome(row, e, now)
  <1>1. PICK target : target = TargetNow(e)
    OBVIOUS
  <1>2. /\ e.kind \in PayloadKinds /\ (e.kind \in Naming => e.strategy_id # NoId)
        /\ e.kind # "telemetry" => e.corr \in Correlations
        /\ e.kind = "telemetry" => ProjectedId(e) # NoId /\ CanonicalId(e) # NoId
    BY PayloadType
  <1>3. Target(e, now) = target
    BY <1>1, <1>2 DEF Target, TargetNow, TableInv, ChainsInv
  <1>4. /\ DOMAIN strategies' = (DOMAIN strategies \ Gone(e))
             \union (IF target = NoId THEN {} ELSE {target})
        /\ \A row \in DOMAIN strategies' : row # target => strategies'[row] = strategies[row]
        /\ target # NoId =>
             /\ DOMAIN strategies'[target] = RowFields
             /\ strategies'[target].signals =
                  IF e.kind = "SignalGenerated" THEN RowOf(target).signals + 1 ELSE RowOf(target).signals
             /\ strategies'[target].intents =
                  IF e.kind = "IntentCreated" THEN RowOf(target).intents + 1 ELSE RowOf(target).intents
             /\ strategies'[target].orders =
                  IF e.kind = "OrderSubmitted" THEN RowOf(target).orders + 1 ELSE RowOf(target).orders
             /\ strategies'[target].canonical =
                  IF e.kind = "telemetry" THEN CanonicalId(e) ELSE RowOf(target).canonical
             /\ strategies'[target].account =
                  IF e.kind = "telemetry" /\ e.account_id # None
                  THEN e.account_id ELSE RowOf(target).account
    BY <1>1, <1>2, PayloadRows DEF TableInv, Naming
  <1>5. NoId \notin DOMAIN strategies'
    BY <1>4 DEF TableInv
  <1>6. ASSUME NEW row, row # NoId PROVE Outcome(row, e, now)
    <2>1. row \in DOMAIN strategies => (row \in Gone(e) <=> GivesWay(row, e, now))
      BY <1>6, GoneIsGivesWay DEF TableInv
    <2>2. GivesWay(row, e, now) => target # row
      BY <1>3 DEF GivesWay, Target
    <2>3. row \in DOMAIN strategies' <=>
            (target = row \/ (row \in DOMAIN strategies /\ ~ GivesWay(row, e, now)))
      BY <1>4, <1>6, <2>1
    <2>4. row \in DOMAIN strategies' /\ target # row => strategies'[row] = strategies[row]
      BY <1>4
    <2>5. CASE target = row
      BY <1>3, <1>4, <1>6, <2>2, <2>3, <2>4, <2>5 DEF Outcome
    <2>6. CASE target # row
      BY <1>3, <2>2, <2>3, <2>4, <2>6 DEF Outcome
    <2>7. QED
      BY <2>5, <2>6
  <1>7. QED
    BY <1>5, <1>6

\* A row is there exactly if something was written to it since it gave way.
LEMMA RowPresentStep ==
  ASSUME RingInv, NEW id \in Ids, ingested' = Append(ingested, id),
         NEW now, now = Len(ingested) + 1, NEW e, e = PayloadOf(id),
         NEW row, RowExact(row), Outcome(row, e, now)
  PROVE  RowPresent(row)'
  <1>1. Writes(row)' = IF GivesWay(row, e, now) THEN {}
          ELSE Writes(row) \union (IF Target(e, now) = row THEN {now} ELSE {})
    BY WritesStep
  <1>2. row \in DOMAIN strategies <=> Writes(row) # {}
    BY DEF RowExact, RowPresent
  <1>3. /\ GivesWay(row, e, now) => Target(e, now) # row
        /\ row \in DOMAIN strategies' <=>
             (Target(e, now) = row \/ (row \in DOMAIN strategies /\ ~ GivesWay(row, e, now)))
    BY DEF Outcome
  <1>4. QED
    BY <1>1, <1>2, <1>3 DEF RowPresent

\* The event counts for a row, whatever kind of event is counted.
CountsOn(row, e) ==
  \A kind, count :
    /\ row \in DOMAIN strategies => count = Cardinality(WritesOf(row, kind))
    /\ row \notin DOMAIN strategies => count = 0
    => Cardinality(WritesOf(row, kind)') = IF e.kind = kind THEN count + 1 ELSE count

\* What is written to a row counts for it, with what was written since it gave way.
LEMMA CountStep ==
  ASSUME RingInv, NEW id \in Ids, ingested' = Append(ingested, id),
         NEW now, now = Len(ingested) + 1, NEW e, e = PayloadOf(id),
         NEW row, RowExact(row), Target(e, now) = row
  PROVE  CountsOn(row, e)
  <1> SUFFICES ASSUME NEW kind, NEW count,
                      row \in DOMAIN strategies => count = Cardinality(WritesOf(row, kind)),
                      row \notin DOMAIN strategies => count = 0
               PROVE  Cardinality(WritesOf(row, kind)') = IF e.kind = kind THEN count + 1 ELSE count
    BY DEF CountsOn
  <1>1. WritesOf(row, kind)' =
          WritesOf(row, kind) \union (IF e.kind = kind THEN {now} ELSE {})
    <2>1. ~ GivesWay(row, e, now)
      BY DEF GivesWay, Target
    <2>2. WritesOf(row, kind)' = IF GivesWay(row, e, now) THEN {}
            ELSE WritesOf(row, kind)
                   \union (IF Target(e, now) = row /\ e.kind = kind THEN {now} ELSE {})
      BY WritesStep
    <2>3. QED
      BY <2>1, <2>2
  <1>2. now \in Nat /\ now - 1 \in Int /\ now \notin 1..(now - 1)
    BY HeardStep
  <1>3. WritesOf(row, kind) \subseteq 1..(now - 1)
    <2>1. Writes(row) \subseteq 1..(now - 1)
      BY WritesStep
    <2>2. QED
      BY <2>1 DEF WritesOf
  <1>4. IsFiniteSet(WritesOf(row, kind))
    <2>1. IsFiniteSet(1..(now - 1))
      BY <1>2, FS_Interval
    <2>2. QED
      BY <1>3, <2>1, FS_Subset
  <1>5. count = Cardinality(WritesOf(row, kind))
    <2>1. CASE row \in DOMAIN strategies
      BY <2>1
    <2>2. CASE row \notin DOMAIN strategies
      <3>1. WritesOf(row, kind) = {}
        BY <2>2 DEF RowExact, RowPresent, WritesOf
      <3>2. QED
        BY <2>2, <3>1, FS_EmptySet
    <2>3. QED
      BY <2>1, <2>2
  <1>6. Cardinality(WritesOf(row, kind) \union {now}) = Cardinality(WritesOf(row, kind)) + 1
    BY <1>2, <1>3, <1>4, FS_AddElement
  <1>7. QED
    BY <1>1, <1>5, <1>6

\* The counters of a row count the events written to it.
LEMMA RowCountsStep ==
  ASSUME RingInv, NEW id \in Ids, ingested' = Append(ingested, id),
         NEW now, now = Len(ingested) + 1, NEW e, e = PayloadOf(id),
         NEW row, RowExact(row), Outcome(row, e, now)
  PROVE  RowCounts(row)'
  <1>1. CASE Target(e, now) = row
    <2>1. PICK old : old = RowOf(row)
      OBVIOUS
    <2>2. /\ strategies'[row].signals = IF e.kind = "SignalGenerated" THEN old.signals + 1 ELSE old.signals
          /\ strategies'[row].intents = IF e.kind = "IntentCreated" THEN old.intents + 1 ELSE old.intents
          /\ strategies'[row].orders = IF e.kind = "OrderSubmitted" THEN old.orders + 1 ELSE old.orders
      BY <1>1, <2>1 DEF Outcome
    <2>3. row \notin DOMAIN strategies => old.signals = 0 /\ old.intents = 0 /\ old.orders = 0
      BY <2>1, NewRowFields DEF RowOf
    <2>4. row \in DOMAIN strategies =>
            /\ old.signals = Cardinality(WritesOf(row, "SignalGenerated"))
            /\ old.intents = Cardinality(WritesOf(row, "IntentCreated"))
            /\ old.orders = Cardinality(WritesOf(row, "OrderSubmitted"))
      BY <2>1 DEF RowExact, RowCounts, RowOf
    <2>9. \A kind, count :
             /\ row \in DOMAIN strategies => count = Cardinality(WritesOf(row, kind))
             /\ row \notin DOMAIN strategies => count = 0
             => Cardinality(WritesOf(row, kind)') = IF e.kind = kind THEN count + 1 ELSE count
      <3>1. CountsOn(row, e)
        BY <1>1, CountStep
      <3>2. QED
        BY <3>1 DEF CountsOn
    <2>5. Cardinality(WritesOf(row, "SignalGenerated")') =
            IF e.kind = "SignalGenerated" THEN old.signals + 1 ELSE old.signals
      BY <2>3, <2>4, <2>9
    <2>6. Cardinality(WritesOf(row, "IntentCreated")') =
            IF e.kind = "IntentCreated" THEN old.intents + 1 ELSE old.intents
      BY <2>3, <2>4, <2>9
    <2>7. Cardinality(WritesOf(row, "OrderSubmitted")') =
            IF e.kind = "OrderSubmitted" THEN old.orders + 1 ELSE old.orders
      BY <2>3, <2>4, <2>9
    <2>8. QED
      BY <2>2, <2>5, <2>6, <2>7 DEF RowCounts
  <1>2. CASE Target(e, now) # row /\ row \in DOMAIN strategies'
    <2>1. /\ row \in DOMAIN strategies /\ ~ GivesWay(row, e, now)
          /\ strategies'[row] = strategies[row]
      BY <1>2 DEF Outcome
    <2>2. \A kind : WritesOf(row, kind)' = IF GivesWay(row, e, now) THEN {}
            ELSE WritesOf(row, kind)
                   \union (IF Target(e, now) = row /\ e.kind = kind THEN {now} ELSE {})
      BY WritesStep
    <2>3. \A kind : WritesOf(row, kind)' = WritesOf(row, kind)
      BY <1>2, <2>1, <2>2
    <2>4. QED
      BY <2>1, <2>3 DEF RowExact, RowCounts
  <1>3. CASE row \notin DOMAIN strategies'
    BY <1>3 DEF RowCounts
  <1>4. QED
    BY <1>1, <1>2, <1>3

\* A row has the account that reported it last, and keeps it.
LEMMA RowOwnerStep ==
  ASSUME RingInv, NEW id \in Ids, ingested' = Append(ingested, id),
         NEW now, now = Len(ingested) + 1, NEW e, e = PayloadOf(id),
         NEW row, RowExact(row), Outcome(row, e, now)
  PROVE  RowOwner(row)'
  <1>1. PICK before : before = OwnedBefore(row, now)
    OBVIOUS
  <1>2. PICK after : after = OwnedBefore(row, now + 1)'
    OBVIOUS
  <1>3. /\ now \in Nat /\ now - 1 \in Nat /\ (now - 1) + 1 = now /\ Len(ingested)' + 1 = now + 1
        /\ \A k \in 1..(now - 1) : Heard(k)' = Heard(k)
        /\ Heard(now)' = e
    BY HeardStep
  <1>4. after = before \union
          (IF e.kind = "telemetry" /\ ProjectedId(e) = row /\ e.account_id # None THEN {now} ELSE {})
    BY <1>1, <1>2, PresentIsAdded
  <1>5. before \subseteq 1..(now - 1)
    BY <1>1 DEF OwnedBefore, ReportsBefore
  <1>6. before # {} => Heard(Max(before))' = Heard(Max(before))
    <2>1. before # {} => Max(before) \in 1..(now - 1)
      BY <1>3, <1>5, ExtremesExist
    <2>2. QED
      BY <1>3, <2>1
  <1>7. /\ before # {} =>
             /\ row \in DOMAIN strategies
             /\ strategies[row].account = Heard(Max(before)).account_id
             /\ strategies[row].account # None
        /\ before = {} /\ row \in DOMAIN strategies => strategies[row].account = None
    BY <1>1 DEF RowExact, RowOwner
  <1>8. SUFFICES /\ after # {} =>
                      /\ row \in DOMAIN strategies'
                      /\ strategies'[row].account = Heard(Max(after))'.account_id
                      /\ strategies'[row].account # None
                 /\ after = {} /\ row \in DOMAIN strategies' => strategies'[row].account = None
    BY <1>2, <1>3 DEF RowOwner
  <1>9. CASE e.kind = "telemetry" /\ ProjectedId(e) = row /\ e.account_id # None
    <2>1. Target(e, now) = row
      BY <1>9 DEF Target
    <2>2. row \in DOMAIN strategies' /\ strategies'[row].account = e.account_id
      BY <1>9, <2>1 DEF Outcome
    <2>3. after = before \union {now}
      BY <1>4, <1>9
    <2>4. Max(after) = now
      BY <1>3, <1>5, <2>3, MaxOfNew
    <2>5. QED
      BY <1>3, <1>9, <2>2, <2>3, <2>4
  <1>10. CASE ~ (e.kind = "telemetry" /\ ProjectedId(e) = row /\ e.account_id # None)
    <2>1. after = before
      BY <1>4, <1>10
    <2>2. CASE Target(e, now) = row
      <3>1. row \in DOMAIN strategies' /\ strategies'[row].account = RowOf(row).account
        <4>1. ~ (e.kind = "telemetry" /\ e.account_id # None)
          BY <1>10, <2>2 DEF Target
        <4>2. QED
          BY <2>2, <4>1 DEF Outcome
      <3>2. row \notin DOMAIN strategies => RowOf(row).account = None
        BY NewRowFields DEF RowOf
      <3>3. row \in DOMAIN strategies => RowOf(row).account = strategies[row].account
        BY DEF RowOf
      <3>4. QED
        BY <1>6, <1>7, <2>1, <3>1, <3>2, <3>3
    <2>3. CASE Target(e, now) # row
      <3>1. GivesWay(row, e, now) => before = {}
        BY <1>1 DEF GivesWay
      <3>2. /\ row \in DOMAIN strategies' <=> (row \in DOMAIN strategies /\ ~ GivesWay(row, e, now))
            /\ row \in DOMAIN strategies' => strategies'[row] = strategies[row]
        BY <2>3 DEF Outcome
      <3>3. QED
        BY <1>6, <1>7, <2>1, <3>1, <3>2
    <2>4. QED
      BY <2>2, <2>3
  <1>11. QED
    BY <1>9, <1>10

\* A row has the canonical name that it was given last.
LEMMA RowCanonicalStep ==
  ASSUME RingInv, NEW id \in Ids, ingested' = Append(ingested, id),
         NEW now, now = Len(ingested) + 1, NEW e, e = PayloadOf(id),
         NEW row, RowExact(row), Outcome(row, e, now)
  PROVE  RowCanonical(row)'
  <1>1. PICK before : before = ReportsBefore(row, now)
    OBVIOUS
  <1>2. PICK after : after = ReportsBefore(row, now + 1)'
    OBVIOUS
  <1>3. /\ now \in Nat /\ now - 1 \in Nat /\ (now - 1) + 1 = now /\ Len(ingested)' + 1 = now + 1
        /\ \A k \in 1..(now - 1) : Heard(k)' = Heard(k)
        /\ Heard(now)' = e
    BY HeardStep
  <1>4. /\ after = before \union (IF e.kind = "telemetry" /\ ProjectedId(e) = row THEN {now} ELSE {})
        /\ NamesItself(row, now + 1)' =
             (IF e.kind = "telemetry" /\ ProjectedId(e) = row
              THEN CanonicalId(e) = row ELSE NamesItself(row, now))
    BY <1>1, <1>2, PresentIsAdded
  <1>5. before \subseteq 1..(now - 1)
    BY <1>1 DEF ReportsBefore
  <1>6. before # {} => CanonicalId(Heard(Max(before)))' = CanonicalId(Heard(Max(before)))
    <2>1. before # {} => Max(before) \in 1..(now - 1)
      BY <1>3, <1>5, ExtremesExist
    <2>2. QED
      BY <1>3, <2>1 DEF CanonicalId
  <1>7. /\ row \in DOMAIN strategies =>
             \/ strategies[row].canonical = NoId
             \/ before # {} /\ strategies[row].canonical = CanonicalId(Heard(Max(before)))
        /\ row \notin DOMAIN strategies \/ strategies[row].canonical = NoId => NamesItself(row, now)
    BY <1>1 DEF RowExact, RowCanonical
  <1>8. SUFFICES /\ row \in DOMAIN strategies' =>
                      \/ strategies'[row].canonical = NoId
                      \/ after # {} /\ strategies'[row].canonical = CanonicalId(Heard(Max(after)))'
                 /\ row \notin DOMAIN strategies' \/ strategies'[row].canonical = NoId =>
                      NamesItself(row, now + 1)'
    BY <1>2, <1>3 DEF RowCanonical
  <1>9. CASE e.kind = "telemetry" /\ ProjectedId(e) = row
    <2>1. Target(e, now) = row
      BY <1>9 DEF Target
    <2>2. row \in DOMAIN strategies' /\ strategies'[row].canonical = CanonicalId(e)
      BY <1>9, <2>1 DEF Outcome
    <2>3. after = before \union {now} /\ Max(after) = now
      BY <1>3, <1>4, <1>5, <1>9, MaxOfNew
    <2>4. CanonicalId(Heard(now))' = CanonicalId(e)
      BY <1>3 DEF CanonicalId
    <2>5. CanonicalId(e) # NoId
      BY <1>9, PayloadType
    <2>6. QED
      BY <2>2, <2>3, <2>4, <2>5
  <1>10. CASE ~ (e.kind = "telemetry" /\ ProjectedId(e) = row)
    <2>1. after = before /\ NamesItself(row, now + 1)' = NamesItself(row, now)
      BY <1>4, <1>10
    <2>2. CASE Target(e, now) = row
      <3>1. row \in DOMAIN strategies' /\ strategies'[row].canonical = RowOf(row).canonical
        <4>1. e.kind # "telemetry"
          BY <1>10, <2>2 DEF Target
        <4>2. QED
          BY <2>2, <4>1 DEF Outcome
      <3>2. row \notin DOMAIN strategies => RowOf(row).canonical = NoId
        BY NewRowFields DEF RowOf
      <3>3. row \in DOMAIN strategies => RowOf(row).canonical = strategies[row].canonical
        BY DEF RowOf
      <3>4. QED
        BY <1>6, <1>7, <2>1, <3>1, <3>2, <3>3
    <2>3. CASE Target(e, now) # row
      <3>1. GivesWay(row, e, now) => NamesItself(row, now)
        BY DEF GivesWay
      <3>2. /\ row \in DOMAIN strategies' <=> (row \in DOMAIN strategies /\ ~ GivesWay(row, e, now))
            /\ row \in DOMAIN strategies' => strategies'[row] = strategies[row]
        BY <2>3 DEF Outcome
      <3>3. QED
        BY <1>6, <1>7, <2>1, <3>1, <3>2
    <2>4. QED
      BY <2>2, <2>3
  <1>11. QED
    BY <1>9, <1>10
\* An event keeps the table and its history together.
LEMMA HeardKeepsTable ==
  ASSUME RingInv, TableInv, NEW id \in Ids, ingested' = Append(ingested, id),
         ReducePayload(PayloadOf(id))
  PROVE  TableInv'
  <1>1. PICK now : now = Len(ingested) + 1
    OBVIOUS
  <1>2. PICK e : e = PayloadOf(id)
    OBVIOUS
  <1>3. /\ NoId \notin DOMAIN strategies'
        /\ \A row : row # NoId => Outcome(row, e, now)
    BY <1>1, <1>2, OutcomeForRows
  <1>4. RowsShaped'
    <2>1. \A row \in DOMAIN strategies' :
            IF Target(e, now) = row THEN DOMAIN strategies'[row] = RowFields
            ELSE row \in DOMAIN strategies /\ strategies'[row] = strategies[row]
      BY <1>3 DEF Outcome
    <2>2. QED
      BY <2>1 DEF TableInv, RowsShaped
  <1>5. ChainsInv'
    BY ChainsStep DEF TableInv
  <1>6. ASSUME NEW row, row # NoId PROVE RowExact(row)'
    <2>1. RowExact(row) /\ Outcome(row, e, now)
      BY <1>3, <1>6 DEF TableInv
    <2>2. RowPresent(row)'
      BY <1>1, <1>2, <2>1, RowPresentStep
    <2>3. RowCounts(row)'
      BY <1>1, <1>2, <2>1, RowCountsStep
    <2>4. RowOwner(row)'
      BY <1>1, <1>2, <2>1, RowOwnerStep
    <2>5. RowCanonical(row)'
      BY <1>1, <1>2, <2>1, RowCanonicalStep
    <2>6. QED
      BY <2>2, <2>3, <2>4, <2>5 DEF RowExact
  <1>7. QED
    BY <1>3, <1>4, <1>5, <1>6 DEF TableInv

\* The history says the same as long as nothing is heard.
LEMMA FrameTable ==
  ASSUME TableInv, UNCHANGED << ingested, strategies, chain_strategy >>
  PROVE  TableInv'
  <1>1. \A k : Heard(k)' = Heard(k)
    BY DEF Heard
  <1>2. HeardSoFar' = HeardSoFar /\ Len(ingested)' + 1 = Len(ingested) + 1
    BY DEF HeardSoFar
  <1>3. \A corr, k, kinds : NamedBefore(corr, k, kinds)' = NamedBefore(corr, k, kinds)
    BY <1>1 DEF NamedBefore
  <1>4. \A corr, k : KnownTo(corr, k)' = KnownTo(corr, k)
    BY <1>1, <1>3 DEF KnownTo
  <1>5. \A k : WrittenBy(k)' = WrittenBy(k)
    BY <1>1, <1>4 DEF WrittenBy, ProjectedId
  <1>6. \A row, k : /\ ReportsBefore(row, k)' = ReportsBefore(row, k)
                    /\ OwnedBefore(row, k)' = OwnedBefore(row, k)
    BY <1>1 DEF ReportsBefore, OwnedBefore, ProjectedId
  <1>7. \A row, k : NamesItself(row, k)' = NamesItself(row, k)
    BY <1>1, <1>6 DEF NamesItself, CanonicalId
  <1>8. \A row : GaveWay(row)' = GaveWay(row)
    BY <1>1, <1>2, <1>6, <1>7 DEF GaveWay, ProjectedId, CanonicalId
  <1>9. \A row : Writes(row)' = Writes(row)
    BY <1>2, <1>5, <1>8 DEF Writes
  <1>10. \A row, kind : WritesOf(row, kind)' = WritesOf(row, kind)
    BY <1>1, <1>9 DEF WritesOf
  <1>11. RowsShaped' /\ NoId \notin DOMAIN strategies'
    BY DEF TableInv, RowsShaped
  <1>12. ChainsInv'
    BY <1>2, <1>3, <1>4 DEF TableInv, ChainsInv
  <1>13. ASSUME NEW row, row # NoId PROVE RowExact(row)'
    <2>1. RowExact(row)
      BY <1>13 DEF TableInv
    <2>2. RowPresent(row)'
      BY <1>9, <2>1 DEF RowExact, RowPresent
    <2>3. RowCounts(row)'
      BY <1>10, <2>1 DEF RowExact, RowCounts
    <2>4. RowOwner(row)'
      BY <1>1, <1>2, <1>6, <2>1 DEF RowExact, RowOwner
    <2>5. RowCanonical(row)'
      BY <1>1, <1>2, <1>6, <1>7, <2>1 DEF RowExact, RowCanonical, CanonicalId
    <2>6. QED
      BY <2>2, <2>3, <2>4, <2>5 DEF RowExact
  <1>14. QED
    BY <1>11, <1>12, <1>13 DEF TableInv

\* Nothing was heard, and the table is empty.
LEMMA InitTable == TableInit => TableInv
  <1> SUFFICES ASSUME TableInit PROVE TableInv
    OBVIOUS
  <1>1. /\ ingested = << >> /\ Len(ingested) + 1 = 1 /\ HeardSoFar = {}
        /\ DOMAIN strategies = {}
        /\ chain_strategy = [c \in Correlations |-> NoId]
    BY DEF TableInit, RingInit, HeardSoFar
  <1>2. 1..(1 - 1) = {}
    OBVIOUS
  <1>3. RowsShaped /\ NoId \notin DOMAIN strategies
    BY <1>1 DEF RowsShaped
  <1>4. \A corr, kinds : NamedBefore(corr, 1, kinds) = {}
    BY <1>2 DEF NamedBefore
  <1>5. ChainsInv
    <2>1. \A corr : KnownTo(corr, 1) = NoId
      BY <1>4 DEF KnownTo
    <2>2. QED
      BY <1>1, <1>4, <2>1 DEF ChainsInv
  <1>6. ASSUME NEW row PROVE RowExact(row)
    <2>1. ReportsBefore(row, 1) = {} /\ OwnedBefore(row, 1) = {} /\ Writes(row) = {}
      BY <1>1, <1>2 DEF ReportsBefore, OwnedBefore, Writes
    <2>2. NamesItself(row, 1)
      BY <2>1 DEF NamesItself
    <2>3. RowPresent(row)
      BY <1>1, <2>1 DEF RowPresent
    <2>4. RowCounts(row)
      BY <1>1 DEF RowCounts
    <2>5. RowOwner(row)
      BY <1>1, <2>1 DEF RowOwner
    <2>6. RowCanonical(row)
      BY <1>1, <2>2 DEF RowCanonical
    <2>7. QED
      BY <2>3, <2>4, <2>5, <2>6 DEF RowExact
  <1>7. QED
    BY <1>3, <1>5, <1>6 DEF TableInv

\* A step of the table is a step of the ring.
LEMMA TableStepIsRingStep == [TableNext]_tableVars => [RingNext]_ringVars
  <1>1. TableNext => RingNext
    BY DEF TableNext, RingNext, DeliverToTable
  <1>2. UNCHANGED tableVars => UNCHANGED ringVars
    BY DEF tableVars
  <1>3. QED
    BY <1>1, <1>2

\* Every step preserves the invariant of the table.
LEMMA TableStep == IntakeInv /\ RingInv /\ TableInv /\ [TableNext]_tableVars => TableInv'
  <1> SUFFICES ASSUME IntakeInv, RingInv, TableInv, [TableNext]_tableVars
               PROVE  TableInv'
    OBVIOUS
  <1>1. CASE UNCHANGED << ingested, strategies, chain_strategy >>
    BY <1>1, FrameTable
  <1>2. ASSUME NEW p \in Producers, NEW n \in 1..sent[p], DeliverToTable(p, n)
        PROVE  TableInv'
    <2>1. PICK id : id = << p, n >>
      OBVIOUS
    <2>2. id \in Ids /\ ingested' = Append(ingested, id)
      BY <1>2, <2>1, DeliveredIsNew DEF DeliverToTable
    <2>3. Envelope(p, n).event_id = id
      BY <2>1 DEF Envelope
    <2>4. ReducePayload(PayloadOf(id))
      BY <1>2, <2>3 DEF DeliverToTable
    <2>5. QED
      BY <2>2, <2>4, HeardKeepsTable
  <1>3. QED
    BY <1>1, <1>2 DEF TableNext, tableVars, ringVars

\* The rows, the chains and what was heard belong together: in every state the
\* table is what the history of ingested events makes it.
THEOREM TableInvariant == TableSpec => [](IntakeInv /\ RingInv /\ TableInv)
  <1>1. TableInit => IntakeInv /\ RingInv /\ TableInv
    BY InitInv, InitRing, InitTable DEF TableInit, RingInit
  <1>2. IntakeInv /\ RingInv /\ TableInv /\ [TableNext]_tableVars
          => IntakeInv' /\ RingInv' /\ TableInv'
    BY StepInv, RingStep, RingStepIsStep, TableStep, TableStepIsRingStep
  <1>3. QED
    BY <1>1, <1>2, PTL DEF TableSpec

\* A strategy has one row, and the row counts each of its events once, in whatever
\* order they come; an account's row never gives way.
THEOREM RowsAreExact == TableSpec => []StrategyRowsExact
  <1>1. TableInv => StrategyRowsExact
    <2> SUFFICES ASSUME TableInv,
                        NEW row \in DOMAIN strategies \union ({WrittenBy(k) : k \in HeardSoFar} \ {NoId})
                 PROVE  LET shown == strategies[row]
                            writes == Writes(row)
                            Total(kind) == Cardinality({k \in writes : Heard(k).kind = kind})
                            owned == OwnedBefore(row, Len(ingested) + 1)
                        IN /\ row \in DOMAIN strategies <=> writes # {}
                           /\ row \in DOMAIN strategies =>
                                /\ shown.signals = Total("SignalGenerated")
                                /\ shown.intents = Total("IntentCreated")
                                /\ shown.orders = Total("OrderSubmitted")
                                /\ shown.account = IF owned = {} THEN None
                                                   ELSE Heard(Max(owned)).account_id
                           /\ owned # {} => row \in DOMAIN strategies
      BY DEF StrategyRowsExact
    <2>1. row # NoId
      BY DEF TableInv
    <2>2. RowPresent(row) /\ RowCounts(row) /\ RowOwner(row)
      BY <2>1 DEF TableInv, RowExact
    <2>3. QED
      BY <2>2 DEF RowPresent, RowCounts, RowOwner, WritesOf
  <1>2. QED
    BY <1>1, TableInvariant, PTL
=============================================================================
