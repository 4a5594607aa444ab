------------------------- MODULE EventSources_proofs -------------------------
(***************************************************************************)
(* Proofs about EventSources, for any deployments, logs and bounds.        *)
(*                                                                         *)
(* SourcesInv is the inductive invariant.  For each reader it says what    *)
(* the state of its connection, its message at hand and its channel have   *)
(* to do with each other and with what it projects, and that its count of  *)
(* signals is made of what it saw and of what its snapshot counted.        *)
(***************************************************************************)
EXTENDS EventSources, FiniteSetTheorems, WellFoundedInduction, TLAPS

-----------------------------------------------------------------------------
(* The inductive invariant.                                                *)

\* What is counted is what was seen and what the snapshot counted, each once.
Counted(s) ==
  /\ DOMAIN s = {"seen", "errors", "accounts", "account", "signals", "held"}
  /\ s.seen \subseteq Events /\ s.held \subseteq Events
  /\ s.signals = Cardinality(Signals(s.seen)) + Cardinality(Signals(s.held))

Types ==
  /\ setup \in Setups /\ published \in 0..Len(Log) /\ stored \in 0..published
  /\ phase \in [Readers -> {"down", "loading", "up"}]
  /\ DOMAIN app = Readers
  /\ history \in [Readers -> Seq(Events)] /\ channel \in [Readers -> Seq(Events)]
  /\ connected \in [Readers -> BOOLEAN] /\ handed \in [Readers -> BOOLEAN]
  /\ delivered \in [Readers -> 0..published] /\ message \in [Readers -> 0..published]
  /\ acked \in [Readers -> SUBSET Events] /\ lost \in [Readers -> SUBSET Events]
  /\ position \in [Readers -> 0..stored]

\* A program that is not up projects nothing and listens to nothing; a message at
\* hand is handed over before it is acknowledged; what a program that ran before
\* acknowledged is in the history that is being loaded, or lost.
ReaderInv(r) ==
  /\ phase[r] # "up" => app[r] = EmptyApp /\ ~ connected[r] /\ position[r] = 0
  /\ acked[r] \subseteq 1..delivered[r] /\ message[r] \in 0..delivered[r]
  /\ message[r] # 0 => connected[r]
  /\ message[r] = 0 => ~ handed[r]
  /\ handed[r] => message[r] \in Known(r)
  /\ Counted(app[r])
  /\ phase[r] = "loading" => acked[r] \subseteq ToSet(history[r]) \union lost[r]

\* Only trade-tui starts from a snapshot, so that none is built from another one.
SnapshotInv ==
  /\ app["state-projectiond"].held = {}
  /\ file.held \subseteq Events /\ file.signals = Cardinality(Signals(file.held))

\* NothingElseIsLost, for one reader.
Given(r) ==
  CASE Source(r) = "jetstream" -> acked[r]
    [] Source(r) = "nats" -> IF connected[r] THEN Events ELSE {}
    [] Source(r) = "jsonl" -> 1..position[r]
    [] OTHER -> {}
Kept(r) == Up(r) => Given(r) \subseteq Known(r) \union lost[r]

SourcesInv == Types /\ SnapshotInv /\ \A r \in Readers : ReaderInv(r) /\ Kept(r)

-----------------------------------------------------------------------------
(* Sequences, step by step.                                                *)

\* What holds at the start and survives every step holds up to the end.
LEMMA StepByStep ==
  ASSUME NEW n \in Nat, NEW S, 0 \in S, \A k \in 1..n : k - 1 \in S => k \in S
  PROVE  0..n \subseteq S
  <1> DEFINE T == {k \in 0..n : k \notin S}
             Less == {ss \in Nat \X Nat : ss[1] < ss[2]}
  <1> SUFFICES ASSUME T # {} PROVE FALSE
    OBVIOUS
  <1>1. IsWellFoundedOn(Less, Nat)
    BY NatLessThanWellFounded DEF OpToRel
  <1>2. T \subseteq Nat
    OBVIOUS
  <1>3. \E x \in T : \A y \in T : ~ (<< y, x >> \in Less)
    <2> HIDE DEF Less, T
    <2>1. QED
      BY <1>1, <1>2, WFMin
  <1>4. PICK least \in T : \A y \in T : ~ (<< y, least >> \in Less)
    BY <1>3
  <1>5. least \in 1..n
    BY <1>4
  <1>6. least - 1 \in S
    <2>1. least - 1 \in 0..n /\ << least - 1, least >> \in Less
      BY <1>5
    <2> HIDE DEF Less
    <2>2. QED
      BY <1>4, <2>1
  <1>7. QED
    BY <1>4, <1>5, <1>6

\* ReduceAll passes through the projections after each event.
LEMMA ReduceAllSteps ==
  ASSUME NEW s, NEW events, Len(events) \in Nat
  PROVE  \E after : /\ after[0] = s
                    /\ \A k \in 1..Len(events) : after[k] = Reduce(after[k - 1], events[k])
                    /\ ReduceAll(s, events) = after[Len(events)]
  <1> DEFINE n == Len(events)
             Body(m, g) == [k \in 0..m |-> IF k = 0 THEN s ELSE Reduce(g[k - 1], events[k])]
             S == {m \in 0..n : \E g : g = Body(m, g)}
  <1>1. 0 \in S
    <2> DEFINE g == [k \in 0..0 |-> s]
    <2>1. g = Body(0, g)
      OBVIOUS
    <2> HIDE DEF g, Body
    <2>2. QED
      BY <2>1
  <1>2. ASSUME NEW m \in 1..n, m - 1 \in S PROVE m \in S
    <2>1. PICK g : g = Body(m - 1, g)
      BY <1>2
    <2> DEFINE h == [k \in 0..m |-> IF k = m THEN Reduce(g[m - 1], events[m]) ELSE g[k]]
    <2>2. \A k \in 0..(m - 1) : g[k] = IF k = 0 THEN s ELSE Reduce(g[k - 1], events[k])
      BY <2>1
    <2>3. \A k \in 0..m : h[k] = IF k = 0 THEN s ELSE Reduce(h[k - 1], events[k])
      <3>1. ASSUME NEW k \in 0..m
            PROVE  h[k] = IF k = 0 THEN s ELSE Reduce(h[k - 1], events[k])
        <4>1. CASE k = m
          BY <4>1
        <4>2. CASE k # m
          <5>1. k \in 0..(m - 1) /\ (k # 0 => k - 1 \in 0..m /\ k - 1 # m)
            BY <4>2
          <5>2. h[k] = g[k] /\ (k # 0 => h[k - 1] = g[k - 1])
            BY <4>2, <5>1
          <5>3. QED
            BY <2>2, <5>1, <5>2
        <4>3. QED
          BY <4>1, <4>2
      <3>2. QED
        BY <3>1
    <2>4. h = Body(m, h)
      BY <2>3
    <2> HIDE DEF h, Body
    <2>5. QED
      BY <2>4
  <1>3. n \in S
    <2> HIDE DEF S
    <2>1. 0..n \subseteq S
      BY <1>1, <1>2, StepByStep
    <2>2. QED
      BY <2>1
  <1>4. PICK g : g = Body(n, g)
    BY <1>3
  <1> DEFINE after == CHOOSE g_1 : g_1 = Body(n, g_1)
  <1>5. after = Body(n, after)
    BY <1>4
  <1>6. ReduceAll(s, events) = after[n]
    BY DEF ReduceAll
  <1> HIDE DEF after
  <1>7. after[0] = s /\ \A k \in 1..n : after[k] = Reduce(after[k - 1], events[k])
    BY <1>5
  <1>8. QED
    BY <1>6, <1>7

-----------------------------------------------------------------------------
(* A projection counts what it has seen.                                   *)

\* Sets of events are finite, so their signals can be counted.
LEMMA SignalsAreFinite ==
  ASSUME published \in Nat, NEW S, S \subseteq Events
  PROVE  IsFiniteSet(S) /\ IsFiniteSet(Signals(S)) /\ Cardinality(Signals(S)) \in Nat
  <1>1. IsFiniteSet(Events)
    BY FS_Interval DEF Events
  <1>2. IsFiniteSet(S)
    BY <1>1, FS_Subset
  <1>3. IsFiniteSet(Signals(S))
    BY <1>2, FS_Subset DEF Signals
  <1>4. QED
    BY <1>2, <1>3, FS_CardinalityType

\* One event is seen or reported, and counted when it is a new signal.
LEMMA ReduceOne ==
  ASSUME published \in Nat, NEW s, Counted(s), NEW e \in Events
  PROVE  LET t == Reduce(s, e) IN
         /\ Counted(t) /\ t.held = s.held
         /\ t.seen \union t.errors = s.seen \union s.errors \union {e}
  <1> DEFINE t == Reduce(s, e)
             next == [s EXCEPT !.seen = @ \union {e}]
             accounts == Insert(s.accounts, [id |-> Log[e].account, money |-> 1])
  <1>1. CASE Garbled(e)
    <2>1. t = [s EXCEPT !.errors = @ \union {e}]
      BY <1>1 DEF Reduce
    <2>2. QED
      BY <2>1 DEF Counted
  <1>2. CASE ~ Garbled(e) /\ e \in s.seen
    BY <1>2 DEF Reduce, IsNew, Counted
  <1>3. CASE ~ Garbled(e) /\ e \notin s.seen
    <2>1. /\ s.seen \subseteq Events /\ s.held \subseteq Events
          /\ s.signals = Cardinality(Signals(s.seen)) + Cardinality(Signals(s.held))
          /\ Cardinality(Signals(s.seen)) \in Nat /\ Cardinality(Signals(s.held)) \in Nat
          /\ IsFiniteSet(Signals(s.seen))
      BY SignalsAreFinite DEF Counted
    <2>2. CASE Log[e].kind = "signal"
      <3>1. t = [next EXCEPT !.signals = @ + 1]
        BY <1>3, <2>2 DEF Reduce, IsNew
      <3>2. /\ DOMAIN t = DOMAIN s /\ t.seen = s.seen \union {e} /\ t.errors = s.errors
            /\ t.held = s.held /\ t.signals = s.signals + 1
        BY <3>1 DEF Counted
      <3>3. Signals(s.seen \union {e}) = Signals(s.seen) \union {e} /\ e \notin Signals(s.seen)
        BY <1>3, <2>2 DEF Signals
      <3>4. Cardinality(Signals(s.seen) \union {e}) = Cardinality(Signals(s.seen)) + 1
        BY <2>1, <3>3, FS_AddElement
      <3> HIDE DEF t
      <3>5. Cardinality(Signals(t.seen)) = Cardinality(Signals(s.seen)) + 1
        BY <3>2, <3>3, <3>4
      <3>6. t.signals = Cardinality(Signals(t.seen)) + Cardinality(Signals(t.held))
        BY <2>1, <3>2, <3>5
      <3>7. Counted(t)
        BY <2>1, <3>2, <3>6 DEF Counted
      <3>8. QED
        BY <3>2, <3>7 DEF t
    <2>3. CASE Log[e].kind # "signal"
      <3>1. t = [next EXCEPT !.accounts = accounts, !.account = AggregateView(accounts)]
        BY <1>3, <2>3 DEF Reduce, IsNew
      <3> HIDE DEF accounts
      <3>2. /\ DOMAIN t = DOMAIN s /\ t.seen = s.seen \union {e} /\ t.errors = s.errors
            /\ t.held = s.held /\ t.signals = s.signals
        BY <3>1 DEF Counted
      <3>3. Signals(s.seen \union {e}) = Signals(s.seen)
        BY <2>3 DEF Signals
      <3> HIDE DEF t
      <3>4. Counted(t)
        BY <2>1, <3>2, <3>3 DEF Counted
      <3>5. QED
        BY <3>2, <3>4 DEF t
    <2>4. QED
      BY <2>2, <2>3
  <1>4. QED
    BY <1>1, <1>2, <1>3

\* So is every event of a sequence.
LEMMA ReduceMany ==
  ASSUME published \in Nat, NEW s, Counted(s), NEW events \in Seq(Events)
  PROVE  LET t == ReduceAll(s, events) IN
         /\ Counted(t) /\ t.held = s.held
         /\ ToSet(events) \subseteq t.seen \union t.errors
  <1> DEFINE n == Len(events)
  <1>1. n \in Nat /\ DOMAIN events = 1..n /\ \A k \in 1..n : events[k] \in Events
    OBVIOUS
  <1>2. PICK after : /\ after[0] = s
                     /\ \A k \in 1..n : after[k] = Reduce(after[k - 1], events[k])
                     /\ ReduceAll(s, events) = after[n]
    BY <1>1, ReduceAllSteps
  <1> DEFINE Good(k) == /\ Counted(after[k]) /\ after[k].held = s.held
                        /\ \A j \in 1..k : events[j] \in after[k].seen \union after[k].errors
             S == {k \in 0..n : Good(k)}
  <1>3. 0 \in S
    BY <1>1, <1>2
  <1>4. ASSUME NEW k \in 1..n, k - 1 \in S PROVE k \in S
    <2>1. /\ Counted(after[k]) /\ after[k].held = after[k - 1].held
          /\ after[k].seen \union after[k].errors =
               after[k - 1].seen \union after[k - 1].errors \union {events[k]}
      BY <1>1, <1>2, <1>4, ReduceOne
    <2>2. ASSUME NEW j \in 1..k PROVE events[j] \in after[k].seen \union after[k].errors
      <3>1. j = k \/ j \in 1..(k - 1)
        OBVIOUS
      <3>2. QED
        BY <1>4, <2>1, <3>1
    <2>3. QED
      BY <1>4, <2>1, <2>2
  <1>5. n \in S
    <2> HIDE DEF S
    <2>1. 0..n \subseteq S
      BY <1>1, <1>3, <1>4, StepByStep
    <2>2. QED
      BY <1>1, <2>1
  <1>6. QED
    BY <1>1, <1>2, <1>5 DEF ToSet

-----------------------------------------------------------------------------
(* The steps.                                                              *)

\* Appending adds one element.
LEMMA AppendToSet ==
  ASSUME NEW E, NEW s \in Seq(E), NEW e
  PROVE  ToSet(Append(s, e)) = ToSet(s) \union {e}
  <1>1. /\ DOMAIN s = 1..Len(s) /\ Len(s) \in Nat /\ DOMAIN Append(s, e) = 1..(Len(s) + 1)
        /\ \A k \in 1..Len(s) : Append(s, e)[k] = s[k]
        /\ Append(s, e)[Len(s) + 1] = e
    OBVIOUS
  <1> DEFINE t == Append(s, e)
  <1> HIDE DEF t
  <1>2. /\ \A k \in DOMAIN t : (k \in DOMAIN s /\ t[k] = s[k]) \/ t[k] = e
        /\ \A k \in DOMAIN s : k \in DOMAIN t /\ t[k] = s[k]
        /\ \E k \in DOMAIN t : t[k] = e
    <2>1. \A k \in 1..(Len(s) + 1) : k \in 1..Len(s) \/ k = Len(s) + 1
      BY <1>1
    <2>2. 1..Len(s) \subseteq 1..(Len(s) + 1) /\ Len(s) + 1 \in 1..(Len(s) + 1)
      BY <1>1
    <2>3. QED
      BY <1>1, <2>1, <2>2 DEF t
  <1>3. ToSet(t) = ToSet(s) \union {e}
    BY <1>2 DEF ToSet
  <1>4. QED
    BY <1>3 DEF t

\* A sequence has no more than its head and what its tail has.
LEMMA HeadAndTail ==
  ASSUME NEW E, NEW s \in Seq(E), s # << >>
  PROVE  /\ Head(s) \in E /\ Tail(s) \in Seq(E)
         /\ ToSet(s) \subseteq {Head(s)} \union ToSet(Tail(s))
  <1>1. /\ DOMAIN s = 1..Len(s) /\ Len(s) \in Nat \ {0} /\ DOMAIN Tail(s) = 1..(Len(s) - 1)
        /\ \A k \in 1..(Len(s) - 1) : Tail(s)[k] = s[k + 1]
        /\ Head(s) = s[1] /\ Head(s) \in E /\ Tail(s) \in Seq(E)
    OBVIOUS
  <1> DEFINE rest == Tail(s)
             first == Head(s)
  <1> HIDE DEF rest, first
  <1>2. \A k \in DOMAIN s : s[k] = first \/ \E j \in DOMAIN rest : s[k] = rest[j]
    <2>1. ASSUME NEW k \in 1..Len(s), k # 1
          PROVE  k - 1 \in 1..(Len(s) - 1) /\ s[k] = rest[k - 1]
      BY <1>1, <2>1 DEF rest
    <2>2. QED
      BY <1>1, <2>1 DEF rest, first
  <1>3. ToSet(s) \subseteq {first} \union ToSet(rest)
    BY <1>2 DEF ToSet
  <1>4. QED
    BY <1>1, <1>3 DEF rest, first

\* What the setup says of the readers and of the log, as the other lemmas use it.
LEMMA SetupFacts ==
  ASSUME Types
  PROVE  /\ published \in Nat /\ stored \in Nat /\ Len(Log) \in Nat
         /\ setup.readers \subseteq Readers
         /\ \A r \in setup.readers : Source(r) \in Sources
  BY SourcesAssumption DEF Types, Log, Source

\* The state of a reader.
Same(r) ==
  /\ phase'[r] = phase[r] /\ app'[r] = app[r] /\ history'[r] = history[r]
  /\ connected'[r] = connected[r] /\ message'[r] = message[r] /\ handed'[r] = handed[r]
  /\ channel'[r] = channel[r] /\ position'[r] = position[r] /\ lost'[r] = lost[r]
  /\ delivered'[r] = delivered[r] /\ acked'[r] = acked[r]

\* Another reader's step does not matter.
LEMMA OtherReader ==
  ASSUME NEW r \in Readers, ReaderInv(r), Kept(r), Same(r), UNCHANGED << setup, published >>
  PROVE  ReaderInv(r)' /\ Kept(r)'
  <1>1. Known(r)' = Known(r) /\ Counted(app[r])'
    BY DEF Same, Known, Counted, ReaderInv, Signals, Events, Log
  <1>2. Given(r)' = Given(r) /\ (Up(r)' <=> Up(r))
    BY DEF Same, Given, Source, Events, Up
  <1>3. Kept(r)'
    BY <1>1, <1>2 DEF Kept, Same
  <1>4. ReaderInv(r)'
    BY <1>1 DEF ReaderInv, Same
  <1>5. QED
    BY <1>3, <1>4

\* A projection that starts empty, or from the snapshot, counts what it should.
LEMMA StartsCounted ==
  ASSUME Types, SnapshotInv
  PROVE  /\ Counted(EmptyApp) /\ Counted(ApplySnapshot(EmptyApp, file))
         /\ EmptyApp.held = {}
  <1>1. Signals({}) = {} /\ Cardinality({}) = 0
    BY FS_EmptySet DEF Signals
  <1>2. Counted(EmptyApp) /\ EmptyApp.held = {}
    BY <1>1 DEF Counted, EmptyApp
  <1>3. Counted(ApplySnapshot(EmptyApp, file))
    <2> DEFINE t == ApplySnapshot(EmptyApp, file)
    <2>1. /\ DOMAIN t = {"seen", "errors", "accounts", "account", "signals", "held"}
          /\ t.seen = {} /\ t.held = file.held /\ t.signals = file.signals
      BY DEF ApplySnapshot, EmptyApp
    <2> HIDE DEF t
    <2>2. Cardinality(Signals(file.held)) \in Nat
      BY SetupFacts, SignalsAreFinite DEF SnapshotInv
    <2>3. t.signals = Cardinality(Signals(t.seen)) + Cardinality(Signals(t.held))
      BY <1>1, <2>1, <2>2 DEF SnapshotInv
    <2>4. Counted(t)
      BY <2>1, <2>3 DEF Counted, SnapshotInv
    <2>5. QED
      BY <2>4 DEF t
  <1>4. QED
    BY <1>2, <1>3

\* Nothing was published, and no program is up.
LEMMA InitSources == Init => SourcesInv
  <1> SUFFICES ASSUME Init PROVE SourcesInv
    OBVIOUS
  <1>1. Types
    BY SourcesAssumption DEF Init, Types, Log, Events
  <1>2. SnapshotInv
    <2>1. Signals({}) = {} /\ Cardinality({}) = 0
      BY FS_EmptySet DEF Signals
    <2>2. QED
      BY <2>1 DEF Init, SnapshotInv, EmptyApp, NoSnapshot, Readers
  <1>3. ASSUME NEW r \in Readers PROVE ReaderInv(r) /\ Kept(r)
    <2>1. Counted(EmptyApp)
      BY <1>1, <1>2, StartsCounted
    <2>2. QED
      BY <2>1 DEF Init, ReaderInv, Kept, Up
  <1>4. QED
    BY <1>1, <1>2, <1>3 DEF SourcesInv

\* More is published: only a reader that is subscribed to NATS notices.
LEMMA PublishKeeps ==
  ASSUME SourcesInv, Publish
  PROVE  SourcesInv'
  <1>1. /\ UNCHANGED << setup, stored, phase, app, history, connected, message, handed, position,
                        lost, delivered, acked, file >>
        /\ published < Len(Log) /\ published' = published + 1
        /\ channel' = [r \in Readers |-> IF r \in Subscribed THEN Append(channel[r], published + 1)
                                          ELSE channel[r]]
    BY DEF Publish, consumer
  <1>2. published \in Nat /\ stored \in Nat /\ Len(Log) \in Nat
    BY SetupFacts DEF SourcesInv
  <1>3. Events' = Events \union {published + 1} /\ 0..published \subseteq 0..published'
        /\ Log' = Log
    BY <1>1, <1>2 DEF Events, Log
  <1>4. \A s \in Seq(Events) : s \in Seq(Events') /\ Append(s, published + 1) \in Seq(Events')
    <2>1. ASSUME NEW E, NEW F, E \subseteq F, NEW s \in Seq(E), published + 1 \in F
          PROVE  s \in Seq(F) /\ Append(s, published + 1) \in Seq(F)
      BY <2>1
    <2>2. QED
      BY <1>3, <2>1
  <1>5. Types'
    <2>1. history' \in [Readers -> Seq(Events')] /\ channel' \in [Readers -> Seq(Events')]
      <3>1. history \in [Readers -> Seq(Events)] /\ channel \in [Readers -> Seq(Events)]
        BY DEF SourcesInv, Types
      <3> DEFINE F == Seq(Events')
      <3>2. \A r \in Readers : history[r] \in F /\ channel[r] \in F /\ Append(channel[r], published + 1) \in F
        BY <1>4, <3>1
      <3> HIDE DEF F
      <3>3. history' \in [Readers -> F] /\ channel' \in [Readers -> F]
        BY <1>1, <3>1, <3>2
      <3>4. QED
        BY <3>3 DEF F
    <2>2. published' \in 0..Len(Log)' /\ stored' \in 0..published'
      BY <1>1, <1>2, <1>3 DEF SourcesInv, Types
    <2>3. delivered' \in [Readers -> 0..published'] /\ message' \in [Readers -> 0..published']
      BY <1>1, <1>3 DEF SourcesInv, Types
    <2>4. acked' \in [Readers -> SUBSET Events'] /\ lost' \in [Readers -> SUBSET Events']
      BY <1>1, <1>3 DEF SourcesInv, Types
    <2>5. QED
      BY <1>1, <2>1, <2>2, <2>3, <2>4 DEF SourcesInv, Types
  <1>6. \A S : Signals(S)' = Signals(S)
    BY <1>3 DEF Signals
  <1>7. SnapshotInv'
    BY <1>1, <1>3, <1>6 DEF SourcesInv, SnapshotInv
  <1>8. ASSUME NEW r \in Readers PROVE ReaderInv(r)' /\ Kept(r)'
    <2>1. channel[r] \in Seq(Events)
      BY DEF SourcesInv, Types
    <2>2. ToSet(channel[r]) \subseteq ToSet(channel'[r])
          /\ (r \in Subscribed => published + 1 \in ToSet(channel'[r]))
      <3>1. CASE r \in Subscribed
        <4>1. channel'[r] = Append(channel[r], published + 1)
          BY <1>1, <3>1
        <4>2. QED
          BY <2>1, <4>1, AppendToSet
      <3>2. CASE r \notin Subscribed
        BY <1>1, <3>2
      <3>3. QED
        BY <3>1, <3>2
    <2>3. Known(r) \subseteq Known(r)' /\ (r \in Subscribed => published + 1 \in Known(r)')
      BY <1>1, <2>2 DEF Known
    <2>4. Counted(app[r])'
      <3>1. Counted(app[r])
        BY DEF SourcesInv, ReaderInv
      <3>2. QED
        BY <1>1, <1>3, <1>6, <3>1 DEF Counted
    <2>5. ReaderInv(r)'
      BY <1>1, <2>3, <2>4 DEF SourcesInv, ReaderInv
    <2>6. Kept(r)'
      <3>1. Kept(r)
        BY DEF SourcesInv
      <3>2. Up(r)' => Up(r)
        BY <1>1 DEF Up
      <3>3. Up(r) => Given(r)' \subseteq Given(r) \union (IF r \in Subscribed THEN {published + 1} ELSE {})
        BY <1>1, <1>3 DEF Given, Source, Subscribed, Up
      <3>4. QED
        BY <1>1, <2>3, <3>1, <3>2, <3>3 DEF Kept
    <2>7. QED
      BY <2>5, <2>6
  <1>9. QED
    BY <1>5, <1>7, <1>8 DEF SourcesInv

\* More is stored, or a snapshot is saved.
LEMMA PersistKeeps ==
  ASSUME SourcesInv, Persist
  PROVE  SourcesInv'
  <1>1. /\ UNCHANGED << setup, published, phase, app, history, connected, message, handed, channel,
                        position, lost, delivered, acked, file >>
        /\ stored < published /\ stored' = stored + 1
    BY DEF Persist, reader, consumer
  <1>2. published \in Nat /\ stored \in Nat
    BY SetupFacts DEF SourcesInv
  <1>3. 0..stored \subseteq 0..stored' /\ stored' \in 0..published
    BY <1>1, <1>2
  <1>4. Types'
    <2>1. position' \in [Readers -> 0..stored']
      BY <1>1, <1>3 DEF SourcesInv, Types
    <2>2. QED
      BY <1>1, <1>3, <2>1 DEF SourcesInv, Types, Log, Events
  <1>5. \A r \in Readers : ReaderInv(r)' /\ Kept(r)'
    <2>1. \A r \in Readers : Same(r)
      BY <1>1 DEF Same
    <2>2. QED
      BY <1>1, <2>1, OtherReader DEF SourcesInv
  <1>6. SnapshotInv'
    BY <1>1 DEF SourcesInv, SnapshotInv, Events, Signals, Log
  <1>7. QED
    BY <1>4, <1>5, <1>6 DEF SourcesInv

\* The projection service writes a snapshot: it holds what it counts.
LEMMA SaveKeeps ==
  ASSUME SourcesInv, SaveSnapshot
  PROVE  SourcesInv'
  <1> DEFINE s == app["state-projectiond"]
  <1>1. /\ UNCHANGED << setup, published, stored, phase, app, history, connected, message, handed,
                        channel, position, lost, delivered, acked >>
        /\ file' = BuildSnapshot(s)
    BY DEF SaveSnapshot, reader, consumer
  <1>2. Types'
    BY <1>1 DEF SourcesInv, Types, Log, Events
  <1>3. \A r \in Readers : ReaderInv(r)' /\ Kept(r)'
    <2>1. \A r \in Readers : Same(r)
      BY <1>1 DEF Same
    <2>2. QED
      BY <1>1, <2>1, OtherReader DEF SourcesInv
  <1>4. SnapshotInv'
    <2>1. Counted(s) /\ s.held = {}
      BY DEF SourcesInv, ReaderInv, SnapshotInv, Readers
    <2> HIDE DEF s
    <2>2. Signals({}) = {} /\ Cardinality({}) = 0 /\ Cardinality(Signals(s.seen)) \in Nat
      BY <2>1, FS_EmptySet, SetupFacts, SignalsAreFinite DEF Signals, Counted, SourcesInv
    <2>3. s.signals = Cardinality(Signals(s.seen))
      BY <2>1, <2>2 DEF Counted
    <2>4. file'.held = s.seen /\ file'.signals = s.signals
      BY <1>1, <2>1 DEF BuildSnapshot
    <2>5. UNCHANGED << Log, Events >>
      BY <1>1 DEF Log, Events
    <2>6. file'.held \subseteq Events /\ file'.signals = Cardinality(Signals(file'.held))
      BY <2>1, <2>3, <2>4 DEF Counted
    <2>7. QED
      BY <1>1, <2>5, <2>6 DEF SourcesInv, SnapshotInv, Signals
  <1>5. QED
    BY <1>2, <1>3, <1>4 DEF SourcesInv

\* A reader loads its history: what it acknowledged before is in it, or was lost.
LEMMA LoadKeeps ==
  ASSUME SourcesInv, NEW r \in setup.readers, LoadHistory(r)
  PROVE  SourcesInv'
  <1> DEFINE read == IF setup.load THEN 1..stored ELSE {}
             n == Cardinality(read)
             list == [e \in 1..n |-> e]
  <1>1. /\ UNCHANGED << setup, published, stored, file, app, connected, message, handed, channel,
                        position, delivered, acked >>
        /\ phase[r] = "down"
    BY DEF LoadHistory, Others, consumer
  <1>2. \/ UNCHANGED << phase, history, lost >>
        \/ /\ phase' = [phase EXCEPT ![r] = "loading"]
           /\ history' = [history EXCEPT ![r] = list]
           /\ lost' = [lost EXCEPT ![r] = acked[r] \ read]
    BY DEF LoadHistory
  <1>3. /\ published \in Nat /\ stored \in Nat /\ stored <= published
        /\ setup.readers \subseteq Readers /\ r \in Readers
        /\ phase \in [Readers -> {"down", "loading", "up"}]
        /\ history \in [Readers -> Seq(Events)] /\ lost \in [Readers -> SUBSET Events]
        /\ acked \in [Readers -> SUBSET Events]
    BY SetupFacts DEF SourcesInv, Types
  <1>4. n \in Nat /\ read = 1..n /\ read \subseteq Events
    <2>1. Cardinality(1..stored) = stored /\ 1..0 = {} /\ Cardinality({}) = 0
      BY <1>3, FS_Interval, FS_EmptySet
    <2>2. QED
      BY <1>3, <2>1 DEF Events
  <1> HIDE DEF read, n
  <1>5. list \in Seq(Events) /\ ToSet(list) = read
    <2> DEFINE E == Events
    <2>1. \A e \in 1..n : e \in E
      BY <1>4
    <2> HIDE DEF E
    <2>2. list \in Seq(E) /\ DOMAIN list = 1..n
      BY <1>4, <2>1
    <2>3. \A e \in 1..n : list[e] = e
      OBVIOUS
    <2> HIDE DEF list
    <2>4. ToSet(list) = 1..n
      BY <2>2, <2>3 DEF ToSet
    <2>5. QED
      BY <1>4, <2>2, <2>4 DEF E
  <1> HIDE DEF list
  <1>6. UNCHANGED << Log, Events >>
    BY <1>1 DEF Log, Events
  <1>7. Types'
    <2>1. phase' \in [Readers -> {"down", "loading", "up"}]
      BY <1>2, <1>3
    <2>2. history' \in [Readers -> Seq(Events)]
      BY <1>2, <1>3, <1>5
    <2>3. lost' \in [Readers -> SUBSET Events]
      BY <1>2, <1>3
    <2>4. QED
      BY <1>1, <1>6, <2>1, <2>2, <2>3 DEF SourcesInv, Types
  <1>8. SnapshotInv'
    BY <1>1, <1>6 DEF SourcesInv, SnapshotInv, Signals
  <1>9. ASSUME NEW q \in Readers PROVE ReaderInv(q)' /\ Kept(q)'
    <2>1. CASE Same(q)
      BY <1>1, <2>1, OtherReader DEF SourcesInv
    <2>2. CASE q = r /\ phase'[r] = "loading"
      <3>1. phase # phase'
        BY <1>1, <2>2
      <3>2. history'[r] = list /\ lost'[r] = acked[r] \ read
        BY <1>2, <1>3, <3>1
      <3>3. Known(r)' = Known(r) /\ Counted(app[r])' /\ Counted(app[r])
        BY <1>1, <1>3, <1>6 DEF Known, SourcesInv, ReaderInv, Counted, Signals
      <3>4. acked'[r] \subseteq ToSet(history'[r]) \union lost'[r]
        BY <1>1, <1>5, <3>2
      <3>5. ReaderInv(r)'
        BY <1>1, <1>3, <2>2, <3>3, <3>4 DEF SourcesInv, ReaderInv
      <3>6. Kept(r)'
        BY <2>2 DEF Kept, Up
      <3>7. QED
        BY <2>2, <3>5, <3>6
    <2>3. Same(q) \/ (q = r /\ phase'[r] = "loading")
      BY <1>1, <1>2, <1>3 DEF Same
    <2>4. QED
      BY <2>1, <2>2, <2>3
  <1>10. QED
    BY <1>7, <1>8, <1>9 DEF SourcesInv

\* The history is reduced after the snapshot: what was acknowledged is known, or lost.
LEMMA BeginKeeps ==
  ASSUME SourcesInv, NEW r \in setup.readers, Begin(r)
  PROVE  SourcesInv'
  <1> DEFINE start == IF r = "trade-tui" /\ setup.snapshot /\ file # NoSnapshot
                      THEN ApplySnapshot(EmptyApp, file) ELSE EmptyApp
             t == ReduceAll(start, history[r])
  <1>1. /\ UNCHANGED << setup, published, stored, file, connected, message, handed, channel,
                        position, lost, delivered, acked >>
        /\ phase[r] = "loading" /\ phase' = [phase EXCEPT ![r] = "up"]
        /\ app' = [app EXCEPT ![r] = t]
        /\ history' = [history EXCEPT ![r] = << >>]
    BY DEF Begin, Others, consumer
  <1>2. /\ published \in Nat /\ setup.readers \subseteq Readers /\ r \in Readers
        /\ phase \in [Readers -> {"down", "loading", "up"}] /\ DOMAIN app = Readers
        /\ history \in [Readers -> Seq(Events)] /\ lost \in [Readers -> SUBSET Events]
        /\ acked \in [Readers -> SUBSET Events] /\ Source(r) \in Sources
    BY SetupFacts DEF SourcesInv, Types
  <1>3. Counted(start) /\ (r # "trade-tui" => start.held = {})
    BY StartsCounted DEF SourcesInv
  <1> HIDE DEF start
  <1>4. /\ Counted(t) /\ t.held = start.held
        /\ ToSet(history[r]) \subseteq t.seen \union t.errors
    BY <1>2, <1>3, ReduceMany
  <1> HIDE DEF t
  <1>5. UNCHANGED << Log, Events >>
    BY <1>1 DEF Log, Events
  <1>6. Types'
    <2>1. phase' \in [Readers -> {"down", "loading", "up"}]
      BY <1>1, <1>2
    <2>2. history' \in [Readers -> Seq(Events)]
      BY <1>1, <1>2
    <2>3. DOMAIN app' = Readers
      BY <1>1, <1>2
    <2>4. QED
      BY <1>1, <1>5, <2>1, <2>2, <2>3 DEF SourcesInv, Types
  <1>7. SnapshotInv'
    <2>1. app'["state-projectiond"].held = {}
      <3>1. "state-projectiond" \in Readers /\ "state-projectiond" # "trade-tui"
        BY DEF Readers
      <3>2. CASE r = "state-projectiond"
        BY <1>1, <1>2, <1>3, <1>4, <3>1, <3>2
      <3>3. CASE r # "state-projectiond"
        BY <1>1, <1>2, <3>1, <3>3 DEF SourcesInv, SnapshotInv
      <3>4. QED
        BY <3>2, <3>3
    <2>2. QED
      BY <1>1, <1>5, <2>1 DEF SourcesInv, SnapshotInv, Signals
  <1>8. ASSUME NEW q \in Readers PROVE ReaderInv(q)' /\ Kept(q)'
    <2>1. CASE q # r
      <3>1. Same(q)
        BY <1>1, <1>2, <2>1 DEF Same
      <3>2. QED
        BY <1>1, <3>1, OtherReader DEF SourcesInv
    <2>2. CASE q = r
      <3>1. app'[r] = t /\ phase'[r] = "up"
        BY <1>1, <1>2
      <3>2. ~ connected[r] /\ position[r] = 0 /\ acked[r] \subseteq ToSet(history[r]) \union lost[r]
            /\ ~ handed[r]
        BY <1>1, <1>2 DEF SourcesInv, ReaderInv
      <3>3. Counted(app[r])'
        BY <1>4, <1>5, <3>1 DEF Counted, Signals
      <3>4. ReaderInv(r)'
        BY <1>1, <1>2, <3>1, <3>2, <3>3 DEF SourcesInv, ReaderInv
      <3>5. Given(r)' \subseteq acked[r]
        BY <1>1, <3>2 DEF Given, Source
      <3>6. ToSet(history[r]) \subseteq Known(r)'
        BY <1>4, <3>1 DEF Known
      <3>7. Kept(r)'
        BY <1>1, <3>2, <3>5, <3>6 DEF Kept
      <3>8. QED
        BY <2>2, <3>4, <3>7
    <2>3. QED
      BY <2>1, <2>2
  <1>9. QED
    BY <1>6, <1>7, <1>8 DEF SourcesInv

\* A program ends, and with it all that it had in memory.
LEMMA StopKeeps ==
  ASSUME SourcesInv, NEW r \in setup.readers, Stop(r)
  PROVE  SourcesInv'
  <1>1. /\ UNCHANGED << setup, published, stored, file, lost, delivered, acked >>
        /\ phase' = [phase EXCEPT ![r] = "down"] /\ app' = [app EXCEPT ![r] = EmptyApp]
        /\ history' = [history EXCEPT ![r] = << >>] /\ connected' = [connected EXCEPT ![r] = FALSE]
        /\ message' = [message EXCEPT ![r] = 0] /\ handed' = [handed EXCEPT ![r] = FALSE]
        /\ channel' = [channel EXCEPT ![r] = << >>] /\ position' = [position EXCEPT ![r] = 0]
    BY DEF Stop, Others, consumer, LetGo
  <1>2. /\ r \in Readers /\ published \in Nat /\ stored \in Nat /\ DOMAIN app = Readers
        /\ phase \in [Readers -> {"down", "loading", "up"}]
        /\ history \in [Readers -> Seq(Events)] /\ channel \in [Readers -> Seq(Events)]
        /\ connected \in [Readers -> BOOLEAN] /\ handed \in [Readers -> BOOLEAN]
        /\ message \in [Readers -> 0..published] /\ position \in [Readers -> 0..stored]
    BY SetupFacts DEF SourcesInv, Types
  <1>3. UNCHANGED << Log, Events >>
    BY <1>1 DEF Log, Events
  <1>4. Types'
    <2>1. /\ phase' \in [Readers -> {"down", "loading", "up"}] /\ DOMAIN app' = Readers
          /\ connected' \in [Readers -> BOOLEAN] /\ handed' \in [Readers -> BOOLEAN]
      BY <1>1, <1>2
    <2>2. history' \in [Readers -> Seq(Events)] /\ channel' \in [Readers -> Seq(Events)]
      BY <1>1, <1>2
    <2>3. message' \in [Readers -> 0..published] /\ position' \in [Readers -> 0..stored]
      BY <1>1, <1>2
    <2>4. QED
      BY <1>1, <1>3, <2>1, <2>2, <2>3 DEF SourcesInv, Types
  <1>5. Counted(EmptyApp) /\ EmptyApp.held = {}
    BY StartsCounted DEF SourcesInv
  <1>6. SnapshotInv'
    <2>1. app'["state-projectiond"].held = {}
      BY <1>1, <1>2, <1>5 DEF Readers, SourcesInv, SnapshotInv
    <2>2. QED
      BY <1>1, <1>3, <2>1 DEF SourcesInv, SnapshotInv, Signals
  <1>7. ASSUME NEW q \in Readers PROVE ReaderInv(q)' /\ Kept(q)'
    <2>1. CASE q # r
      <3>1. Same(q)
        BY <1>1, <1>2, <2>1 DEF Same
      <3>2. QED
        BY <1>1, <3>1, OtherReader DEF SourcesInv
    <2>2. CASE q = r
      <3>1. /\ phase'[r] = "down" /\ app'[r] = EmptyApp /\ connected'[r] = FALSE
            /\ message'[r] = 0 /\ handed'[r] = FALSE /\ position'[r] = 0
        BY <1>1, <1>2
      <3>2. Counted(app[r])'
        BY <1>3, <1>5, <3>1 DEF Counted, Signals
      <3>3. delivered[r] \in Nat
        BY <1>2 DEF SourcesInv, Types
      <3>4. ReaderInv(r)'
        BY <1>1, <1>2, <3>1, <3>2, <3>3 DEF SourcesInv, ReaderInv
      <3>5. Kept(r)'
        BY <3>1 DEF Kept, Up
      <3>6. QED
        BY <2>2, <3>4, <3>5
    <2>3. QED
      BY <2>1, <2>2
  <1>8. QED
    BY <1>4, <1>6, <1>7 DEF SourcesInv

-----------------------------------------------------------------------------
(* The sources of a reader that is up.                                     *)

\* Nothing is lost when what is newly given is known, or on record as lost.
LEMMA StillKept ==
  ASSUME NEW r, Kept(r), UNCHANGED setup, phase'[r] = phase[r],
         Known(r) \subseteq Known(r)', lost[r] \subseteq lost'[r],
         NEW more, Given(r)' \subseteq Given(r) \union more,
         more \subseteq Known(r)' \union lost'[r]
  PROVE  Kept(r)'
  <1>1. Up(r)' => Up(r)
    BY DEF Up
  <1>2. QED
    BY <1>1 DEF Kept

\* A step of one reader that leaves the environment alone.
LEMMA OneReader ==
  ASSUME SourcesInv, NEW r \in Readers, UNCHANGED << setup, published, stored, file >>,
         Types', \A q \in Readers : q # r => Same(q),
         app'["state-projectiond"].held = app["state-projectiond"].held,
         ReaderInv(r)', Kept(r)'
  PROVE  SourcesInv'
  <1>1. SnapshotInv'
    BY DEF SourcesInv, SnapshotInv, Signals, Events, Log
  <1>2. \A q \in Readers : q # r => ReaderInv(q)' /\ Kept(q)'
    BY OtherReader DEF SourcesInv
  <1>3. QED
    BY <1>1, <1>2 DEF SourcesInv

\* A source connects, and may skip what was published meanwhile.
LEMMA ConnectKeeps ==
  ASSUME SourcesInv, NEW r \in setup.readers, Connect(r)
  PROVE  SourcesInv'
  <1> DEFINE new == Missed(r) \ Known(r)
  <1>1. /\ UNCHANGED << setup, published, stored, file, phase, app, history, message, handed, channel,
                        delivered, acked >>
        /\ phase[r] = "up" /\ ~ connected[r]
        /\ connected' = [connected EXCEPT ![r] = TRUE]
        /\ position' = [position EXCEPT ![r] = stored]
        /\ lost' = [lost EXCEPT ![r] = lost[r] \union new]
    BY DEF Connect, MayConnect, Others, consumer
  <1>2. /\ r \in Readers /\ published \in Nat /\ stored \in Nat /\ stored <= published
        /\ connected \in [Readers -> BOOLEAN] /\ position \in [Readers -> 0..stored]
        /\ lost \in [Readers -> SUBSET Events]
    BY SetupFacts DEF SourcesInv, Types
  <1>3. UNCHANGED << Log, Events >>
    BY <1>1 DEF Log, Events
  <1>4. new \subseteq Events
    BY <1>2 DEF Missed, Events
  <1> HIDE DEF new
  <1>5. Types'
    <2>1. connected' \in [Readers -> BOOLEAN] /\ lost' \in [Readers -> SUBSET Events]
      BY <1>1, <1>2, <1>4
    <2>2. position' \in [Readers -> 0..stored]
      BY <1>1, <1>2
    <2>3. QED
      BY <1>1, <1>3, <2>1, <2>2 DEF SourcesInv, Types
  <1>6. connected'[r] /\ position'[r] = stored /\ lost'[r] = lost[r] \union new
    BY <1>1, <1>2
  <1>7. Known(r)' = Known(r) /\ Counted(app[r])'
    BY <1>1, <1>2, <1>3 DEF Known, SourcesInv, ReaderInv, Counted, Signals
  <1>8. ReaderInv(r)'
    BY <1>1, <1>2, <1>6, <1>7 DEF SourcesInv, ReaderInv
  <1>9. Given(r)' \subseteq Given(r) \union Missed(r)
    <2>1. CASE Source(r) = "jetstream"
      BY <1>1, <2>1 DEF Given, Source
    <2>2. CASE Source(r) = "nats"
      BY <1>1, <1>3, <1>6, <2>2 DEF Given, Source, Missed
    <2>3. CASE Source(r) = "jsonl"
      BY <1>1, <1>6, <2>3 DEF Given, Source, Missed
    <2>4. CASE Source(r) \notin {"jetstream", "nats", "jsonl"}
      BY <1>1, <2>4 DEF Given, Source
    <2>5. QED
      BY <2>1, <2>2, <2>3, <2>4
  <1>10. Kept(r)'
    <2>1. Missed(r) \subseteq Known(r)' \union lost'[r]
      BY <1>6, <1>7 DEF new
    <2>2. lost[r] \subseteq lost'[r] /\ Kept(r)
      BY <1>2, <1>6 DEF SourcesInv
    <2>3. QED
      BY <1>1, <1>7, <1>9, <2>1, <2>2, StillKept
  <1>11. \A q \in Readers : q # r => Same(q)
    BY <1>1, <1>2 DEF Same
  <1>12. QED
    BY <1>1, <1>2, <1>5, <1>8, <1>10, <1>11, OneReader

\* A source breaks: the message in hand is not acknowledged.
LEMMA DisconnectKeeps ==
  ASSUME SourcesInv, NEW r \in setup.readers, Disconnect(r)
  PROVE  SourcesInv'
  <1>1. /\ UNCHANGED << setup, published, stored, file, phase, app, history, channel, position, lost,
                        delivered, acked >>
        /\ connected[r] /\ connected' = [connected EXCEPT ![r] = FALSE]
        /\ message' = [message EXCEPT ![r] = 0] /\ handed' = [handed EXCEPT ![r] = FALSE]
    BY DEF Disconnect, LetGo, Others, consumer
  <1>2. /\ r \in Readers /\ published \in Nat
        /\ connected \in [Readers -> BOOLEAN] /\ handed \in [Readers -> BOOLEAN]
        /\ message \in [Readers -> 0..published] /\ delivered \in [Readers -> 0..published]
    BY SetupFacts DEF SourcesInv, Types
  <1>3. UNCHANGED << Log, Events >>
    BY <1>1 DEF Log, Events
  <1>4. Types'
    <2>1. connected' \in [Readers -> BOOLEAN] /\ handed' \in [Readers -> BOOLEAN]
      BY <1>1, <1>2
    <2>2. message' \in [Readers -> 0..published]
      BY <1>1, <1>2
    <2>3. QED
      BY <1>1, <1>3, <2>1, <2>2 DEF SourcesInv, Types
  <1>5. connected'[r] = FALSE /\ message'[r] = 0 /\ handed'[r] = FALSE
    BY <1>1, <1>2
  <1>6. Known(r)' = Known(r) /\ Counted(app[r])'
    BY <1>1, <1>2, <1>3 DEF Known, SourcesInv, ReaderInv, Counted, Signals
  <1>7. ReaderInv(r)'
    BY <1>1, <1>2, <1>5, <1>6 DEF SourcesInv, ReaderInv
  <1>8. Kept(r)'
    <2>1. Given(r)' \subseteq Given(r) \union {}
      BY <1>1, <1>5 DEF Given, Source
    <2>2. QED
      BY <1>1, <1>2, <1>6, <2>1, StillKept DEF SourcesInv
  <1>9. \A q \in Readers : q # r => Same(q)
    BY <1>1, <1>2 DEF Same
  <1>10. QED
    BY <1>1, <1>2, <1>4, <1>7, <1>8, <1>9, OneReader

\* A message is received before it is handed over and acknowledged.
LEMMA ReceiveKeeps ==
  ASSUME SourcesInv, NEW r \in setup.readers, Receive(r)
  PROVE  SourcesInv'
  <1>1. PICK e \in 1..(delivered[r] + 1) :
          /\ connected[r] /\ message[r] = 0 /\ e <= published
          /\ message' = [message EXCEPT ![r] = e]
          /\ delivered' = [delivered EXCEPT ![r] = IF e > delivered[r] THEN e ELSE delivered[r]]
    BY DEF Receive
  <1>2. UNCHANGED << setup, published, stored, file, phase, app, history, connected, handed, channel,
                     position, lost, acked >>
    BY DEF Receive, Others
  <1>3. /\ r \in Readers /\ published \in Nat /\ delivered \in [Readers -> 0..published]
        /\ message \in [Readers -> 0..published]
    BY SetupFacts DEF SourcesInv, Types
  <1>4. UNCHANGED << Log, Events >>
    BY <1>2 DEF Log, Events
  <1>5. /\ message'[r] = e /\ e \in 0..published /\ e \in 0..delivered'[r]
        /\ 1..delivered[r] \subseteq 1..delivered'[r] /\ delivered'[r] \in 0..published
    BY <1>1, <1>3
  <1>6. Types'
    <2>1. message' \in [Readers -> 0..published] /\ delivered' \in [Readers -> 0..published]
      BY <1>1, <1>3, <1>5
    <2>2. QED
      BY <1>2, <1>4, <2>1 DEF SourcesInv, Types
  <1>7. Known(r)' = Known(r) /\ Counted(app[r])'
    BY <1>2, <1>3, <1>4 DEF Known, SourcesInv, ReaderInv, Counted, Signals
  <1>8. ReaderInv(r)'
    BY <1>1, <1>2, <1>3, <1>5, <1>7 DEF SourcesInv, ReaderInv
  <1>9. Kept(r)'
    <2>1. Given(r)' \subseteq Given(r) \union {}
      BY <1>2, <1>4 DEF Given, Source
    <2>2. QED
      BY <1>2, <1>3, <1>7, <2>1, StillKept DEF SourcesInv
  <1>10. \A q \in Readers : q # r => Same(q)
    BY <1>1, <1>2, <1>3 DEF Same
  <1>11. QED
    BY <1>2, <1>3, <1>6, <1>8, <1>9, <1>10, OneReader

\* Handed over, a message is in the projection or in the channel.
LEMMA HandOverKeeps ==
  ASSUME SourcesInv, NEW r \in setup.readers, HandOver(r)
  PROVE  SourcesInv'
  <1> DEFINE e == message[r]
             t == Reduce(app[r], e)
  <1>1. /\ UNCHANGED << setup, published, stored, file, phase, history, connected, message, position,
                        lost, delivered, acked >>
        /\ e # 0 /\ handed' = [handed EXCEPT ![r] = TRUE]
        /\ IF r = "state-projectiond" THEN app' = [app EXCEPT ![r] = t] /\ channel' = channel
           ELSE channel' = [channel EXCEPT ![r] = Append(channel[r], e)] /\ app' = app
    BY DEF HandOver, Others, consumer
  <1>2. /\ r \in Readers /\ published \in Nat /\ message \in [Readers -> 0..published]
        /\ handed \in [Readers -> BOOLEAN] /\ channel \in [Readers -> Seq(Events)]
        /\ DOMAIN app = Readers /\ Counted(app[r])
    BY SetupFacts DEF SourcesInv, Types, ReaderInv
  <1>3. UNCHANGED << Log, Events >>
    BY <1>1 DEF Log, Events
  <1>4. e \in Events
    BY <1>1, <1>2 DEF Events
  <1>5. /\ Counted(t) /\ t.held = app[r].held
        /\ t.seen \union t.errors = app[r].seen \union app[r].errors \union {e}
    BY <1>2, <1>4, ReduceOne
  <1>6. Append(channel[r], e) \in Seq(Events)
        /\ ToSet(Append(channel[r], e)) = ToSet(channel[r]) \union {e}
    <2> DEFINE E == Events
               s == channel[r]
    <2>1. s \in Seq(E) /\ e \in E
      BY <1>2, <1>4
    <2> HIDE DEF E, s, e
    <2>2. Append(s, e) \in Seq(E)
      BY <2>1
    <2>3. ToSet(Append(s, e)) = ToSet(s) \union {e}
      BY <2>1, AppendToSet
    <2>4. QED
      BY <2>2, <2>3 DEF E, s
  <1> HIDE DEF t, e
  <1>7. Types'
    <2>1. handed' \in [Readers -> BOOLEAN] /\ DOMAIN app' = Readers
      BY <1>1, <1>2
    <2>2. channel' \in [Readers -> Seq(Events)]
      BY <1>1, <1>2, <1>6
    <2>3. QED
      BY <1>1, <1>3, <2>1, <2>2 DEF SourcesInv, Types
  <1>8. Known(r) \subseteq Known(r)' /\ e \in Known(r)'
    <2>1. CASE r = "state-projectiond"
      <3>1. app'[r] = t /\ channel'[r] = channel[r]
        BY <1>1, <1>2, <2>1
      <3>2. QED
        BY <1>5, <3>1 DEF Known
    <2>2. CASE r # "state-projectiond"
      <3>1. app'[r] = app[r] /\ ToSet(channel'[r]) = ToSet(channel[r]) \union {e}
        BY <1>1, <1>2, <1>6, <2>2
      <3>2. QED
        BY <3>1 DEF Known
    <2>3. QED
      BY <2>1, <2>2
  <1>9. /\ Counted(app'[r]) /\ app'[r].held = app[r].held
        /\ \A q \in Readers : q # r => app'[q] = app[q]
    BY <1>1, <1>2, <1>5
  <1>10. Counted(app[r])'
    BY <1>3, <1>9 DEF Counted, Signals
  <1>11. phase[r] = "up"
    BY <1>1, <1>2 DEF SourcesInv, ReaderInv, Types, e
  <1>12. ReaderInv(r)'
    <2>1. handed'[r] /\ message'[r] = e
      BY <1>1, <1>2 DEF e
    <2>2. QED
      BY <1>1, <1>2, <1>8, <1>10, <1>11, <2>1 DEF SourcesInv, ReaderInv
  <1>13. Kept(r)'
    <2>1. Given(r)' \subseteq Given(r) \union {}
      BY <1>1, <1>3 DEF Given, Source
    <2>2. QED
      BY <1>1, <1>2, <1>8, <2>1, StillKept DEF SourcesInv
  <1>14. \A q \in Readers : q # r => Same(q)
    BY <1>1, <1>2 DEF Same
  <1>15. app'["state-projectiond"].held = app["state-projectiond"].held
    BY <1>9 DEF Readers
  <1>16. QED
    BY <1>1, <1>2, <1>7, <1>12, <1>13, <1>14, <1>15, OneReader

\* Only what was handed over is acknowledged.
LEMMA AcknowledgeKeeps ==
  ASSUME SourcesInv, NEW r \in setup.readers, Acknowledge(r)
  PROVE  SourcesInv'
  <1> DEFINE e == message[r]
  <1>1. /\ UNCHANGED << setup, published, stored, file, phase, app, history, connected, channel,
                        position, lost, delivered >>
        /\ e # 0 /\ handed[r]
        /\ acked' = [acked EXCEPT ![r] = acked[r] \union {e}]
        /\ message' = [message EXCEPT ![r] = 0] /\ handed' = [handed EXCEPT ![r] = FALSE]
    BY DEF Acknowledge, MayAcknowledge, LetGo, Others
  <1>2. /\ r \in Readers /\ published \in Nat /\ message \in [Readers -> 0..published]
        /\ handed \in [Readers -> BOOLEAN] /\ acked \in [Readers -> SUBSET Events]
        /\ delivered[r] \in 0..published /\ e \in 0..delivered[r] /\ e \in Known(r)
    BY <1>1, SetupFacts DEF SourcesInv, Types, ReaderInv
  <1>3. UNCHANGED << Log, Events >>
    BY <1>1 DEF Log, Events
  <1>4. e \in 1..delivered[r] /\ e \in Events
    BY <1>1, <1>2 DEF Events
  <1> HIDE DEF e
  <1>5. Types'
    <2>1. handed' \in [Readers -> BOOLEAN] /\ acked' \in [Readers -> SUBSET Events]
      BY <1>1, <1>2, <1>4
    <2>2. message' \in [Readers -> 0..published]
      BY <1>1, <1>2
    <2>3. QED
      BY <1>1, <1>3, <2>1, <2>2 DEF SourcesInv, Types
  <1>6. acked'[r] = acked[r] \union {e} /\ message'[r] = 0 /\ handed'[r] = FALSE
    BY <1>1, <1>2
  <1>7. Known(r)' = Known(r) /\ Counted(app[r])'
    BY <1>1, <1>2, <1>3 DEF Known, SourcesInv, ReaderInv, Counted, Signals
  <1>8. connected[r] /\ phase[r] = "up"
    BY <1>1, <1>2 DEF SourcesInv, ReaderInv, Types, e
  <1>9. ReaderInv(r)'
    BY <1>1, <1>2, <1>4, <1>6, <1>7, <1>8 DEF SourcesInv, ReaderInv
  <1>10. Kept(r)'
    <2>1. Given(r)' \subseteq Given(r) \union {e}
      BY <1>1, <1>3, <1>6 DEF Given, Source
    <2>2. QED
      BY <1>1, <1>2, <1>7, <2>1, StillKept DEF SourcesInv
  <1>11. \A q \in Readers : q # r => Same(q)
    BY <1>1, <1>2 DEF Same
  <1>12. QED
    BY <1>1, <1>2, <1>5, <1>9, <1>10, <1>11, OneReader

\* A line of the followed file is handed over, or is torn and lost.
LEMMA FollowKeeps ==
  ASSUME SourcesInv, NEW r \in setup.readers, FollowLine(r)
  PROVE  SourcesInv'
  <1> DEFINE e == position[r] + 1
  <1>1. /\ UNCHANGED << setup, published, stored, file, phase, app, history, connected, message, handed,
                        delivered, acked >>
        /\ connected[r] /\ position[r] < stored
        /\ position' = [position EXCEPT ![r] = e]
        /\ \/ channel' = [channel EXCEPT ![r] = Append(channel[r], e)] /\ lost' = lost
           \/ lost' = [lost EXCEPT ![r] = lost[r] \union {e}] /\ channel' = channel
    BY DEF FollowLine, Others, consumer
  <1>2. /\ r \in Readers /\ published \in Nat /\ stored \in 0..published
        /\ position \in [Readers -> 0..stored] /\ lost \in [Readers -> SUBSET Events]
        /\ channel \in [Readers -> Seq(Events)]
    BY SetupFacts DEF SourcesInv, Types
  <1>3. UNCHANGED << Log, Events >>
    BY <1>1 DEF Log, Events
  <1>4. e \in 0..stored /\ e \in Events /\ 1..e \subseteq 1..position[r] \union {e}
    BY <1>1, <1>2 DEF Events
  <1> HIDE DEF e
  <1>5. Append(channel[r], e) \in Seq(Events)
        /\ ToSet(Append(channel[r], e)) = ToSet(channel[r]) \union {e}
    <2> DEFINE E == Events
               s == channel[r]
    <2>1. s \in Seq(E) /\ e \in E
      BY <1>2, <1>4
    <2> HIDE DEF E, s
    <2>2. Append(s, e) \in Seq(E)
      BY <2>1
    <2>3. ToSet(Append(s, e)) = ToSet(s) \union {e}
      BY <2>1, AppendToSet
    <2>4. QED
      BY <2>2, <2>3 DEF E, s
  <1>6. Types'
    <2>1. lost' \in [Readers -> SUBSET Events]
      BY <1>1, <1>2, <1>4
    <2>2. channel' \in [Readers -> Seq(Events)]
      BY <1>1, <1>2, <1>5
    <2>3. position' \in [Readers -> 0..stored]
      BY <1>1, <1>2, <1>4
    <2>4. QED
      BY <1>1, <1>3, <2>1, <2>2, <2>3 DEF SourcesInv, Types
  <1>7. /\ ToSet(channel[r]) \subseteq ToSet(channel'[r]) /\ lost[r] \subseteq lost'[r]
        /\ e \in ToSet(channel'[r]) \union lost'[r] /\ position'[r] = e
    <2>1. position'[r] = e
      BY <1>1, <1>2
    <2>2. CASE channel' = [channel EXCEPT ![r] = Append(channel[r], e)] /\ lost' = lost
      <3>1. ToSet(channel'[r]) = ToSet(channel[r]) \union {e}
        BY <1>2, <1>5, <2>2
      <3>2. QED
        BY <2>1, <2>2, <3>1
    <2>3. CASE lost' = [lost EXCEPT ![r] = lost[r] \union {e}] /\ channel' = channel
      <3>1. lost'[r] = lost[r] \union {e}
        BY <1>2, <2>3
      <3>2. QED
        BY <2>1, <2>3, <3>1
    <2>4. QED
      BY <1>1, <2>2, <2>3
  <1>8. Known(r) \subseteq Known(r)' /\ e \in Known(r)' \union lost'[r]
    BY <1>1, <1>7 DEF Known
  <1>9. Counted(app[r])'
    BY <1>1, <1>2, <1>3 DEF SourcesInv, ReaderInv, Counted, Signals
  <1>10. ReaderInv(r)'
    <2>1. phase[r] = "up"
      BY <1>1, <1>2 DEF SourcesInv, ReaderInv, Types
    <2>2. QED
      BY <1>1, <1>2, <1>8, <1>9, <2>1 DEF SourcesInv, ReaderInv
  <1>11. Kept(r)'
    <2>1. Given(r)' \subseteq Given(r) \union {e}
      BY <1>1, <1>3, <1>4, <1>7 DEF Given, Source
    <2>2. Kept(r)
      BY <1>2 DEF SourcesInv
    <2>3. {e} \subseteq Known(r)' \union lost'[r]
      BY <1>8
    <2>4. QED
      BY <1>1, <1>7, <1>8, <2>1, <2>2, <2>3, StillKept
  <1>12. \A q \in Readers : q # r => Same(q)
    BY <1>1, <1>2 DEF Same
  <1>13. QED
    BY <1>1, <1>2, <1>6, <1>10, <1>11, <1>12, OneReader

\* Draining moves an event from the channel into the projection.
LEMMA DrainKeeps ==
  ASSUME SourcesInv, NEW r \in setup.readers, Drain(r)
  PROVE  SourcesInv'
  <1> DEFINE e == Head(channel[r])
             t == Reduce(app[r], e)
  <1>1. /\ UNCHANGED << setup, published, stored, file, phase, history, connected, message, handed,
                        position, lost, delivered, acked >>
        /\ phase[r] = "up" /\ channel[r] # << >>
        /\ app' = [app EXCEPT ![r] = t]
        /\ channel' = [channel EXCEPT ![r] = Tail(channel[r])]
    BY DEF Drain, Others, consumer
  <1>2. /\ r \in Readers /\ published \in Nat /\ channel \in [Readers -> Seq(Events)]
        /\ DOMAIN app = Readers /\ Counted(app[r])
    BY SetupFacts DEF SourcesInv, Types, ReaderInv
  <1>3. UNCHANGED << Log, Events >>
    BY <1>1 DEF Log, Events
  <1>4. /\ e \in Events /\ Tail(channel[r]) \in Seq(Events)
        /\ ToSet(channel[r]) \subseteq {e} \union ToSet(Tail(channel[r]))
    BY <1>1, <1>2, HeadAndTail
  <1> HIDE DEF e
  <1>5. /\ Counted(t) /\ t.held = app[r].held
        /\ t.seen \union t.errors = app[r].seen \union app[r].errors \union {e}
    BY <1>2, <1>4, ReduceOne
  <1> HIDE DEF t
  <1>6. Types'
    <2>1. channel' \in [Readers -> Seq(Events)] /\ DOMAIN app' = Readers
      BY <1>1, <1>2, <1>4
    <2>2. QED
      BY <1>1, <1>3, <2>1 DEF SourcesInv, Types
  <1>7. app'[r] = t /\ channel'[r] = Tail(channel[r])
    BY <1>1, <1>2
  <1>8. Known(r) \subseteq Known(r)'
    BY <1>4, <1>5, <1>7 DEF Known
  <1>9. Counted(app[r])'
    BY <1>3, <1>5, <1>7 DEF Counted, Signals
  <1>10. ReaderInv(r)'
    BY <1>1, <1>2, <1>8, <1>9 DEF SourcesInv, ReaderInv
  <1>11. Kept(r)'
    <2>1. Given(r)' \subseteq Given(r) \union {}
      BY <1>1, <1>3 DEF Given, Source
    <2>2. QED
      BY <1>1, <1>2, <1>8, <2>1, StillKept DEF SourcesInv
  <1>12. \A q \in Readers : q # r => Same(q)
    BY <1>1, <1>2 DEF Same
  <1>13. app'["state-projectiond"].held = app["state-projectiond"].held
    BY <1>1, <1>2, <1>5, <1>7 DEF Readers
  <1>14. QED
    BY <1>1, <1>2, <1>6, <1>10, <1>11, <1>12, <1>13, OneReader

-----------------------------------------------------------------------------
(* The theorems.                                                           *)

\* SourcesInv holds in every reachable state.
THEOREM SourcesInvariant == Spec => []SourcesInv
  <1>1. Init => SourcesInv
    BY InitSources
  <1>2. SourcesInv /\ [Next]_vars => SourcesInv'
    <2> SUFFICES ASSUME SourcesInv, [Next]_vars PROVE SourcesInv'
      OBVIOUS
    <2>1. CASE Publish \/ Persist \/ SaveSnapshot
      BY <2>1, PublishKeeps, PersistKeeps, SaveKeeps
    <2>2. ASSUME NEW r \in setup.readers,
                 LoadHistory(r) \/ Begin(r) \/ Stop(r) \/ Connect(r) \/ Disconnect(r)
          PROVE  SourcesInv'
      BY <2>2, LoadKeeps, BeginKeeps, StopKeeps, ConnectKeeps, DisconnectKeeps
    <2>3. ASSUME NEW r \in setup.readers, Read(r)
          PROVE  SourcesInv'
      BY <2>3, ReceiveKeeps, HandOverKeeps, AcknowledgeKeeps, FollowKeeps, DrainKeeps DEF Read
    <2>4. CASE UNCHANGED vars
      <3>1. UNCHANGED << setup, published, stored, phase, app, history, connected, message, handed,
                         channel, position, lost, delivered, acked, file >>
        BY <2>4 DEF vars, reader, consumer
      <3>2. \A r \in Readers : Same(r)
        BY <3>1 DEF Same
      <3>3. \A r \in Readers : ReaderInv(r)' /\ Kept(r)'
        BY <3>1, <3>2, OtherReader DEF SourcesInv
      <3>4. Types' /\ SnapshotInv'
        BY <3>1 DEF SourcesInv, Types, SnapshotInv, Log, Events, Signals
      <3>5. QED
        BY <3>3, <3>4 DEF SourcesInv
    <2>5. QED
      BY <2>1, <2>2, <2>3, <2>4 DEF Next
  <1>3. QED
    BY <1>1, <1>2, PTL DEF Spec

\* Every variable has its type, and a program that is not up projects nothing.
THEOREM TypeCorrect == Spec => []TypeOK
  <1>1. SourcesInv => TypeOK
    <2> SUFFICES ASSUME SourcesInv PROVE TypeOK
      OBVIOUS
    <2>1. setup \in Setups /\ 0 <= stored /\ stored <= published /\ published <= Len(Log)
      BY SetupFacts DEF SourcesInv, Types
    <2>2. ASSUME NEW r \in Readers
          PROVE  /\ phase[r] \in {"down", "loading", "up"}
                 /\ (phase[r] # "up" => app[r] = EmptyApp /\ ~connected[r])
                 /\ acked[r] \subseteq 1..delivered[r] /\ delivered[r] <= published
                 /\ message[r] \in 0..delivered[r] /\ (message[r] # 0 => connected[r])
                 /\ app[r].seen \subseteq Events /\ lost[r] \subseteq Events /\ position[r] <= stored
      <3>1. /\ phase[r] \in {"down", "loading", "up"} /\ delivered[r] \in 0..published
            /\ lost[r] \subseteq Events /\ position[r] \in 0..stored
        BY DEF SourcesInv, Types
      <3>2. published \in Nat /\ stored \in Nat
        BY SetupFacts DEF SourcesInv
      <3>3. app[r].seen \subseteq Events
        BY DEF SourcesInv, ReaderInv, Counted
      <3>4. QED
        BY <3>1, <3>2, <3>3 DEF SourcesInv, ReaderInv
    <2>3. QED
      BY <2>1, <2>2 DEF TypeOK
  <1>2. QED
    BY <1>1, SourcesInvariant, PTL

\* A program that is up shows, reports or still holds every event that its source
\* gave, but for those lost in one of the known ways: nothing is acknowledged
\* before it is handed over.
THEOREM NothingGivenIsLost == Spec => []NothingElseIsLost
  <1>1. SourcesInv => NothingElseIsLost
    BY DEF SourcesInv, Kept, Given, NothingElseIsLost
  <1>2. QED
    BY <1>1, SourcesInvariant, PTL

\* The signals are counted exactly if and only if none that the snapshot counts
\* comes again, for any log, readers and order of deliveries.
THEOREM CountsAreExact == Spec => []CountsExactUnlessSnapshotOverlaps
  <1>1. SourcesInv => CountsExactUnlessSnapshotOverlaps
    <2> SUFFICES ASSUME SourcesInv, NEW r \in Readers
                 PROVE  app[r].signals = Cardinality(Signals(app[r].seen \union app[r].held)) <=>
                          Signals(app[r].seen \intersect app[r].held) = {}
      BY DEF CountsExactUnlessSnapshotOverlaps
    <2> DEFINE seen == app[r].seen
               held == app[r].held
    <2>1. /\ seen \subseteq Events /\ held \subseteq Events
          /\ app[r].signals = Cardinality(Signals(seen)) + Cardinality(Signals(held))
      BY DEF SourcesInv, ReaderInv, Counted
    <2> HIDE DEF seen, held
    <2>2. published \in Nat
      BY SetupFacts DEF SourcesInv
    <2>3. /\ IsFiniteSet(Signals(seen)) /\ IsFiniteSet(Signals(held))
          /\ IsFiniteSet(Signals(seen \intersect held))
          /\ Cardinality(Signals(seen)) \in Nat /\ Cardinality(Signals(held)) \in Nat
          /\ Cardinality(Signals(seen \intersect held)) \in Nat
      BY <2>1, <2>2, SignalsAreFinite
    <2>4. /\ Signals(seen \union held) = Signals(seen) \union Signals(held)
          /\ Signals(seen \intersect held) = Signals(seen) \intersect Signals(held)
      BY DEF Signals
    <2>5. Cardinality(Signals(seen \union held)) =
            Cardinality(Signals(seen)) + Cardinality(Signals(held)) - Cardinality(Signals(seen \intersect held))
      <3> DEFINE a == Signals(seen)
                 b == Signals(held)
      <3>1. IsFiniteSet(a) /\ IsFiniteSet(b)
        BY <2>3
      <3> HIDE DEF a, b
      <3>2. Cardinality(a \union b) = Cardinality(a) + Cardinality(b) - Cardinality(a \intersect b)
        BY <3>1, FS_Union
      <3>3. Signals(seen \union held) = a \union b /\ Signals(seen \intersect held) = a \intersect b
        BY <2>4 DEF a, b
      <3>4. QED
        BY <3>2, <3>3 DEF a, b
    <2>6. Cardinality(Signals(seen \intersect held)) = 0 <=> Signals(seen \intersect held) = {}
      BY <2>3, FS_EmptySet
    <2>7. app[r].signals = Cardinality(Signals(seen \union held)) <=>
            Cardinality(Signals(seen \intersect held)) = 0
      BY <2>1, <2>3, <2>5
    <2>8. QED
      BY <2>6, <2>7 DEF seen, held
  <1>2. QED
    BY <1>1, SourcesInvariant, PTL
=============================================================================
