------------------------ MODULE OrderLifecycle_proofs ------------------------
(***************************************************************************)
(* Every invariant of OrderLifecycle, for any number of orders, any        *)
(* quantity and any bounds.  LifecycleInv is inductive: a fill event       *)
(* reports an execution that happened, the chain remembers the ones that   *)
(* came with an execution_id and has counted the ones that came without,   *)
(* and the two bound the filled quantity.  BeliefInv, on top of it, says   *)
(* what a chain without anomalies remembers; UnracedInv, in which order    *)
(* the events of an order are published and reduced.                       *)
(***************************************************************************)
EXTENDS OrderLifecycle, FiniteSetTheorems, TLAPS

USE DEF None, Kinds, EarlyStates, OrderStates, FillStates, TerminalStates

-----------------------------------------------------------------------------
(* Chains.  Fits(ch, style, n, fills) is what ExecutionsHappened says of    *)
(* one chain after n executions, when it has reduced these fills.           *)

Fits(ch, style, n, fills) ==
  /\ ch.execution_ids = Lots(Named(fills))
  /\ IF style = "cumulative" THEN ch.filled <= n
     ELSE ch.filled = Cardinality(ch.execution_ids) + Cardinality(Unnamed(fills))

\* What can be said of the fills a chain has reduced.
FillsWithin(fills, n) ==
  IsFiniteSet(fills) /\ \A f \in fills : f.exec \in 1..n /\ f.named \in BOOLEAN

\* Two chains that agree on what Fits looks at.
SameFills(ch, old) ==
  /\ ch.execution_ids = old.execution_ids
  /\ ch.filled = old.filled

\* Whether a chain fits its executions depends on its quantities alone.
LEMMA SameFillsFit ==
  ASSUME NEW ch, NEW old, NEW style, NEW n, NEW fills,
         SameFills(ch, old), Fits(old, style, n, fills)
  PROVE  Fits(ch, style, n, fills)
  BY DEF SameFills, Fits

\* A transition leaves the quantities of a chain alone.
LEMMA TransitionType ==
  ASSUME NEW ch \in Chain, NEW next \in Kinds
  PROVE  /\ TransitionState(ch, next) \in Chain
         /\ SameFills(TransitionState(ch, next), ch)
<1>1. next \in OrderLifecycleState
  BY DEF OrderLifecycleState
<1>2. CASE ValidTransition(ch.state, next)
  BY <1>1, <1>2 DEF TransitionState, Chain, SameFills
<1>3. CASE ~ ValidTransition(ch.state, next)
  BY <1>1, <1>3 DEF TransitionState, Flag, Chain, SameFills
<1> QED
  BY <1>2, <1>3

\* Refreshing the reason leaves the quantities of a chain alone.
LEMMA ReasonType ==
  ASSUME NEW ch \in Chain
  PROVE  /\ RefreshQuantityReason(ch) \in Chain
         /\ SameFills(RefreshQuantityReason(ch), ch)
<1>1. QuantityReason(ch) \in
        {"none", "missing_total_qty", "missing_remaining_or_leaves_qty",
         "filled_plus_remaining_ne_total"}
  BY DEF QuantityReason
<1> QED
  BY <1>1 DEF RefreshQuantityReason, Chain, SameFills

\* A fill with an execution_id adds it to those a chain has reduced.
LEMMA NamedFill ==
  ASSUME NEW fills, NEW fill, fill.named
  PROVE  /\ Lots(Named(fills \union {fill})) = Lots(Named(fills)) \union {fill.exec}
         /\ Unnamed(fills \union {fill}) = Unnamed(fills)
<1>1. Named(fills \union {fill}) = Named(fills) \union {fill}
  BY DEF Named
<1>2. Lots(Named(fills) \union {fill}) = Lots(Named(fills)) \union {fill.exec}
  BY DEF Lots
<1>3. Unnamed(fills \union {fill}) = Unnamed(fills)
  BY DEF Unnamed
<1> QED
  BY <1>1, <1>2, <1>3

\* A fill without one adds itself to those that have none.
LEMMA UnnamedFill ==
  ASSUME NEW fills, NEW fill, ~ fill.named
  PROVE  /\ Lots(Named(fills \union {fill})) = Lots(Named(fills))
         /\ Unnamed(fills \union {fill}) = Unnamed(fills) \union {fill}
<1>1. Named(fills \union {fill}) = Named(fills)
  BY DEF Named
<1>2. Unnamed(fills \union {fill}) = Unnamed(fills) \union {fill}
  BY DEF Unnamed
<1> QED
  BY <1>1, <1>2

\* The fills without execution_id are finitely many.
LEMMA FillCounts ==
  ASSUME NEW n \in Nat, NEW fills, FillsWithin(fills, n)
  PROVE  /\ IsFiniteSet(Unnamed(fills)) /\ Cardinality(Unnamed(fills)) \in Nat
         /\ Lots(Named(fills)) \subseteq 1..n
         /\ IsFiniteSet(Lots(Named(fills))) /\ Cardinality(Lots(Named(fills))) \in Nat
<1>1. IsFiniteSet(Unnamed(fills))
  BY FS_Subset DEF FillsWithin, Unnamed
<1>2. Lots(Named(fills)) \subseteq 1..n
  BY DEF FillsWithin, Lots, Named
<1>3. IsFiniteSet(1..n)
  BY FS_Interval
<1>4. IsFiniteSet(Lots(Named(fills)))
  BY <1>2, <1>3, FS_Subset
<1> QED
  BY <1>1, <1>2, <1>4, FS_CardinalityType

\* A fill that is applied or dropped leaves a well-typed chain.
LEMMA ApplyFillType ==
  ASSUME NEW ch \in Chain, NEW style, NEW fill, fill.exec \in 1..Qty
  PROVE  ApplyFill(ch, style, fill) \in Chain
<1> DEFINE new == IF style = "cumulative" THEN fill.exec ELSE ch.filled + 1
           ids == ch.execution_ids \union (IF fill.named THEN {fill.exec} ELSE {})
           old == IF new < ch.filled THEN Flag(ch, "cumulative_fill_regressed") ELSE ch
           leaves == Reported(style, Qty - fill.exec)
<1>q. Qty \in Nat
  BY LifecycleAssumption
<1>1. /\ Flag(ch, "duplicate_execution_id") \in Chain
      /\ old \in Chain /\ SameFills(old, ch)
  BY DEF Flag, Chain, SameFills
<1>2. ids \in SUBSET (1..Qty) /\ new \in Nat
  BY <1>q DEF Chain
<1>3. leaves \in {None} \union 0..Qty
  BY <1>q DEF Reported
<1>4. ApplyFill(ch, style, fill) =
        IF fill.named /\ fill.exec \in ch.execution_ids THEN Flag(ch, "duplicate_execution_id")
        ELSE [old EXCEPT !.execution_ids = ids, !.filled = new, !.cum = new, !.leaves = leaves]
  BY <1>1 DEF ApplyFill, SameFills
<1> HIDE DEF old, new, ids, leaves
<1>5. \A r \in Chain :
        [r EXCEPT !.execution_ids = ids, !.filled = new, !.cum = new, !.leaves = leaves] \in Chain
  BY <1>2, <1>3 DEF Chain
<1> QED
  BY <1>1, <1>4, <1>5

\* A fill that is applied or dropped leaves the chain fit with it.
LEMMA ApplyFillFits ==
  ASSUME NEW ch \in Chain, NEW style \in QuantityStyles, NEW n \in 0..Qty,
         NEW fills, FillsWithin(fills, n), NEW fill, fill \notin fills,
         fill.exec \in 1..n, fill.named \in BOOLEAN, Fits(ch, style, n, fills)
  PROVE  /\ ApplyFill(ch, style, fill) \in Chain
         /\ Fits(ApplyFill(ch, style, fill), style, n, fills \union {fill})
<1> DEFINE more == fills \union {fill}
           ids == ch.execution_ids \union (IF fill.named THEN {fill.exec} ELSE {})
<1>q. Qty \in Nat /\ n \in Nat
  BY LifecycleAssumption
<1>f. /\ ch.filled \in Nat /\ IsFiniteSet(Unnamed(fills)) /\ Cardinality(Unnamed(fills)) \in Nat
      /\ ch.execution_ids \subseteq 1..n /\ IsFiniteSet(ch.execution_ids)
      /\ Cardinality(ch.execution_ids) \in Nat
  BY <1>q, FillCounts DEF Chain, Fits
<1>g. /\ ids = Lots(Named(more))
      /\ Unnamed(more) = IF fill.named THEN Unnamed(fills) ELSE Unnamed(fills) \union {fill}
  <2>1. ch.execution_ids = Lots(Named(fills))
    BY DEF Fits
  <2>2. CASE fill.named
    <3>1. /\ Lots(Named(more)) = Lots(Named(fills)) \union {fill.exec}
          /\ Unnamed(more) = Unnamed(fills)
      BY <2>2, NamedFill
    <3> QED
      BY <2>1, <2>2, <3>1
  <2>3. CASE ~ fill.named
    <3>1. Lots(Named(more)) = Lots(Named(fills)) /\ Unnamed(more) = Unnamed(fills) \union {fill}
      BY <2>3, UnnamedFill
    <3> QED
      BY <2>1, <2>3, <3>1
  <2> QED
    BY <2>2, <2>3
<1> HIDE DEF more
<1>1. CASE fill.named /\ fill.exec \in ch.execution_ids
  <2>1. ApplyFill(ch, style, fill) = Flag(ch, "duplicate_execution_id")
    BY <1>1 DEF ApplyFill
  <2>2. ids = ch.execution_ids /\ Unnamed(more) = Unnamed(fills)
    BY <1>1, <1>g
  <2>3. Fits(ch, style, n, more)
    BY <1>g, <2>2 DEF Fits
  <2>4. Flag(ch, "duplicate_execution_id") \in Chain
        /\ SameFills(Flag(ch, "duplicate_execution_id"), ch)
    BY DEF Flag, Chain, SameFills
  <2> QED
    BY <2>1, <2>3, <2>4, SameFillsFit DEF more
<1>2. CASE ~ (fill.named /\ fill.exec \in ch.execution_ids)
  <2> DEFINE new == IF style = "cumulative" THEN fill.exec ELSE ch.filled + 1
             old == IF new < ch.filled THEN Flag(ch, "cumulative_fill_regressed") ELSE ch
  <2>1. style = "incremental" => new = Cardinality(ids) + Cardinality(Unnamed(more))
    <3> SUFFICES ASSUME style = "incremental"
                 PROVE  new = Cardinality(ids) + Cardinality(Unnamed(more))
      OBVIOUS
    <3>0. ch.filled = Cardinality(ch.execution_ids) + Cardinality(Unnamed(fills))
      BY DEF Fits
    <3>1. CASE fill.named
      <4>1. Cardinality(ids) = Cardinality(ch.execution_ids) + 1
        BY <1>2, <1>f, <3>1, FS_AddElement
      <4> QED
        BY <1>f, <1>g, <3>0, <3>1, <4>1
    <3>2. CASE ~ fill.named
      <4>1. fill \notin Unnamed(fills)
        BY DEF Unnamed
      <4>2. Cardinality(Unnamed(more)) = Cardinality(Unnamed(fills)) + 1
        BY <1>f, <1>g, <3>2, <4>1, FS_AddElement
      <4>3. ids = ch.execution_ids
        BY <3>2
      <4>4. new = ch.filled + 1
        OBVIOUS
      <4> HIDE DEF new, ids
      <4> QED
        BY <1>f, <3>0, <4>2, <4>3, <4>4
    <3> QED
      BY <3>1, <3>2
  <2>3. new \in Nat /\ (style = "cumulative" => new <= n)
    BY <1>f, <1>q
  <2>4. old \in Chain /\ SameFills(old, ch)
    BY DEF Flag, Chain, SameFills
  <2>6. ApplyFill(ch, style, fill) =
          [old EXCEPT !.execution_ids = ids, !.filled = new, !.cum = new,
                      !.leaves = Reported(style, Qty - fill.exec)]
    BY <1>2, <2>4 DEF ApplyFill, SameFills
  <2> HIDE DEF old, new, ids
  <2>8. ApplyFill(ch, style, fill) \in Chain
    BY <1>q, ApplyFillType
  <2>9. /\ ApplyFill(ch, style, fill).execution_ids = ids
        /\ ApplyFill(ch, style, fill).filled = new
    BY <2>4, <2>6 DEF Chain
  <2>10. Fits(ApplyFill(ch, style, fill), style, n, more)
    BY <1>g, <2>1, <2>3, <2>9 DEF Fits, QuantityStyles
  <2> QED
    BY <2>8, <2>10 DEF more
<1> QED
  BY <1>1, <1>2

Good(ch, style, n, fills) == ch \in Chain /\ Fits(ch, style, n, fills)

\* Good survives the two steps most handlers end with, and any assignment to
\* the fields it does not look at.
LEMMA GoodSteps ==
  ASSUME NEW ch, NEW style, NEW n, NEW fills, Good(ch, style, n, fills)
  PROVE  /\ \A next \in Kinds : Good(TransitionState(ch, next), style, n, fills)
         /\ Good(RefreshQuantityReason(ch), style, n, fills)
  BY TransitionType, ReasonType, SameFillsFit DEF Good

\* A handler that leaves the quantities alone keeps a chain good.
LEMMA GoodSame ==
  ASSUME NEW ch, NEW style, NEW n, NEW fills, Good(ch, style, n, fills),
         NEW new \in Chain, SameFills(new, ch)
  PROVE  Good(new, style, n, fills)
  BY SameFillsFit DEF Good

\* Every handler keeps a chain good.
LEMMA HandlersFit ==
  ASSUME NEW ch, NEW style \in QuantityStyles, NEW n \in 0..Qty,
         NEW fills, FillsWithin(fills, n), Good(ch, style, n, fills)
  PROVE  /\ Good(OnSignal(ch), style, n, fills)
         /\ Good(OnIntent(ch), style, n, fills)
         /\ \A next \in {"RiskApproved", "RiskRejected"} :
              Good(OnRiskDecision(ch, next), style, n, fills)
         /\ Good(OnSubmitRequested(ch, style), style, n, fills)
         /\ Good(OnSubmitted(ch), style, n, fills)
         /\ Good(OnBrokerAck(ch, style), style, n, fills)
         /\ \A fill, next :
              (/\ fill \notin fills /\ fill.exec \in 1..n /\ fill.named \in BOOLEAN
               /\ next \in FillStates) =>
                 Good(OnFill(ch, style, fill, next), style, n, fills \union {fill})
         /\ \A next \in {"CancelRequested", "CancelRejected"} :
              Good(OnCancelStep(ch, next), style, n, fills)
         /\ \A next \in {"Cancelled", "BrokerRejected"} :
              Good(OnTerminal(ch, next), style, n, fills)
<1>q. Qty \in Nat
  BY LifecycleAssumption
<1>c. ch \in Chain
  BY DEF Good
<1>r. Reported(style, Qty) \in {None, Qty}
  BY DEF Reported
<1> DEFINE named == [ch EXCEPT !.order_id = TRUE]
<1>2. Good(named, style, n, fills)
  <2>1. named \in Chain /\ SameFills(named, ch)
    BY <1>c DEF Chain, SameFills
  <2> QED
    BY <2>1, GoodSame
<1>3. Good(OnSignal(ch), style, n, fills)
  BY GoodSteps DEF OnSignal
<1>4. Good(OnIntent(ch), style, n, fills)
  <2> DEFINE sized == [ch EXCEPT !.total = IF @ = None THEN Qty ELSE @]
  <2>1. sized \in Chain /\ SameFills(sized, ch)
    BY <1>c DEF Chain, SameFills
  <2>2. Good(sized, style, n, fills)
    BY <2>1, GoodSame
  <2> QED
    BY <2>2, GoodSteps DEF OnIntent
<1>5. ASSUME NEW next \in {"RiskApproved", "RiskRejected"}
      PROVE  Good(OnRiskDecision(ch, next), style, n, fills)
  BY GoodSteps DEF OnRiskDecision
<1>6. Good(OnSubmitRequested(ch, style), style, n, fills)
  <2> DEFINE quantity == Reported(style, Qty)
             sized == [ch EXCEPT !.order_id = TRUE, !.cum = 0, !.leaves = quantity,
                                 !.total = IF quantity # None THEN quantity ELSE @]
  <2>1. sized \in Chain /\ SameFills(sized, ch)
    <3>1. \A C \in {None} \union Nat, L \in {None} \union 0..Qty, T \in {None, Qty}, r \in Chain :
            [r EXCEPT !.order_id = TRUE, !.cum = C, !.leaves = L, !.total = T] \in Chain
      BY DEF Chain
    <3>2. quantity \in {None} \union 0..Qty /\ 0 \in {None} \union Nat
      BY <1>q, <1>r
    <3>3. ch.total \in {None, Qty}
      BY <1>c DEF Chain
    <3> HIDE DEF quantity
    <3>4. sized = [ch EXCEPT !.order_id = TRUE, !.cum = 0, !.leaves = quantity,
                             !.total = IF quantity # None THEN quantity ELSE ch.total]
      BY <1>c DEF Chain
    <3>5. (IF quantity # None THEN quantity ELSE ch.total) \in {None, Qty}
      BY <1>r, <3>3 DEF quantity
    <3>6. sized \in Chain
      BY <1>c, <3>1, <3>2, <3>4, <3>5
    <3> QED
      BY <1>c, <3>4, <3>6 DEF Chain, SameFills
  <2>2. Good(sized, style, n, fills)
    BY <2>1, GoodSame
  <2>3. Good(RefreshQuantityReason(sized), style, n, fills)
    BY <2>2, GoodSteps
  <2> QED
    BY <2>3, GoodSteps DEF OnSubmitRequested
<1>7. Good(OnSubmitted(ch), style, n, fills)
  BY <1>2, GoodSteps DEF OnSubmitted
<1>8. Good(OnBrokerAck(ch, style), style, n, fills)
  <2> DEFINE sized == [ch EXCEPT !.order_id = TRUE, !.leaves = Reported(style, Qty)]
  <2>1. sized \in Chain /\ SameFills(sized, ch)
    <3>1. \A L \in {None} \union 0..Qty, r \in Chain :
            [r EXCEPT !.order_id = TRUE, !.leaves = L] \in Chain
      BY DEF Chain
    <3>2. Reported(style, Qty) \in {None} \union 0..Qty
      BY <1>q, <1>r
    <3> QED
      BY <1>c, <3>1, <3>2 DEF Chain, SameFills
  <2>2. Good(sized, style, n, fills)
    BY <2>1, GoodSame
  <2>3. Good(RefreshQuantityReason(sized), style, n, fills)
    BY <2>2, GoodSteps
  <2> QED
    BY <2>3, GoodSteps DEF OnBrokerAck
<1>9. ASSUME NEW fill, NEW next, fill \notin fills, fill.exec \in 1..n, fill.named \in BOOLEAN,
             next \in FillStates
      PROVE  Good(OnFill(ch, style, fill, next), style, n, fills \union {fill})
  <2> DEFINE more == fills \union {fill}
             applied == RefreshQuantityReason(ApplyFill(named, style, fill))
             ended == [applied EXCEPT !.terminal_ts = @ \/ next = "Filled"]
  <2>0. named \in Chain /\ Fits(named, style, n, fills)
    BY <1>2 DEF Good
  <2> HIDE DEF named
  <2>1. Good(ApplyFill(named, style, fill), style, n, more)
    BY <1>9, <2>0, ApplyFillFits DEF Good
  <2> HIDE DEF more
  <2>2. Good(applied, style, n, more)
    BY <2>1, GoodSteps
  <2>3. applied \in Chain
    BY <2>2 DEF Good
  <2> HIDE DEF applied
  <2>4. ended \in Chain /\ SameFills(ended, applied)
    BY <2>3 DEF Chain, SameFills
  <2>5. Good(ended, style, n, more)
    BY <2>2, <2>4, GoodSame
  <2>6. Good(TransitionState(ended, next), style, n, more)
    BY <1>9, <2>5, GoodSteps
  <2> QED
    BY <2>6 DEF OnFill, applied, named, more
<1>10. ASSUME NEW next \in {"CancelRequested", "CancelRejected"}
       PROVE  Good(OnCancelStep(ch, next), style, n, fills)
  BY <1>2, GoodSteps DEF OnCancelStep
<1>11. ASSUME NEW next \in {"Cancelled", "BrokerRejected"}
       PROVE  Good(OnTerminal(ch, next), style, n, fills)
  <2> DEFINE ended == [ch EXCEPT !.order_id = TRUE, !.terminal_ts = TRUE]
  <2>1. ended \in Chain /\ SameFills(ended, ch)
    BY <1>c DEF Chain, SameFills
  <2>2. Good(ended, style, n, fills)
    BY <2>1, GoodSame
  <2> QED
    BY <2>2, GoodSteps DEF OnTerminal
<1> QED
  BY <1>3, <1>4, <1>5, <1>6, <1>7, <1>8, <1>9, <1>10, <1>11
-----------------------------------------------------------------------------
(* LifecycleInv is inductive.                                              *)

USE DEF LifecycleInv

\* No chain has any quantity at first.
LEMMA InitInv == Init => LifecycleInv
<1> SUFFICES ASSUME Init PROVE LifecycleInv
  OBVIOUS
<1> USE DEF Init
<1>q. Qty \in Nat /\ MaxRepublish \in Nat /\ FillStyles \subseteq QuantityStyles
  BY LifecycleAssumption
<1>1. NewChain \in Chain
  BY <1>q DEF NewChain, Chain, OrderLifecycleState
<1>2. TypeOK
  <2>1. fill_style \in [Corr -> FillStyles] /\ published \subseteq Event
    OBVIOUS
  <2>2. executed \in [Corr -> 0..Qty] /\ republished \in [Corr -> 0..MaxRepublish]
    BY <1>q
  <2>3. chains \in [Corr -> Chain]
    BY <1>1
  <2>4. in_order \in [Corr -> BOOLEAN]
    OBVIOUS
  <2>6. seen \subseteq published /\ order_id_index \subseteq Corr
    OBVIOUS
  <2> QED
    BY <2>1, <2>2, <2>3, <2>4, <2>6 DEF TypeOK
<1>3. IsFiniteSet(published)
  BY FS_EmptySet
<1>4. ExecutionsHappened
  <2>1. \A c : Reduced(c, FillStates) = {}
    BY DEF Reduced
  <2>2. Named({}) = {} /\ Unnamed({}) = {} /\ Lots({}) = {}
    BY DEF Named, Unnamed, Lots
  <2>3. Cardinality({}) = 0
    BY FS_EmptySet
  <2>4. \A c \in Corr : /\ chains[c].execution_ids = {} /\ chains[c].filled = 0
                        /\ executed[c] = 0
    BY DEF NewChain
  <2>5. \A c \in Corr : /\ Lots(Named(Reduced(c, FillStates))) = {}
                        /\ Unnamed(Reduced(c, FillStates)) = {}
    BY <2>1, <2>2
  <2>6. published = {}
    OBVIOUS
  <2> QED
    BY <2>3, <2>4, <2>5, <2>6 DEF ExecutionsHappened
<1> QED
  BY <1>2, <1>3, <1>4

\* What is published of an order it takes the next place of, and the order's events
\* are those there were and this one.
LEMMA PublishKeeps ==
  ASSUME LifecycleInv, NEW c \in Corr, NEW kind \in Kinds, NEW exec \in 0..Qty,
         NEW named \in BOOLEAN, Publish(c, kind, exec, named)
  PROVE  \E e \in Event :
           /\ e.corr = c /\ e.kind = kind /\ e.exec = exec /\ e.named = named
           /\ published' = published \union {e}
           /\ published' \subseteq Event
           /\ IsFiniteSet(published')
<1> DEFINE e == [corr |-> c, pos |-> Cardinality(EventsOf(c)) + 1,
                 kind |-> kind, exec |-> exec, named |-> named]
<1>1. IsFiniteSet(EventsOf(c))
  BY FS_Subset DEF EventsOf
<1>2. Cardinality(EventsOf(c)) + 1 \in Nat \ {0}
  BY <1>1, FS_CardinalityType
<1>3. e \in Event
  BY <1>2 DEF Event
<1>4. published' = published \union {e}
  BY DEF Publish
<1>5. IsFiniteSet(published')
  BY <1>4, FS_AddElement
<1> QED
  BY <1>3, <1>4, <1>5 DEF TypeOK

\* What ExecutionsHappened says of the published events.
PublishedHappened ==
  /\ \A e \in published :
       IF e.kind \in FillStates THEN e.exec \in 1..executed[e.corr] ELSE e.exec = 0
  /\ \A e, f \in {g \in published : g.kind \in FillStates} :
       e.corr = f.corr /\ e.exec = f.exec => e.named = f.named

\* What ExecutionsHappened says of the chains.
ChainsFit ==
  \A c \in Corr : Fits(chains[c], fill_style[c], executed[c], Reduced(c, FillStates))

\* ExecutionsHappened is about the events and about the chains.
LEMMA HappenedParts == ExecutionsHappened <=> PublishedHappened /\ ChainsFit
  BY DEF ExecutionsHappened, PublishedHappened, ChainsFit, Fits

\* The parts of ExecutionsHappened, after a step.
LEMMA HappenedPartsNext == ExecutionsHappened' <=> PublishedHappened' /\ ChainsFit'
  BY DEF ExecutionsHappened, PublishedHappened, ChainsFit, Fits

\* A step that reduces nothing and executes nothing less keeps the chains fit.
LEMMA ChainsStayFit ==
  ASSUME LifecycleInv, UNCHANGED << fill_style, seen, chains >>,
         \A c \in Corr : executed'[c] \in Nat /\ executed[c] <= executed'[c]
  PROVE  ChainsFit'
<1> SUFFICES ASSUME NEW c \in Corr
             PROVE  Fits(chains[c], fill_style[c], executed'[c], Reduced(c, FillStates))
  BY DEF ChainsFit, Reduced
<1>1. Fits(chains[c], fill_style[c], executed[c], Reduced(c, FillStates))
  BY HappenedParts DEF ChainsFit
<1>2. chains[c].filled \in Nat /\ executed[c] \in Nat
  BY LifecycleAssumption DEF TypeOK, Chain
<1> QED
  BY <1>1, <1>2 DEF Fits

\* Something happens to an order that is no execution.
LEMMA HappensInv ==
  ASSUME LifecycleInv, NEW c \in Corr, NEW kind \in Kinds \ FillStates, Happens(c, kind)
  PROVE  LifecycleInv'
<1>q. Qty \in Nat
  BY LifecycleAssumption
<1>p. PICK named \in BOOLEAN : Publish(c, kind, 0, named)
  <2>1. Publish(c, kind, 0, FALSE)
    BY Zenon DEF Happens
  <2> QED
    BY <2>1, Zenon
<1>r. 0 \in 0..Qty /\ kind \in Kinds
  BY <1>q
<1>1. PICK e \in Event : /\ e.corr = c /\ e.kind = kind /\ e.exec = 0
                         /\ published' = published \union {e}
                         /\ published' \subseteq Event
                         /\ IsFiniteSet(published')
  BY <1>p, <1>r, PublishKeeps
<1>2. UNCHANGED << fill_style, executed, republished, reducerVars, in_order >>
  BY DEF Happens
<1>3. TypeOK'
  BY <1>1, <1>2 DEF TypeOK, reducerVars
<1>4. PublishedHappened'
  BY <1>1, <1>2, HappenedParts DEF PublishedHappened
<1>5. ChainsFit'
  BY <1>q, <1>2, ChainsStayFit DEF reducerVars, TypeOK
<1> QED
  BY <1>1, <1>3, <1>4, <1>5, HappenedPartsNext

\* The broker executes one more lot.
LEMMA ExecuteInv ==
  ASSUME LifecycleInv, NEW c \in Corr, NEW named \in BOOLEAN, Execute(c, named)
  PROVE  LifecycleInv'
<1>q. Qty \in Nat
  BY LifecycleAssumption
<1> DEFINE n == executed[c] + 1
           kind == IF n = Qty THEN "Filled" ELSE "PartiallyFilled"
<1>0. n \in 1..Qty /\ kind \in FillStates
  BY <1>q DEF Execute, Working, TypeOK
<1>1. PICK e \in Event : /\ e.corr = c /\ e.kind = kind /\ e.exec = n
                         /\ published' = published \union {e}
                         /\ published' \subseteq Event
                         /\ IsFiniteSet(published')
  BY <1>q, <1>0, PublishKeeps DEF Execute
<1>2. /\ executed' = [executed EXCEPT ![c] = n]
      /\ UNCHANGED << fill_style, republished, reducerVars, in_order >>
  BY DEF Execute
<1>3. \A d \in Corr : executed[d] \in Nat /\ executed'[d] \in 0..Qty
                      /\ executed[d] <= executed'[d]
  BY <1>q, <1>0, <1>2 DEF TypeOK
<1>4. TypeOK'
  BY <1>1, <1>2, <1>3 DEF TypeOK, reducerVars
<1>5. \A f \in published' :
        IF f.kind \in FillStates THEN f.exec \in 1..executed'[f.corr] ELSE f.exec = 0
  <2> SUFFICES ASSUME NEW f \in published'
               PROVE IF f.kind \in FillStates THEN f.exec \in 1..executed'[f.corr]
                                              ELSE f.exec = 0
    OBVIOUS
  <2>1. CASE f = e
    BY <1>0, <1>1, <1>2, <2>1 DEF TypeOK
  <2>2. CASE f \in published
    <3>1. f.corr \in Corr
      BY <2>2 DEF TypeOK, Event
    <3> QED
      BY <1>3, <2>2, <3>1, <1>q, HappenedParts DEF PublishedHappened
  <2> QED
    BY <1>1, <2>1, <2>2
<1>6. PublishedHappened'
  <2>1. \A f \in published : f.kind \in FillStates /\ f.corr = c => f.exec # n
    BY <1>q, <1>3, HappenedParts DEF PublishedHappened
  <2>2. \A f, g \in {h \in published' : h.kind \in FillStates} :
          f.corr = g.corr /\ f.exec = g.exec => f.named = g.named
    BY <1>1, <2>1, HappenedParts DEF PublishedHappened
  <2> QED
    BY <1>5, <2>2 DEF PublishedHappened
<1>7. ChainsFit'
  BY <1>q, <1>2, <1>3, ChainsStayFit DEF reducerVars
<1> QED
  BY <1>1, <1>4, <1>6, <1>7, HappenedPartsNext

\* A producer reports an event again.
LEMMA RepublishInv ==
  ASSUME LifecycleInv, NEW c \in Corr, NEW f \in EventsOf(c), Republish(c, f)
  PROVE  LifecycleInv'
<1>q. Qty \in Nat /\ MaxRepublish \in Nat
  BY LifecycleAssumption
<1>0. f \in published /\ f \in Event /\ f.corr = c
  BY DEF EventsOf, TypeOK
<1>1. PICK e \in Event : /\ e.corr = c /\ e.kind = f.kind /\ e.exec = f.exec
                         /\ e.named = f.named
                         /\ published' = published \union {e}
                         /\ published' \subseteq Event
                         /\ IsFiniteSet(published')
  BY <1>0, PublishKeeps DEF Republish, Event
<1>2. /\ republished' = [republished EXCEPT ![c] = @ + 1]
      /\ republished[c] < MaxRepublish
      /\ UNCHANGED << fill_style, executed, reducerVars, in_order >>
  BY DEF Republish
<1>3. republished' \in [Corr -> 0..MaxRepublish]
  BY <1>q, <1>2 DEF TypeOK
<1>4. TypeOK'
  BY <1>1, <1>2, <1>3 DEF TypeOK, reducerVars
<1>5. PublishedHappened'
  BY <1>0, <1>1, <1>2, HappenedParts DEF PublishedHappened
<1>6. ChainsFit'
  BY <1>q, <1>2, ChainsStayFit DEF reducerVars, TypeOK
<1> QED
  BY <1>1, <1>4, <1>5, <1>6, HappenedPartsNext

\* The fills an order has reduced, and what reducing e adds to them.
LEMMA ReducedFills ==
  ASSUME LifecycleInv, NEW c \in Corr
  PROVE  /\ FillsWithin(Reduced(c, FillStates), executed[c])
         /\ Good(chains[c], fill_style[c], executed[c], Reduced(c, FillStates))
         /\ \A e \in published : seen' = seen \union {e} =>
              \A kinds : Reduced(c, kinds)' =
                IF e.corr = c /\ e.kind \in kinds
                  THEN Reduced(c, kinds) \union {e} ELSE Reduced(c, kinds)
<1>1. IsFiniteSet(Reduced(c, FillStates))
  BY FS_Subset DEF Reduced, TypeOK
<1>2. \A f \in Reduced(c, FillStates) : f.exec \in 1..executed[c] /\ f.named \in BOOLEAN
  BY HappenedParts DEF PublishedHappened, Reduced, TypeOK, Event
<1>3. Good(chains[c], fill_style[c], executed[c], Reduced(c, FillStates))
  BY HappenedParts DEF ChainsFit, Good, TypeOK
<1> QED
  BY <1>1, <1>2, <1>3 DEF FillsWithin, Reduced

\* Whatever its payload, a reduced event replaces the chain of its order by one
\* that fits and indexes at most its order.
LEMMA ReduceSteps ==
  ASSUME LifecycleInv, NEW e \in published, Reduce(e)
  PROVE  /\ Receive(e)
         /\ \E ch : Good(ch, fill_style[e.corr], executed[e.corr],
                         Reduced(e.corr, FillStates)') /\ Update(e.corr, ch)
         /\ IndexOrder(e.corr) \/ order_id_index' = order_id_index
         /\ e.kind \in OrderStates => IndexOrder(e.corr)
<1>q. FillStyles \subseteq QuantityStyles
  BY LifecycleAssumption
<1>a. Receive(e)
  BY DEF Reduce, ReduceSignalGenerated, ReduceIntentCreated, ReduceRiskDecision,
     ReduceOrderSubmitRequested, ReduceOrderSubmitted, ReduceBrokerAck, ReduceOrderFill,
     ReduceCancelStep, ReduceOrderEnded
<1> DEFINE c == e.corr  ch == chains[c]  style == fill_style[c]  n == executed[c]
           fills == Reduced(c, FillStates)
<1>0. /\ c \in Corr /\ style \in QuantityStyles /\ n \in 0..Qty /\ FillsWithin(fills, n)
      /\ Good(ch, style, n, fills)
      /\ e.kind \in FillStates => e.exec \in 1..n
      /\ e.named \in BOOLEAN
      /\ e \notin fills
  BY <1>q, <1>a, HappenedParts, ReducedFills
     DEF TypeOK, Event, PublishedHappened, Receive, Reduced
<1>b. /\ e.kind \notin FillStates => fills' = fills
      /\ e.kind \in FillStates => fills' = fills \union {e}
  BY <1>0, <1>a, ReducedFills DEF Receive
<1> HIDE DEF c, ch, style, n, fills
<1>1. CASE ReduceSignalGenerated(e)
  BY <1>0, <1>a, <1>b, <1>1, HandlersFit DEF ReduceSignalGenerated, c, ch, style, n, fills
<1>2. CASE ReduceIntentCreated(e)
  BY <1>0, <1>a, <1>b, <1>2, HandlersFit DEF ReduceIntentCreated, c, ch, style, n, fills
<1>3. CASE ReduceRiskDecision(e)
  BY <1>0, <1>a, <1>b, <1>3, HandlersFit DEF ReduceRiskDecision, c, ch, style, n, fills
<1>4. CASE ReduceOrderSubmitRequested(e)
  BY <1>0, <1>a, <1>b, <1>4, HandlersFit DEF ReduceOrderSubmitRequested, c, ch, style, n, fills
<1>5. CASE ReduceOrderSubmitted(e)
  BY <1>0, <1>a, <1>b, <1>5, HandlersFit DEF ReduceOrderSubmitted, c, ch, style, n, fills
<1>6. CASE ReduceBrokerAck(e)
  BY <1>0, <1>a, <1>b, <1>6, HandlersFit DEF ReduceBrokerAck, c, ch, style, n, fills
<1>7. CASE ReduceOrderFill(e)
  <2>1. /\ e.kind \in FillStates /\ IndexOrder(c)
        /\ Update(c, OnFill(ch, style, e, e.kind))
    BY <1>7 DEF ReduceOrderFill, c, ch, style
  <2>2. \A fill, next :
          (/\ fill \notin fills /\ fill.exec \in 1..n /\ fill.named \in BOOLEAN
           /\ next \in FillStates) =>
             Good(OnFill(ch, style, fill, next), style, n, fills \union {fill})
    BY <1>0, HandlersFit
  <2>3. Good(OnFill(ch, style, e, e.kind), style, n, fills')
    BY <1>0, <1>b, <2>1, <2>2
  <2> QED
    BY <1>a, <2>1, <2>3 DEF c, ch, style, n, fills
<1>8. CASE ReduceCancelStep(e)
  BY <1>0, <1>a, <1>b, <1>8, HandlersFit DEF ReduceCancelStep, c, ch, style, n, fills
<1>9. CASE ReduceOrderEnded(e)
  BY <1>0, <1>a, <1>b, <1>9, HandlersFit DEF ReduceOrderEnded, c, ch, style, n, fills
<1> QED
  BY <1>1, <1>2, <1>3, <1>4, <1>5, <1>6, <1>7, <1>8, <1>9 DEF Reduce

\* The reducer takes one of the published events.
LEMMA ReduceInv ==
  ASSUME LifecycleInv, NEW e \in published, Reduce(e)
  PROVE  LifecycleInv'
<1>0. e.corr \in Corr
  BY DEF TypeOK, Event
<1>1. PICK ch : /\ Good(ch, fill_style[e.corr], executed[e.corr], Reduced(e.corr, FillStates)')
                /\ Update(e.corr, ch)
  BY ReduceSteps
<1>2. seen' = seen \union {e} /\ UNCHANGED << fill_style, published, executed, republished >>
  BY ReduceSteps DEF Receive, marketVars
<1>3. order_id_index' \subseteq Corr
  BY <1>0, ReduceSteps DEF IndexOrder, TypeOK
<1>5. in_order' \in [Corr -> BOOLEAN]
  BY ReduceSteps, Zenon DEF Receive, TypeOK
<1>6. chains' = [chains EXCEPT ![e.corr] = ch] /\ ch \in Chain
  BY <1>1 DEF Update, Good
<1>7. TypeOK'
  <2>1. chains' \in [Corr -> Chain]
    BY <1>6 DEF TypeOK
  <2>2. seen' \subseteq published'
    BY <1>2 DEF TypeOK
  <2> QED
    BY <1>2, <1>3, <1>5, <2>1, <2>2 DEF TypeOK
<1>8. ChainsFit'
  <2> SUFFICES ASSUME NEW d \in Corr
               PROVE  Fits(chains'[d], fill_style[d], executed[d], Reduced(d, FillStates)')
    BY <1>2 DEF ChainsFit
  <2>1. CASE d = e.corr
    BY <1>0, <1>1, <1>6, <2>1 DEF TypeOK, Good
  <2>2. CASE d # e.corr
    <3>1. Reduced(d, FillStates)' = Reduced(d, FillStates)
      BY <1>2, <2>2, ReducedFills
    <3>2. chains'[d] = chains[d]
      BY <1>6, <2>2 DEF TypeOK
    <3> QED
      BY <3>1, <3>2, ReducedFills DEF Good
  <2> QED
    BY <2>1, <2>2
<1>9. PublishedHappened'
  BY <1>2, HappenedParts DEF PublishedHappened
<1> QED
  BY <1>2, <1>7, <1>8, <1>9, HappenedPartsNext

\* Every step preserves the invariant.
LEMMA StepInv == LifecycleInv /\ [Next]_vars => LifecycleInv'
<1> SUFFICES ASSUME LifecycleInv, [Next]_vars PROVE LifecycleInv'
  OBVIOUS
<1>1. ASSUME NEW c \in Corr, NEW kind \in Kinds \ FillStates, Happens(c, kind)
      PROVE  LifecycleInv'
  BY <1>1, HappensInv
<1>2. ASSUME NEW c \in Corr, NEW named \in BOOLEAN, Execute(c, named) PROVE LifecycleInv'
  BY <1>2, ExecuteInv
<1>3. ASSUME NEW c \in Corr, NEW e \in EventsOf(c), Republish(c, e) PROVE LifecycleInv'
  BY <1>3, RepublishInv
<1>4. ASSUME NEW e \in published, Reduce(e) PROVE LifecycleInv'
  BY <1>4, ReduceInv
<1>5. CASE UNCHANGED vars
  BY <1>5 DEF vars, marketVars, reducerVars, TypeOK, ExecutionsHappened, Reduced
<1> QED
  BY <1>1, <1>2, <1>3, <1>4, <1>5 DEF Next

-----------------------------------------------------------------------------
\* The inductive invariant holds in every reachable state.
THEOREM LifecycleInvariant == Spec => []LifecycleInv
  BY InitInv, StepInv, PTL DEF Spec

\* Type correctness: whatever is delivered, in whatever order, the reducer's
\* order state is of the type OrderStore and OrderChain give it.
THEOREM LifecycleTypeCorrect == Spec => []TypeOK
<1>1. LifecycleInv => TypeOK
  OBVIOUS
<1> QED
  BY <1>1, LifecycleInvariant, PTL

\* Fills of which none names an execution twice, with and without its id: at most n
\* executions are reported in all.
LEMMA LotsAddUp ==
  ASSUME NEW n \in Nat, NEW fills, FillsWithin(fills, n),
         \A e, f \in fills : e.exec = f.exec => e.named = f.named
  PROVE  /\ Cardinality(Lots(Named(fills))) + Cardinality(Lots(Unnamed(fills)))
              = Cardinality(Lots(fills))
         /\ Cardinality(Lots(fills)) <= n
         /\ Cardinality(Lots(fills)) \in Nat /\ Cardinality(Lots(Unnamed(fills))) \in Nat
         /\ Cardinality(Lots(Named(fills))) \in Nat
<1> DEFINE A == Lots(Named(fills))  B == Lots(Unnamed(fills))
<1>1. A \union B = Lots(fills) /\ A \intersect B = {}
  BY DEF Lots, Named, Unnamed, FillsWithin
<1>2. Lots(fills) \subseteq 1..n
  BY DEF Lots, FillsWithin
<1>3. IsFiniteSet(1..n) /\ Cardinality(1..n) = n
  BY FS_Interval
<1>4. IsFiniteSet(Lots(fills)) /\ Cardinality(Lots(fills)) <= n
  BY <1>2, <1>3, FS_Subset
<1> HIDE DEF A, B
<1>5. IsFiniteSet(A) /\ IsFiniteSet(B)
  BY <1>1, <1>4, FS_Subset
<1>6. Cardinality(A) \in Nat /\ Cardinality(B) \in Nat /\ Cardinality(Lots(fills)) \in Nat
  BY <1>4, <1>5, FS_CardinalityType
<1>7. Cardinality(A \union B) = Cardinality(A) + Cardinality(B) - Cardinality(A \intersect B)
  BY <1>5, FS_Union
<1>8. Cardinality(A) + Cardinality(B) = Cardinality(Lots(fills))
  BY <1>1, <1>6, <1>7, FS_EmptySet
<1> QED
  BY <1>4, <1>6, <1>8 DEF A, B

\* The fills an order has reduced are reported one way each.
LEMMA FillsAddUp ==
  ASSUME LifecycleInv, NEW c \in Corr
  PROVE  LET fills == Reduced(c, FillStates) IN
         /\ Cardinality(Lots(Named(fills))) + Cardinality(Lots(Unnamed(fills)))
              = Cardinality(Lots(fills))
         /\ Cardinality(Lots(fills)) <= executed[c]
         /\ Cardinality(Lots(fills)) \in Nat /\ Cardinality(Lots(Unnamed(fills))) \in Nat
         /\ Cardinality(Lots(Named(fills))) \in Nat
         /\ Cardinality(Unnamed(fills)) \in Nat /\ executed[c] \in Nat
<1> DEFINE fills == Reduced(c, FillStates)
<1>1. executed[c] \in Nat
  BY LifecycleAssumption DEF TypeOK
<1>2. FillsWithin(fills, executed[c])
  BY ReducedFills
<1>3. \A e, f \in fills : e.exec = f.exec => e.named = f.named
  BY HappenedParts DEF PublishedHappened, Reduced, TypeOK
<1> HIDE DEF fills
<1>4. Cardinality(Unnamed(fills)) \in Nat
  BY <1>1, <1>2, FillCounts
<1>5. /\ Cardinality(Lots(Named(fills))) + Cardinality(Lots(Unnamed(fills)))
           = Cardinality(Lots(fills))
      /\ Cardinality(Lots(fills)) <= executed[c]
      /\ Cardinality(Lots(fills)) \in Nat /\ Cardinality(Lots(Unnamed(fills))) \in Nat
      /\ Cardinality(Lots(Named(fills))) \in Nat
  BY <1>1, <1>2, <1>3, LotsAddUp
<1> QED
  BY <1>1, <1>4, <1>5 DEF fills

\* However executions are lost, reordered, or reported again, apply_fill shows more
\* filled than the broker executed by no more than the increments without
\* execution_id it took again, and never more of what carries one.
THEOREM NeverOverfilled == Spec => []FilledNeverExceedsExecuted
<1>1. LifecycleInv => FilledNeverExceedsExecuted
  <2> SUFFICES ASSUME LifecycleInv, NEW c \in Corr
               PROVE  chains[c].filled <= executed[c] + CountedAgain(c)
    BY DEF FilledNeverExceedsExecuted
  <2>1. Fits(chains[c], fill_style[c], executed[c], Reduced(c, FillStates))
    BY ReducedFills DEF Good
  <2>2. fill_style[c] \in QuantityStyles
    BY LifecycleAssumption DEF TypeOK
  <2> QED
    BY <2>1, <2>2, FillsAddUp DEF Fits, CountedAgain, QuantityStyles
<1> QED
  BY <1>1, LifecycleInvariant, PTL

\* An order that any of its order events reached can be looked up by account
\* and order id: every handler that takes one calls index_order.
THEOREM OrdersAreIndexed == Spec => []IndexComplete
<1>1. Init => IndexComplete
  BY DEF Init, IndexComplete, Reduced
<1>2. LifecycleInv /\ IndexComplete /\ [Next]_vars => IndexComplete'
  <2> SUFFICES ASSUME LifecycleInv, IndexComplete, [Next]_vars,
                      NEW c \in Corr, NEW f \in seen', f.corr = c, f.kind \in OrderStates
               PROVE  c \in order_id_index'
    BY DEF IndexComplete, Reduced
  <2>1. CASE UNCHANGED << seen, order_id_index >>
    BY <2>1 DEF IndexComplete, Reduced
  <2>2. ASSUME NEW e \in published, Reduce(e) PROVE c \in order_id_index'
    <3>1. seen' = seen \union {e}
      BY <2>2, ReduceSteps DEF Receive
    <3>2. order_id_index \subseteq order_id_index'
      BY <2>2, ReduceSteps DEF IndexOrder
    <3>3. CASE f \in seen
      BY <3>2, <3>3 DEF IndexComplete, Reduced
    <3>4. CASE f = e
      BY <2>2, <3>4, ReduceSteps DEF IndexOrder
    <3> QED
      BY <3>1, <3>3, <3>4
  <2> QED
    BY <2>1, <2>2 DEF Next, Happens, Execute, Republish, vars, reducerVars
<1> QED
  BY <1>1, <1>2, LifecycleInvariant, PTL DEF Spec

-----------------------------------------------------------------------------
(* QuietReasonIsCurrent.  What a handler does to a chain, as far as the     *)
(* reason of the remaining quantity is concerned.                           *)

Refreshing == {"SubmitRequested", "BrokerAckReceived"} \union FillStates

SameQuantities(ch, old) ==
  /\ ch.total = old.total /\ ch.leaves = old.leaves /\ ch.filled = old.filled
  /\ ch.reason = old.reason

\* The chain before the transition that a handler ends with.
Prepared(old, ch, kind) ==
  /\ ch \in Chain /\ ch.state = old.state
  /\ ch.anomalies = {} => old.anomalies = {}
  /\ kind \in Refreshing => ch.reason = QuantityReason(ch)
  /\ kind \in OrderStates \ Refreshing => SameQuantities(ch, old)

Handled(old, ch, kind) ==
  /\ ch.state = kind
  /\ ch.anomalies = {} => old.anomalies = {} /\ ValidTransition(old.state, kind)
  /\ kind \in Refreshing => ch.reason = QuantityReason(ch)
  /\ kind \in OrderStates \ Refreshing => SameQuantities(ch, old)

\* The transition at the end of a handler, after what it prepared.
LEMMA TransitionHandles ==
  ASSUME NEW old, NEW ch, NEW kind \in Kinds, Prepared(old, ch, kind)
  PROVE  Handled(old, TransitionState(ch, kind), kind)
<1> DEFINE new == TransitionState(ch, kind)
<1>1. /\ new.state = kind /\ SameQuantities(new, ch)
      /\ new.anomalies = {} => ch.anomalies = {} /\ ValidTransition(ch.state, kind)
  <2>1. CASE ValidTransition(ch.state, kind)
    BY <2>1 DEF TransitionState, Prepared, Chain, SameQuantities
  <2>2. CASE ~ ValidTransition(ch.state, kind)
    BY <2>2 DEF TransitionState, Flag, Prepared, Chain, SameQuantities
  <2> QED
    BY <2>1, <2>2
<1>2. QuantityReason(new) = QuantityReason(ch)
  BY <1>1 DEF SameQuantities, QuantityReason, TotalQuantity
<1> HIDE DEF new
<1>3. Handled(old, new, kind)
  BY <1>1, <1>2 DEF Prepared, Handled, SameQuantities
<1> QED
  BY <1>3 DEF new

\* A refreshed reason is the one the quantities call for.
LEMMA RefreshMakesCurrent ==
  ASSUME NEW ch \in Chain
  PROVE  LET new == RefreshQuantityReason(ch) IN
         /\ new \in Chain /\ new.reason = QuantityReason(new)
         /\ new.state = ch.state /\ new.anomalies = ch.anomalies
<1> DEFINE new == RefreshQuantityReason(ch)
<1>1. new \in Chain
  BY ReasonType
<1>2. /\ new.reason = QuantityReason(ch)
      /\ new.state = ch.state /\ new.anomalies = ch.anomalies
      /\ new.total = ch.total /\ new.leaves = ch.leaves /\ new.filled = ch.filled
  BY DEF RefreshQuantityReason, Chain
<1>3. QuantityReason(new) = QuantityReason(ch)
  BY <1>2 DEF QuantityReason, TotalQuantity
<1> QED
  BY <1>1, <1>2, <1>3

\* Each handler of OrderLifecycle, whatever the chain.
LEMMA HandlersHandle ==
  ASSUME NEW ch \in Chain, NEW style \in QuantityStyles
  PROVE  /\ Handled(ch, OnSignal(ch), "SignalGenerated")
         /\ Handled(ch, OnIntent(ch), "IntentCreated")
         /\ \A kind \in {"RiskApproved", "RiskRejected"} :
              Handled(ch, OnRiskDecision(ch, kind), kind)
         /\ Handled(ch, OnSubmitRequested(ch, style), "SubmitRequested")
         /\ Handled(ch, OnSubmitted(ch), "SubmittedToBroker")
         /\ Handled(ch, OnBrokerAck(ch, style), "BrokerAckReceived")
         /\ \A fill, kind : (fill.exec \in 1..Qty /\ kind \in FillStates) =>
              Handled(ch, OnFill(ch, style, fill, kind), kind)
         /\ \A kind \in {"CancelRequested", "CancelRejected"} :
              Handled(ch, OnCancelStep(ch, kind), kind)
         /\ \A kind \in {"Cancelled", "BrokerRejected"} :
              Handled(ch, OnTerminal(ch, kind), kind)
<1>q. Qty \in Nat
  BY LifecycleAssumption
<1>c. ch \in Chain
  OBVIOUS
<1>r. Reported(style, Qty) \in {None, Qty}
  BY DEF Reported
<1> DEFINE named == [ch EXCEPT !.order_id = TRUE]
<1>n. /\ named \in Chain /\ named.state = ch.state /\ named.anomalies = ch.anomalies
      /\ SameQuantities(named, ch) /\ SameFills(named, ch)
  BY <1>c DEF Chain, SameQuantities, SameFills
<1>1. \A kind \in {"SignalGenerated", "RiskApproved", "RiskRejected"} :
        Handled(ch, TransitionState(ch, kind), kind)
  BY <1>c, TransitionHandles DEF Prepared, Refreshing
<1>2. Handled(ch, OnIntent(ch), "IntentCreated")
  <2> DEFINE sized == [ch EXCEPT !.total = IF @ = None THEN Qty ELSE @]
  <2>1. sized \in Chain /\ sized.state = ch.state /\ sized.anomalies = ch.anomalies
    BY <1>c DEF Chain
  <2> QED
    BY <2>1, TransitionHandles DEF OnIntent, Prepared, Refreshing
<1>3. Handled(ch, OnSubmitRequested(ch, style), "SubmitRequested")
  <2> DEFINE quantity == Reported(style, Qty)
             sized == [ch EXCEPT !.order_id = TRUE, !.cum = 0, !.leaves = quantity,
                                 !.total = IF quantity # None THEN quantity ELSE @]
  <2>1. /\ sized \in Chain /\ sized.state = ch.state /\ sized.anomalies = ch.anomalies
    <3>1. \A C \in {None} \union Nat, L \in {None} \union 0..Qty, T \in {None, Qty}, r \in Chain :
            [r EXCEPT !.order_id = TRUE, !.cum = C, !.leaves = L, !.total = T] \in Chain
      BY DEF Chain
    <3>2. sized.state = ch.state /\ sized.anomalies = ch.anomalies
      BY <1>c DEF Chain
    <3>3. quantity \in {None} \union 0..Qty /\ 0 \in {None} \union Nat
      BY <1>q, <1>r
    <3>4. ch.total \in {None, Qty}
      BY <1>c DEF Chain
    <3> QED
      BY <1>c, <1>r, <3>1, <3>2, <3>3, <3>4
  <2> HIDE DEF sized
  <2>2. Prepared(ch, RefreshQuantityReason(sized), "SubmitRequested")
    BY <2>1, RefreshMakesCurrent DEF Prepared, Refreshing
  <2> QED
    BY <2>2, TransitionHandles DEF OnSubmitRequested, sized
<1>4. \A kind \in {"SubmittedToBroker", "CancelRequested", "CancelRejected"} :
        Handled(ch, TransitionState(named, kind), kind)
  BY <1>n, TransitionHandles DEF Prepared, Refreshing
<1>5. Handled(ch, OnBrokerAck(ch, style), "BrokerAckReceived")
  <2> DEFINE sized == [ch EXCEPT !.order_id = TRUE, !.leaves = Reported(style, Qty)]
  <2>1. sized \in Chain /\ sized.state = ch.state /\ sized.anomalies = ch.anomalies
    <3>1. \A L \in {None} \union 0..Qty, r \in Chain :
            [r EXCEPT !.order_id = TRUE, !.leaves = L] \in Chain
      BY DEF Chain
    <3>2. Reported(style, Qty) \in {None} \union 0..Qty
      BY <1>q, <1>r
    <3>3. sized.state = ch.state /\ sized.anomalies = ch.anomalies
      BY <1>c DEF Chain
    <3> QED
      BY <1>c, <3>1, <3>2, <3>3
  <2> HIDE DEF sized
  <2>2. Prepared(ch, RefreshQuantityReason(sized), "BrokerAckReceived")
    BY <2>1, RefreshMakesCurrent DEF Prepared, Refreshing
  <2> QED
    BY <2>2, TransitionHandles DEF OnBrokerAck, sized
<1>6. ASSUME NEW fill, NEW kind, fill.exec \in 1..Qty, kind \in FillStates
      PROVE  Handled(ch, OnFill(ch, style, fill, kind), kind)
  <2> DEFINE filled == ApplyFill(named, style, fill)
             applied == RefreshQuantityReason(filled)
             closed == [applied EXCEPT !.terminal_ts = @ \/ kind = "Filled"]
  <2>1. filled \in Chain
    BY <1>n, <1>6, ApplyFillType
  <2>2. filled.state = ch.state /\ (filled.anomalies = {} => ch.anomalies = {})
    BY <1>n DEF ApplyFill, Flag, Chain
  <2> HIDE DEF filled
  <2>3. /\ applied \in Chain /\ applied.reason = QuantityReason(applied)
        /\ applied.state = ch.state /\ (applied.anomalies = {} => ch.anomalies = {})
    BY <2>1, <2>2, RefreshMakesCurrent
  <2> HIDE DEF applied
  <2>4. /\ closed \in Chain /\ SameQuantities(closed, applied)
        /\ closed.state = applied.state /\ closed.anomalies = applied.anomalies
    BY <2>3 DEF Chain, SameQuantities
  <2> HIDE DEF closed
  <2>5. Prepared(ch, closed, kind)
    BY <1>6, <2>3, <2>4 DEF Prepared, Refreshing, SameQuantities, QuantityReason, TotalQuantity
  <2> QED
    BY <1>6, <2>5, TransitionHandles DEF OnFill, closed, applied, filled
<1>7. \A kind \in {"Cancelled", "BrokerRejected"} : Handled(ch, OnTerminal(ch, kind), kind)
  <2> DEFINE ended == [ch EXCEPT !.order_id = TRUE, !.terminal_ts = TRUE]
  <2>1. /\ ended \in Chain /\ ended.state = ch.state /\ ended.anomalies = ch.anomalies
        /\ SameQuantities(ended, ch)
    BY <1>c DEF Chain, SameQuantities
  <2> QED
    BY <2>1, TransitionHandles DEF OnTerminal, Prepared, Refreshing
<1> QED
  BY <1>1, <1>2, <1>3, <1>4, <1>5, <1>6, <1>7 DEF OnSignal, OnRiskDecision, OnSubmitted, OnCancelStep

\* A reduced event changes the one chain it is about.
LEMMA ReduceHandles ==
  ASSUME LifecycleInv, NEW e \in published, Reduce(e)
  PROVE  \E ch : Handled(chains[e.corr], ch, e.kind) /\ Update(e.corr, ch)
<1> DEFINE c == e.corr  ch == chains[c]  style == fill_style[c]
<1>0. /\ style \in QuantityStyles /\ ch \in Chain
      /\ e.kind \in FillStates => e.exec \in 1..Qty
  BY LifecycleAssumption, HappenedParts DEF TypeOK, PublishedHappened, Event
<1> HIDE DEF c, ch, style
<1>1. CASE ReduceSignalGenerated(e) \/ ReduceIntentCreated(e) \/ ReduceRiskDecision(e)
  BY <1>0, <1>1, HandlersHandle
     DEF ReduceSignalGenerated, ReduceIntentCreated, ReduceRiskDecision, c, ch, style
<1>2. CASE ReduceOrderSubmitRequested(e) \/ ReduceOrderSubmitted(e) \/ ReduceBrokerAck(e)
  BY <1>0, <1>2, HandlersHandle
     DEF ReduceOrderSubmitRequested, ReduceOrderSubmitted, ReduceBrokerAck, c, ch, style
<1>3. CASE ReduceOrderFill(e)
  BY <1>0, <1>3, HandlersHandle DEF ReduceOrderFill, c, ch, style
<1>4. CASE ReduceCancelStep(e) \/ ReduceOrderEnded(e)
  BY <1>0, <1>4, HandlersHandle DEF ReduceCancelStep, ReduceOrderEnded, c, ch, style
<1> QED
  BY <1>1, <1>2, <1>3, <1>4 DEF Reduce

\* A quiet chain that a quantity reached has left the early states for good, so no
\* intent can change its total behind the reason.
QuietReasonInv ==
  \A c \in Corr :
    (Quiet(c) /\ Reduced(c, Refreshing) # {}) =>
      /\ chains[c].reason = QuantityReason(chains[c])
      /\ chains[c].state \in OrderStates

\* The reason of a quiet chain is current after every handler, refreshed or not.
LEMMA ReduceKeepsReason ==
  ASSUME LifecycleInv, QuietReasonInv, NEW e \in published, Reduce(e), NEW c \in Corr,
         Quiet(c)', Reduced(c, Refreshing)' # {}
  PROVE  chains'[c].reason = QuantityReason(chains'[c]) /\ chains'[c].state \in OrderStates
<1>1. PICK new : Handled(chains[e.corr], new, e.kind) /\ Update(e.corr, new)
  BY ReduceHandles
<1>2. chains \in [Corr -> Chain] /\ e.corr \in Corr /\ e.kind \in Kinds
  BY DEF LifecycleInv, TypeOK, Event
<1>3. seen' = seen \union {e}
  BY ReduceSteps DEF Receive
<1>4. CASE c # e.corr
  <2>1. chains'[c] = chains[c]
    BY <1>1, <1>2, <1>4 DEF Update
  <2>2. Reduced(c, Refreshing) # {}
    BY <1>3, <1>4 DEF Reduced
  <2> QED
    BY <2>1, <2>2 DEF QuietReasonInv, Quiet
<1>5. CASE c = e.corr
  <2>1. chains'[c] = new
    BY <1>1, <1>2, <1>5 DEF Update
  <2>2. Quiet(c) /\ ValidTransition(chains[c].state, e.kind)
    BY <1>1, <1>5, <2>1 DEF Quiet, Handled
  <2>3. CASE e.kind \in Refreshing
    BY <1>1, <2>1, <2>3 DEF Handled, Refreshing
  <2>4. CASE e.kind \notin Refreshing
    <3>1. Reduced(c, Refreshing) # {}
      BY <1>3, <2>4 DEF Reduced
    <3>2. chains[c].reason = QuantityReason(chains[c]) /\ chains[c].state \in OrderStates
      BY <2>2, <3>1 DEF QuietReasonInv
    <3>3. e.kind \in OrderStates
      BY <1>2, <2>2, <3>2 DEF ValidTransition, ValidNext
    <3>4. new.state = e.kind /\ SameQuantities(new, chains[c])
      BY <1>1, <1>5, <2>4, <3>3 DEF Handled
    <3> QED
      BY <2>1, <3>2, <3>3, <3>4 DEF SameQuantities, QuantityReason, TotalQuantity
  <2> QED
    BY <2>3, <2>4
<1> QED
  BY <1>4, <1>5

\* The reason shown for the remaining quantity of a chain without anomalies is the
\* one its quantities call for, although only some handlers refresh it.
THEOREM QuietReasonsAreCurrent == Spec => []QuietReasonIsCurrent
<1>1. Init => QuietReasonInv
  BY DEF Init, QuietReasonInv, Reduced
<1>2. LifecycleInv /\ QuietReasonInv /\ [Next]_vars => QuietReasonInv'
  <2> SUFFICES ASSUME LifecycleInv, QuietReasonInv, [Next]_vars PROVE QuietReasonInv'
    OBVIOUS
  <2>1. CASE UNCHANGED << seen, chains >>
    BY <2>1 DEF QuietReasonInv, Quiet, Reduced
  <2>2. ASSUME NEW e \in published, Reduce(e) PROVE QuietReasonInv'
    BY <2>2, ReduceKeepsReason DEF QuietReasonInv
  <2> QED
    BY <2>1, <2>2 DEF Next, Happens, Execute, Republish, vars, reducerVars
<1>3. QuietReasonInv => QuietReasonIsCurrent
  BY DEF QuietReasonInv, QuietReasonIsCurrent, Refreshing
<1> QED
  BY <1>1, <1>2, <1>3, LifecycleInvariant, PTL DEF Spec
-----------------------------------------------------------------------------
(* What a handler does to a chain, exactly, as far as QuietIsTruth and      *)
(* UnracedOrderIsQuiet look at it.                                          *)

\* apply_fill takes this fill without an anomaly.
Acceptable(old, style, fill) ==
  /\ fill.named => fill.exec \notin old.execution_ids
  /\ style = "cumulative" => fill.exec >= old.filled

\* All of a handler but its last step, transition_state.
Applied(old, ch, style, kind, fill) ==
  /\ ch \in Chain /\ ch.state = old.state
  /\ ch.terminal_ts <=> (old.terminal_ts \/ kind \in TerminalStates)
  /\ kind \in FillStates =>
       /\ ch.anomalies = {} <=> (old.anomalies = {} /\ Acceptable(old, style, fill))
       /\ ch.anomalies = {} =>
            /\ ch.cum = ch.filled
            /\ style = "cumulative" => ch.filled = fill.exec
  /\ kind \notin FillStates =>
       /\ SameFills(ch, old) /\ ch.anomalies = old.anomalies
       /\ kind # "SubmitRequested" => ch.cum = old.cum

Moves(old, ch, style, kind, fill) ==
  /\ ch.state = kind
  /\ ch.terminal_ts <=> (old.terminal_ts \/ kind \in TerminalStates)
  /\ kind \in FillStates =>
       /\ ch.anomalies = {} <=>
            (old.anomalies = {} /\ Acceptable(old, style, fill) /\ ValidTransition(old.state, kind))
       /\ ch.anomalies = {} =>
            /\ ch.cum = ch.filled
            /\ style = "cumulative" => ch.filled = fill.exec
  /\ kind \notin FillStates =>
       /\ SameFills(ch, old)
       /\ ch.anomalies = {} <=> (old.anomalies = {} /\ ValidTransition(old.state, kind))
       /\ kind # "SubmitRequested" => ch.cum = old.cum

\* The transition at the end of a handler, after the quantities it applied.
LEMMA TransitionMoves ==
  ASSUME NEW old, NEW ch, NEW style, NEW kind \in Kinds, NEW fill,
         Applied(old, ch, style, kind, fill)
  PROVE  Moves(old, TransitionState(ch, kind), style, kind, fill)
<1> DEFINE new == TransitionState(ch, kind)
<1>0. ch \in Chain /\ ch.state = old.state
  BY DEF Applied
<1>1. /\ new.state = kind /\ new.terminal_ts = ch.terminal_ts /\ SameFills(new, ch)
      /\ new.cum = ch.cum
      /\ (new.anomalies = {}) <=> (ch.anomalies = {} /\ ValidTransition(ch.state, kind))
  <2>1. CASE ValidTransition(ch.state, kind)
    BY <1>0, <2>1 DEF TransitionState, Chain, SameFills
  <2>2. CASE ~ ValidTransition(ch.state, kind)
    BY <1>0, <2>2 DEF TransitionState, Flag, Chain, SameFills
  <2> QED
    BY <2>1, <2>2
<1> HIDE DEF new
<1>2. Moves(old, new, style, kind, fill)
  <2>1. new.terminal_ts <=> (old.terminal_ts \/ kind \in TerminalStates)
    BY <1>1 DEF Applied
  <2>2. CASE kind \in FillStates
    BY <1>0, <1>1, <2>1, <2>2 DEF Applied, Moves, SameFills
  <2>3. CASE kind \notin FillStates
    BY <1>0, <1>1, <2>1, <2>3 DEF Applied, Moves, SameFills
  <2> QED
    BY <2>2, <2>3
<1> QED
  BY <1>2 DEF new

\* Refreshing the reason touches nothing Applied looks at.
LEMMA RefreshApplied ==
  ASSUME NEW old, NEW ch, NEW style, NEW kind, NEW fill, Applied(old, ch, style, kind, fill)
  PROVE  Applied(old, RefreshQuantityReason(ch), style, kind, fill)
<1> DEFINE new == RefreshQuantityReason(ch)
<1>0. ch \in Chain
  BY DEF Applied
<1>1. new \in Chain /\ SameFills(new, ch)
  BY <1>0, ReasonType
<1>2. /\ new.state = ch.state /\ new.anomalies = ch.anomalies /\ new.cum = ch.cum
      /\ new.terminal_ts = ch.terminal_ts
  BY <1>0 DEF RefreshQuantityReason, Chain
<1> HIDE DEF new
<1>3. new.terminal_ts <=> (old.terminal_ts \/ kind \in TerminalStates)
  BY <1>2 DEF Applied
<1>4. new.state = old.state
  BY <1>2 DEF Applied
<1>5. new.execution_ids = ch.execution_ids /\ new.filled = ch.filled
  BY <1>1 DEF SameFills
<1>6. kind \in FillStates =>
        /\ new.anomalies = {} <=> (old.anomalies = {} /\ Acceptable(old, style, fill))
        /\ new.anomalies = {} =>
             new.cum = new.filled /\ (style = "cumulative" => new.filled = fill.exec)
  <2> SUFFICES ASSUME kind \in FillStates
               PROVE  /\ new.anomalies = {} <=> (old.anomalies = {} /\ Acceptable(old, style, fill))
                      /\ new.anomalies = {} =>
                           new.cum = new.filled /\ (style = "cumulative" => new.filled = fill.exec)
    OBVIOUS
  <2>1. /\ ch.anomalies = {} <=> (old.anomalies = {} /\ Acceptable(old, style, fill))
        /\ ch.anomalies = {} =>
             ch.cum = ch.filled /\ (style = "cumulative" => ch.filled = fill.exec)
    BY DEF Applied
  <2> QED
    BY <1>2, <1>5, <2>1
<1>7. kind \notin FillStates =>
        /\ SameFills(new, old) /\ new.anomalies = old.anomalies
        /\ kind # "SubmitRequested" => new.cum = old.cum
  BY <1>2, <1>5 DEF Applied, SameFills
<1>8. Applied(old, new, style, kind, fill)
  BY <1>1, <1>3, <1>4, <1>6, <1>7 DEF Applied
<1> QED
  BY <1>8 DEF new

\* A fill is applied without an anomaly exactly if it is acceptable to the chain.
LEMMA ApplyFillApplies ==
  ASSUME NEW old \in Chain, NEW ch \in Chain, NEW style \in QuantityStyles,
         NEW fill, fill.exec \in 1..Qty,
         ch.state = old.state, ch.anomalies = old.anomalies, SameFills(ch, old),
         ch.terminal_ts = old.terminal_ts
  PROVE  LET new == ApplyFill(ch, style, fill) IN
         /\ new \in Chain /\ new.state = old.state /\ new.terminal_ts = old.terminal_ts
         /\ new.anomalies = {} <=> (old.anomalies = {} /\ Acceptable(old, style, fill))
         /\ new.anomalies = {} =>
              new.cum = new.filled /\ (style = "cumulative" => new.filled = fill.exec)
<1> DEFINE new == ApplyFill(ch, style, fill)
<1>q. Qty \in Nat
  BY LifecycleAssumption
<1>0. new \in Chain
  BY ApplyFillType
<1>1. CASE fill.named /\ fill.exec \in ch.execution_ids
  <2>1. new = Flag(ch, "duplicate_execution_id")
    BY <1>1 DEF ApplyFill
  <2>2. new.state = ch.state /\ new.anomalies # {} /\ new.terminal_ts = ch.terminal_ts
    BY <2>1 DEF Flag, Chain
  <2> QED
    BY <1>0, <1>1, <2>2 DEF Acceptable, SameFills
<1>2. CASE ~ (fill.named /\ fill.exec \in ch.execution_ids)
  <2> DEFINE lots == IF style = "cumulative" THEN fill.exec ELSE ch.filled + 1
             flagged == IF lots < ch.filled THEN Flag(ch, "cumulative_fill_regressed") ELSE ch
             leaves == Reported(style, Qty - fill.exec)
             ids == ch.execution_ids \union (IF fill.named THEN {fill.exec} ELSE {})
  <2>2. /\ flagged \in Chain /\ flagged.state = ch.state /\ flagged.terminal_ts = ch.terminal_ts
        /\ (flagged.anomalies = {}) <=> (ch.anomalies = {} /\ ~ lots < ch.filled)
        /\ flagged.execution_ids = ch.execution_ids
    BY DEF Flag, Chain
  <2>1. new = [flagged EXCEPT !.execution_ids = ids,
                              !.filled = lots, !.cum = lots, !.leaves = leaves]
    BY <1>2, <2>2 DEF ApplyFill
  <2>3. (~ lots < ch.filled) <=> (style = "cumulative" => fill.exec >= ch.filled)
    BY <1>q DEF Chain
  <2>4. style = "cumulative" => lots = fill.exec
    OBVIOUS
  <2> HIDE DEF lots, flagged, leaves, ids
  <2>5. /\ new.state = flagged.state /\ new.terminal_ts = flagged.terminal_ts
        /\ new.anomalies = flagged.anomalies
        /\ new.filled = lots /\ new.cum = lots
    BY <2>1, <2>2 DEF Chain
  <2> HIDE DEF new
  <2>6. (new.anomalies = {}) <=> (old.anomalies = {} /\ Acceptable(old, style, fill))
    BY <1>2, <2>2, <2>3, <2>5 DEF Acceptable, SameFills
  <2>7. new.state = old.state /\ new.terminal_ts = old.terminal_ts
    BY <2>2, <2>5
  <2>8. new.anomalies = {} =>
          new.cum = new.filled /\ (style = "cumulative" => new.filled = fill.exec)
    BY <2>4, <2>5
  <2>9. new \in Chain
    BY <1>0 DEF new
  <2> QED
    BY <2>6, <2>7, <2>8, <2>9 DEF new
<1> QED
  BY <1>1, <1>2

\* Each handler of OrderLifecycle, whatever the chain.
LEMMA HandlersMove ==
  ASSUME NEW ch \in Chain, NEW style \in QuantityStyles, NEW fill
  PROVE  /\ Moves(ch, OnSignal(ch), style, "SignalGenerated", fill)
         /\ Moves(ch, OnIntent(ch), style, "IntentCreated", fill)
         /\ \A kind \in {"RiskApproved", "RiskRejected"} :
              Moves(ch, OnRiskDecision(ch, kind), style, kind, fill)
         /\ Moves(ch, OnSubmitRequested(ch, style), style, "SubmitRequested", fill)
         /\ Moves(ch, OnSubmitted(ch), style, "SubmittedToBroker", fill)
         /\ Moves(ch, OnBrokerAck(ch, style), style, "BrokerAckReceived", fill)
         /\ \A kind \in FillStates :
              fill.exec \in 1..Qty => Moves(ch, OnFill(ch, style, fill, kind), style, kind, fill)
         /\ \A kind \in {"CancelRequested", "CancelRejected"} :
              Moves(ch, OnCancelStep(ch, kind), style, kind, fill)
         /\ \A kind \in {"Cancelled", "BrokerRejected"} :
              Moves(ch, OnTerminal(ch, kind), style, kind, fill)
<1>q. Qty \in Nat
  BY LifecycleAssumption
<1>c. ch \in Chain
  OBVIOUS
<1>r. Reported(style, Qty) \in {None, Qty}
  BY DEF Reported
<1> DEFINE named == [ch EXCEPT !.order_id = TRUE]
<1>n. /\ named \in Chain /\ named.state = ch.state /\ named.anomalies = ch.anomalies
      /\ named.terminal_ts = ch.terminal_ts /\ named.cum = ch.cum /\ SameFills(named, ch)
  BY <1>c DEF Chain, SameFills
<1>1. \A kind \in {"SignalGenerated", "RiskApproved", "RiskRejected"} :
        Moves(ch, TransitionState(ch, kind), style, kind, fill)
  <2> SUFFICES ASSUME NEW kind \in {"SignalGenerated", "RiskApproved", "RiskRejected"}
               PROVE  Moves(ch, TransitionState(ch, kind), style, kind, fill)
    OBVIOUS
  <2>1. Applied(ch, ch, style, kind, fill)
    BY <1>c DEF Applied, SameFills
  <2> QED
    BY <2>1, TransitionMoves
<1>2. Moves(ch, OnIntent(ch), style, "IntentCreated", fill)
  <2> DEFINE sized == [ch EXCEPT !.total = IF @ = None THEN Qty ELSE @]
  <2>1. /\ sized \in Chain /\ sized.state = ch.state /\ sized.anomalies = ch.anomalies
        /\ sized.terminal_ts = ch.terminal_ts /\ sized.cum = ch.cum /\ SameFills(sized, ch)
    BY <1>c DEF Chain, SameFills
  <2> HIDE DEF sized
  <2>2. Applied(ch, sized, style, "IntentCreated", fill)
    BY <2>1 DEF Applied
  <2> QED
    BY <2>2, TransitionMoves DEF OnIntent, sized
<1>3. Moves(ch, OnSubmitRequested(ch, style), style, "SubmitRequested", fill)
  <2> DEFINE quantity == Reported(style, Qty)
             total == IF quantity # None THEN quantity ELSE ch.total
             sized == [ch EXCEPT !.order_id = TRUE, !.cum = 0, !.leaves = quantity,
                                 !.total = IF quantity # None THEN quantity ELSE @]
  <2>1. \A C \in {None} \union Nat, L \in {None} \union 0..Qty, T \in {None, Qty}, r \in Chain :
          [r EXCEPT !.order_id = TRUE, !.cum = C, !.leaves = L, !.total = T] \in Chain
    BY DEF Chain
  <2>2. quantity \in {None} \union 0..Qty /\ 0 \in {None} \union Nat
    BY <1>q, <1>r
  <2>3. ch.total \in {None, Qty}
    BY <1>c DEF Chain
  <2>4. total \in {None, Qty}
    BY <1>r, <2>3
  <2>5. sized = [ch EXCEPT !.order_id = TRUE, !.cum = 0, !.leaves = quantity, !.total = total]
    BY <1>c DEF Chain
  <2> HIDE DEF quantity, total, sized
  <2>6. sized \in Chain
    BY <1>c, <2>1, <2>2, <2>4, <2>5
  <2>7. /\ sized.state = ch.state /\ sized.anomalies = ch.anomalies
        /\ sized.terminal_ts = ch.terminal_ts /\ SameFills(sized, ch)
    BY <1>c, <2>5 DEF Chain, SameFills
  <2>8. Applied(ch, sized, style, "SubmitRequested", fill)
    BY <2>6, <2>7 DEF Applied
  <2> QED
    BY <2>8, RefreshApplied, TransitionMoves DEF OnSubmitRequested, sized, quantity
<1>4. \A kind \in {"SubmittedToBroker", "CancelRequested", "CancelRejected"} :
        Moves(ch, TransitionState(named, kind), style, kind, fill)
  <2> SUFFICES ASSUME NEW kind \in {"SubmittedToBroker", "CancelRequested", "CancelRejected"}
               PROVE  Moves(ch, TransitionState(named, kind), style, kind, fill)
    OBVIOUS
  <2>1. Applied(ch, named, style, kind, fill)
    BY <1>n DEF Applied
  <2> QED
    BY <2>1, TransitionMoves
<1>5. Moves(ch, OnBrokerAck(ch, style), style, "BrokerAckReceived", fill)
  <2> DEFINE sized == [ch EXCEPT !.order_id = TRUE, !.leaves = Reported(style, Qty)]
  <2>1. \A L \in {None} \union 0..Qty, r \in Chain :
          [r EXCEPT !.order_id = TRUE, !.leaves = L] \in Chain
    BY DEF Chain
  <2>2. Reported(style, Qty) \in {None} \union 0..Qty
    BY <1>q, <1>r
  <2>3. sized \in Chain
    BY <1>c, <2>1, <2>2
  <2>4. /\ sized.state = ch.state /\ sized.anomalies = ch.anomalies
        /\ sized.terminal_ts = ch.terminal_ts /\ sized.cum = ch.cum /\ SameFills(sized, ch)
    BY <1>c DEF Chain, SameFills
  <2> HIDE DEF sized
  <2>5. Applied(ch, sized, style, "BrokerAckReceived", fill)
    BY <2>3, <2>4 DEF Applied
  <2> QED
    BY <2>5, RefreshApplied, TransitionMoves DEF OnBrokerAck, sized
<1>6. ASSUME NEW kind \in FillStates, fill.exec \in 1..Qty
      PROVE  Moves(ch, OnFill(ch, style, fill, kind), style, kind, fill)
  <2> DEFINE filled == ApplyFill(named, style, fill)
             applied == RefreshQuantityReason(filled)
             closed == [applied EXCEPT !.terminal_ts = @ \/ kind = "Filled"]
  <2> HIDE DEF named
  <2>2. /\ filled \in Chain /\ filled.state = ch.state /\ filled.terminal_ts = ch.terminal_ts
        /\ filled.anomalies = {} <=> (ch.anomalies = {} /\ Acceptable(ch, style, fill))
        /\ filled.anomalies = {} =>
             filled.cum = filled.filled /\ (style = "cumulative" => filled.filled = fill.exec)
    BY <1>c, <1>n, <1>6, ApplyFillApplies
  <2> HIDE DEF filled
  <2>3. /\ applied \in Chain /\ SameFills(applied, filled) /\ applied.state = filled.state
        /\ applied.anomalies = filled.anomalies /\ applied.cum = filled.cum
        /\ applied.terminal_ts = filled.terminal_ts
    BY <2>2, ReasonType DEF RefreshQuantityReason, Chain
  <2> HIDE DEF applied
  <2>4. /\ closed \in Chain /\ SameFills(closed, applied) /\ closed.state = applied.state
        /\ closed.anomalies = applied.anomalies /\ closed.cum = applied.cum
        /\ closed.terminal_ts <=> (applied.terminal_ts \/ kind = "Filled")
    BY <2>3 DEF Chain, SameFills
  <2> HIDE DEF closed
  <2>5. closed.terminal_ts <=> (ch.terminal_ts \/ kind \in TerminalStates)
    BY <1>6, <2>2, <2>3, <2>4
  <2>6. Applied(ch, closed, style, kind, fill)
    BY <1>6, <2>2, <2>3, <2>4, <2>5 DEF Applied, SameFills
  <2> QED
    BY <2>6, TransitionMoves DEF OnFill, closed, applied, filled, named
<1>7. ASSUME NEW kind \in {"Cancelled", "BrokerRejected"}
      PROVE  Moves(ch, OnTerminal(ch, kind), style, kind, fill)
  <2> DEFINE ended == [ch EXCEPT !.order_id = TRUE, !.terminal_ts = TRUE]
  <2>1. /\ ended \in Chain /\ ended.state = ch.state /\ ended.anomalies = ch.anomalies
        /\ ended.terminal_ts = TRUE /\ ended.cum = ch.cum /\ SameFills(ended, ch)
    BY <1>c DEF Chain, SameFills
  <2> HIDE DEF ended
  <2>2. Applied(ch, ended, style, kind, fill)
    BY <2>1 DEF Applied
  <2> QED
    BY <2>2, TransitionMoves DEF OnTerminal, ended
<1> QED
  BY <1>1, <1>2, <1>3, <1>4, <1>5, <1>6, <1>7 DEF OnSignal, OnRiskDecision, OnSubmitted, OnCancelStep

\* A reduced event moves the one chain it is about.
LEMMA ReduceMoves ==
  ASSUME LifecycleInv, NEW e \in published, Reduce(e)
  PROVE  \E ch : /\ Moves(chains[e.corr], ch, fill_style[e.corr], e.kind, e)
                 /\ Update(e.corr, ch)
<1> DEFINE c == e.corr  ch == chains[c]  style == fill_style[c]
<1>0. /\ style \in QuantityStyles /\ ch \in Chain
      /\ e.kind \in FillStates => e.exec \in 1..Qty
  BY LifecycleAssumption, HappenedParts DEF TypeOK, PublishedHappened, Event
<1> HIDE DEF c, ch, style
<1>1. CASE ReduceSignalGenerated(e) \/ ReduceIntentCreated(e) \/ ReduceRiskDecision(e)
  BY <1>0, <1>1, HandlersMove
     DEF ReduceSignalGenerated, ReduceIntentCreated, ReduceRiskDecision, c, ch, style
<1>2. CASE ReduceOrderSubmitRequested(e) \/ ReduceOrderSubmitted(e) \/ ReduceBrokerAck(e)
  BY <1>0, <1>2, HandlersMove
     DEF ReduceOrderSubmitRequested, ReduceOrderSubmitted, ReduceBrokerAck, c, ch, style
<1>3. CASE ReduceOrderFill(e)
  BY <1>0, <1>3, HandlersMove DEF ReduceOrderFill, c, ch, style
<1>4. CASE ReduceCancelStep(e) \/ ReduceOrderEnded(e)
  BY <1>0, <1>4, HandlersMove DEF ReduceCancelStep, ReduceOrderEnded, c, ch, style
<1> QED
  BY <1>1, <1>2, <1>3, <1>4 DEF Reduce

-----------------------------------------------------------------------------
(* QuietIsTruth.  WorldInv is what the producers guarantee of an order's    *)
(* fills; BeliefInv is what a chain without anomalies remembers of the      *)
(* events that were reduced, in whatever order that was.                    *)

\* The states a chain can be in once an execution was applied to it quietly.
ExecutionStates == FillStates \union {"CancelRequested", "CancelRejected", "Cancelled"}

Executions(c) == Lots(Reduced(c, FillStates))

\* An order is filled exactly if all of it was executed, and every execution was
\* published.
WorldInv ==
  \A c \in Corr :
    /\ executed[c] = Qty <=> Happened(c, "Filled")
    /\ \A x \in 1..executed[c] : \E e \in EventsOf(c) : e.kind \in FillStates /\ e.exec = x

Ended(c) ==
  /\ \A kind \in TerminalStates : chains[c].state = kind <=> Reduced(c, {kind}) # {}
  /\ chains[c].terminal_ts <=> chains[c].state \in TerminalStates

Counted(c) ==
  /\ fill_style[c] = "cumulative" =>
       /\ chains[c].filled \in Executions(c) \union {0}
       /\ \A x \in Executions(c) : x <= chains[c].filled
  /\ Executions(c) # {} =>
       chains[c].cum = chains[c].filled /\ chains[c].state \in ExecutionStates

\* While a chain is quiet, its end and its quantities are those of what it reduced.
BeliefInv == \A c \in Corr : Quiet(c) => Ended(c) /\ Counted(c)

\* Nothing happened, and nothing is believed.
LEMMA InitBelief == Init => WorldInv /\ BeliefInv
<1> SUFFICES ASSUME Init PROVE WorldInv /\ BeliefInv
  OBVIOUS
<1>1. \A c \in Corr : \A kinds : Reduced(c, kinds) = {}
  BY DEF Init, Reduced
<1>2. \A c \in Corr : Executions(c) = {}
  BY <1>1 DEF Executions, Lots
<1>3. \A c \in Corr : chains[c] = NewChain
  BY DEF Init
<1>4. BeliefInv
  BY <1>1, <1>2, <1>3 DEF BeliefInv, Ended, Counted, NewChain
<1>5. WorldInv
  BY LifecycleAssumption DEF Init, WorldInv, Happened, EventsOf
<1> QED
  BY <1>4, <1>5

\* What was executed was published, and no more.
LEMMA WorldStep ==
  ASSUME LifecycleInv, WorldInv, [Next]_vars
  PROVE  WorldInv'
<1>q. Qty \in Nat \ {0}
  BY LifecycleAssumption
<1> USE DEF Happened, EventsOf
<1>1. ASSUME NEW c \in Corr, NEW kind \in Kinds \ FillStates, Happens(c, kind) PROVE WorldInv'
  <2>1. PICK e \in Event : /\ e.corr = c /\ e.kind = kind
                           /\ published' = published \union {e}
    <3>1. Publish(c, kind, 0, FALSE)
      BY <1>1, Zenon DEF Happens
    <3>2. PICK named \in BOOLEAN : Publish(c, kind, 0, named)
      BY <3>1, Zenon
    <3> QED
      BY <1>q, <3>2, PublishKeeps
  <2>2. executed' = executed
    BY <1>1 DEF Happens
  <2>3. kind # "Filled"
    OBVIOUS
  <2> QED
    BY <2>1, <2>2, <2>3 DEF WorldInv
<1>2. ASSUME NEW c \in Corr, NEW named \in BOOLEAN, Execute(c, named) PROVE WorldInv'
  <2> DEFINE n == executed[c] + 1
             kind == IF n = Qty THEN "Filled" ELSE "PartiallyFilled"
  <2>0. n \in 1..Qty /\ kind \in FillStates
    BY <1>q, <1>2 DEF Execute, Working, TypeOK
  <2>1. PICK e \in Event : /\ e.corr = c /\ e.kind = kind /\ e.exec = n
                           /\ published' = published \union {e}
    BY <1>q, <1>2, <2>0, PublishKeeps DEF Execute
  <2>2. executed' = [executed EXCEPT ![c] = n] /\ executed[c] < Qty
    BY <1>2 DEF Execute, Working
  <2> SUFFICES ASSUME NEW d \in Corr
               PROVE  /\ executed'[d] = Qty <=> Happened(d, "Filled")'
                      /\ \A x \in 1..executed'[d] :
                           \E f \in EventsOf(d)' : f.kind \in FillStates /\ f.exec = x
    BY DEF WorldInv
  <2>3. CASE d # c
    <3>1. executed'[d] = executed[d]
      BY <2>2, <2>3 DEF TypeOK
    <3>2. EventsOf(d)' = EventsOf(d)
      BY <2>1, <2>3
    <3> QED
      BY <3>1, <3>2 DEF WorldInv
  <2>4. CASE d = c
    <3>1. executed'[c] = n
      BY <2>2 DEF TypeOK
    <3>2. EventsOf(c)' = EventsOf(c) \union {e} /\ executed[c] # Qty
      BY <1>q, <2>1, <2>2 DEF TypeOK
    <3>3. \A f \in EventsOf(c) : f.kind # "Filled"
      BY <3>2 DEF WorldInv
    <3>4. Happened(c, "Filled")' <=> kind = "Filled"
      BY <2>1, <3>2, <3>3
    <3>5. \A x \in 1..n : x \in 1..executed[c] \/ x = n
      BY <1>q DEF TypeOK
    <3>6. \A x \in 1..n : \E f \in EventsOf(c)' : f.kind \in FillStates /\ f.exec = x
      <4> SUFFICES ASSUME NEW x \in 1..n
                   PROVE  \E f \in EventsOf(c)' : f.kind \in FillStates /\ f.exec = x
        OBVIOUS
      <4>1. CASE x \in 1..executed[c]
        BY <3>2, <4>1 DEF WorldInv
      <4>2. CASE x = n
        BY <2>0, <2>1, <3>2, <4>2
      <4> QED
        BY <3>5, <4>1, <4>2
    <3> QED
      BY <2>4, <3>1, <3>4, <3>6
  <2> QED
    BY <2>3, <2>4
<1>3. ASSUME NEW c \in Corr, NEW f \in EventsOf(c), Republish(c, f) PROVE WorldInv'
  <2>0. f \in Event
    BY DEF TypeOK
  <2>1. PICK e \in Event : /\ e.corr = c /\ e.kind = f.kind
                           /\ published' = published \union {e}
    BY <1>3, <2>0, PublishKeeps DEF Republish, Event
  <2>2. executed' = executed
    BY <1>3 DEF Republish
  <2> QED
    BY <2>1, <2>2 DEF WorldInv
<1>4. ASSUME NEW e \in published, Reduce(e) PROVE WorldInv'
  BY <1>4, ReduceSteps DEF Receive, marketVars, WorldInv
<1>5. CASE UNCHANGED vars
  BY <1>5 DEF vars, marketVars, WorldInv
<1> QED
  BY <1>1, <1>2, <1>3, <1>4, <1>5 DEF Next

\* What reducing e adds to the events that were reduced.
LEMMA ReducedGrows ==
  ASSUME LifecycleInv, NEW e \in published, Reduce(e), NEW c \in Corr, NEW kinds
  PROVE  Reduced(c, kinds)' = IF e.corr = c /\ e.kind \in kinds
                                THEN Reduced(c, kinds) \union {e} ELSE Reduced(c, kinds)
  BY ReduceSteps, ReducedFills DEF Receive

\* A chain that is still quiet after an event believes what it has heard.
LEMMA ReduceKeepsBelief ==
  ASSUME LifecycleInv, BeliefInv, NEW e \in published, Reduce(e), NEW c \in Corr
  PROVE  Quiet(c)' => Ended(c)' /\ Counted(c)'
<1> DEFINE style == fill_style[c]  old == chains[c]
<1>1. PICK new : /\ Moves(chains[e.corr], new, fill_style[e.corr], e.kind, e)
                 /\ Update(e.corr, new)
  BY ReduceMoves
<1>2. /\ chains \in [Corr -> Chain] /\ e.corr \in Corr /\ e.kind \in Kinds
      /\ fill_style' = fill_style /\ style \in QuantityStyles
  BY LifecycleAssumption, ReduceSteps DEF LifecycleInv, TypeOK, Event, Receive, marketVars
<1>3. Executions(c)' = IF e.corr = c /\ e.kind \in FillStates
                         THEN Executions(c) \union {e.exec} ELSE Executions(c)
  <2>1. Reduced(c, FillStates)' = IF e.corr = c /\ e.kind \in FillStates
                         THEN Reduced(c, FillStates) \union {e} ELSE Reduced(c, FillStates)
    BY ReducedGrows
  <2> QED
    BY <2>1 DEF Executions, Lots
<1>4. CASE c # e.corr
  <2>1. chains'[c] = chains[c] /\ fill_style'[c] = fill_style[c]
    BY <1>1, <1>2, <1>4 DEF Update
  <2>2. Executions(c)' = Executions(c)
    BY <1>3, <1>4
  <2>3. \A kind : Reduced(c, {kind})' = Reduced(c, {kind})
    BY <1>4, ReducedGrows
  <2>4. Ended(c)' <=> Ended(c)
    BY <2>1, <2>3 DEF Ended
  <2>5. Counted(c)' <=> Counted(c)
    BY <2>1, <2>2 DEF Counted
  <2>6. Quiet(c)' <=> Quiet(c)
    BY <2>1 DEF Quiet
  <2> QED
    BY <2>1, <2>2, <2>4, <2>5, <2>6 DEF BeliefInv
<1>5. CASE c = e.corr
  <2>1. chains'[c] = new /\ Moves(old, new, style, e.kind, e)
    BY <1>1, <1>2, <1>5 DEF Update
  <2>4. ASSUME new.anomalies = {} PROVE Ended(c)' /\ Counted(c)'
    <3>1. /\ Quiet(c) /\ ValidTransition(old.state, e.kind)
          /\ e.kind \in FillStates => Acceptable(old, style, e)
      BY <2>1, <2>4 DEF Moves, Quiet
    <3>2. Ended(c) /\ Counted(c)
      BY <3>1 DEF BeliefInv
    <3>3. new.state = e.kind
      BY <2>1 DEF Moves
    <3>4. old.state \in TerminalStates => e.kind = old.state
      BY <3>1 DEF ValidTransition, ValidNext
    <3>5. Ended(c)'
      <4>1. \A kind \in TerminalStates : new.state = kind <=> Reduced(c, {kind})' # {}
        <5> SUFFICES ASSUME NEW kind \in TerminalStates
                     PROVE  e.kind = kind <=> Reduced(c, {kind})' # {}
          BY <3>3
        <5>1. Reduced(c, {kind})' = IF e.kind = kind THEN Reduced(c, {kind}) \union {e}
                                                     ELSE Reduced(c, {kind})
          BY <1>5, ReducedGrows
        <5>2. old.state = kind <=> Reduced(c, {kind}) # {}
          BY <3>2 DEF Ended
        <5> QED
          BY <3>4, <5>1, <5>2
      <4>2. new.terminal_ts <=> new.state \in TerminalStates
        <5>1. new.terminal_ts <=> (old.terminal_ts \/ e.kind \in TerminalStates)
          BY <2>1 DEF Moves
        <5>2. old.terminal_ts <=> old.state \in TerminalStates
          BY <3>2 DEF Ended
        <5> QED
          BY <3>3, <3>4, <5>1, <5>2
      <4> QED
        BY <2>1, <4>1, <4>2 DEF Ended
    <3>6. Counted(c)'
      <4>0. /\ e.kind \in FillStates => e.exec \in Nat
            /\ old.filled \in Nat
            /\ \A x \in Executions(c) : x \in Nat
        BY <1>2, LifecycleAssumption
           DEF LifecycleInv, TypeOK, Event, Chain, Executions, Lots, Reduced
      <4>1. CASE e.kind \in FillStates
        <5>1. Executions(c)' = Executions(c) \union {e.exec}
          BY <1>3, <1>5, <4>1
        <5>2. new.cum = new.filled /\ (style = "cumulative" => new.filled = e.exec)
          BY <2>1, <2>4, <4>1 DEF Moves
        <5>3. ASSUME style = "cumulative", NEW x \in Executions(c) \union {e.exec}
              PROVE  x <= new.filled
          <6>1. x \in Executions(c) => x <= old.filled
            BY <3>2, <5>3 DEF Counted
          <6>2. old.filled <= e.exec
            BY <3>1, <4>1, <5>3, <4>0 DEF Acceptable
          <6> QED
            BY <4>0, <4>1, <5>2, <5>3, <6>1, <6>2
        <5>4. new.state \in ExecutionStates
          BY <3>3, <4>1 DEF ExecutionStates
        <5> QED
          BY <1>2, <2>1, <5>1, <5>2, <5>3, <5>4 DEF Counted
      <4>2. CASE e.kind \notin FillStates
        <5>1. Executions(c)' = Executions(c) /\ new.filled = old.filled
          BY <1>3, <2>1, <4>2 DEF Moves, SameFills
        <5>2. ASSUME Executions(c) # {}
              PROVE  new.cum = new.filled /\ new.state \in ExecutionStates
          <6>1. old.cum = old.filled /\ old.state \in ExecutionStates
            BY <3>2, <5>2 DEF Counted
          <6>2. e.kind \in ExecutionStates /\ e.kind # "SubmitRequested"
            BY <3>1, <4>2, <6>1 DEF ExecutionStates, ValidTransition, ValidNext
          <6> QED
            BY <2>1, <3>3, <4>2, <5>1, <6>1, <6>2 DEF Moves
        <5>3. fill_style'[c] = style
          BY <1>2
        <5> QED
          BY <2>1, <3>2, <5>1, <5>2, <5>3 DEF Counted
      <4> QED
        BY <4>1, <4>2
    <3> QED
      BY <3>5, <3>6
  <2> QED
    BY <2>1, <2>4 DEF Quiet
<1> QED
  BY <1>4, <1>5

\* Every step keeps what the chains believe.
LEMMA BeliefStep ==
  ASSUME LifecycleInv, BeliefInv, [Next]_vars
  PROVE  BeliefInv'
<1>1. CASE UNCHANGED << fill_style, seen, chains >>
  <2>1. \A c, kinds : Reduced(c, kinds)' = Reduced(c, kinds)
    BY <1>1 DEF Reduced
  <2>2. \A c : Executions(c)' = Executions(c)
    BY <2>1 DEF Executions
  <2> QED
    BY <1>1, <2>1, <2>2 DEF BeliefInv, Quiet, Ended, Counted
<1>2. ASSUME NEW e \in published, Reduce(e) PROVE BeliefInv'
  BY <1>2, ReduceKeepsBelief DEF BeliefInv
<1> QED
  BY <1>1, <1>2 DEF Next, Happens, Execute, Republish, vars, marketVars, reducerVars

\* What a quiet chain believes is what happened, once all was heard.
LEMMA BeliefIsTruth == LifecycleInv /\ WorldInv /\ BeliefInv => QuietIsTruth
<1> SUFFICES ASSUME LifecycleInv, WorldInv, BeliefInv, NEW c \in Corr, Quiet(c), AllReduced(c)
             PROVE  /\ chains[c].filled = executed[c] + CountedAgain(c)
                    /\ executed[c] > 0 => chains[c].cum = chains[c].filled
                    /\ (chains[c].state = "Filled") <=> (executed[c] = Qty)
                    /\ (chains[c].state = "Cancelled") <=> Happened(c, "Cancelled")
                    /\ (chains[c].state = "BrokerRejected") <=> Happened(c, "BrokerRejected")
                    /\ chains[c].terminal_ts <=> (chains[c].state \in TerminalStates)
  BY DEF QuietIsTruth
<1>0. /\ executed[c] \in Nat /\ chains[c].filled \in Nat /\ fill_style[c] \in QuantityStyles
  BY LifecycleAssumption DEF LifecycleInv, TypeOK, Chain
<1>1. Ended(c) /\ Counted(c)
  BY DEF BeliefInv
<1>2. \A kinds : Reduced(c, kinds) = {e \in EventsOf(c) : e.kind \in kinds}
  BY DEF AllReduced, Reduced, EventsOf, LifecycleInv, TypeOK
<1>3. \A kind : Happened(c, kind) <=> Reduced(c, {kind}) # {}
  BY <1>2 DEF Happened, EventsOf
<1>4. Executions(c) = 1..executed[c]
  <2>1. Executions(c) \subseteq 1..executed[c]
    BY ReducedFills DEF FillsWithin, Executions, Lots
  <2>2. \A x \in 1..executed[c] : x \in Executions(c)
    BY <1>2 DEF WorldInv, Executions, Lots
  <2> QED
    BY <2>1, <2>2
<1>5. chains[c].filled = executed[c] + CountedAgain(c)
  <2>1. CASE fill_style[c] = "cumulative"
    <3>1. chains[c].filled \in 1..executed[c] \union {0} /\ \A x \in 1..executed[c] : x <= chains[c].filled
      BY <1>1, <1>4, <2>1 DEF Counted
    <3>2. CountedAgain(c) = 0
      BY <2>1 DEF CountedAgain
    <3> QED
      BY <1>0, <3>1, <3>2
  <2>2. CASE fill_style[c] = "incremental"
    <3> DEFINE fills == Reduced(c, FillStates)
    <3>1. chains[c].filled = Cardinality(Lots(Named(fills))) + Cardinality(Unnamed(fills))
      BY <2>2, ReducedFills DEF Good, Fits
    <3>2. \A n \in Nat : Cardinality(1..n) = n
      BY FS_Interval
    <3>3. Cardinality(Lots(fills)) = executed[c]
      BY <1>0, <1>4, <3>2 DEF Executions
    <3>4. CountedAgain(c) = Cardinality(Unnamed(fills)) - Cardinality(Lots(Unnamed(fills)))
      BY <2>2 DEF CountedAgain
    <3> QED
      BY <3>1, <3>3, <3>4, FillsAddUp
  <2> QED
    BY <1>0, <2>1, <2>2 DEF QuantityStyles
<1>6. executed[c] > 0 => chains[c].cum = chains[c].filled
  BY <1>0, <1>1, <1>4 DEF Counted
<1>7. (chains[c].state = "Filled") <=> (executed[c] = Qty)
  BY <1>1, <1>3 DEF Ended, WorldInv
<1>8. /\ (chains[c].state = "Cancelled") <=> Happened(c, "Cancelled")
      /\ (chains[c].state = "BrokerRejected") <=> Happened(c, "BrokerRejected")
  BY <1>1, <1>3 DEF Ended
<1> QED
  BY <1>1, <1>5, <1>6, <1>7, <1>8 DEF Ended

\* A chain without anomalies can be believed once everything was reduced, in any
\* order at all: its end is the broker's, and so are its quantities, up to exactly
\* the increments without execution_id that were reported again.
THEOREM QuietChainsAreTrue == Spec => []QuietIsTruth
<1>1. LifecycleInv /\ WorldInv /\ BeliefInv /\ [Next]_vars => (WorldInv /\ BeliefInv)'
  BY WorldStep, BeliefStep
<1> QED
  BY InitBelief, BeliefIsTruth, <1>1, LifecycleInvariant, PTL DEF Spec

-----------------------------------------------------------------------------
(* UnracedOrderIsQuiet.  The events of an order have the places 1, 2, ... ; *)
(* an event was published only after its cause; so, as long as nothing was  *)
(* repeated and no cancel raced the broker, each event is a valid next one  *)
(* after the event published before it, and a chain fed in that order is    *)
(* always in the state of the last one.                                     *)

Rank(kind) ==
  CASE kind = "SignalGenerated" -> 1
    [] kind = "IntentCreated" -> 2
    [] kind \in {"RiskApproved", "RiskRejected"} -> 3
    [] kind = "SubmitRequested" -> 4
    [] kind = "SubmittedToBroker" -> 5
    [] OTHER -> 6

\* The events of an order are numbered from one in the order they were published.
PositionInv ==
  \A c \in Corr :
    /\ \A e \in EventsOf(c) : e.pos <= Cardinality(EventsOf(c))
    /\ \A e, f \in EventsOf(c) : e.pos = f.pos => e = f
    /\ \A p \in 1..Cardinality(EventsOf(c)) : \E e \in EventsOf(c) : e.pos = p

\* What happens has a cause that happened, and risk decides once.
CauseInv ==
  \A c \in Corr :
    /\ \A e \in EventsOf(c) : e.kind # "SignalGenerated" => Happened(c, Cause(e.kind))
    /\ \A e \in EventsOf(c) : e.kind \in FillStates => Happened(c, "BrokerAckReceived")
    /\ ~ (Happened(c, "RiskApproved") /\ Happened(c, "RiskRejected"))

RanksRise(c) ==
  \A e, f \in EventsOf(c) : Rank(e.kind) < Rank(f.kind) => e.pos < f.pos

ExecutionsRise(c) ==
  \A e, f \in EventsOf(c) :
    (e.kind \in FillStates /\ f.kind \in FillStates /\ e.pos < f.pos) => e.exec < f.exec

NextIsValid(c) ==
  ~ CancelRaced(c) =>
    \A e, f \in EventsOf(c) : f.pos = e.pos + 1 => ValidTransition(e.kind, f.kind)

\* As long as nothing is reported again, each event of an order can follow the one
\* before.
PublicationInv ==
  \A c \in Corr : republished[c] = 0 => RanksRise(c) /\ ExecutionsRise(c) /\ NextIsValid(c)

PrefixReduced(c) ==
  \A e, f \in EventsOf(c) : (e \in seen /\ f.pos < e.pos) => f \in seen

LastIsState(c) ==
  /\ Reduced(c, Kinds) = {} => chains[c].state = "Observed"
  /\ \A e \in Reduced(c, Kinds) :
       (\A f \in Reduced(c, Kinds) : f.pos <= e.pos) => chains[c].state = e.kind

\* An order reduced in turn is a prefix of what was published, its chain in the last
\* state.
OrderInv ==
  \A c \in Corr : in_order[c] => PrefixReduced(c) /\ LastIsState(c)

UnracedInv == PositionInv /\ CauseInv /\ PublicationInv /\ OrderInv /\ UnracedOrderIsQuiet

\* Nothing was published yet.
LEMMA InitUnraced == Init => UnracedInv
<1> SUFFICES ASSUME Init PROVE UnracedInv
  OBVIOUS
<1>1. \A c \in Corr : EventsOf(c) = {} /\ Reduced(c, Kinds) = {}
  BY DEF Init, EventsOf, Reduced
<1>2. PositionInv
  BY <1>1, FS_EmptySet DEF PositionInv
<1>3. CauseInv
  BY <1>1 DEF CauseInv, Happened, EventsOf
<1>4. PublicationInv
  BY <1>1 DEF PublicationInv, RanksRise, ExecutionsRise, NextIsValid
<1>5. OrderInv
  BY <1>1 DEF Init, OrderInv, PrefixReduced, LastIsState, NewChain
<1>6. UnracedOrderIsQuiet
  BY DEF Init, UnracedOrderIsQuiet, Quiet, NewChain
<1> QED
  BY <1>2, <1>3, <1>4, <1>5, <1>6 DEF UnracedInv

\* A published event takes the next place of its order and nobody else's.
Appended(c, e) ==
  /\ e \in Event /\ e.corr = c /\ e.pos = Cardinality(EventsOf(c)) + 1
  /\ e \notin EventsOf(c)
  /\ EventsOf(c)' = EventsOf(c) \union {e}
  /\ Cardinality(EventsOf(c))' = Cardinality(EventsOf(c)) + 1
  /\ \A d \in Corr : d # c => EventsOf(d)' = EventsOf(d)

\* What is published of an order comes at the next position.
LEMMA PublishAppends ==
  ASSUME LifecycleInv, PositionInv, NEW c \in Corr, NEW kind \in Kinds, NEW exec \in 0..Qty,
         NEW named \in BOOLEAN, Publish(c, kind, exec, named)
  PROVE  \E e : Appended(c, e) /\ e.kind = kind /\ e.exec = exec /\ published' = published \union {e}
<1> DEFINE e == [corr |-> c, pos |-> Cardinality(EventsOf(c)) + 1,
                 kind |-> kind, exec |-> exec, named |-> named]
<1>1. IsFiniteSet(EventsOf(c)) /\ Cardinality(EventsOf(c)) \in Nat
  BY FS_Subset, FS_CardinalityType DEF EventsOf
<1>2. e \in Event
  BY <1>1 DEF Event
<1>3. published' = published \union {e}
  BY DEF Publish
<1>4. e \notin EventsOf(c)
  BY <1>1 DEF PositionInv
<1>5. EventsOf(c)' = EventsOf(c) \union {e} /\ \A d \in Corr : d # c => EventsOf(d)' = EventsOf(d)
  BY <1>3 DEF EventsOf
<1> HIDE DEF e
<1>6. Cardinality(EventsOf(c))' = Cardinality(EventsOf(c)) + 1
  BY <1>1, <1>4, <1>5, FS_AddElement
<1>7. e.corr = c /\ e.pos = Cardinality(EventsOf(c)) + 1 /\ e.kind = kind /\ e.exec = exec
  BY DEF e
<1> QED
  BY <1>2, <1>3, <1>4, <1>5, <1>6, <1>7 DEF Appended

\* The positions of the events of an order stay without gaps.
LEMMA AppendKeepsPositions ==
  ASSUME LifecycleInv, PositionInv, NEW c \in Corr, NEW e, Appended(c, e)
  PROVE  PositionInv'
<1> DEFINE n == Cardinality(EventsOf(c))
<1>1. n \in Nat
  BY FS_Subset, FS_CardinalityType DEF EventsOf
<1>2. \A f \in EventsOf(c) : f.pos \in Nat \ {0}
  BY DEF EventsOf, LifecycleInv, TypeOK, Event
<1> SUFFICES ASSUME NEW d \in Corr
             PROVE  /\ \A f \in EventsOf(d)' : f.pos <= Cardinality(EventsOf(d))'
                    /\ \A f, g \in EventsOf(d)' : f.pos = g.pos => f = g
                    /\ \A p \in 1..Cardinality(EventsOf(d))' : \E f \in EventsOf(d)' : f.pos = p
  BY DEF PositionInv
<1>3. CASE d # c
  <2>1. EventsOf(d)' = EventsOf(d)
    BY <1>3 DEF Appended
  <2> QED
    BY <2>1 DEF PositionInv
<1>4. CASE d = c
  <2> HIDE DEF n
  <2>1. EventsOf(c)' = EventsOf(c) \union {e} /\ Cardinality(EventsOf(c))' = n + 1 /\ e.pos = n + 1
    BY DEF Appended, n
  <2>2. \A f \in EventsOf(c) : f.pos <= n
    BY DEF PositionInv, n
  <2>3. \A f \in EventsOf(c)' : f.pos <= n + 1
    BY <1>1, <1>2, <2>1, <2>2
  <2>4. \A f, g \in EventsOf(c)' : f.pos = g.pos => f = g
    BY <1>1, <1>2, <2>1, <2>2 DEF PositionInv
  <2>5. \A p \in 1..(n + 1) : \E f \in EventsOf(c)' : f.pos = p
    <3> SUFFICES ASSUME NEW p \in 1..(n + 1) PROVE \E f \in EventsOf(c)' : f.pos = p
      OBVIOUS
    <3>1. p \in 1..n \/ p = n + 1
      BY <1>1
    <3>2. CASE p \in 1..n
      BY <2>1, <3>2 DEF PositionInv, n
    <3>3. CASE p = n + 1
      BY <2>1, <3>3
    <3> QED
      BY <3>1, <3>2, <3>3
  <2>6. /\ \A f \in EventsOf(c)' : f.pos <= Cardinality(EventsOf(c))'
        /\ \A p \in 1..Cardinality(EventsOf(c))' : \E f \in EventsOf(c)' : f.pos = p
    BY <2>1, <2>3, <2>5
  <2> QED
    BY <1>4, <2>4, <2>6
<1> QED
  BY <1>3, <1>4

\* Publishing changes nothing a chain says, and no place before its own.
LEMMA AppendKeepsOrder ==
  ASSUME LifecycleInv, PositionInv, OrderInv, NEW c \in Corr, NEW e, Appended(c, e),
         UNCHANGED << seen, chains, in_order >>
  PROVE  OrderInv'
<1>1. \A d, kinds : Reduced(d, kinds)' = Reduced(d, kinds)
  BY DEF Reduced
<1>2. \A f \in EventsOf(c) : f.pos < e.pos /\ e.pos \in Nat /\ f.pos \in Nat
  <2>1. Cardinality(EventsOf(c)) \in Nat
    BY FS_Subset, FS_CardinalityType DEF EventsOf
  <2>2. \A f \in EventsOf(c) : f.pos \in Nat
    BY DEF EventsOf, LifecycleInv, TypeOK, Event
  <2> QED
    BY <2>1, <2>2 DEF Appended, PositionInv
<1>3. e \notin seen
  BY DEF Appended, LifecycleInv, TypeOK, EventsOf
<1> SUFFICES ASSUME NEW d \in Corr, in_order'[d] PROVE PrefixReduced(d)' /\ LastIsState(d)'
  BY DEF OrderInv
<1>4. PrefixReduced(d) /\ LastIsState(d)
  BY DEF OrderInv
<1>5. LastIsState(d)'
  BY <1>1, <1>4 DEF LastIsState
<1>6. PrefixReduced(d)'
  <2>1. CASE d # c
    BY <1>4, <2>1 DEF PrefixReduced, Appended
  <2>2. CASE d = c
    BY <1>2, <1>3, <1>4, <2>2 DEF PrefixReduced, Appended
  <2> QED
    BY <2>1, <2>2
<1> QED
  BY <1>5, <1>6

\* What happened stays happened, and a cancel that raced the broker has raced it.
LEMMA AppendGrows ==
  ASSUME NEW c \in Corr, NEW e, Appended(c, e), NEW d \in Corr
  PROVE  /\ \A kind : Happened(d, kind)' <=> Happened(d, kind) \/ (d = c /\ e.kind = kind)
         /\ CancelRaced(d) => CancelRaced(d)'
<1>1. EventsOf(d)' = IF d = c THEN EventsOf(d) \union {e} ELSE EventsOf(d)
  BY DEF Appended
<1> QED
  BY <1>1 DEF Happened, EventsOf, CancelRaced

\* An event whose cause has happened can be appended.
LEMMA AppendKeepsCauses ==
  ASSUME CauseInv, NEW c \in Corr, NEW e, Appended(c, e),
         e.kind # "SignalGenerated" => Happened(c, Cause(e.kind)),
         e.kind \in FillStates => Happened(c, "BrokerAckReceived"),
         e.kind = "RiskApproved" => ~ Happened(c, "RiskRejected"),
         e.kind = "RiskRejected" => ~ Happened(c, "RiskApproved")
  PROVE  CauseInv'
<1> SUFFICES ASSUME NEW d \in Corr
             PROVE  /\ \A f \in EventsOf(d)' :
                         f.kind # "SignalGenerated" => Happened(d, Cause(f.kind))'
                    /\ \A f \in EventsOf(d)' :
                         f.kind \in FillStates => Happened(d, "BrokerAckReceived")'
                    /\ ~ (Happened(d, "RiskApproved")' /\ Happened(d, "RiskRejected")')
  BY DEF CauseInv
<1>1. \A kind : Happened(d, kind)' <=> Happened(d, kind) \/ (d = c /\ e.kind = kind)
  BY AppendGrows
<1>2. EventsOf(d)' = IF d = c THEN EventsOf(d) \union {e} ELSE EventsOf(d)
  BY DEF Appended
<1>3. \A f \in EventsOf(d)' : f.kind # "SignalGenerated" => Happened(d, Cause(f.kind))'
  BY <1>1, <1>2 DEF CauseInv
<1>4. \A f \in EventsOf(d)' : f.kind \in FillStates => Happened(d, "BrokerAckReceived")'
  BY <1>1, <1>2 DEF CauseInv
<1>5. ~ (Happened(d, "RiskApproved")' /\ Happened(d, "RiskRejected")')
  BY <1>1 DEF CauseInv
<1> QED
  BY <1>3, <1>4, <1>5

\* What must have happened before each kind of event.
LEMMA Causes ==
  ASSUME CauseInv, LifecycleInv, NEW c \in Corr
  PROVE  /\ Happened(c, "IntentCreated") => Happened(c, "SignalGenerated")
         /\ Happened(c, "RiskApproved") => Happened(c, "IntentCreated")
         /\ Happened(c, "RiskRejected") => Happened(c, "IntentCreated")
         /\ Happened(c, "SubmitRequested") => Happened(c, "RiskApproved")
         /\ Happened(c, "SubmittedToBroker") => Happened(c, "SubmitRequested")
         /\ \A kind \in {"BrokerAckReceived", "BrokerRejected", "CancelRequested"} :
              Happened(c, kind) => Happened(c, "SubmittedToBroker")
         /\ \A kind \in FillStates : Happened(c, kind) => Happened(c, "BrokerAckReceived")
         /\ \A kind \in {"CancelRejected", "Cancelled"} :
              Happened(c, kind) => Happened(c, "CancelRequested")
<1>1. \A kind \in Kinds \ {"SignalGenerated"} : Happened(c, kind) => Happened(c, Cause(kind))
  BY DEF CauseInv, Happened, EventsOf
<1>2. \A kind \in FillStates : Happened(c, kind) => Happened(c, "BrokerAckReceived")
  BY DEF CauseInv, Happened, EventsOf
<1>3. /\ Cause("IntentCreated") = "SignalGenerated" /\ Cause("RiskApproved") = "IntentCreated"
      /\ Cause("RiskRejected") = "IntentCreated" /\ Cause("SubmitRequested") = "RiskApproved"
      /\ Cause("SubmittedToBroker") = "SubmitRequested"
      /\ Cause("BrokerAckReceived") = "SubmittedToBroker"
      /\ Cause("BrokerRejected") = "SubmittedToBroker"
      /\ Cause("CancelRequested") = "SubmittedToBroker"
      /\ Cause("CancelRejected") = "CancelRequested" /\ Cause("Cancelled") = "CancelRequested"
  BY DEF Cause
<1> QED
  BY <1>1, <1>2, <1>3

\* Nothing of a later stage can have been published before a kind that had not
\* happened yet.
LEMMA HappensInRank ==
  ASSUME LifecycleInv, CauseInv, NEW c \in Corr, NEW kind \in Kinds \ FillStates,
         Happens(c, kind), NEW f \in EventsOf(c)
  PROVE  Rank(f.kind) <= Rank(kind)
<1>1. f.kind \in Kinds /\ Happened(c, f.kind)
  BY DEF EventsOf, LifecycleInv, TypeOK, Event, Happened
<1>2. /\ ~ Happened(c, kind)
      /\ kind \in {"RiskApproved", "RiskRejected"} =>
           ~ Happened(c, "RiskApproved") /\ ~ Happened(c, "RiskRejected")
  BY DEF Happens, Possible
<1>3. kind \in {"SignalGenerated", "IntentCreated"} => Rank(f.kind) <= Rank(kind)
  BY <1>1, <1>2, Causes DEF Rank
<1>4. kind \in {"RiskApproved", "RiskRejected"} => Rank(f.kind) <= Rank(kind)
  BY <1>1, <1>2, Causes DEF Rank
<1>5. kind \in {"SubmitRequested", "SubmittedToBroker"} => Rank(f.kind) <= Rank(kind)
  BY <1>1, <1>2, Causes DEF Rank
<1>6. kind \notin {"SignalGenerated", "IntentCreated", "RiskApproved", "RiskRejected",
                   "SubmitRequested", "SubmittedToBroker"} => Rank(f.kind) <= Rank(kind)
  BY <1>1 DEF Rank
<1> QED
  BY <1>3, <1>4, <1>5, <1>6

\* What the new event adds to PublicationInv.
Follows(c, e) ==
  /\ \A f \in EventsOf(c) : Rank(f.kind) <= Rank(e.kind)
  /\ e.kind \in FillStates =>
       \A f \in EventsOf(c) : f.kind \in FillStates => f.exec < e.exec
  /\ ~ CancelRaced(c)' =>
       \A f \in EventsOf(c) : e.pos = f.pos + 1 => ValidTransition(f.kind, e.kind)

\* An event that follows the last one keeps the publications of an order in order.
LEMMA AppendKeepsPublication ==
  ASSUME LifecycleInv, PositionInv, PublicationInv, NEW c \in Corr, NEW e, Appended(c, e),
         UNCHANGED republished, republished[c] = 0 => Follows(c, e)
  PROVE  PublicationInv'
<1> SUFFICES ASSUME NEW d \in Corr, republished[d] = 0
             PROVE  RanksRise(d)' /\ ExecutionsRise(d)' /\ NextIsValid(d)'
  BY DEF PublicationInv
<1>1. RanksRise(d) /\ ExecutionsRise(d) /\ NextIsValid(d)
  BY DEF PublicationInv
<1>2. CASE d # c
  <2>1. EventsOf(d)' = EventsOf(d)
    BY <1>2 DEF Appended
  <2> QED
    BY <1>1, <2>1 DEF RanksRise, ExecutionsRise, NextIsValid, CancelRaced
<1>3. CASE d = c
  <2>1. EventsOf(c)' = EventsOf(c) \union {e}
    BY DEF Appended
  <2>2. e.pos \in Nat /\ \A f \in EventsOf(c) : f.pos < e.pos /\ f.pos \in Nat
    <3>1. Cardinality(EventsOf(c)) \in Nat
      BY FS_Subset, FS_CardinalityType DEF EventsOf
    <3>2. \A f \in EventsOf(c) : f.pos \in Nat
      BY DEF EventsOf, LifecycleInv, TypeOK, Event
    <3> QED
      BY <3>1, <3>2 DEF Appended, PositionInv
  <2>3. Follows(c, e)
    BY <1>3
  <2>4. \A kind : Rank(kind) \in Nat
    BY DEF Rank
  <2>5. RanksRise(c)'
    BY <1>1, <1>3, <2>1, <2>2, <2>3, <2>4 DEF RanksRise, Follows
  <2>6. ExecutionsRise(c)'
    BY <1>1, <1>3, <2>1, <2>2, <2>3 DEF ExecutionsRise, Follows
  <2>7. NextIsValid(c)'
    <3> SUFFICES ASSUME ~ CancelRaced(c)', NEW f \in EventsOf(c)', NEW g \in EventsOf(c)',
                        g.pos = f.pos + 1
                 PROVE  ValidTransition(f.kind, g.kind)
      BY DEF NextIsValid
    <3>1. ~ CancelRaced(c)
      BY AppendGrows
    <3>2. CASE g = e
      BY <2>1, <2>2, <2>3, <3>2 DEF Follows
    <3>3. CASE g \in EventsOf(c)
      BY <1>1, <1>3, <2>1, <2>2, <3>1, <3>3 DEF NextIsValid
    <3> QED
      BY <2>1, <3>2, <3>3
  <2> QED
    BY <1>3, <2>5, <2>6, <2>7
<1> QED
  BY <1>2, <1>3

\* The event published last is of the latest stage so far.
LEMMA LastOfRank ==
  ASSUME LifecycleInv, PositionInv, NEW c \in Corr, RanksRise(c), NEW e, Appended(c, e),
         NEW f \in EventsOf(c), e.pos = f.pos + 1, NEW kind, Happened(c, kind)
  PROVE  Rank(kind) <= Rank(f.kind)
<1>1. PICK g \in EventsOf(c) : g.kind = kind
  BY DEF Happened, EventsOf
<1>2. g.pos <= f.pos /\ g.pos \in Nat /\ f.pos \in Nat
  <2>1. g.pos \in Nat /\ f.pos \in Nat /\ Cardinality(EventsOf(c)) \in Nat
    BY FS_Subset, FS_CardinalityType DEF EventsOf, LifecycleInv, TypeOK, Event
  <2> QED
    BY <2>1 DEF Appended, PositionInv
<1>3. Rank(kind) \in Nat /\ Rank(f.kind) \in Nat
  BY DEF Rank
<1>4. ~ Rank(f.kind) < Rank(kind)
  BY <1>1, <1>2 DEF RanksRise
<1> QED
  BY <1>3, <1>4

\* What happens to an order follows the last thing that happened to it.
LEMMA HappensFollows ==
  ASSUME LifecycleInv, PositionInv, CauseInv, PublicationInv, NEW c \in Corr,
         NEW kind \in Kinds \ FillStates, Happens(c, kind), WorldInv,
         NEW e, Appended(c, e), e.kind = kind, republished[c] = 0
  PROVE  Follows(c, e)
<1>1. \A f \in EventsOf(c) : Rank(f.kind) <= Rank(e.kind)
  BY HappensInRank
<1>2. ASSUME ~ CancelRaced(c)', NEW f \in EventsOf(c), e.pos = f.pos + 1
      PROVE  ValidTransition(f.kind, kind)
  <2>1. f.kind \in Kinds /\ Happened(c, f.kind)
    BY DEF EventsOf, LifecycleInv, TypeOK, Event, Happened
  <2>2. ~ Happened(c, kind) /\ (kind # "SignalGenerated" => Happened(c, Cause(kind)))
        /\ Possible(c, kind)
    BY DEF Happens
  <2>3. RanksRise(c)
    BY DEF PublicationInv
  <2>4. Rank(f.kind) <= Rank(kind) /\ (kind # "SignalGenerated" => Rank(Cause(kind)) <= Rank(f.kind))
    BY <1>1, <1>2, <2>2, <2>3, LastOfRank
  <2>5. f.kind # kind
    BY <2>1, <2>2
  <2>6. ASSUME kind \notin {"CancelRejected", "Cancelled"} PROVE ~ Happened(c, "CancelRequested")
    <3> SUFFICES ASSUME NEW g \in EventsOf(c), g.kind = "CancelRequested" PROVE FALSE
      BY DEF Happened, EventsOf
    <3>1. g.pos < e.pos
      <4>1. g.pos \in Nat /\ Cardinality(EventsOf(c)) \in Nat
        BY FS_Subset, FS_CardinalityType DEF EventsOf, LifecycleInv, TypeOK, Event
      <4> QED
        BY <4>1 DEF Appended, PositionInv
    <3>2. g \in EventsOf(c)' /\ e \in EventsOf(c)'
      BY DEF Appended
    <3> QED
      BY <1>2, <2>6, <3>1, <3>2 DEF CancelRaced
  <2>7. CASE kind = "SignalGenerated"
    BY <2>1, <2>2, <2>7, Causes
  <2>8. CASE kind \in {"IntentCreated", "SubmittedToBroker"}
    BY <2>1, <2>4, <2>5, <2>8 DEF Rank, Cause, ValidTransition, ValidNext
  <2>9. CASE kind \in {"RiskApproved", "RiskRejected"}
    BY <2>1, <2>2, <2>4, <2>9 DEF Rank, Cause, ValidTransition, ValidNext, Possible
  <2>10. CASE kind = "SubmitRequested"
    <3>1. Happened(c, "RiskApproved")
      BY <2>2, <2>10 DEF Cause
    <3>2. f.kind # "RiskRejected"
      BY <2>1, <3>1 DEF CauseInv
    <3> QED
      BY <2>1, <2>4, <2>5, <2>10, <3>2 DEF Rank, Cause, ValidTransition, ValidNext
  <2>11. CASE kind \in {"BrokerAckReceived", "BrokerRejected", "CancelRequested"}
    <3>1. /\ ~ Happened(c, "CancelRequested")
          /\ ~ Happened(c, "CancelRejected") /\ ~ Happened(c, "Cancelled")
      BY <2>6, <2>11, Causes
    <3>2. Working(c) /\ (kind = "BrokerRejected" => executed[c] = 0)
      BY <2>2, <2>11 DEF Possible
    <3>3. ~ Happened(c, "BrokerRejected") /\ ~ Happened(c, "Filled")
      <4>1. executed[c] # Qty
        BY <3>2, LifecycleAssumption DEF Working, LifecycleInv, TypeOK
      <4> QED
        BY <3>2, <4>1 DEF Working, WorldInv
    <3>4. f.kind \in {"SubmittedToBroker", "BrokerAckReceived", "PartiallyFilled"}
      BY <2>1, <2>4, <2>11, <3>1, <3>3 DEF Rank, Cause
    <3>5. kind = "BrokerAckReceived" => f.kind = "SubmittedToBroker"
      BY <2>1, <2>2, <3>4, Causes
    <3>6. kind = "BrokerRejected" => f.kind # "PartiallyFilled"
      <4> SUFFICES ASSUME executed[c] = 0, f.kind = "PartiallyFilled" PROVE FALSE
        BY <3>2
      <4>1. f.exec \in 1..executed[c]
        BY DEF EventsOf, LifecycleInv, ExecutionsHappened
      <4> QED
        BY <4>1
    <3> QED
      BY <2>11, <3>4, <3>5, <3>6 DEF ValidTransition, ValidNext
  <2>12. CASE kind \in {"CancelRejected", "Cancelled"}
    <3>1. /\ Happened(c, "CancelRequested")
          /\ ~ Happened(c, "CancelRejected") /\ ~ Happened(c, "Cancelled")
      BY <2>2, <2>12 DEF Cause, Possible
    <3>2. PICK g \in EventsOf(c) : g.kind = "CancelRequested"
      BY <3>1 DEF Happened, EventsOf
    <3>3. g.pos <= f.pos /\ g.pos \in Nat /\ f.pos \in Nat
      <4>1. g.pos \in Nat /\ f.pos \in Nat /\ Cardinality(EventsOf(c)) \in Nat
        BY FS_Subset, FS_CardinalityType DEF EventsOf, LifecycleInv, TypeOK, Event
      <4> QED
        BY <1>2, <4>1 DEF Appended, PositionInv
    <3>4. g = f
      <4>1. g.pos < f.pos => CancelRaced(c)
        BY <2>1, <3>1, <3>2 DEF CancelRaced
      <4>2. ~ CancelRaced(c)
        BY <1>2, AppendGrows
      <4> QED
        BY <3>3, <4>1, <4>2 DEF PositionInv
    <3> QED
      BY <2>12, <3>2, <3>4 DEF ValidTransition, ValidNext
  <2> QED
    BY <2>7, <2>8, <2>9, <2>10, <2>11, <2>12
<1> QED
  BY <1>1, <1>2 DEF Follows

\* An execution follows the last thing that happened to the order.
LEMMA ExecuteFollows ==
  ASSUME LifecycleInv, PositionInv, CauseInv, PublicationInv, WorldInv, NEW c \in Corr,
         NEW named \in BOOLEAN, Execute(c, named),
         NEW e, Appended(c, e), e.kind \in FillStates, e.exec = executed[c] + 1, republished[c] = 0
  PROVE  Follows(c, e)
<1>0. executed[c] \in Nat /\ executed[c] # Qty
  BY LifecycleAssumption DEF LifecycleInv, TypeOK, Execute, Working
<1>1. \A f \in EventsOf(c) : Rank(f.kind) <= Rank(e.kind)
  BY DEF Rank
<1>2. \A f \in EventsOf(c) : f.kind \in FillStates => f.exec < e.exec
  <2>1. \A f \in EventsOf(c) : f.kind \in FillStates => f.exec \in 1..executed[c]
    BY DEF EventsOf, LifecycleInv, ExecutionsHappened
  <2> QED
    BY <1>0, <2>1
<1>3. ASSUME ~ CancelRaced(c)', NEW f \in EventsOf(c), e.pos = f.pos + 1
      PROVE  ValidTransition(f.kind, e.kind)
  <2>1. f.kind \in Kinds /\ Happened(c, f.kind)
    BY DEF EventsOf, LifecycleInv, TypeOK, Event, Happened
  <2>2. ~ Happened(c, "CancelRequested")
    <3> SUFFICES ASSUME NEW g \in EventsOf(c), g.kind = "CancelRequested" PROVE FALSE
      BY DEF Happened, EventsOf
    <3>1. g.pos < e.pos
      <4>1. g.pos \in Nat /\ Cardinality(EventsOf(c)) \in Nat
        BY FS_Subset, FS_CardinalityType DEF EventsOf, LifecycleInv, TypeOK, Event
      <4> QED
        BY <4>1 DEF Appended, PositionInv
    <3>2. g \in EventsOf(c)' /\ e \in EventsOf(c)'
      BY DEF Appended
    <3> QED
      BY <1>3, <3>1, <3>2 DEF CancelRaced
  <2>3. RanksRise(c) /\ Happened(c, "BrokerAckReceived") /\ Working(c)
    BY DEF PublicationInv, Execute
  <2>4. Rank("BrokerAckReceived") <= Rank(f.kind)
    BY <1>3, <2>3, LastOfRank
  <2>5. f.kind \notin {"Filled", "BrokerRejected", "CancelRequested", "CancelRejected", "Cancelled"}
    BY <1>0, <2>1, <2>2, <2>3, Causes DEF WorldInv, Working
  <2>6. f.kind \in {"BrokerAckReceived", "PartiallyFilled"}
    BY <2>1, <2>4, <2>5 DEF Rank
  <2> QED
    BY <2>6 DEF ValidTransition, ValidNext
<1> QED
  BY <1>1, <1>2, <1>3 DEF Follows

\* Publishing changes no chain.
LEMMA AppendKeepsQuiet ==
  ASSUME UnracedOrderIsQuiet, NEW c \in Corr, NEW e, Appended(c, e),
         LifecycleInv, UNCHANGED << chains, in_order >>,
         \A d \in Corr : republished'[d] = 0 => republished[d] = 0
  PROVE  UnracedOrderIsQuiet'
<1> SUFFICES ASSUME NEW d \in Corr, in_order'[d], republished'[d] = 0, ~ CancelRaced(d)'
             PROVE  Quiet(d)'
  BY DEF UnracedOrderIsQuiet
<1>1. ~ CancelRaced(d)
  BY AppendGrows
<1>2. Quiet(d)
  BY <1>1 DEF UnracedOrderIsQuiet
<1> QED
  BY <1>2 DEF Quiet

\* The producers keep the order of what they publish.
LEMMA PublishingKeepsUnraced ==
  ASSUME LifecycleInv, WorldInv, UnracedInv, NEW c \in Corr,
         \/ \E kind \in Kinds \ FillStates : Happens(c, kind)
         \/ \E named \in BOOLEAN : Execute(c, named)
         \/ \E f \in EventsOf(c) : Republish(c, f)
  PROVE  UnracedInv'
<1>q. Qty \in Nat /\ MaxRepublish \in Nat
  BY LifecycleAssumption
<1>0. PositionInv /\ CauseInv /\ PublicationInv /\ OrderInv /\ UnracedOrderIsQuiet
  BY DEF UnracedInv
<1>1. ASSUME NEW kind \in Kinds \ FillStates, Happens(c, kind) PROVE UnracedInv'
  <2>1. PICK e : Appended(c, e) /\ e.kind = kind
    <3>1. Publish(c, kind, 0, FALSE)
      BY <1>1, Zenon DEF Happens
    <3>2. PICK named \in BOOLEAN : Publish(c, kind, 0, named)
      BY <3>1, Zenon
    <3> QED
      BY <1>q, <1>0, <3>2, PublishAppends
  <2>2. UNCHANGED << seen, chains, in_order, republished >>
    BY <1>1 DEF Happens, reducerVars
  <2>3. PositionInv' /\ OrderInv' /\ UnracedOrderIsQuiet'
    BY <1>0, <2>1, <2>2, AppendKeepsPositions, AppendKeepsOrder, AppendKeepsQuiet
  <2>4. CauseInv'
    BY <1>0, <1>1, <2>1, AppendKeepsCauses DEF Happens, Possible
  <2>5. PublicationInv'
    BY <1>0, <1>1, <2>1, <2>2, HappensFollows, AppendKeepsPublication
  <2> QED
    BY <2>3, <2>4, <2>5 DEF UnracedInv
<1>2. ASSUME NEW named \in BOOLEAN, Execute(c, named) PROVE UnracedInv'
  <2>0. executed[c] + 1 \in 0..Qty
    BY <1>q, <1>2 DEF Execute, Working, LifecycleInv, TypeOK
  <2>1. PICK e : Appended(c, e) /\ e.kind \in FillStates /\ e.exec = executed[c] + 1
    <3>1. CASE executed[c] + 1 = Qty
      BY <1>0, <1>2, <2>0, <3>1, PublishAppends DEF Execute
    <3>2. CASE executed[c] + 1 # Qty
      BY <1>0, <1>2, <2>0, <3>2, PublishAppends DEF Execute
    <3> QED
      BY <3>1, <3>2
  <2>2. UNCHANGED << seen, chains, in_order, republished >>
    BY <1>2 DEF Execute, reducerVars
  <2>3. PositionInv' /\ OrderInv' /\ UnracedOrderIsQuiet'
    BY <1>0, <2>1, <2>2, AppendKeepsPositions, AppendKeepsOrder, AppendKeepsQuiet
  <2>4. CauseInv'
    <3>1. Happened(c, "BrokerAckReceived") /\ Happened(c, "SubmittedToBroker")
      BY <1>2 DEF Execute, Working
    <3>2. Cause(e.kind) = "SubmittedToBroker"
      BY <2>1 DEF Cause
    <3> QED
      BY <1>0, <2>1, <3>1, <3>2, AppendKeepsCauses
  <2>5. PublicationInv'
    BY <1>0, <1>2, <2>1, <2>2, ExecuteFollows, AppendKeepsPublication
  <2> QED
    BY <2>3, <2>4, <2>5 DEF UnracedInv
<1>3. ASSUME NEW f \in EventsOf(c), Republish(c, f) PROVE UnracedInv'
  <2>0. f \in Event /\ Happened(c, f.kind)
    BY DEF EventsOf, LifecycleInv, TypeOK, Happened
  <2>1. PICK e : Appended(c, e) /\ e.kind = f.kind
    BY <1>0, <1>3, <2>0, PublishAppends DEF Republish, Event
  <2>2. /\ UNCHANGED << seen, chains, in_order >>
        /\ republished' = [republished EXCEPT ![c] = @ + 1] /\ republished[c] \in Nat
    BY <1>q, <1>3 DEF Republish, reducerVars, LifecycleInv, TypeOK
  <2>3. republished'[c] # 0 /\ \A d \in Corr : d # c => republished'[d] = republished[d]
    BY <2>2 DEF LifecycleInv, TypeOK
  <2>4. PositionInv' /\ OrderInv' /\ UnracedOrderIsQuiet'
    BY <1>0, <2>1, <2>2, <2>3, AppendKeepsPositions, AppendKeepsOrder, AppendKeepsQuiet
  <2>5. CauseInv'
    <3>1. e.kind # "SignalGenerated" => Happened(c, Cause(e.kind))
      BY <1>0, <2>1 DEF CauseInv
    <3>2. e.kind \in FillStates => Happened(c, "BrokerAckReceived")
      BY <1>0, <2>1 DEF CauseInv
    <3>3. /\ e.kind = "RiskApproved" => ~ Happened(c, "RiskRejected")
          /\ e.kind = "RiskRejected" => ~ Happened(c, "RiskApproved")
      BY <1>0, <2>0, <2>1 DEF CauseInv
    <3> QED
      BY <1>0, <2>1, <3>1, <3>2, <3>3, AppendKeepsCauses
  <2>6. PublicationInv'
    <3> SUFFICES ASSUME NEW d \in Corr, republished'[d] = 0
                 PROVE  RanksRise(d)' /\ ExecutionsRise(d)' /\ NextIsValid(d)'
      BY DEF PublicationInv
    <3>1. d # c /\ EventsOf(d)' = EventsOf(d)
      BY <2>1, <2>3 DEF Appended
    <3>2. RanksRise(d) /\ ExecutionsRise(d) /\ NextIsValid(d)
      BY <1>0, <2>3, <3>1 DEF PublicationInv
    <3> QED
      BY <3>1, <3>2 DEF RanksRise, ExecutionsRise, NextIsValid, CancelRaced
  <2> QED
    BY <2>4, <2>5, <2>6 DEF UnracedInv
<1> QED
  BY <1>1, <1>2, <1>3

\* The event after everything that was reduced, in a chain fed in order: it is the
\* first of its order, or it follows the one that gave the chain its state.
LEMMA NextInOrder ==
  ASSUME LifecycleInv, PositionInv, OrderInv, NEW e \in published, e \notin seen,
         in_order[e.corr], \A f \in EventsOf(e.corr) : f.pos < e.pos => f \in seen
  PROVE  /\ \A f \in Reduced(e.corr, Kinds) : f.pos < e.pos
         /\ \/ Reduced(e.corr, Kinds) = {} /\ chains[e.corr].state = "Observed"
            \/ \E f \in EventsOf(e.corr) : e.pos = f.pos + 1 /\ chains[e.corr].state = f.kind
<1> DEFINE c == e.corr
<1>0. c \in Corr /\ e \in EventsOf(c) /\ e.pos \in Nat \ {0}
  BY DEF EventsOf, LifecycleInv, TypeOK, Event
<1>1. Reduced(c, Kinds) = {f \in EventsOf(c) : f \in seen}
  BY DEF Reduced, EventsOf, LifecycleInv, TypeOK, Event
<1>2. \A f \in EventsOf(c) : f.pos \in Nat
  BY DEF EventsOf, LifecycleInv, TypeOK, Event
<1>3. PrefixReduced(c) /\ LastIsState(c)
  BY <1>0 DEF OrderInv
<1>4. \A f \in Reduced(c, Kinds) : f.pos < e.pos
  BY <1>0, <1>1, <1>2, <1>3 DEF PrefixReduced, PositionInv
<1>5. CASE e.pos = 1
  <2>1. \A f \in EventsOf(c) : f.pos # 0
    BY DEF EventsOf, LifecycleInv, TypeOK, Event
  <2>2. Reduced(c, Kinds) = {}
    BY <1>1, <1>2, <1>4, <1>5, <2>1
  <2> QED
    BY <1>3, <1>4, <2>2 DEF LastIsState
<1>6. CASE e.pos # 1
  <2>1. e.pos - 1 \in 1..Cardinality(EventsOf(c))
    <3>1. Cardinality(EventsOf(c)) \in Nat /\ e.pos <= Cardinality(EventsOf(c))
      BY <1>0, FS_Subset, FS_CardinalityType DEF EventsOf, PositionInv
    <3> QED
      BY <1>0, <1>6, <3>1
  <2>2. PICK f \in EventsOf(c) : f.pos = e.pos - 1
    BY <1>0, <2>1 DEF PositionInv
  <2>3. f \in Reduced(c, Kinds)
    BY <1>0, <1>1, <2>2
  <2>4. \A g \in Reduced(c, Kinds) : g.pos <= f.pos
    BY <1>0, <1>1, <1>2, <1>4, <2>2
  <2>5. chains[c].state = f.kind
    BY <1>3, <2>3, <2>4 DEF LastIsState
  <2> QED
    BY <1>0, <1>4, <2>2, <2>5
<1> QED
  BY <1>5, <1>6

\* An event that is reduced in turn follows the state of its chain.
LEMMA ReduceKeepsUnraced ==
  ASSUME LifecycleInv, BeliefInv, UnracedInv, NEW e \in published, Reduce(e)
  PROVE  UnracedInv'
<1> DEFINE c == e.corr  style == fill_style[c]  old == chains[c]
<1>0. PositionInv /\ CauseInv /\ PublicationInv /\ OrderInv /\ UnracedOrderIsQuiet
  BY DEF UnracedInv
<1>1. PICK new : Moves(old, new, style, e.kind, e) /\ Update(c, new)
  BY ReduceMoves
<1>2. /\ e \notin seen /\ seen' = seen \union {e} /\ UNCHANGED << fill_style, published, executed, republished >>
      /\ in_order' = [in_order EXCEPT ![c] =
                        @ /\ \A f \in EventsOf(c) : f.pos < e.pos => f \in seen]
  BY ReduceSteps DEF Receive, marketVars
<1>3. /\ c \in Corr /\ e \in EventsOf(c) /\ e.kind \in Kinds /\ e.pos \in Nat \ {0}
      /\ chains \in [Corr -> Chain] /\ in_order \in [Corr -> BOOLEAN]
      /\ style \in QuantityStyles
  BY LifecycleAssumption DEF EventsOf, LifecycleInv, TypeOK, Event
<1>4. chains'[c] = new /\ \A d \in Corr : d # c => chains'[d] = chains[d] /\ in_order'[d] = in_order[d]
  BY <1>1, <1>2, <1>3 DEF Update
<1>5. in_order'[c] => in_order[c] /\ \A f \in EventsOf(c) : f.pos < e.pos => f \in seen
  BY <1>2, <1>3
<1>6. \A d : EventsOf(d)' = EventsOf(d) /\ (CancelRaced(d)' <=> CancelRaced(d))
  BY <1>2 DEF EventsOf, CancelRaced
<1>7. PositionInv'
  BY <1>0, <1>6 DEF PositionInv
<1>8. CauseInv' /\ PublicationInv'
  BY <1>0, <1>2, <1>6
     DEF CauseInv, PublicationInv, RanksRise, ExecutionsRise, NextIsValid, Happened
<1>9. in_order'[c] =>
        /\ \A f \in Reduced(c, Kinds) : f.pos < e.pos
        /\ \/ Reduced(c, Kinds) = {} /\ chains[c].state = "Observed"
           \/ \E f \in EventsOf(c) : e.pos = f.pos + 1 /\ chains[c].state = f.kind
  BY <1>0, <1>2, <1>5, NextInOrder
<1>10. OrderInv'
  <2> SUFFICES ASSUME NEW d \in Corr, in_order'[d] PROVE PrefixReduced(d)' /\ LastIsState(d)'
    BY DEF OrderInv
  <2>1. CASE d # c
    <3>1. PrefixReduced(d) /\ LastIsState(d)
      BY <1>0, <1>4, <2>1 DEF OrderInv
    <3>2. Reduced(d, Kinds)' = Reduced(d, Kinds)
      BY <2>1, ReducedGrows
    <3>3. PrefixReduced(d)'
      BY <1>2, <1>6, <2>1, <3>1 DEF PrefixReduced, EventsOf
    <3>4. LastIsState(d)'
      BY <1>4, <2>1, <3>1, <3>2 DEF LastIsState
    <3> QED
      BY <3>3, <3>4
  <2>2. CASE d = c
    <3>1. PrefixReduced(c) /\ LastIsState(c)
      BY <1>0, <1>3, <1>5, <2>2 DEF OrderInv
    <3>2. Reduced(c, Kinds)' = Reduced(c, Kinds) \union {e}
      BY <1>3, ReducedGrows
    <3>3. PrefixReduced(c)'
      BY <1>2, <1>5, <1>6, <2>2, <3>1 DEF PrefixReduced
    <3>4. \A f \in Reduced(c, Kinds) : f.pos < e.pos /\ f.pos \in Nat
      BY <1>9, <2>2 DEF Reduced, LifecycleInv, TypeOK, Event
    <3>5. new.state = e.kind
      BY <1>1 DEF Moves
    <3>6. LastIsState(c)'
      BY <1>3, <1>4, <3>2, <3>4, <3>5 DEF LastIsState
    <3> QED
      BY <2>2, <3>3, <3>6
  <2> QED
    BY <2>1, <2>2
<1>11. UnracedOrderIsQuiet'
  <2> SUFFICES ASSUME NEW d \in Corr, in_order'[d], republished[d] = 0, ~ CancelRaced(d)
               PROVE  chains'[d].anomalies = {}
    BY <1>2, <1>6 DEF UnracedOrderIsQuiet, Quiet
  <2>1. CASE d # c
    BY <1>0, <1>4, <2>1 DEF UnracedOrderIsQuiet, Quiet
  <2>2. CASE d = c
    <3>1. old.anomalies = {}
      BY <1>0, <1>3, <1>5, <2>2 DEF UnracedOrderIsQuiet, Quiet
    <3>2. RanksRise(c) /\ ExecutionsRise(c) /\ NextIsValid(c)
      BY <1>0, <1>3, <2>2 DEF PublicationInv
    <3>3. ValidTransition(old.state, e.kind)
      <4>1. CASE old.state = "Observed"
        BY <1>3, <4>1 DEF ValidTransition, ValidNext
      <4>2. CASE \E f \in EventsOf(c) : e.pos = f.pos + 1 /\ old.state = f.kind
        BY <1>3, <2>2, <3>2, <4>2 DEF NextIsValid
      <4> QED
        BY <1>9, <2>2, <4>1, <4>2
    <3>4. ASSUME e.kind \in FillStates PROVE Acceptable(old, style, e)
      <4>1. \A f \in Reduced(c, FillStates) : f.exec < e.exec
        <5>1. \A f \in Reduced(c, FillStates) : f \in EventsOf(c) /\ f \in Reduced(c, Kinds)
          BY DEF Reduced, EventsOf, LifecycleInv, TypeOK
        <5> QED
          BY <1>3, <1>9, <2>2, <3>2, <3>4, <5>1 DEF ExecutionsRise, Reduced
      <4>2. e.exec \in Nat /\ \A f \in Reduced(c, FillStates) : f.exec \in Nat
        BY <3>4, LifecycleAssumption DEF Reduced, LifecycleInv, TypeOK, Event
      <4>3. old.execution_ids \subseteq Executions(c) /\ Counted(c)
        BY <1>3, <3>1, ReducedFills DEF BeliefInv, Quiet, Good, Fits, Executions, Lots, Named
      <4>4. \A x \in Executions(c) : x < e.exec /\ x \in Nat
        BY <4>1, <4>2 DEF Executions, Lots
      <4>5. e.exec \notin old.execution_ids
        BY <4>2, <4>3, <4>4
      <4>6. style = "cumulative" => e.exec >= old.filled
        BY <4>2, <4>3, <4>4 DEF Counted
      <4> QED
        BY <4>5, <4>6 DEF Acceptable
    <3>5. new.anomalies = {}
      BY <1>1, <3>1, <3>3, <3>4 DEF Moves
    <3> QED
      BY <1>4, <2>2, <3>5
  <2> QED
    BY <2>1, <2>2
<1> QED
  BY <1>7, <1>8, <1>10, <1>11 DEF UnracedInv

\* No false alarm: an order reduced as it was published, each event once, shows no
\* anomaly unless other events than the answer followed a cancel request.
THEOREM UnracedOrdersAreQuiet == Spec => []UnracedOrderIsQuiet
<1>1. LifecycleInv /\ WorldInv /\ BeliefInv /\ UnracedInv /\ [Next]_vars => UnracedInv'
  <2> SUFFICES ASSUME LifecycleInv, WorldInv, BeliefInv, UnracedInv, [Next]_vars
               PROVE  UnracedInv'
    OBVIOUS
  <2>1. ASSUME NEW c \in Corr,
               \/ \E kind \in Kinds \ FillStates : Happens(c, kind)
               \/ \E named \in BOOLEAN : Execute(c, named)
               \/ \E e \in EventsOf(c) : Republish(c, e)
        PROVE  UnracedInv'
    BY <2>1, PublishingKeepsUnraced
  <2>2. ASSUME NEW e \in published, Reduce(e) PROVE UnracedInv'
    BY <2>2, ReduceKeepsUnraced
  <2>3. CASE UNCHANGED vars
    <3>1. \A d : EventsOf(d)' = EventsOf(d)
      BY <2>3 DEF vars, marketVars, EventsOf
    <3>2. \A d, kinds : Reduced(d, kinds)' = Reduced(d, kinds)
      BY <2>3 DEF vars, reducerVars, Reduced
    <3>0. \A d, kind : Happened(d, kind)' <=> Happened(d, kind)
      BY <2>3 DEF vars, marketVars, Happened
    <3>3. PositionInv' /\ CauseInv'
      BY <3>0, <3>1 DEF UnracedInv, PositionInv, CauseInv
    <3>4. PublicationInv'
      BY <2>3, <3>1 DEF vars, marketVars, UnracedInv, PublicationInv, RanksRise,
                        ExecutionsRise, NextIsValid, CancelRaced
    <3>5. OrderInv'
      BY <2>3, <3>1, <3>2 DEF vars, reducerVars, UnracedInv, OrderInv, PrefixReduced, LastIsState
    <3>6. UnracedOrderIsQuiet'
      BY <2>3, <3>1 DEF vars, marketVars, reducerVars, UnracedInv, UnracedOrderIsQuiet,
                        CancelRaced, Quiet
    <3> QED
      BY <3>3, <3>4, <3>5, <3>6 DEF UnracedInv
  <2> QED
    BY <2>1, <2>2, <2>3 DEF Next
<1>2. LifecycleInv /\ WorldInv /\ BeliefInv /\ [Next]_vars => (WorldInv /\ BeliefInv)'
  BY WorldStep, BeliefStep
<1>3. UnracedInv => UnracedOrderIsQuiet
  BY DEF UnracedInv
<1> QED
  BY InitBelief, InitUnraced, <1>1, <1>2, <1>3, LifecycleInvariant, PTL DEF Spec
=============================================================================
