---------------------------- MODULE OrderLifecycle ----------------------------
(***************************************************************************)
(* The order-chain half of trade-core's reducer: the handlers reduce_event *)
(* dispatches strategy, risk and broker events to, and the OrderChain each *)
(* correlation id accumulates.  Producers publish an order's events in the *)
(* order they happen; the transports deliver them to the reducer in any    *)
(* order, late, or never, and may deliver an envelope again.               *)
(*                                                                         *)
(* A delivery whose event_id was seen changes nothing here (EventIntake    *)
(* models its counter), so it is no step of this module.  A producer that  *)
(* reports a fact again does so under a new event_id: Republish.           *)
(*                                                                         *)
(* Quantities are lots; every execution is one lot, known by its position  *)
(* among the order's executions.  A fill may or may not carry that         *)
(* execution_id: it is an Option, and apply_fill recognises only fills     *)
(* that have one.  Prices, fees, timestamps, latencies and the timeline    *)
(* are left out.  What these handlers do to the accounts is in RiskState,  *)
(* what they count for a strategy and how a chain knows its strategy in    *)
(* StrategyTable.                                                          *)
(***************************************************************************)
EXTENDS Integers, FiniteSets

CONSTANTS
  Corr,            \* correlation ids, one order each
  Qty,             \* lots of an order
  FillStyles,      \* how a producer reports quantities, see QuantityStyles
  MaxRepublish,    \* bound: facts an order's producers report again
  MaxInFlight      \* bound: events not yet reduced, once a fact was repeated

QuantityStyles == {"cumulative", "incremental"}

ASSUME LifecycleAssumption ==
  /\ Qty \in Nat \ {0}
  /\ MaxRepublish \in Nat
  /\ MaxInFlight \in Nat
  /\ FillStyles \subseteq QuantityStyles

VARIABLES
  \* the producers (external)
  fill_style,      \* the style of each order's producer
  published,       \* events published so far
  executed,        \* lots the broker executed
  republished,     \* events that repeat an earlier one
  \* the reducer
  seen,            \* seen_event_ids
  chains,          \* orders.by_correlation_id
  order_id_index,
  \* history
  in_order         \* an order's events were reduced as published, none skipped

marketVars == << fill_style, published, executed, republished >>
reducerVars == << seen, chains, order_id_index >>
vars == << marketVars, reducerVars, in_order >>

None == -1   \* Option::None of a quantity

EarlyStates == {"SignalGenerated", "IntentCreated", "RiskApproved", "RiskRejected"}
FillStates == {"PartiallyFilled", "Filled"}
TerminalStates == {"Filled", "Cancelled", "BrokerRejected"}
OrderStates == {"SubmitRequested", "SubmittedToBroker", "BrokerAckReceived",
                "CancelRequested", "CancelRejected"} \union FillStates \union TerminalStates

\* Every payload of an order moves its chain to one lifecycle state, which
\* names the kind of the event.
Kinds == EarlyStates \union OrderStates
OrderLifecycleState == Kinds \union {"Observed", "RiskPending"}

\* pos is the envelope's place in its order's publication; with corr it is the
\* event_id.  exec is the execution a fill reports, and 0 otherwise; named says
\* whether the fill carries it as its execution_id.
Event == [corr : Corr, pos : Nat \ {0}, kind : Kinds, exec : 0..Qty, named : BOOLEAN]

-----------------------------------------------------------------------------
\* OrderChain

NewChain ==
  [state |-> "Observed", anomalies |-> {}, order_id |-> FALSE,
   terminal_ts |-> FALSE, execution_ids |-> {}, filled |-> 0, cum |-> None,
   leaves |-> None, total |-> None, reason |-> "none"]

\* is_valid_order_transition, but for the transitions to the same state.
ValidNext(current) ==
  CASE current = "Observed"          -> Kinds
    [] current = "SignalGenerated"   -> {"IntentCreated", "RiskApproved", "RiskRejected"}
    [] current = "IntentCreated"     -> {"RiskPending", "RiskApproved", "RiskRejected"}
    [] current = "RiskPending"       -> {"RiskApproved", "RiskRejected"}
    [] current = "RiskApproved"      -> {"SubmitRequested"}
    [] current = "SubmitRequested"   -> {"SubmittedToBroker"}
    [] current = "SubmittedToBroker" -> {"BrokerAckReceived", "CancelRequested",
                                         "BrokerRejected"}
    [] current = "BrokerAckReceived" -> FillStates \union {"CancelRequested",
                                                           "BrokerRejected"}
    [] current = "PartiallyFilled"   -> {"Filled", "CancelRequested"}
    [] current = "CancelRequested"   -> {"CancelRejected", "Cancelled"}
    [] OTHER -> {}

\* Mutant: a partial fill may follow the full one.
ValidTransition_LatePartial(current, next) ==
  \/ next = current \/ next \in ValidNext(current)
  \/ current = "Filled" /\ next = "PartiallyFilled"

\* Mutant: nobody thought of cancels that are rejected.
ValidTransition_NoCancelReject(current, next) ==
  next = current \/ next \in ValidNext(current) \ {"CancelRejected"}

ValidTransition(current, next) == next = current \/ next \in ValidNext(current)

Flag(ch, anomaly) == [ch EXCEPT !.anomalies = @ \union {anomaly}]

\* transition_state: an invalid transition is recorded and made all the same.
TransitionState(ch, next) ==
  [(IF ValidTransition(ch.state, next) THEN ch ELSE Flag(ch, "invalid_transition"))
     EXCEPT !.state = next]

TotalQuantity(ch) ==
  IF ch.total # None THEN ch.total
  ELSE IF ch.leaves # None THEN ch.filled + ch.leaves ELSE None

\* quantity_status, named by the remaining_reason it gives.
QuantityReason(ch) ==
  CASE TotalQuantity(ch) = None -> "missing_total_qty"
    [] TotalQuantity(ch) # None /\ ch.leaves = None -> "missing_remaining_or_leaves_qty"
    [] OTHER -> IF ch.filled + ch.leaves = TotalQuantity(ch)
                  THEN "none" ELSE "filled_plus_remaining_ne_total"

RefreshQuantityReason(ch) == [ch EXCEPT !.reason = QuantityReason(ch)]

\* The quantities a producer of this style puts in an event.
Reported(style, quantity) == IF style = "cumulative" THEN quantity ELSE None

\* Mutant: an execution that was reported again is applied again.
ApplyFill_NoDedup(ch, style, fill) ==
  LET new == IF style = "cumulative" THEN fill.exec ELSE ch.filled + 1 IN
  [(IF new < ch.filled THEN Flag(ch, "cumulative_fill_regressed") ELSE ch)
     EXCEPT !.execution_ids = @ \union (IF fill.named THEN {fill.exec} ELSE {}),
            !.filled = new, !.cum = new, !.leaves = Reported(style, Qty - fill.exec)]

\* apply_fill: a fill whose execution_id the chain has is dropped and flagged, one
\* without an execution_id never is.  A cumulative quantity replaces the filled
\* one, even a smaller; an increment is added.
ApplyFill(ch, style, fill) ==
  LET new == IF style = "cumulative" THEN fill.exec ELSE ch.filled + 1 IN
  IF fill.named /\ fill.exec \in ch.execution_ids THEN Flag(ch, "duplicate_execution_id")
  ELSE [(IF new < ch.filled THEN Flag(ch, "cumulative_fill_regressed") ELSE ch)
          EXCEPT !.execution_ids = @ \union (IF fill.named THEN {fill.exec} ELSE {}),
                 !.filled = new, !.cum = new, !.leaves = Reported(style, Qty - fill.exec)]

-----------------------------------------------------------------------------
\* The handlers, as functions of the chain.

OnSignal(ch) == TransitionState(ch, "SignalGenerated")

OnIntent(ch) ==
  TransitionState([ch EXCEPT !.total = IF @ = None THEN Qty ELSE @], "IntentCreated")

OnRiskDecision(ch, next) == TransitionState(ch, next)

OnSubmitRequested(ch, style) ==
  LET quantity == Reported(style, Qty)
      sized == [ch EXCEPT !.order_id = TRUE, !.cum = 0, !.leaves = quantity,
                          !.total = IF quantity # None THEN quantity ELSE @]
  IN  TransitionState(RefreshQuantityReason(sized), "SubmitRequested")

OnSubmitted(ch) == TransitionState([ch EXCEPT !.order_id = TRUE], "SubmittedToBroker")

\* Mutant: an ack takes the broker's leaves without looking at the total again.
OnBrokerAck_NoRefresh(ch, style) ==
  TransitionState([ch EXCEPT !.order_id = TRUE, !.leaves = Reported(style, Qty)],
                  "BrokerAckReceived")

OnBrokerAck(ch, style) ==
  TransitionState(
    RefreshQuantityReason([ch EXCEPT !.order_id = TRUE, !.leaves = Reported(style, Qty)]),
    "BrokerAckReceived")

OnFill(ch, style, fill, next) ==
  LET applied == RefreshQuantityReason(ApplyFill([ch EXCEPT !.order_id = TRUE], style, fill))
  IN  TransitionState([applied EXCEPT !.terminal_ts = @ \/ next = "Filled"], next)

OnCancelStep(ch, next) == TransitionState([ch EXCEPT !.order_id = TRUE], next)

OnTerminal(ch, next) ==
  TransitionState([ch EXCEPT !.order_id = TRUE, !.terminal_ts = TRUE], next)

-----------------------------------------------------------------------------
Init ==
  /\ fill_style \in [Corr -> FillStyles]
  /\ published = {}
  /\ executed = [c \in Corr |-> 0]
  /\ republished = [c \in Corr |-> 0]
  /\ seen = {}
  /\ chains = [c \in Corr |-> NewChain]
  /\ order_id_index = {}
  /\ in_order = [c \in Corr |-> TRUE]

\* The producers (external): strategy, risk engine, order gateway and broker.

EventsOf(c) == {e \in published : e.corr = c}
Happened(c, kind) == \E e \in published : e.kind = kind /\ e.corr = c

Lagging == Cardinality(published \ seen) >= MaxInFlight

Publish(c, kind, exec, named) ==
  /\ (\A d \in Corr : republished[d] = 0) \/ ~ Lagging
  /\ published' = published \union
       {[corr |-> c, pos |-> Cardinality(EventsOf(c)) + 1, kind |-> kind, exec |-> exec,
         named |-> named]}

\* At the broker and neither filled, cancelled nor rejected.
Working(c) ==
  /\ Happened(c, "SubmittedToBroker")
  /\ executed[c] < Qty
  /\ ~ Happened(c, "Cancelled") /\ ~ Happened(c, "BrokerRejected")

Cause(kind) ==
  CASE kind = "IntentCreated" -> "SignalGenerated"
    [] kind \in {"RiskApproved", "RiskRejected"} -> "IntentCreated"
    [] kind = "SubmitRequested" -> "RiskApproved"
    [] kind = "SubmittedToBroker" -> "SubmitRequested"
    [] kind \in {"CancelRejected", "Cancelled"} -> "CancelRequested"
    [] OTHER -> "SubmittedToBroker"

\* What, besides its cause, the world must not have seen for kind to happen.
Possible(c, kind) ==
  CASE kind \in {"RiskApproved", "RiskRejected"} ->
         ~ Happened(c, "RiskApproved") /\ ~ Happened(c, "RiskRejected")
    [] kind \in {"BrokerAckReceived", "CancelRequested"} -> Working(c)
    [] kind = "BrokerRejected" -> Working(c) /\ executed[c] = 0
    [] kind = "Cancelled" -> Working(c) /\ ~ Happened(c, "CancelRejected")
    [] kind = "CancelRejected" -> ~ Happened(c, "Cancelled")
    [] OTHER -> TRUE

Happens(c, kind) ==
  /\ ~ Happened(c, kind)
  /\ kind # "SignalGenerated" => Happened(c, Cause(kind))
  /\ Possible(c, kind)
  /\ Publish(c, kind, 0, FALSE)
  /\ UNCHANGED << fill_style, executed, republished, reducerVars, in_order >>

Execute(c, named) ==
  /\ Working(c)
  /\ Happened(c, "BrokerAckReceived")
  /\ executed' = [executed EXCEPT ![c] = @ + 1]
  /\ Publish(c, IF executed[c] + 1 = Qty THEN "Filled" ELSE "PartiallyFilled",
             executed[c] + 1, named)
  /\ UNCHANGED << fill_style, republished, reducerVars, in_order >>

Republish(c, e) ==
  /\ republished[c] < MaxRepublish /\ ~ Lagging
  /\ republished' = [republished EXCEPT ![c] = @ + 1]
  /\ Publish(c, e.kind, e.exec, e.named)
  /\ UNCHANGED << fill_style, executed, reducerVars, in_order >>

-----------------------------------------------------------------------------
\* The reducer: one action per payload.

\* reduce_event lets an unseen envelope through to its handler.
Receive(e) ==
  /\ e \notin seen
  /\ seen' = seen \union {e}
  /\ in_order' = [in_order EXCEPT ![e.corr] =
       @ /\ \A f \in EventsOf(e.corr) : f.pos < e.pos => f \in seen]
  /\ UNCHANGED marketVars

Update(c, ch) == chains' = [chains EXCEPT ![c] = ch]
IndexOrder(c) == order_id_index' = order_id_index \union {c}

ReduceSignalGenerated(e) ==
  /\ e.kind = "SignalGenerated"
  /\ Receive(e)
  /\ Update(e.corr, OnSignal(chains[e.corr]))
  /\ UNCHANGED order_id_index

ReduceIntentCreated(e) ==
  /\ e.kind = "IntentCreated"
  /\ Receive(e)
  /\ Update(e.corr, OnIntent(chains[e.corr]))
  /\ UNCHANGED order_id_index

ReduceRiskDecision(e) ==
  /\ e.kind \in {"RiskApproved", "RiskRejected"}
  /\ Receive(e)
  /\ Update(e.corr, OnRiskDecision(chains[e.corr], e.kind))
  /\ UNCHANGED order_id_index

ReduceOrderSubmitRequested(e) ==
  /\ e.kind = "SubmitRequested"
  /\ Receive(e)
  /\ Update(e.corr, OnSubmitRequested(chains[e.corr], fill_style[e.corr]))
  /\ IndexOrder(e.corr)

ReduceOrderSubmitted(e) ==
  /\ e.kind = "SubmittedToBroker"
  /\ Receive(e)
  /\ Update(e.corr, OnSubmitted(chains[e.corr]))
  /\ IndexOrder(e.corr)

ReduceBrokerAck(e) ==
  /\ e.kind = "BrokerAckReceived"
  /\ Receive(e)
  /\ Update(e.corr, OnBrokerAck(chains[e.corr], fill_style[e.corr]))
  /\ IndexOrder(e.corr)

ReduceOrderFill(e) ==
  /\ e.kind \in FillStates
  /\ Receive(e)
  /\ Update(e.corr, OnFill(chains[e.corr], fill_style[e.corr], e, e.kind))
  /\ IndexOrder(e.corr)

\* Mutant: a rejected cancel is shown but its order is not indexed.
ReduceCancelStep_NoIndex(e) ==
  /\ e.kind \in {"CancelRequested", "CancelRejected"}
  /\ Receive(e)
  /\ Update(e.corr, OnCancelStep(chains[e.corr], e.kind))
  /\ UNCHANGED order_id_index

\* reduce_cancel_requested and reduce_cancel_rejected.
ReduceCancelStep(e) ==
  /\ e.kind \in {"CancelRequested", "CancelRejected"}
  /\ Receive(e)
  /\ Update(e.corr, OnCancelStep(chains[e.corr], e.kind))
  /\ IndexOrder(e.corr)

\* reduce_order_cancelled and reduce_order_rejected.
ReduceOrderEnded(e) ==
  /\ e.kind \in {"Cancelled", "BrokerRejected"}
  /\ Receive(e)
  /\ Update(e.corr, OnTerminal(chains[e.corr], e.kind))
  /\ IndexOrder(e.corr)

Reduce(e) ==
  \/ ReduceSignalGenerated(e)
  \/ ReduceIntentCreated(e)
  \/ ReduceRiskDecision(e)
  \/ ReduceOrderSubmitRequested(e)
  \/ ReduceOrderSubmitted(e)
  \/ ReduceBrokerAck(e)
  \/ ReduceOrderFill(e)
  \/ ReduceCancelStep(e)
  \/ ReduceOrderEnded(e)

Next ==
  \/ \E c \in Corr :
       \/ \E kind \in Kinds \ FillStates : Happens(c, kind)
       \/ \E named \in BOOLEAN : Execute(c, named)
       \/ \E e \in EventsOf(c) : Republish(c, e)
  \/ \E e \in published \ seen : Reduce(e)

Spec == Init /\ [][Next]_vars

-----------------------------------------------------------------------------
Chain ==
  [state : OrderLifecycleState,
   anomalies : SUBSET {"invalid_transition", "duplicate_execution_id",
                       "cumulative_fill_regressed"},
   order_id : BOOLEAN, terminal_ts : BOOLEAN,
   execution_ids : SUBSET (1..Qty),
   filled : Nat, cum : {None} \union Nat,
   leaves : {None} \union 0..Qty, total : {None, Qty},
   reason : {"none", "missing_total_qty", "missing_remaining_or_leaves_qty",
             "filled_plus_remaining_ne_total"}]

\* The reducer's order state is well typed, in whatever order events are delivered.
TypeOK ==
  /\ fill_style \in [Corr -> FillStyles]
  /\ published \subseteq Event
  /\ executed \in [Corr -> 0..Qty]
  /\ republished \in [Corr -> 0..MaxRepublish]
  /\ seen \subseteq published
  /\ chains \in [Corr -> Chain]
  /\ order_id_index \subseteq Corr
  /\ in_order \in [Corr -> BOOLEAN]

Quiet(c) == chains[c].anomalies = {}
AllReduced(c) == EventsOf(c) \subseteq seen
Reduced(c, kinds) == {e \in seen : e.corr = c /\ e.kind \in kinds}

Named(fills) == {e \in fills : e.named}
Unnamed(fills) == {e \in fills : ~ e.named}
Lots(fills) == {e.exec : e \in fills}

\* Lots a chain fed increments counted again: the reports without execution_id it
\* reduced, beyond the first of each execution.
CountedAgain(c) ==
  LET fills == Unnamed(Reduced(c, FillStates)) IN
  IF fill_style[c] = "incremental" THEN Cardinality(fills) - Cardinality(Lots(fills)) ELSE 0

\* However its events are reordered, delivered again or reported again under new
\* ids, a chain never shows more filled than the broker executed, but for
\* increments without execution_id: each of those reported again adds its lot.
FilledNeverExceedsExecuted ==
  \A c \in Corr : chains[c].filled <= executed[c] + CountedAgain(c)

\* Every execution an event or a chain names is one the broker made, always
\* reported with its execution_id or always without; a chain has the
\* execution_ids it reduced, and an incremental one as many lots besides as it
\* reduced fills without.
ExecutionsHappened ==
  /\ \A e \in published :
       IF e.kind \in FillStates THEN e.exec \in 1..executed[e.corr] ELSE e.exec = 0
  /\ \A e, f \in {g \in published : g.kind \in FillStates} :
       e.corr = f.corr /\ e.exec = f.exec => e.named = f.named
  /\ \A c \in Corr :
       /\ chains[c].execution_ids = Lots(Named(Reduced(c, FillStates)))
       /\ IF fill_style[c] = "cumulative" THEN chains[c].filled <= executed[c]
          ELSE chains[c].filled = Cardinality(chains[c].execution_ids)
                                    + Cardinality(Unnamed(Reduced(c, FillStates)))

\* The inductive invariant behind FilledNeverExceedsExecuted.
LifecycleInv ==
  TypeOK /\ IsFiniteSet(published) /\ ExecutionsHappened

\* A chain without anomalies can be believed: once everything published about
\* an order was reduced, in any order at all, either an anomaly says that
\* something was off, or the chain shows the broker's outcome and its quantities;
\* no anomaly tells of an increment without execution_id that was counted again.
QuietIsTruth ==
  \A c \in Corr : (Quiet(c) /\ AllReduced(c)) =>
    /\ chains[c].filled = executed[c] + CountedAgain(c)
    /\ executed[c] > 0 => chains[c].cum = chains[c].filled
    /\ (chains[c].state = "Filled") <=> (executed[c] = Qty)
    /\ (chains[c].state = "Cancelled") <=> Happened(c, "Cancelled")
    /\ (chains[c].state = "BrokerRejected") <=> Happened(c, "BrokerRejected")
    /\ chains[c].terminal_ts <=> (chains[c].state \in TerminalStates)

\* The stored remaining_reason is only refreshed by some handlers; on a chain
\* without anomalies it is nevertheless the reason the quantities call for.
QuietReasonIsCurrent ==
  \A c \in Corr :
    (Quiet(c) /\ Reduced(c, {"SubmitRequested", "BrokerAckReceived"} \union FillStates) # {})
      => chains[c].reason = QuantityReason(chains[c])

\* An order can be looked up by account and order id from the first event that
\* carries them, whichever that is.
IndexComplete ==
  \A c \in Corr : Reduced(c, OrderStates) # {} => c \in order_id_index

\* A cancel request raced the broker: events other than its answer follow it.
CancelRaced(c) ==
  \E e, f \in EventsOf(c) :
    /\ e.kind = "CancelRequested" /\ e.pos < f.pos
    /\ f.kind \notin {"CancelRejected", "Cancelled"}

\* No false alarm: an order whose events are reduced as they were published,
\* once each, shows no anomaly, unless a cancel raced the broker.
UnracedOrderIsQuiet ==
  \A c \in Corr :
    (in_order[c] /\ republished[c] = 0 /\ ~ CancelRaced(c)) => Quiet(c)
=============================================================================
