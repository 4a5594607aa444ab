----------------------------- MODULE BrokerControl -----------------------------
(***************************************************************************)
(* command-gateway's --execute-broker-control: which runtime control of    *)
(* broker-control-gateway, if any, stands for a command exactly.           *)
(*                                                                         *)
(* A --broker-account-slot is the text ACCOUNT=SLOT, here an account and a *)
(* slot; one without "=" is Malformed and one whose slot is not a u8 has a *)
(* slot out of 0..255.  The mappings are searched in order.                *)
(***************************************************************************)
EXTENDS CommandKinds, Sequences

Malformed == [account |-> None, slot |-> 0]
Slots == 0..255

Unsupported == [scope |-> "unsupported", slot |-> 0, family |-> None]
GlobalControl(family) == [scope |-> "global", slot |-> 0, family |-> family]
SlotControl(slot, family) == [scope |-> "account_slot", slot |-> slot, family |-> family]
Controls ==
  {Unsupported} \union [scope : {"global", "account_slot"}, slot : Slots,
                        family : {"global_kill", "flatten_only", "cancel_all"}]

\* account_slot_for: the first mapping that is malformed or is the account's.
AccountSlotFor(account, slots) ==
  LET Stops == {i \in DOMAIN slots : slots[i] = Malformed \/ slots[i].account = account}
      first == CHOOSE i \in Stops : \A j \in Stops : i <= j
  IN IF Stops # {} /\ slots[first] # Malformed /\ slots[first].slot \in Slots
     THEN {slots[first].slot} ELSE {}

\* broker_control_account_slot_scope
SlotScope(account, slots, family) ==
  IF IsGlobalAlias(account) \/ AccountSlotFor(account, slots) = {} THEN Unsupported
  ELSE SlotControl(CHOOSE n \in AccountSlotFor(account, slots) : TRUE, family)

\* Mutant: without a slot for its account a command is sent to the global scope.
AnyScope_FallsBackToGlobal(account, slots, family) ==
  IF SlotScope(account, slots, family) = Unsupported THEN GlobalControl(family)
  ELSE SlotScope(account, slots, family)

\* broker_control_scope
AnyScope(account, slots, family) ==
  IF IsGlobalAlias(account) THEN GlobalControl(family) ELSE SlotScope(account, slots, family)

\* What a flatten or a cancel-all asks of the broker; a kill switch of one
\* account becomes a cancel-all of its slot.
Family(payload) ==
  IF payload.command_type \in {"FlattenSymbolRequested", "FlattenAccountRequested"}
  THEN "flatten_only" ELSE "cancel_all"

\* broker_control_request
BrokerControlRequest(payload, slots) ==
  CASE payload.command_type = "GlobalKillSwitchRequested" ->
         IF IsGlobalAlias(payload.account) THEN GlobalControl("global_kill") ELSE Unsupported
    [] payload.command_type \in SymbolCommands ->
         IF payload.object = "*" THEN AnyScope(payload.account, slots, Family(payload)) ELSE Unsupported
    [] payload.command_type \in AccountCommands \ {"GlobalKillSwitchRequested"} ->
         SlotScope(payload.account, slots, Family(payload))
    [] OTHER -> Unsupported
=============================================================================
