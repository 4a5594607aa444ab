-------------------------- MODULE MCOrderLifecycle --------------------------
(* Small instances of OrderLifecycle: an order of two lots passes through   *)
(* every lifecycle state a payload can cause, with room for a partial fill. *)
EXTENDS OrderLifecycle
=============================================================================
