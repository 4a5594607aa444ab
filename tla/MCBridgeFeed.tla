---------------------------- MODULE MCBridgeFeed ----------------------------
(* A small instance of BridgeFeed: two crashes are enough for a number to  *)
(* be used by three different events.                                      *)
EXTENDS BridgeFeed
=============================================================================
