--------------------------- MODULE MCCommandGateway ---------------------------
(* Small instances of CommandGateway: two workers on one audit file, one   *)
(* with a risk adapter, with every route and a crash.                      *)
EXTENDS CommandGateway
=============================================================================
