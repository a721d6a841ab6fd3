---------------------------- MODULE MCActionItems ----------------------------
(* Small instances of ActionItems for TLC.  Model values suffice; symmetry  *)
(* is not used, since the run checks liveness.                             *)
EXTENDS ActionItems
==============================================================================
