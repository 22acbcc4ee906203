-------------------------- MODULE MCServerLifecycle --------------------------
(* Instances of ServerLifecycle for TLC. *)
EXTENDS ServerLifecycle, TLC

CONSTANTS r1, r2
==============================================================================
