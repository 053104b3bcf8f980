----------------------------- MODULE MCScheduler -----------------------------
(***************************************************************************)
(* Three threads of two priorities.  A thread of priority 0 never waits    *)
(* and starves the others, so it is left to the proofs of the invariants.  *)
(***************************************************************************)
EXTENDS HleThreadManagerBypass

MCPriorities == {1, 3}
=============================================================================
