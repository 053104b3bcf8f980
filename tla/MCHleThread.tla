----------------------------- MODULE MCHleThread -----------------------------
(***************************************************************************)
(* A small instance of HleThread.                                          *)
(***************************************************************************)
EXTENDS HleThread, TLC

MCPriorities == {1, 2}

ThreadSymmetry == Permutations(Thread)
=============================================================================
