------------------------------ MODULE MCDisplay ------------------------------
(***************************************************************************)
(* A count of vertical blanks of three bits, which wraps.                  *)
(***************************************************************************)
EXTENDS Display
=============================================================================
