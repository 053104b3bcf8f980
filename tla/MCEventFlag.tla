----------------------------- MODULE MCEventFlag -----------------------------
(***************************************************************************)
(* One flag, and the waits of one bit that clear it.                       *)
(***************************************************************************)
EXTENDS EventFlag

MCMasks == {{1}, {2}}
MCWaits == [pattern : {{1}}, or : BOOLEAN, clear : {"all", "pattern"}, timed : {FALSE}]
=============================================================================
