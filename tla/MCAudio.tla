------------------------------- MODULE MCAudio -------------------------------
(***************************************************************************)
(* Two writers and a ring of three pairs, of which a call may take two: a  *)
(* call of three is long, and two calls overfill the ring.                 *)
(***************************************************************************)
EXTENDS Audio

\* Past that nothing is left to find: once shared stays true the properties of
\* a damaged ring hold by their exceptions; a mixer that was stopped or that
\* the device ended does no step that a slow one does not do, and ends the
\* waits of WriteWaitReturns by its exceptions.
Undecided == (intact \/ ~ shared) /\ _running /\ mixer # "ended"
=============================================================================
