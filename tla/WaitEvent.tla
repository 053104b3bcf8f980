------------------------------ MODULE WaitEvent ------------------------------
(***************************************************************************)
(* The auto-reset events of src/src/pspemu/utils/sync/WaitEvent.d and the  *)
(* wait on them of WaitMultipleObjects.d, as the kernel objects of         *)
(* hle/kd/threadman use them.                                              *)
(*                                                                         *)
(* An event is a Boolean: signalled or not.  A wait that is satisfied      *)
(* resets it, so one signal wakes one thread, any of those that wait, and  *)
(* a second signal before that is no more than the first.  The constructor *)
(* passes its name to CreateEventA: all the events of one name are one     *)
(* event of the operating system.                                          *)
(***************************************************************************)
EXTENDS Integers, FiniteSets

CONSTANTS
  Guest,    \* the guest threads, each on a native thread of its own
  Nobody

ASSUME GuestAssumption == Nobody \notin Guest /\ IsFiniteSet(Guest)

signal(event) == event' = TRUE

waitAny(event) == event /\ event' = FALSE

=============================================================================
