------------------------------- MODULE MCUtils -------------------------------
(***************************************************************************)
(* Three parts that share no state: a circular list used within its        *)
(* assertions, the task queue of the drawing thread, and the vertical      *)
(* blank.  The initial state chooses which of them runs; the others stand  *)
(* still.                                                                  *)
(*                                                                         *)
(* A ring of four slots with positions of three bits, and a count of       *)
(* vertical blanks of three bits: they wrap.  Two guest threads, and a     *)
(* drawing thread with two tasks of its own.                               *)
(***************************************************************************)
EXTENDS CircularList, TaskQueue, Display

VARIABLE part

utilsVars == <<listVars, taskVars, displayVars, part>>

MCInit ==
  /\ ListInit /\ TaskInit /\ DisplayInit
  /\ part \in {"circular list", "task queue", "display"}

MCNext ==
  \/ part = "circular list" /\ ListNext /\ UNCHANGED <<taskVars, displayVars, part>>
  \/ part = "task queue" /\ TaskNext /\ UNCHANGED <<listVars, displayVars, part>>
  \/ part = "display" /\ DisplayNext /\ UNCHANGED <<listVars, taskVars, part>>

\* Fairness is that of the part that runs.
MCSpec ==
  /\ MCInit /\ [][MCNext]_utilsVars
  /\ part = "task queue" => TaskFairness
  /\ part = "display" => DisplayFairness
=============================================================================
