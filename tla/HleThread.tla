------------------------------ MODULE HleThread ------------------------------
(***************************************************************************)
(* HleThreadManager over the fiber threads of                              *)
(* src/src/pspemu/hle/HleThread.d (lines 13 to 59).                        *)
(*                                                                         *)
(* The static variable `current' is set by threadResume and cleared by     *)
(* threadYield only, so a fiber whose run returns, or ends in a caught     *)
(* exception, leaves it set.  threadFinished is the set of the fibers in   *)
(* state TERM; the fiber in state EXEC is the one inside its slice.        *)
(***************************************************************************)
EXTENDS HleThreadManager

VARIABLE current

fiberVars == <<hleThreads, order, waitCount, currentPriority, threadFinished,
               currentExecutingThread, loop, current>>

FiberTypeOK == TypeOK /\ current \in Thread \cup {NoThread}

FiberInit == Init /\ current = NoThread

\* Mutant: threadResume does not set `current'.
fiberResumeUntracked ==
  /\ current = NoThread
  /\ threadResume
  /\ UNCHANGED current

(***************************************************************************)
(* threadResume enters the fiber, or throws "Tried to call threadResume    *)
(* inside the execution of another HleThread"; nothing catches that below  *)
(* executionLoop, and the thread is not charged.                           *)
(***************************************************************************)
fiberResume ==
  /\ current = NoThread
  /\ current' = currentExecutingThread
  /\ threadResume

fiberResumeThrows ==
  /\ loop = "resume"
  /\ current # NoThread
  /\ loop' = "thrown"
  /\ UNCHANGED <<hleThreads, order, waitCount, currentPriority,
                 threadFinished, currentExecutingThread, current>>

\* A syscall of the running fiber calls the static threadYield, which throws
\* outside a fiber; fiber.call returns to switchTo.
threadYield ==
  /\ current # NoThread
  /\ current' = NoThread
  /\ yields

\* run returns or its catch clause ends it: the fiber is in state TERM.
runEnds == finishes /\ UNCHANGED current

\* What the manager and the host do besides resuming a thread.
managerStep ==
  /\ \/ \E t \in Thread \ {current}, p \in Priorities : construct(t, p)
     \/ \E t \in Thread : add(t)
     \/ reset
     \/ executionLoop
     \/ executionLoopReturns
     \/ switchToNext
     \/ \E t \in Thread, p \in Priorities : changeThreadPriority(t, p)
  /\ UNCHANGED current

FiberNext ==
  \/ fiberResume
  \/ fiberResumeThrows
  \/ threadYield
  \/ runEnds
  \/ managerStep

FiberSpec == FiberInit /\ [][FiberNext]_fiberVars

-----------------------------------------------------------------------------

(***************************************************************************)
(* `current' is the fiber inside its slice and, outside every slice, is    *)
(* null or a fiber that terminated (lines 40 to 50).                       *)
(***************************************************************************)
CurrentTracksFiber ==
  IF loop = "slice"
  THEN current = currentExecutingThread
  ELSE current \in threadFinished \cup {NoThread}

=============================================================================
