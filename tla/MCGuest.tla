------------------------------- MODULE MCGuest -------------------------------
(***************************************************************************)
(* What guest threads run on and call, in parts that share no state: the   *)
(* fibers of the scheduler, the buffered frames of the controller, a       *)
(* semaphore, the event flags, sleep and wake-up, and the end of a thread. *)
(* The initial state chooses the part that runs; the others stand still,   *)
(* and the priorities matter to the fibers only.                           *)
(***************************************************************************)
EXTENDS HleThread, Controller, Semaphore, EventFlag, SleepWakeup, ThreadEnd

VARIABLE part

Parts == {"fibers", "controller", "semaphore", "event flags", "sleep", "end"}

MCPriorities == {1, 2}
MCValue == 0 .. MaxPushes

\* An amount that makes no sense, one that does, and one that is too much.
MCAmounts == {-1, 1, maxCount + 1}

\* Two late tests of the count take it below zero, and a race of waits with a
\* deletion as far below as one likes.
LowestCount == -1

\* A wait for both bits, one that clears the flag and one that clears its
\* pattern.
MCWaits ==
  {[pattern |-> {1, 2}, or |-> FALSE, clear |-> "none", timed |-> FALSE],
   [pattern |-> {1}, or |-> TRUE, clear |-> "all", timed |-> TRUE],
   [pattern |-> {1, 2}, or |-> TRUE, clear |-> "pattern", timed |-> FALSE]}
MCMasks == {{1}, {2}}

guestVars == <<fiberVars, ctrlVars, semaVars, flagVars, sleepVars, endVars, part>>

MCInit ==
  /\ FiberInit /\ ControllerInit /\ SemaInit /\ FlagInit /\ SleepInit /\ EndInit
  /\ part \in Parts
  /\ part # "fibers" => \A t \in Thread : currentPriority[t] = MaxPriority

fibers == <<ctrlVars, semaVars, flagVars, sleepVars, endVars, part>>
controller == <<fiberVars, semaVars, flagVars, sleepVars, endVars, part>>
semaphore == <<fiberVars, ctrlVars, flagVars, sleepVars, endVars, part>>
eventFlags == <<fiberVars, ctrlVars, semaVars, sleepVars, endVars, part>>
sleep == <<fiberVars, ctrlVars, semaVars, flagVars, endVars, part>>
end == <<fiberVars, ctrlVars, semaVars, flagVars, sleepVars, part>>

MCNext ==
  \/ part = "fibers" /\ FiberNext /\ UNCHANGED fibers
  \/ part = "controller" /\ ControllerNext /\ UNCHANGED controller
  \/ part = "semaphore" /\ SemaNext /\ UNCHANGED semaphore
  \/ part = "event flags" /\ FlagNext /\ UNCHANGED eventFlags
  \/ part = "sleep" /\ SleepNext /\ UNCHANGED sleep
  \/ part = "end" /\ EndNext /\ UNCHANGED end

\* No fair step is enabled in a part that stands still.
MCSpec ==
  /\ MCInit /\ [][MCNext]_guestVars
  /\ SemaFairness /\ SleepFairness /\ EndFairness

\* Past that a part has little left to say.  The invariants of the semaphore hold
\* by their exceptions once a negative amount and an overlap were seen.  With a
\* torn number of waiters DeleteReturns does; to the count it only matters how
\* often a deletion raises it, and one may raise it once more in any case.  The
\* properties of the flags hold by their exceptions once the bits are torn.
Undecided ==
  /\ ~ (overlapped /\ unchecked)
  /\ ~ waitersTorn /\ currentCount >= LowestCount
  /\ ~ bitsTorn

\* Threads are numbers here.  Threads 1 and 2 wait for the semaphore, thread 3
\* signals and deletes it; thread 1 alone asks for other amounts than one, and it
\* gives a timeout with an amount that makes sense.  Of the other parts, thread 1
\* alone gives timeouts and terminates the target, thread 3 alone clears flags,
\* and the other calls are anybody's.
Roles ==
  /\ sema[3].call \in {"none", "signal", "delete"}
  /\ sema[2].n \in {0, 1}
  /\ sema[1].call = "wait" => sema[1].timed = (sema[1].n = 1)
  /\ \A g \in Guest \ {1} :
       /\ ~ sema[g].timed
       /\ flagThread[g].at \in {"test", "asleep"} => ~ flagThread[g].wait.timed
  /\ \A g \in Guest \ {3} :
       /\ sema[g].call \notin {"signal", "delete"}
       /\ flagThread[g].at \notin {"clear", "clearWrite"}
  /\ \A w \in Waiter \ {1} : w \notin signals /\ ~ waiter[w].timed

=============================================================================
