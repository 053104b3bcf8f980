----------------------- MODULE HleThreadManagerBypass -----------------------
(***************************************************************************)
(* How long a ready thread can be bypassed by HleThreadManager.            *)
(*                                                                         *)
(* Two history variables are added to the scheduler, which do not change   *)
(* its behaviours: lastCharge[t] is what the last slice of t cost it, and  *)
(* charged[t][u] is what u has been charged in total since the last slice  *)
(* of t, or since the later of the two was added.                          *)
(***************************************************************************)
EXTENDS HleThreadManager

VARIABLES lastCharge, charged

bypassVars == <<hleThreads, order, waitCount, currentPriority, threadFinished,
                currentExecutingThread, loop, lastCharge, charged>>

HistoryTypeOK ==
  /\ lastCharge \in [Thread -> Int]
  /\ charged \in [Thread -> [Thread -> Int]]

BypassInit ==
  /\ Init
  /\ lastCharge = [t \in Thread |-> 0]
  /\ charged = [t \in Thread |-> [u \in Thread |-> 0]]

\* A new thread has had no slice.
constructH(t, p) ==
  /\ construct(t, p)
  /\ lastCharge' = [lastCharge EXCEPT ![t] = 0]
  /\ UNCHANGED charged

\* Nobody has bypassed a thread that was just added, and it bypassed nobody.
addH(t) ==
  /\ add(t)
  /\ charged' = [x \in Thread |->
                   [y \in Thread |-> IF t \in {x, y} THEN 0 ELSE charged[x][y]]]
  /\ UNCHANGED lastCharge

\* The slice of the current thread starts over its own account and adds its
\* cost to what it has been charged in those of the other threads of the array.
switchToReturnsH ==
  LET c == currentExecutingThread
      p == currentPriority[c]
  IN  /\ yields \/ finishes
      /\ lastCharge' = [lastCharge EXCEPT ![c] = p]
      /\ charged' = [x \in Thread |-> [y \in Thread |->
                       IF x = c THEN 0
                       ELSE IF y = c /\ x \in hleThreads
                       THEN charged[x][y] + p
                       ELSE charged[x][y]]]

\* Every other step leaves the accounts alone.
otherH ==
  /\ \/ reset
     \/ executionLoop
     \/ executionLoopReturns
     \/ switchToNext
     \/ threadResume
     \/ \E t \in Thread, p \in Priorities : changeThreadPriority(t, p)
  /\ UNCHANGED <<lastCharge, charged>>

BypassNext ==
  \/ \E t \in Thread, p \in Priorities : constructH(t, p)
  \/ \E t \in Thread : addH(t)
  \/ switchToReturnsH
  \/ otherH

BypassSpec == BypassInit /\ [][BypassNext]_bypassVars

\* The fairness of FairSpec over these variables.
FairBypassSpec ==
  /\ BypassSpec
  /\ WF_bypassVars(executionLoopReturns /\ otherH)
  /\ WF_bypassVars(switchToNext /\ otherH)
  /\ WF_bypassVars(threadResume /\ otherH)
  /\ WF_bypassVars(switchToReturnsH)

-----------------------------------------------------------------------------

(***************************************************************************)
(* Bounded bypass: between two slices of a thread t of the array, another  *)
(* thread u of the array is not charged more than the cost of the last     *)
(* slice of t plus one slice of u.  So u runs at most                      *)
(* lastCharge[t] \div priority(u) + 1 times: the schedule is the           *)
(* proportional share that waitCount is there for, whatever threads are    *)
(* added, finish or change their priority meanwhile (lines 47, 76 to 90).  *)
(***************************************************************************)
BoundedBypass ==
  \A t, u \in hleThreads : charged[t][u] <= lastCharge[t] + lastCharge[u]

-----------------------------------------------------------------------------

(***************************************************************************)
(* The inductive strengthening of BoundedBypass and of WaitCountBounded:   *)
(* waitCount is what a thread was charged and has not waited for yet, and  *)
(* the difference of two waitCounts accounts for every bypass.             *)
(***************************************************************************)
WaitCountsOwed ==
  \A t \in Thread : /\ lastCharge[t] \in 0 .. MaxPriority
                    /\ 0 <= waitCount[t]
                    /\ waitCount[t] <= lastCharge[t]

ChargesAccounted ==
  \A t, u \in hleThreads :
    t # u => charged[t][u] <= waitCount[u] - waitCount[t] + lastCharge[t]

NothingChargedToOneself == \A t \in Thread : charged[t][t] = 0

BypassInv ==
  /\ SchedulerInv
  /\ HistoryTypeOK
  /\ WaitCountsOwed
  /\ ChargesAccounted
  /\ NothingChargedToOneself
  /\ BoundedBypass

=============================================================================
