----------------------- MODULE HleThreadManager_proofs -----------------------
(***************************************************************************)
(* Proofs about HleThreadManager, HleThreadManagerBypass and HleThread.    *)
(***************************************************************************)
EXTENDS HleThreadManagerBypass, HleThread, WellFoundedInduction, FiniteSetTheorems, TLAPS

(***************************************************************************)
(* A nonempty finite set of integers has a least element: the elements     *)
(* below a minimal one, for the strict inclusion of these sets, are none.  *)
(***************************************************************************)
LEMMA LeastElement ==
  ASSUME NEW T \in SUBSET Int, IsFiniteSet(T), T # {}
  PROVE  \E x \in T : \A y \in T : x <= y
<1> DEFINE R == StrictSubsetOrdering(T)
           Below(x) == {z \in T : z < x}
           F == {Below(x) : x \in T}
<1>1. IsWellFoundedOn(R, FiniteSubsetsOf(T))
  BY FS_StrictSubsetOrderingWellFounded, Zenon
<1>2. F \subseteq FiniteSubsetsOf(T)
  <2>1. \A x \in T : Below(x) \subseteq T
    OBVIOUS
  <2>2. \A x \in T : IsFiniteSet(Below(x))
    BY FS_Subset
  <2> QED
    BY <2>1, <2>2 DEF FiniteSubsetsOf
<1>3. F # {}
  OBVIOUS
<1>4. PICK m \in F : \A n \in F : <<n, m>> \notin R
  <2> HIDE DEF F, R
  <2> QED
    BY <1>1, <1>2, <1>3, WFMin, Zenon
<1>5. PICK x \in T : m = Below(x)
  OBVIOUS
<1>6. \A y \in T : ~(y < x)
  <2> SUFFICES ASSUME NEW y \in T, y < x PROVE FALSE
    OBVIOUS
  <2>1. y \in Below(x) /\ y \notin Below(y)
    OBVIOUS
  <2>2. \A z \in T : z < y => z < x
    <3> TAKE z \in T
    <3>1. x \in Int /\ y \in Int /\ z \in Int
      OBVIOUS
    <3> QED
      BY <3>1
  <2>3. Below(y) \subseteq Below(x)
    BY <2>2
  <2>4. <<Below(y), Below(x)>> \in R
    BY <2>1, <2>3 DEF StrictSubsetOrdering
  <2> QED
    BY <1>4, <1>5, <2>4
<1> QED
  BY <1>6

\* A function on a nonempty finite set has a least value.
LEMMA LeastImage ==
  ASSUME NEW S, IsFiniteSet(S), S # {}, NEW f \in [S -> Int]
  PROVE  \E s \in S : \A u \in S : f[s] <= f[u]
<1> DEFINE W == {f[s] : s \in S}
<1>1. IsFiniteSet(W)
  <2>1. f \in Surjection(S, W)
    BY DEF Surjection
  <2> HIDE DEF W
  <2> QED
    BY <2>1, FS_Surjection
<1>2. W \in SUBSET Int /\ W # {}
  OBVIOUS
<1>3. PICK m \in W : \A y \in W : m <= y
  BY <1>1, <1>2, LeastElement
<1> QED
  BY <1>3

(***************************************************************************)
(* calculateMinWaitCount returns the least waitCount (lines 50 to 59).     *)
(***************************************************************************)
LEMMA MinWaitCount ==
  ASSUME TypeOK, NEW S \in SUBSET Thread, S # {}
  PROVE  /\ calculateMinWaitCount(S) \in {waitCount[t] : t \in S}
         /\ \A t \in S : calculateMinWaitCount(S) <= waitCount[t]
<1> DEFINE f == [t \in S |-> waitCount[t]]
<1>1. IsFiniteSet(S)
  BY FS_Subset, ThreadAssumption
<1>2. f \in [S -> Int]
  BY DEF TypeOK
<1>3. PICK s \in S : \A t \in S : f[s] <= f[t]
  <2> HIDE DEF f
  <2> QED
    BY <1>1, <1>2, LeastImage
<1>4. \A t \in S : waitCount[s] <= waitCount[t]
  BY <1>3
<1> QED
  BY <1>4 DEF calculateMinWaitCount

(***************************************************************************)
(* Among any threads there is a last added one (line 85).                  *)
(***************************************************************************)
LEMMA LastAddedExists ==
  ASSUME TypeOK, NEW S \in SUBSET Thread, S # {}
  PROVE  LastAdded(S) \in S
<1> DEFINE f == [t \in S |-> -order[t]]
<1>1. IsFiniteSet(S)
  BY FS_Subset, ThreadAssumption
<1>2. f \in [S -> Int]
  BY DEF TypeOK
<1>3. PICK t \in S : \A u \in S : f[t] <= f[u]
  <2> HIDE DEF f
  <2> QED
    BY <1>1, <1>2, LeastImage
<1>5. \A u \in S : order[u] <= order[t]
  <2> TAKE u \in S
  <2>1. -order[t] <= -order[u]
    BY <1>3
  <2>2. order[t] \in Int /\ order[u] \in Int
    BY DEF TypeOK
  <2> QED
    BY <2>1, <2>2
<1> QED
  BY <1>5 DEF LastAdded

(***************************************************************************)
(* Subtracting the minimum keeps every waitCount in its bounds, makes one  *)
(* of the threads ready, and keeps the differences (lines 78 to 82).       *)
(***************************************************************************)
LEMMA Synchronized ==
  ASSUME TypeOK, WaitCountBounded, NEW S \in SUBSET Thread
  PROVE  /\ synchronized(S) \in [Thread -> Int]
         /\ \A t \in Thread : /\ 0 <= synchronized(S)[t]
                             /\ synchronized(S)[t] <= waitCount[t]
         /\ S # {} => \E t \in S : synchronized(S)[t] = 0
         /\ \A t, u \in S : synchronized(S)[u] - synchronized(S)[t]
                              = waitCount[u] - waitCount[t]
<1>1. \A t \in Thread : waitCount[t] \in Int /\ 0 <= waitCount[t]
  BY PrioritiesAssumption DEF TypeOK, WaitCountBounded
<1>2. CASE S = {}
  BY <1>1, <1>2 DEF synchronized
<1>3. CASE S # {}
  <2> DEFINE m == calculateMinWaitCount(S)
  <2>1. m \in {waitCount[t] : t \in S} /\ \A t \in S : m <= waitCount[t]
    BY <1>3, MinWaitCount
  <2> HIDE DEF m
  <2>2. m \in Int /\ 0 <= m
    BY <1>1, <2>1
  <2>3. synchronized(S) = [t \in Thread |-> IF t \in S THEN waitCount[t] - m
                                                       ELSE waitCount[t]]
    BY DEF synchronized, m
  <2>4. \A t \in S : synchronized(S)[t] = waitCount[t] - m
    BY <2>3
  <2>5. \E t \in S : synchronized(S)[t] = 0
    BY <1>1, <2>1, <2>2, <2>4
  <2> QED
    BY <1>1, <2>1, <2>2, <2>3, <2>4, <2>5
<1> QED
  BY <1>2, <1>3

(***************************************************************************)
(* The array stays an array of indices when finished threads leave it.     *)
(***************************************************************************)
LEMMA Compacted ==
  ASSUME NEW S \in SUBSET Thread
  PROVE  compacted(S) \in [Thread -> Nat]
<1> SUFFICES ASSUME NEW t \in Thread
             PROVE  Cardinality({u \in S : order[u] < order[t]}) \in Nat
  BY DEF compacted
<1> DEFINE before == {u \in S : order[u] < order[t]}
<1>1. before \subseteq Thread
  OBVIOUS
<1> HIDE DEF before
<1>2. IsFiniteSet(before)
  BY <1>1, FS_Subset, ThreadAssumption
<1> QED
  BY <1>2, FS_CardinalityType DEF before

(***************************************************************************)
(* One turn of the loop (lines 76 to 97): what it does to the waitCounts   *)
(* of the threads that remain, and the thread it selects.                  *)
(***************************************************************************)
LEMMA SwitchToNextStep ==
  ASSUME SchedulerInv, switchToNext
  PROVE  /\ hleThreads' \subseteq hleThreads
         /\ order' \in [Thread -> Nat]
         /\ waitCount' \in [Thread -> Int]
         /\ \A t \in Thread : 0 <= waitCount'[t] /\ waitCount'[t] <= waitCount[t]
         /\ \A t, u \in hleThreads' :
              waitCount'[u] - waitCount'[t] = waitCount[u] - waitCount[t]
         /\ \/ /\ loop' = "resume"
               /\ currentExecutingThread' \in hleThreads'
               /\ waitCount'[currentExecutingThread'] = 0
            \/ /\ loop' = "looping"
               /\ UNCHANGED currentExecutingThread
<1>1. /\ TypeOK /\ WaitCountBounded
      /\ hleThreads' = hleThreads \ threadFinished
      /\ hleThreads' \in SUBSET Thread
  BY DEF SchedulerInv, switchToNext, removeFinishedThreads, TypeOK
<1>2. waitCount' = synchronized(hleThreads') /\ order' \in [Thread -> Nat]
  BY <1>1, Compacted DEF switchToNext
<1>3. /\ waitCount' \in [Thread -> Int]
      /\ \A t \in Thread : 0 <= waitCount'[t] /\ waitCount'[t] <= waitCount[t]
      /\ hleThreads' # {} => \E t \in hleThreads' : waitCount'[t] = 0
      /\ \A t, u \in hleThreads' :
           waitCount'[u] - waitCount'[t] = waitCount[u] - waitCount[t]
  BY <1>1, <1>2, Synchronized
<1>4. CASE hleThreads' = {}
  <2>1. Ready(hleThreads') = {}
    BY <1>4 DEF Ready
  <2> QED
    BY <1>1, <1>2, <1>3, <1>4, <2>1 DEF switchToNext
<1>5. CASE hleThreads' # {}
  <2>1. Ready(hleThreads') # {} /\ Ready(hleThreads') \in SUBSET Thread
    BY <1>1, <1>3, <1>5 DEF Ready
  <2>2. LastAdded(Ready(hleThreads')) \in Ready(hleThreads')
    BY <1>1, <2>1, LastAddedExists
  <2>3. /\ currentExecutingThread' = LastAdded(Ready(hleThreads'))
        /\ loop' = "resume"
    BY <2>1 DEF switchToNext
  <2>4. currentExecutingThread' \in hleThreads' /\ waitCount'[currentExecutingThread'] = 0
    BY <2>2, <2>3 DEF Ready
  <2> QED
    BY <1>1, <1>2, <1>3, <2>3, <2>4
<1> QED
  BY <1>4, <1>5

-----------------------------------------------------------------------------

\* The scheduler's invariant holds of an empty array.
LEMMA SchedulerInvInit == Init => SchedulerInv
BY PrioritiesAssumption
DEF Init, SchedulerInv, TypeOK, WaitCountBounded, CurrentIsReady,
    LoopEndsOnlyWithoutThreads, LoopStates

\* Every operation of the scheduler preserves its invariant.
LEMMA SchedulerInvStep == SchedulerInv /\ [Next]_vars => SchedulerInv'
<1> SUFFICES ASSUME SchedulerInv, [Next]_vars
             PROVE  SchedulerInv'
  OBVIOUS
<1> USE DEF SchedulerInv, TypeOK, WaitCountBounded, CurrentIsReady,
            LoopEndsOnlyWithoutThreads, LoopStates
<1>1. ASSUME NEW t \in Thread, add(t)
      PROVE  SchedulerInv'
  <2>1. NextOrder \in Nat
    BY LastAddedExists DEF NextOrder
  <2> QED
    BY <1>1, <2>1 DEF add
<1>2. CASE reset
  BY <1>2 DEF reset
<1>3. CASE executionLoop
  BY <1>3 DEF executionLoop
<1>4. CASE executionLoopReturns
  BY <1>4 DEF executionLoopReturns
<1>5. CASE switchToNext
  <2>1. /\ hleThreads' \subseteq hleThreads
        /\ order' \in [Thread -> Nat]
        /\ waitCount' \in [Thread -> Int]
        /\ \A t \in Thread : 0 <= waitCount'[t] /\ waitCount'[t] <= waitCount[t]
        /\ \/ /\ loop' = "resume"
              /\ currentExecutingThread' \in hleThreads'
              /\ waitCount'[currentExecutingThread'] = 0
           \/ /\ loop' = "looping"
              /\ UNCHANGED currentExecutingThread
    BY <1>5, SwitchToNextStep
  <2>2. UNCHANGED <<currentPriority, threadFinished>>
    BY <1>5 DEF switchToNext
  <2>3. WaitCountBounded'
    BY <2>1, PrioritiesAssumption
  <2>4. TypeOK'
    BY <2>1, <2>2
  <2> QED
    BY <2>1, <2>3, <2>4
<1>6. CASE threadResume
  BY <1>6 DEF threadResume
<1>7. CASE yields \/ finishes
  <2> DEFINE c == currentExecutingThread
  <2>1. switchToReturns
    BY <1>7 DEF yields, finishes
  <2>2. c \in Thread /\ waitCount[c] = 0 /\ currentPriority[c] \in 0 .. MaxPriority
    BY <2>1, PrioritiesAssumption DEF switchToReturns
  <2>3. WaitCountBounded' /\ waitCount' \in [Thread -> Int]
    BY <2>1, <2>2, PrioritiesAssumption DEF switchToReturns
  <2>4. threadFinished' \subseteq Thread
    BY <1>7, <2>2 DEF yields, finishes
  <2> QED
    BY <2>1, <2>3, <2>4 DEF switchToReturns
<1>8. ASSUME NEW t \in Thread, NEW p \in Priorities, changeThreadPriority(t, p)
      PROVE  SchedulerInv'
  BY <1>8 DEF changeThreadPriority
<1>9. ASSUME NEW t \in Thread, NEW p \in Priorities, construct(t, p)
      PROVE  SchedulerInv'
  BY <1>9, PrioritiesAssumption DEF construct
<1>10. CASE UNCHANGED vars
  BY <1>10 DEF vars
<1> QED
  BY <1>1, <1>2, <1>3, <1>4, <1>5, <1>6, <1>7, <1>8, <1>9, <1>10 DEF Next

(***************************************************************************)
(* The scheduler's invariant for any number of threads and any priorities: *)
(* executionLoop never stops at "Unexpected error not synchronized         *)
(* hleThreadMinWait" and the waitCounts stay between 0 and MaxPriority.    *)
(***************************************************************************)
THEOREM SchedulerCorrect == Spec => []SchedulerInv
BY SchedulerInvInit, SchedulerInvStep, PTL DEF Spec

(***************************************************************************)
(* A finished thread is never resumed (lines 61 to 74 before line 87).     *)
(***************************************************************************)
THEOREM FinishedNeverResumed == Spec => ResumesOnlyLiveThreads
<1>1. SchedulerInv /\ [Next]_vars
        => [loop' = "resume" => /\ currentExecutingThread' \in hleThreads'
                                /\ currentExecutingThread' \notin threadFinished]_vars
  <2> SUFFICES ASSUME SchedulerInv, Next, loop' = "resume"
               PROVE  /\ currentExecutingThread' \in hleThreads'
                      /\ currentExecutingThread' \notin threadFinished
    OBVIOUS
  <2>1. switchToNext
    BY DEF Next, construct, add, reset, executionLoop, executionLoopReturns, threadResume,
           yields, finishes, switchToReturns, changeThreadPriority
  <2>2. currentExecutingThread' \in hleThreads'
    BY <2>1, SwitchToNextStep
  <2> QED
    BY <2>1, <2>2 DEF switchToNext, removeFinishedThreads
<1> QED
  BY <1>1, SchedulerCorrect, PTL DEF Spec, ResumesOnlyLiveThreads

-----------------------------------------------------------------------------

\* Nobody was charged anything yet.
LEMMA BypassInvInit == BypassInit => BypassInv
<1> SUFFICES ASSUME BypassInit PROVE BypassInv
  OBVIOUS
<1>1. SchedulerInv
  BY SchedulerInvInit DEF BypassInit
<1>2. hleThreads = {} /\ \A t \in Thread : waitCount[t] = 0
  BY DEF BypassInit, Init
<1> QED
  BY <1>1, <1>2, PrioritiesAssumption
  DEF BypassInit, BypassInv, HistoryTypeOK, WaitCountsOwed, ChargesAccounted,
      NothingChargedToOneself, BoundedBypass

\* The history variables do not change what the scheduler does.
LEMMA BypassStepIsStep == BypassNext => Next
BY DEF BypassNext, Next, constructH, addH, switchToReturnsH, otherH

(***************************************************************************)
(* The charge of a slice: what is claimed of the waitCounts and of the     *)
(* accounts when threadResume returns (line 47).                           *)
(***************************************************************************)
LEMMA ChargeStep ==
  ASSUME BypassInv, switchToReturnsH
  PROVE  /\ HistoryTypeOK'
         /\ WaitCountsOwed'
         /\ ChargesAccounted'
         /\ NothingChargedToOneself'
         /\ BoundedBypass'
<1> DEFINE c == currentExecutingThread
           p == currentPriority[c]
<1>1. /\ c \in Thread /\ c \in hleThreads /\ hleThreads \subseteq Thread
      /\ p \in 0 .. MaxPriority /\ MaxPriority \in Nat
      /\ waitCount[c] = 0
      /\ waitCount \in [Thread -> Int]
      /\ lastCharge \in [Thread -> Int]
      /\ charged \in [Thread -> [Thread -> Int]]
  BY PrioritiesAssumption
  DEF BypassInv, SchedulerInv, TypeOK, CurrentIsReady, HistoryTypeOK,
      switchToReturnsH, yields, finishes, switchToReturns
<1>2. /\ hleThreads' = hleThreads
      /\ waitCount' = [waitCount EXCEPT ![c] = @ + p]
      /\ lastCharge' = [lastCharge EXCEPT ![c] = p]
      /\ charged' = [x \in Thread |-> [y \in Thread |->
                       IF x = c THEN 0
                       ELSE IF y = c /\ x \in hleThreads THEN charged[x][y] + p
                       ELSE charged[x][y]]]
  BY DEF switchToReturnsH, yields, finishes, switchToReturns
<1>3. /\ \A t \in Thread : /\ lastCharge[t] \in 0 .. MaxPriority
                           /\ 0 <= waitCount[t]
                           /\ waitCount[t] <= lastCharge[t]
      /\ \A t \in Thread : charged[t][t] = 0
      /\ \A t, u \in hleThreads :
           /\ t # u => charged[t][u] <= waitCount[u] - waitCount[t] + lastCharge[t]
           /\ charged[t][u] <= lastCharge[t] + lastCharge[u]
  BY DEF BypassInv, WaitCountsOwed, NothingChargedToOneself, ChargesAccounted,
         BoundedBypass
<1> HIDE DEF c, p
<1>4. HistoryTypeOK'
  BY <1>1, <1>2 DEF HistoryTypeOK
<1>5. WaitCountsOwed'
  BY <1>1, <1>2, <1>3 DEF WaitCountsOwed
<1>6. NothingChargedToOneself'
  BY <1>1, <1>2, <1>3 DEF NothingChargedToOneself
<1>7. ASSUME NEW t \in hleThreads, NEW u \in hleThreads
      PROVE  /\ t # u => charged'[t][u] <= waitCount'[u] - waitCount'[t] + lastCharge'[t]
             /\ charged'[t][u] <= lastCharge'[t] + lastCharge'[u]
  <2>1. t \in Thread /\ u \in Thread
    BY <1>1
  <2>2. CASE t = c
    BY <1>1, <1>2, <1>3, <2>1, <2>2
  <2>3. CASE t # c /\ u = c
    <3>1. /\ charged'[t][u] = charged[t][u] + p
          /\ waitCount'[u] = p /\ waitCount'[t] = waitCount[t]
          /\ lastCharge'[t] = lastCharge[t] /\ lastCharge'[u] = p
      BY <1>1, <1>2, <2>1, <2>3
    <3>2. /\ charged[t][u] \in Int /\ waitCount[t] \in Int
          /\ lastCharge[t] \in Int /\ p \in Int
      BY <1>1, <2>1
    <3>3. charged[t][u] <= lastCharge[t] - waitCount[t] /\ 0 <= waitCount[t]
      BY <1>1, <1>3, <2>1, <2>3
    <3> QED
      BY <3>1, <3>2, <3>3
  <2>4. CASE t # c /\ u # c
    <3>1. /\ charged'[t][u] = charged[t][u]
          /\ waitCount'[u] = waitCount[u] /\ waitCount'[t] = waitCount[t]
          /\ lastCharge'[t] = lastCharge[t] /\ lastCharge'[u] = lastCharge[u]
      BY <1>1, <1>2, <2>1, <2>4
    <3> QED
      BY <1>3, <3>1
  <2> QED
    BY <2>2, <2>3, <2>4
<1> QED
  BY <1>2, <1>4, <1>5, <1>6, <1>7 DEF ChargesAccounted, BoundedBypass

LEMMA BypassInvStep == BypassInv /\ [BypassNext]_bypassVars => BypassInv'
<1> SUFFICES ASSUME BypassInv, [BypassNext]_bypassVars
             PROVE  BypassInv'
  OBVIOUS
<1>1. SchedulerInv /\ SchedulerInv'
  <2>1. [Next]_vars
    BY BypassStepIsStep DEF bypassVars, vars
  <2> QED
    BY <2>1, SchedulerInvStep DEF BypassInv
<1>2. /\ HistoryTypeOK' /\ WaitCountsOwed' /\ ChargesAccounted'
      /\ NothingChargedToOneself' /\ BoundedBypass'
  <2> USE DEF HistoryTypeOK, WaitCountsOwed, ChargesAccounted,
              NothingChargedToOneself, BoundedBypass
  <2>1. ASSUME NEW t \in Thread, addH(t)
        PROVE  /\ HistoryTypeOK' /\ WaitCountsOwed' /\ ChargesAccounted'
               /\ NothingChargedToOneself' /\ BoundedBypass'
    <3>1. /\ t \in Thread
          /\ hleThreads' = hleThreads \cup {t} /\ hleThreads \subseteq Thread
          /\ UNCHANGED <<waitCount, lastCharge>>
          /\ charged' = [x \in Thread |-> [y \in Thread |->
                           IF t \in {x, y} THEN 0 ELSE charged[x][y]]]
      BY <1>1, <2>1 DEF addH, add, SchedulerInv, TypeOK
    <3>2. HistoryTypeOK' /\ WaitCountsOwed' /\ NothingChargedToOneself'
      BY <3>1 DEF BypassInv
    <3>3. waitCount \in [Thread -> Int]
      BY <1>1 DEF SchedulerInv, TypeOK
    <3>4. ChargesAccounted' /\ BoundedBypass'
      <4> SUFFICES ASSUME NEW x \in hleThreads', NEW y \in hleThreads'
                   PROVE  /\ x # y => charged'[x][y] <= waitCount'[y] - waitCount'[x] + lastCharge'[x]
                          /\ charged'[x][y] <= lastCharge'[x] + lastCharge'[y]
        OBVIOUS
      <4>1. CASE t \in {x, y}
        BY <3>1, <3>3, <4>1, PrioritiesAssumption DEF BypassInv
      <4>2. CASE t \notin {x, y}
        BY <3>1, <4>2 DEF BypassInv
      <4> QED
        BY <4>1, <4>2
    <3> QED
      BY <3>2, <3>4
  <2>2. CASE switchToReturnsH
    BY <2>2, ChargeStep
  <2>3. CASE otherH /\ switchToNext
    <3>1. /\ hleThreads' \subseteq hleThreads
          /\ \A t \in Thread : 0 <= waitCount'[t] /\ waitCount'[t] <= waitCount[t]
          /\ \A t, u \in hleThreads' :
               waitCount'[u] - waitCount'[t] = waitCount[u] - waitCount[t]
          /\ waitCount' \in [Thread -> Int] /\ waitCount \in [Thread -> Int]
          /\ hleThreads \subseteq Thread
      BY <1>1, <2>3, SwitchToNextStep DEF SchedulerInv, TypeOK
    <3>2. UNCHANGED <<lastCharge, charged>>
      BY <2>3 DEF otherH
    <3>3. WaitCountsOwed'
      BY <3>1, <3>2 DEF BypassInv
    <3>4. ChargesAccounted'
      BY <3>1, <3>2 DEF BypassInv
    <3> QED
      BY <3>1, <3>2, <3>3, <3>4 DEF BypassInv
  <2>4. CASE otherH /\ ~switchToNext
    <3>1. /\ UNCHANGED <<waitCount, lastCharge, charged>>
          /\ hleThreads' \subseteq hleThreads
      BY <2>4 DEF otherH, reset, executionLoop, executionLoopReturns,
                  threadResume, changeThreadPriority
    <3> QED
      BY <3>1 DEF BypassInv
  <2>5. ASSUME NEW t \in Thread, NEW p \in Priorities, constructH(t, p)
        PROVE  /\ HistoryTypeOK' /\ WaitCountsOwed' /\ ChargesAccounted'
               /\ NothingChargedToOneself' /\ BoundedBypass'
    <3>1. /\ t \notin hleThreads /\ hleThreads' = hleThreads
          /\ hleThreads \subseteq Thread
          /\ waitCount' = [waitCount EXCEPT ![t] = 0]
          /\ lastCharge' = [lastCharge EXCEPT ![t] = 0]
          /\ waitCount \in [Thread -> Int] /\ lastCharge \in [Thread -> Int]
          /\ UNCHANGED charged
      BY <1>1, <2>5 DEF constructH, construct, SchedulerInv, TypeOK, BypassInv
    <3>2. HistoryTypeOK' /\ WaitCountsOwed' /\ NothingChargedToOneself'
      BY <3>1, PrioritiesAssumption DEF BypassInv
    <3>3. \A u \in hleThreads : /\ waitCount'[u] = waitCount[u]
                                /\ lastCharge'[u] = lastCharge[u]
      BY <3>1
    <3>4. ChargesAccounted' /\ BoundedBypass'
      BY <3>1, <3>3 DEF BypassInv
    <3> QED
      BY <3>2, <3>4
  <2>6. CASE UNCHANGED bypassVars
    BY <2>6 DEF bypassVars, BypassInv
  <2> QED
    BY <2>1, <2>2, <2>3, <2>4, <2>5, <2>6 DEF BypassNext
<1> QED
  BY <1>1, <1>2 DEF BypassInv

(***************************************************************************)
(* The bypass bound for any number of threads, added, finishing and        *)
(* changing priority in any order: between two slices of a thread no other *)
(* thread is charged more than the cost of one slice of each (lines 47 and *)
(* 76 to 90).                                                              *)
(***************************************************************************)
THEOREM BypassBounded == BypassSpec => []BoundedBypass
<1>1. BypassInv => BoundedBypass
  BY DEF BypassInv
<1> QED
  BY <1>1, BypassInvInit, BypassInvStep, PTL DEF BypassSpec

-----------------------------------------------------------------------------
(* The fiber threads. *)

(***************************************************************************)
(* The static `current' is the fiber inside its slice and, outside every   *)
(* slice, null or a fiber that terminated: the one state that makes the    *)
(* next threadResume throw is a fiber whose run returned.                  *)
(***************************************************************************)
THEOREM CurrentFiberTracked == FiberSpec => []CurrentTracksFiber
<1>1. FiberInit => CurrentTracksFiber
  BY DEF FiberInit, Init, CurrentTracksFiber
<1>2. CurrentTracksFiber /\ [FiberNext]_fiberVars => CurrentTracksFiber'
  <2> SUFFICES ASSUME CurrentTracksFiber, [FiberNext]_fiberVars
               PROVE  CurrentTracksFiber'
    OBVIOUS
  <2> USE DEF CurrentTracksFiber
  <2>1. CASE fiberResume
    BY <2>1 DEF fiberResume, threadResume
  <2>2. CASE fiberResumeThrows
    BY <2>2 DEF fiberResumeThrows
  <2>3. CASE threadYield
    BY <2>3 DEF threadYield, yields, switchToReturns
  <2>4. CASE runEnds
    BY <2>4 DEF runEnds, finishes, switchToReturns
  <2>5. CASE managerStep
    <3> DEFINE constructs ==
          \E t \in Thread \ {current}, p \in Priorities : construct(t, p)
    <3>1. UNCHANGED current /\ (constructs \/ UNCHANGED threadFinished)
      BY <2>5
      DEF managerStep, add, reset, executionLoop, executionLoopReturns,
          switchToNext, changeThreadPriority
    <3>2. CASE \/ \E t \in Thread : add(t)
               \/ \E t \in Thread, p \in Priorities : changeThreadPriority(t, p)
      BY <3>1, <3>2 DEF add, changeThreadPriority, construct
    <3>3. CASE reset \/ executionLoop \/ executionLoopReturns
      BY <3>1, <3>3 DEF reset, executionLoop, executionLoopReturns, construct
    <3>4. CASE switchToNext
      BY <3>1, <3>4 DEF switchToNext, construct
    <3>5. CASE constructs
      BY <3>1, <3>5 DEF construct
    <3> QED
      BY <2>5, <3>2, <3>3, <3>4, <3>5 DEF managerStep
  <2>6. CASE UNCHANGED fiberVars
    BY <2>6 DEF fiberVars
  <2> QED
    BY <2>1, <2>2, <2>3, <2>4, <2>5, <2>6 DEF FiberNext
<1> QED
  BY <1>1, <1>2, PTL DEF FiberSpec

=============================================================================
