-------------------------- MODULE HleThreadManager --------------------------
(***************************************************************************)
(* The cooperative scheduler of src/src/pspemu/hle/HleThreadManager.d.     *)
(*                                                                         *)
(* executionLoop runs on one native thread.  Each turn removes the         *)
(* finished threads, subtracts the smallest waitCount from everybody,      *)
(* resumes the last added thread whose waitCount is 0 and, when its slice  *)
(* returns, charges it its currentPriority.  A slice is opaque here: it    *)
(* may add threads, change priorities, and finish.                         *)
(*                                                                         *)
(* The array hleThreads is kept as the set of its members together with    *)
(* the index `order' of each in it, so "the last added" is the member of   *)
(* highest order.                                                          *)
(*                                                                         *)
(* A member of Thread names a HleThreadBase object.  The name of one that  *)
(* finished and left the array is taken by the next object constructed, so *)
(* that a program may start new threads for ever.                          *)
(***************************************************************************)
EXTENDS Integers, FiniteSets

CONSTANTS
  Thread,        \* the HleThreadBase objects
  NoThread,      \* null
  Priorities,    \* the values currentPriority takes
  MaxPriority    \* their upper bound

ASSUME ThreadAssumption == NoThread \notin Thread /\ IsFiniteSet(Thread)
ASSUME PrioritiesAssumption ==
  MaxPriority \in Nat /\ Priorities \subseteq 0 .. MaxPriority

VARIABLES
  hleThreads,              \* the members of the array
  order,                   \* order[t]: the index of t
  waitCount,               \* HleThreadBase.waitCount
  currentPriority,         \* HleThreadBase.currentPriority
  threadFinished,          \* the threads whose threadFinished is true
  currentExecutingThread,
  loop                     \* where the native thread is

vars == <<hleThreads, order, waitCount, currentPriority, threadFinished,
          currentExecutingThread, loop>>

(***************************************************************************)
(* "stopped": outside executionLoop; "looping": at the head of its while;  *)
(* "resume": in switchTo, before threadResume; "slice": inside             *)
(* threadResume; "thrown": an exception left executionLoop.                *)
(***************************************************************************)
LoopStates == {"stopped", "looping", "resume", "slice", "thrown"}

TypeOK ==
  /\ hleThreads \subseteq Thread
  /\ order \in [Thread -> Nat]
  /\ waitCount \in [Thread -> Int]
  /\ currentPriority \in [Thread -> Priorities]
  /\ threadFinished \subseteq Thread
  /\ currentExecutingThread \in Thread \cup {NoThread}
  /\ loop \in LoopStates
  /\ loop \in {"resume", "slice"} => currentExecutingThread \in Thread

-----------------------------------------------------------------------------

Init ==
  /\ hleThreads = {}
  /\ order = [t \in Thread |-> 0]
  /\ waitCount = [t \in Thread |-> 0]
  /\ currentPriority \in [Thread -> Priorities]
  /\ threadFinished = {}
  /\ currentExecutingThread = NoThread
  /\ loop = "stopped"

LastAdded(threads) ==
  CHOOSE t \in threads : \A u \in threads : order[u] <= order[t]

\* The position one past the end of the array.
NextOrder == IF hleThreads = {} THEN 0 ELSE order[LastAdded(hleThreads)] + 1

(***************************************************************************)
(* The host or the running thread constructs a thread: its waitCount is 0, *)
(* and nothing refers to the finished thread whose name it takes.          *)
(***************************************************************************)
construct(t, p) ==
  /\ loop \in {"stopped", "slice"}
  /\ t \in threadFinished \ hleThreads
  /\ t # currentExecutingThread
  /\ threadFinished' = threadFinished \ {t}
  /\ waitCount' = [waitCount EXCEPT ![t] = 0]
  /\ currentPriority' = [currentPriority EXCEPT ![t] = p]
  /\ UNCHANGED <<hleThreads, order, currentExecutingThread, loop>>

(***************************************************************************)
(* hleThreads ~= hleThread.  The host adds threads before executionLoop, a *)
(* running thread adds the threads it starts.  A thread dropped by reset   *)
(* may be added again and keeps its waitCount.                             *)
(***************************************************************************)
add(t) ==
  /\ loop \in {"stopped", "slice"}
  /\ t \notin hleThreads \cup threadFinished
  /\ t # currentExecutingThread \/ loop = "stopped"
  /\ hleThreads' = hleThreads \cup {t}
  /\ order' = [order EXCEPT ![t] = NextOrder]
  /\ UNCHANGED <<waitCount, currentPriority, threadFinished,
                 currentExecutingThread, loop>>

\* Called by the host before it starts the main thread.
reset ==
  /\ loop = "stopped"
  /\ hleThreads' = {}
  /\ UNCHANGED <<order, waitCount, currentPriority, threadFinished,
                 currentExecutingThread, loop>>

\* The host calls executionLoop.
executionLoop ==
  /\ loop = "stopped"
  /\ loop' = "looping"
  /\ UNCHANGED <<hleThreads, order, waitCount, currentPriority,
                 threadFinished, currentExecutingThread>>

\* while (hleThreads.length > 0) is over.
executionLoopReturns ==
  /\ loop = "looping"
  /\ hleThreads = {}
  /\ loop' = "stopped"
  /\ UNCHANGED <<hleThreads, order, waitCount, currentPriority,
                 threadFinished, currentExecutingThread>>

-----------------------------------------------------------------------------

\* Mutant: finished threads are not removed.
removeNothing(threads) == threads

\* Mutant: when a thread is removed the array is cut one element too short.
removeOneTooMany(threads) ==
  LET kept == threads \ threadFinished
  IN  IF kept = threads THEN kept
      ELSE {t \in kept : \E u \in kept : order[u] > order[t]}

removeFinishedThreads(threads) == threads \ threadFinished

\* removeNullsInplace keeps the relative order of what it does not remove.
compacted(threads) ==
  [t \in Thread |-> IF t \in threads
                    THEN Cardinality({u \in threads : order[u] < order[t]})
                    ELSE 0]

\* Mutant: the minimum is taken before the finished threads are removed.
minBeforeRemoval(threads) ==
  CHOOSE m \in {waitCount[t] : t \in hleThreads} :
    \A t \in hleThreads : m <= waitCount[t]

\* int.max, which nothing is compared with, when there is no thread.
calculateMinWaitCount(threads) ==
  CHOOSE m \in {waitCount[t] : t \in threads} :
    \A t \in threads : m <= waitCount[t]

synchronized(threads) ==
  [t \in Thread |-> IF t \in threads
                    THEN waitCount[t] - calculateMinWaitCount(threads)
                    ELSE waitCount[t]]

\* Mutant: foreach_reverse does not look at the waitCount.
readyWithoutWaiting(threads) == threads

\* The threads that foreach_reverse accepts.
Ready(threads) == {t \in threads : waitCount'[t] = 0}

(***************************************************************************)
(* One turn of the loop up to the call of threadResume.                    *)
(***************************************************************************)
switchToNext ==
  /\ loop = "looping"
  /\ hleThreads # {}
  /\ hleThreads' = removeFinishedThreads(hleThreads)
  /\ order' = compacted(hleThreads')
  /\ waitCount' = synchronized(hleThreads')
  /\ UNCHANGED <<currentPriority, threadFinished>>
  /\ IF Ready(hleThreads') # {}
     THEN /\ currentExecutingThread' = LastAdded(Ready(hleThreads'))
          /\ loop' = "resume"
     ELSE /\ loop' = IF hleThreads' # {} THEN "thrown" ELSE "looping"
          /\ UNCHANGED currentExecutingThread

\* The thread starts its slice.
threadResume ==
  /\ loop = "resume"
  /\ loop' = "slice"
  /\ UNCHANGED <<hleThreads, order, waitCount, currentPriority,
                 threadFinished, currentExecutingThread>>

(***************************************************************************)
(* threadResume returns, because the thread yielded or finished, and       *)
(* switchTo charges it the priority it has now.                            *)
(***************************************************************************)
switchToReturns ==
  /\ loop = "slice"
  /\ waitCount' = [waitCount EXCEPT ![currentExecutingThread] =
                     @ + currentPriority[currentExecutingThread]]
  /\ loop' = "looping"
  /\ UNCHANGED <<hleThreads, order, currentPriority, currentExecutingThread>>

yields == switchToReturns /\ UNCHANGED threadFinished

finishes ==
  /\ switchToReturns
  /\ threadFinished' = threadFinished \cup {currentExecutingThread}

\* sceKernelChangeThreadPriority, called by the running thread.
changeThreadPriority(t, p) ==
  /\ loop = "slice"
  /\ currentPriority' = [currentPriority EXCEPT ![t] = p]
  /\ UNCHANGED <<hleThreads, order, waitCount, threadFinished,
                 currentExecutingThread, loop>>

-----------------------------------------------------------------------------

Next ==
  \/ \E t \in Thread, p \in Priorities : construct(t, p)
  \/ \E t \in Thread : add(t)
  \/ reset
  \/ executionLoop
  \/ executionLoopReturns
  \/ switchToNext
  \/ threadResume
  \/ yields
  \/ finishes
  \/ \E t \in Thread, p \in Priorities : changeThreadPriority(t, p)

Spec == Init /\ [][Next]_vars

(***************************************************************************)
(* The native thread keeps running the loop, and every slice returns: the  *)
(* threads are cooperative, a slice that never yields is a program that    *)
(* hangs the emulator.                                                     *)
(***************************************************************************)
FairSpec ==
  /\ Spec
  /\ WF_vars(executionLoopReturns)
  /\ WF_vars(switchToNext)
  /\ WF_vars(threadResume)
  /\ WF_vars(yields \/ finishes)

-----------------------------------------------------------------------------

(***************************************************************************)
(* The loop never stops at "Unexpected error not synchronized              *)
(* hleThreadMinWait" (HleThreadManager.d:93): it ends when no thread is    *)
(* left, as its comment says (line 26).                                    *)
(***************************************************************************)
LoopEndsOnlyWithoutThreads == loop = "thrown" => hleThreads = {}

(***************************************************************************)
(* Whatever is added, finishes or changes its priority, no waitCount       *)
(* drifts: it stays between 0 and the highest priority, so the int never   *)
(* overflows however long the emulator runs (lines 47 and 81).             *)
(***************************************************************************)
WaitCountBounded == \A t \in Thread : waitCount[t] \in 0 .. MaxPriority

\* The thread about to run, or running, is of the array and waits for nobody.
CurrentIsReady ==
  loop \in {"resume", "slice"} =>
    /\ currentExecutingThread \in hleThreads
    /\ waitCount[currentExecutingThread] = 0

\* The inductive invariant of the scheduler.
SchedulerInv ==
  /\ TypeOK
  /\ WaitCountBounded
  /\ CurrentIsReady
  /\ LoopEndsOnlyWithoutThreads

(***************************************************************************)
(* A thread that finished is never resumed again, and a resumed thread is  *)
(* one of the array (lines 61 to 74 before line 87).                       *)
(***************************************************************************)
ResumesOnlyLiveThreads ==
  [][loop' = "resume" =>
       /\ currentExecutingThread' \in hleThreads'
       /\ currentExecutingThread' \notin threadFinished]_vars

\* From some point on, the program adds no thread.
NoMoreThreads == <>[][hleThreads' \subseteq hleThreads]_vars

(***************************************************************************)
(* Once the program adds no more threads, no thread of the array starves:  *)
(* while the loop runs it gets a slice, however its priority compares with *)
(* the others' (lines 76 to 90).  A program that adds threads for ever may *)
(* starve an older one: a new thread waits for nobody and is preferred.    *)
(***************************************************************************)
NoStarvation ==
  NoMoreThreads =>
    \A t \in Thread :
      loop = "looping" /\ t \in hleThreads \ threadFinished
        ~> loop = "slice" /\ currentExecutingThread = t

=============================================================================
