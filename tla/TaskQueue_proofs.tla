--------------------------- MODULE TaskQueue_proofs ---------------------------
(***************************************************************************)
(* Proofs about TaskQueue, for any clients, any tasks and however long the *)
(* threads run: TaskQueueInv is an inductive invariant, and with it what a *)
(* caller of add, addAndWait and externalActionAdd relies on, tasks that   *)
(* throw included.                                                         *)
(***************************************************************************)
EXTENDS TaskQueue, TLAPS

LEMMA InitEstablishes == TaskInit => TaskQueueInv
BY DEF TaskInit, TaskQueueInv, TaskTypeOK, CopiedAreKeys, PendingAreOwed,
       ReturnedIsForgotten, AwaitedIsPending, OwnTaskIsNext, LostOnlyInTheWindow

-----------------------------------------------------------------------------
(* One lemma per step of the clients. *)

LEMMA AddPreserves ==
  ASSUME TaskQueueInv, NEW c \in Client, add(c)
  PROVE  TaskQueueInv'
<1> USE DEF TaskQueueInv, add, addTask
<1>1. c \in Task /\ c \notin Own
  BY TaskQueueAssumption DEF Task
<1>2. TaskTypeOK'
  BY <1>1 DEF TaskTypeOK
<1>3. CopiedAreKeys' /\ PendingAreOwed'
  BY DEF CopiedAreKeys, PendingAreOwed
<1>4. AwaitedIsPending'
  BY DEF AwaitedIsPending, TaskTypeOK
<1>5. OwnTaskIsNext'
  BY <1>1 DEF OwnTaskIsNext
<1>6. LostOnlyInTheWindow' /\ ReturnedIsForgotten'
  BY DEF LostOnlyInTheWindow, ReturnedIsForgotten, TaskTypeOK
<1> QED
  BY <1>2, <1>3, <1>4, <1>5, <1>6

\* A client that returns, or tests again, moves only itself.
LEMMA WaitPreserves ==
  ASSUME TaskQueueInv, NEW c \in Client,
         waitExecutedTest(c) \/ waitExecutedLookup(c)
  PROVE  TaskQueueInv'
<1> USE DEF TaskQueueInv
<1>1. /\ pc[c] # "idle"
      /\ \E where \in {"test", "lookup", "returned"} :
           /\ pc' = [pc EXCEPT ![c] = where]
           /\ where = "returned" => c \notin tasks
  BY DEF waitExecutedTest, waitExecutedLookup
<1>2. UNCHANGED <<tasks, extractedTasks, faulty, drawer, gpuRunning,
                  unexecuted, settled, addedDuring>>
  BY DEF waitExecutedTest, waitExecutedLookup, waits
<1>3. TaskTypeOK'
  BY <1>1, <1>2 DEF TaskTypeOK
<1>4. CopiedAreKeys' /\ PendingAreOwed' /\ OwnTaskIsNext'
  BY <1>2 DEF CopiedAreKeys, PendingAreOwed, OwnTaskIsNext
<1>5. AwaitedIsPending'
  BY <1>1, <1>2 DEF AwaitedIsPending, TaskTypeOK
<1>6. LostOnlyInTheWindow' /\ ReturnedIsForgotten'
  BY <1>1, <1>2
  DEF LostOnlyInTheWindow, ReturnedIsForgotten, AwaitedIsPending, TaskTypeOK
<1> QED
  BY <1>3, <1>4, <1>5, <1>6

-----------------------------------------------------------------------------
(* One lemma per step of the drawing thread. *)

LEMMA CopyPreserves ==
  ASSUME TaskQueueInv, executeAllCopy
  PROVE  TaskQueueInv'
BY DEF TaskQueueInv, executeAllCopy, TaskTypeOK, CopiedAreKeys,
       PendingAreOwed, ReturnedIsForgotten, AwaitedIsPending, OwnTaskIsNext,
       LostOnlyInTheWindow

LEMMA ExternalActionAddPreserves ==
  ASSUME TaskQueueInv, NEW o \in Own, externalActionAdd(o)
  PROVE  TaskQueueInv'
<1> USE DEF TaskQueueInv, externalActionAdd, addTask
<1>1. o \in Task /\ o \notin Client
  BY TaskQueueAssumption DEF Task
<1>2. TaskTypeOK'
  BY <1>1 DEF TaskTypeOK
<1>3. CopiedAreKeys' /\ PendingAreOwed'
  BY DEF CopiedAreKeys, PendingAreOwed
<1>4. AwaitedIsPending' /\ LostOnlyInTheWindow'
  BY <1>1 DEF AwaitedIsPending, LostOnlyInTheWindow
<1>5. OwnTaskIsNext' /\ ReturnedIsForgotten'
  BY <1>1 DEF OwnTaskIsNext, ReturnedIsForgotten
<1> QED
  BY <1>2, <1>3, <1>4, <1>5

LEMMA ExecuteTaskPreserves ==
  ASSUME TaskQueueInv, NEW t \in Task, executeTask(t)
  PROVE  TaskQueueInv'
<1> USE DEF TaskQueueInv, executeTask
<1>1. TaskTypeOK' /\ CopiedAreKeys' /\ PendingAreOwed'
  BY DEF TaskTypeOK, CopiedAreKeys, PendingAreOwed
<1>2. AwaitedIsPending' /\ OwnTaskIsNext'
  BY DEF AwaitedIsPending, OwnTaskIsNext
<1>3. LostOnlyInTheWindow' /\ ReturnedIsForgotten'
  BY DEF LostOnlyInTheWindow, ReturnedIsForgotten
<1> QED
  BY <1>1, <1>2, <1>3

\* What was executed already is owed again, and no task is lost.
LEMMA ExecuteTaskThrowsPreserves ==
  ASSUME TaskQueueInv, executeTaskThrows
  PROVE  TaskQueueInv'
<1> USE DEF TaskQueueInv, executeTaskThrows
<1>1. TaskTypeOK' /\ CopiedAreKeys' /\ PendingAreOwed'
  BY DEF TaskTypeOK, CopiedAreKeys, PendingAreOwed
<1>2. AwaitedIsPending' /\ OwnTaskIsNext' /\ ReturnedIsForgotten'
  BY DEF AwaitedIsPending, OwnTaskIsNext, ReturnedIsForgotten
<1>3. LostOnlyInTheWindow'
  <2> SUFFICES ASSUME NEW c \in Client,
                      pc[c] = "returned", c \notin addedDuring \ tasks
               PROVE  c \notin unexecuted
    BY DEF LostOnlyInTheWindow
  <2>1. c \notin addedDuring
    BY DEF ReturnedIsForgotten
  <2> QED
    BY <2>1 DEF LostOnlyInTheWindow
<1> QED
  BY <1>1, <1>2, <1>3

LEMMA ExecuteAllEndsPreserves ==
  ASSUME TaskQueueInv, executeAllEnds
  PROVE  TaskQueueInv'
BY DEF TaskQueueInv, executeAllEnds, forgetTasks, TaskTypeOK, CopiedAreKeys,
       PendingAreOwed, ReturnedIsForgotten, AwaitedIsPending, OwnTaskIsNext,
       LostOnlyInTheWindow

\* The end of the drawing thread moves no task.
LEMMA EndPreserves ==
  ASSUME TaskQueueInv, gpuInterrupt \/ drawerEnds
  PROVE  TaskQueueInv'
<1>1. /\ UNCHANGED <<tasks, extractedTasks, faulty, pc, unexecuted, settled,
                     addedDuring>>
      /\ \/ UNCHANGED drawer
         \/ drawer = "outside" /\ drawer' = "ended"
      /\ gpuRunning' \in {gpuRunning, FALSE}
  BY DEF gpuInterrupt, drawerEnds
<1> QED
  BY <1>1
  DEF TaskQueueInv, TaskTypeOK, CopiedAreKeys, PendingAreOwed,
      ReturnedIsForgotten, AwaitedIsPending, OwnTaskIsNext, LostOnlyInTheWindow

-----------------------------------------------------------------------------

\* Every step of the queue preserves the invariant.
LEMMA StepPreserves == TaskQueueInv /\ [TaskNext]_taskVars => TaskQueueInv'
<1> SUFFICES ASSUME TaskQueueInv, [TaskNext]_taskVars
             PROVE  TaskQueueInv'
  OBVIOUS
<1>1. CASE \E c \in Client :
             add(c) \/ waitExecutedTest(c) \/ waitExecutedLookup(c)
  BY <1>1, AddPreserves, WaitPreserves
<1>2. CASE executeAllCopy
  BY <1>2, CopyPreserves
<1>3. CASE \E o \in Own : externalActionAdd(o)
  BY <1>3, ExternalActionAddPreserves
<1>4. CASE \E t \in Task : executeTask(t)
  BY <1>4, ExecuteTaskPreserves
<1>5. CASE executeTaskThrows
  BY <1>5, ExecuteTaskThrowsPreserves
<1>6. CASE executeAllEnds
  BY <1>6, ExecuteAllEndsPreserves
<1>7. CASE gpuInterrupt \/ drawerEnds
  BY <1>7, EndPreserves
<1>8. CASE UNCHANGED taskVars
  BY <1>8
  DEF taskVars, TaskQueueInv, TaskTypeOK, CopiedAreKeys, PendingAreOwed,
      ReturnedIsForgotten, AwaitedIsPending, OwnTaskIsNext, LostOnlyInTheWindow
<1> QED
  BY <1>1, <1>2, <1>3, <1>4, <1>5, <1>6, <1>7, <1>8 DEF TaskNext

(***************************************************************************)
(* The keys, the copy of executeAll and the accounts of what was added and *)
(* executed agree in every state of the queue, after an exception too.     *)
(***************************************************************************)
THEOREM QueueIsConsistent == TaskSpec => []TaskQueueInv
<1>1. TaskInit => TaskQueueInv
  BY InitEstablishes
<1>2. TaskQueueInv /\ [TaskNext]_taskVars => TaskQueueInv'
  BY StepPreserves
<1> QED
  BY <1>1, <1>2, PTL DEF TaskSpec

(***************************************************************************)
(* No task is executed again before it is added again, however many        *)
(* threads add while the drawing thread is inside executeAll, unless an    *)
(* exception of a task kept it.                                            *)
(***************************************************************************)
THEOREM NothingExecutedTwice == TaskSpec => ExecutedAtMostOncePerAdd
<1>1. TaskQueueInv /\ [TaskNext]_taskVars
        => [\A t \in Task : executeTask(t) => t \notin settled]_taskVars
  BY DEF TaskQueueInv, PendingAreOwed, executeTask
<1> QED
  BY <1>1, QueueIsConsistent, PTL DEF TaskSpec, ExecutedAtMostOncePerAdd

(***************************************************************************)
(* addAndWait returns with its task executed, unless the add fell between  *)
(* the copy of the keys and tasks = null of one executeAll.                *)
(***************************************************************************)
THEOREM OnlyTheWindowLoses == TaskSpec => []LostOnlyInTheWindow
<1>1. TaskQueueInv => LostOnlyInTheWindow
  BY DEF TaskQueueInv
<1> QED
  BY <1>1, QueueIsConsistent, PTL

(***************************************************************************)
(* externalActionAdd in the drawing thread returns with every task of its  *)
(* own executed: no other thread can make executeAll forget one, and one   *)
(* that an exception kept is executed by the next executeAll that returns. *)
(***************************************************************************)
THEOREM DrawingThreadExecutesItsOwn == TaskSpec => OwnTaskExecuted
<1>1. TaskQueueInv /\ [TaskNext]_taskVars
        => [executeAllEnds => Own \cap unexecuted = {}]_taskVars
  BY DEF TaskQueueInv, OwnTaskIsNext, executeAllEnds
<1> QED
  BY <1>1, QueueIsConsistent, PTL DEF TaskSpec, OwnTaskExecuted

\* A task that throws is a key, and the drawing thread has copied it if it
\* executes.
ThrowerKept ==
  \E t \in faulty \cap tasks : drawer # "executing" \/ t \in extractedTasks

(***************************************************************************)
(* A task that throws, once executeAll can see it, is a key for ever: no   *)
(* executeAll ends any more, and no task is ever forgotten again           *)
(* (TaskQueue.d:34-42).                                                    *)
(***************************************************************************)
THEOREM ThrowerIsKeptForEver ==
  TaskSpec => [][ThrowerKept => ThrowerKept' /\ tasks \subseteq tasks']_taskVars
<1>1. TaskQueueInv /\ [TaskNext]_taskVars
        => [ThrowerKept => ThrowerKept' /\ tasks \subseteq tasks']_taskVars
  <2> SUFFICES ASSUME TaskQueueInv, TaskNext,
                      NEW t \in faulty \cap tasks,
                      drawer # "executing" \/ t \in extractedTasks
               PROVE  /\ t \in faulty' \cap tasks' /\ tasks \subseteq tasks'
                      /\ drawer' # "executing" \/ t \in extractedTasks'
    BY DEF ThrowerKept
  <2>1. ASSUME NEW c \in Client, add(c) PROVE t # c
    BY <2>1 DEF TaskQueueInv, ReturnedIsForgotten, add
  <2>2. CASE \E c \in Client : add(c)
    BY <2>1, <2>2 DEF add, addTask
  <2>3. CASE \E c \in Client : waitExecutedTest(c) \/ waitExecutedLookup(c)
    BY <2>3 DEF waitExecutedTest, waitExecutedLookup, waits
  <2>4. CASE executeAllCopy
    BY <2>4 DEF executeAllCopy
  <2>5. CASE \E o \in Own : externalActionAdd(o)
    BY <2>5 DEF externalActionAdd, addTask
  <2>6. CASE \E u \in Task : executeTask(u)
    BY <2>6 DEF executeTask
  <2>7. CASE executeTaskThrows
    BY <2>7 DEF executeTaskThrows
  <2>8. ~ executeAllEnds
    BY DEF executeAllEnds
  <2>9. CASE gpuInterrupt \/ drawerEnds
    BY <2>9 DEF gpuInterrupt, drawerEnds
  <2> QED
    BY <2>2, <2>3, <2>4, <2>5, <2>6, <2>7, <2>8, <2>9 DEF TaskNext
<1> QED
  BY <1>1, QueueIsConsistent, PTL DEF TaskSpec

=============================================================================
