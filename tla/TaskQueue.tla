------------------------------ MODULE TaskQueue ------------------------------
(***************************************************************************)
(* src/src/pspemu/utils/TaskQueue.d as Gpu uses it: Client threads hand a  *)
(* task to the drawing thread and wait until it was executed, the drawing  *)
(* thread polls the queue (Gpu.d:387-418).                                 *)
(*                                                                         *)
(* Task c is the delegate of client c, one at a time; the delegates of the *)
(* drawing thread itself are `Own', each a new key.  executeAll holds the  *)
(* lock only to copy the keys and to forget the tasks, so the steps of the *)
(* other threads come in between.  The memory may reject the address of a  *)
(* task (Gpu.d:424-438): it then throws whenever it is executed, out of    *)
(* executeAll and up to the loop of the drawing thread, which goes on.     *)
(* Every wait on an event is bounded by 1 ms and is followed by a new      *)
(* test, so the events of the queue carry no information beyond it: a wait *)
(* is a retry.                                                             *)
(***************************************************************************)
EXTENDS Integers, FiniteSets

CONSTANTS
  Client,      \* threads other than the drawing thread
  Own          \* the tasks of the drawing thread itself

ASSUME TaskQueueAssumption == Own \cap Client = {}

Task == Client \cup Own

VARIABLES
  tasks,            \* the keys of the associative array
  extractedTasks,   \* the tasks copied by executeAll and not yet executed
  faulty,           \* the tasks that throw
  drawer,           \* where the drawing thread is
  gpuRunning,       \* Gpu.running
  pc,               \* where each client is
  unexecuted,       \* history: the tasks not executed since they were added
  settled,          \* history: the tasks executed since they were added, and
                    \*   since an exception last left them among the keys
  addedDuring       \* history: the clients that last added between the copy
                    \*   and the end of an executeAll

taskVars == <<tasks, extractedTasks, faulty, drawer, gpuRunning, pc,
              unexecuted, settled, addedDuring>>

TaskTypeOK ==
  /\ tasks \subseteq Task
  /\ extractedTasks \subseteq Task
  /\ faulty \subseteq Task
  /\ drawer \in {"outside", "executing", "ended"}
  /\ gpuRunning \in BOOLEAN
  /\ pc \in [Client -> {"idle", "test", "lookup", "returned"}]
  /\ unexecuted \subseteq Task
  /\ settled \subseteq Task
  /\ addedDuring \subseteq Client

TaskInit ==
  /\ tasks = {}
  /\ extractedTasks = {}
  /\ faulty = {}
  /\ drawer = "outside"
  /\ gpuRunning = TRUE
  /\ pc = [c \in Client |-> "idle"]
  /\ unexecuted = {}
  /\ settled = {}
  /\ addedDuring = {}

-----------------------------------------------------------------------------
(* The clients. *)

\* A new delegate, which throws or not.
addTask(t) ==
  /\ tasks' = tasks \cup {t}
  /\ faulty' \in {faulty \cup {t}, faulty \ {t}}
  /\ unexecuted' = unexecuted \cup {t}
  /\ settled' = settled \ {t}

\* addAndWait(task): the add, under the lock.
add(c) ==
  /\ pc[c] \in {"idle", "returned"}
  /\ addTask(c)
  /\ pc' = [pc EXCEPT ![c] = "test"]
  /\ addedDuring' = IF drawer = "executing" THEN addedDuring \cup {c}
                                            ELSE addedDuring \ {c}
  /\ UNCHANGED <<extractedTasks, drawer, gpuRunning>>

\* What a client leaves alone while it waits.
waits == UNCHANGED <<tasks, extractedTasks, faulty, drawer, gpuRunning,
                     unexecuted, settled, addedDuring>>

\* while (tasks.length), without the lock.
waitExecutedTest(c) ==
  /\ pc[c] = "test"
  /\ pc' = [pc EXCEPT ![c] = IF tasks = {} THEN "returned" ELSE "lookup"]
  /\ waits

\* Mutant: after the lookup the client waits without a bound for an event
\* that may have been signalled already.
waitExecutedForever(c) ==
  /\ pc[c] = "lookup"
  /\ pc' = [pc EXCEPT ![c] = IF c \notin tasks THEN "returned" ELSE "waiting"]
  /\ waits

\* The lookup under the lock; then a wait of 1 ms at most.
waitExecutedLookup(c) ==
  /\ pc[c] = "lookup"
  /\ pc' = [pc EXCEPT ![c] = IF c \notin tasks THEN "returned" ELSE "test"]
  /\ waits

-----------------------------------------------------------------------------
(* The drawing thread. *)

\* Mutant: the tasks are forgotten when they are copied.
executeAllMove ==
  /\ drawer = "outside"
  /\ drawer' = "executing"
  /\ extractedTasks' = tasks
  /\ tasks' = {}
  /\ UNCHANGED <<faulty, gpuRunning, pc, unexecuted, settled, addedDuring>>

\* executeAll, called by newWaitAndCheck2 or by the callback of the event:
\* the copy under the lock.
executeAllCopy ==
  /\ drawer = "outside"
  /\ drawer' = "executing"
  /\ extractedTasks' = tasks
  /\ UNCHANGED <<tasks, faulty, gpuRunning, pc, unexecuted, settled, addedDuring>>

\* externalActionAdd in the drawing thread: its own task, then executeAll.
externalActionAdd(o) ==
  /\ drawer = "outside"
  /\ o \notin tasks
  /\ addTask(o)
  /\ drawer' = "executing"
  /\ extractedTasks' = tasks'
  /\ UNCHANGED <<gpuRunning, pc, addedDuring>>

executeTask(t) ==
  /\ drawer = "executing"
  /\ t \in extractedTasks \ faulty
  /\ extractedTasks' = extractedTasks \ {t}
  /\ unexecuted' = unexecuted \ {t}
  /\ settled' = settled \cup {t}
  /\ UNCHANGED <<tasks, faulty, drawer, gpuRunning, pc, addedDuring>>

\* The exception leaves executeAll, and Gpu.run catches it: no task is
\* forgotten, those executed already included.
executeTaskThrows ==
  /\ drawer = "executing"
  /\ extractedTasks \cap faulty # {}
  /\ drawer' = "outside"
  /\ extractedTasks' = {}
  /\ settled' = settled \ tasks
  /\ addedDuring' = addedDuring \ tasks
  /\ UNCHANGED <<tasks, faulty, gpuRunning, pc, unexecuted>>

\* Mutant: the executed tasks are kept.
keepTasks == UNCHANGED tasks

\* The events, then tasks = null under the lock.
forgetTasks == tasks' = {}

executeAllEnds ==
  /\ drawer = "executing"
  /\ extractedTasks = {}
  /\ drawer' = "outside"
  /\ forgetTasks
  /\ UNCHANGED <<extractedTasks, faulty, gpuRunning, pc, unexecuted, settled,
                 addedDuring>>

\* Gpu.interrupt, by any thread.
gpuInterrupt ==
  /\ gpuRunning' = FALSE
  /\ UNCHANGED <<tasks, extractedTasks, faulty, drawer, pc, unexecuted,
                 settled, addedDuring>>

\* Gpu.run leaves its loops.
drawerEnds ==
  /\ drawer = "outside"
  /\ ~ gpuRunning
  /\ drawer' = "ended"
  /\ UNCHANGED <<tasks, extractedTasks, faulty, gpuRunning, pc, unexecuted,
                 settled, addedDuring>>

-----------------------------------------------------------------------------

TaskNext ==
  \/ \E c \in Client :
       add(c) \/ waitExecutedTest(c) \/ waitExecutedLookup(c)
  \/ executeAllCopy
  \/ \E o \in Own : externalActionAdd(o)
  \/ \E t \in Task : executeTask(t)
  \/ executeTaskThrows
  \/ executeAllEnds
  \/ gpuInterrupt
  \/ drawerEnds

TaskSpec == TaskInit /\ [][TaskNext]_taskVars

(***************************************************************************)
(* The drawing thread polls its queue while it runs, because the lists it  *)
(* draws end, and so do the tasks; a waiting client keeps testing.         *)
(***************************************************************************)
TaskFairness ==
  /\ WF_taskVars(executeAllCopy \/ (\E o \in Own : externalActionAdd(o)) \/ drawerEnds)
  /\ WF_taskVars((\E t \in Task : executeTask(t)) \/ executeTaskThrows)
  /\ WF_taskVars(executeAllEnds)
  /\ \A c \in Client : WF_taskVars(waitExecutedTest(c) \/ waitExecutedLookup(c))

FairTaskSpec == TaskSpec /\ TaskFairness

-----------------------------------------------------------------------------

(***************************************************************************)
(* A task is never executed twice for one add, although other threads add  *)
(* while the drawing thread executes, unless an exception in between left  *)
(* executeAll before it forgot the task (lines 27 to 43).                  *)
(***************************************************************************)
ExecutedAtMostOncePerAdd ==
  [][\A t \in Task : executeTask(t) => t \notin settled]_taskVars

(***************************************************************************)
(* addAndWait returns before its task was executed only when the add fell  *)
(* between the copy of the keys and tasks = null of one executeAll, the    *)
(* window that loses it; an exception loses no task (lines 29 to 57).      *)
(***************************************************************************)
LostOnlyInTheWindow ==
  \A c \in Client :
    pc[c] = "returned" /\ c \notin addedDuring => c \notin unexecuted

(***************************************************************************)
(* externalActionAdd returns in the drawing thread with the task executed, *)
(* and so is every earlier one of its own that an exception had kept,      *)
(* whatever the others do meanwhile (Gpu.d:412-414).                       *)
(***************************************************************************)
OwnTaskExecuted == [][executeAllEnds => Own \cap unexecuted = {}]_taskVars

-----------------------------------------------------------------------------
(* The parts of the inductive invariant of the queue. *)

\* While it executes, the drawing thread has copied tasks that are still keys.
CopiedAreKeys ==
  /\ extractedTasks \subseteq tasks
  /\ drawer # "executing" => extractedTasks = {}

\* What is about to be executed was added, or kept, since it was executed last.
PendingAreOwed ==
  /\ drawer # "executing" => tasks \cap settled = {}
  /\ extractedTasks \cap settled = {}

\* The task of a client that does not wait is no key.
ReturnedIsForgotten ==
  \A c \in Client : pc[c] \in {"idle", "returned"} => c \notin tasks

\* A task added outside the window is executed, or is still to be.
AwaitedIsPending ==
  \A c \in Client :
    pc[c] # "idle" /\ c \notin addedDuring /\ c \in unexecuted =>
      c \in tasks /\ (drawer # "executing" \/ c \in extractedTasks)

\* The drawing thread's own tasks are executed by the executeAll that follows.
OwnTaskIsNext ==
  \A o \in Own \cap unexecuted :
    o \in tasks /\ (drawer # "executing" \/ o \in extractedTasks)

(***************************************************************************)
(* The inductive invariant: the keys, the copy and the accounts of adds    *)
(* and executions agree at every interleaving of add, waitExecuted,        *)
(* executeAll and the exceptions that leave it (lines 20 to 57).           *)
(***************************************************************************)
TaskQueueInv ==
  /\ TaskTypeOK
  /\ CopiedAreKeys
  /\ PendingAreOwed
  /\ ReturnedIsForgotten
  /\ AwaitedIsPending
  /\ OwnTaskIsNext
  /\ LostOnlyInTheWindow

-----------------------------------------------------------------------------

(***************************************************************************)
(* waitExecuted returns, though its task may have been lost: the queue     *)
(* forgets it.  It waits for ever only when the drawing thread was told to *)
(* end, or when some task throws: then no executeAll forgets anything any  *)
(* more, and every client waits (lines 34 to 57).                          *)
(***************************************************************************)
AddAndWaitReturns ==
  \A c \in Client :
    pc[c] \in {"test", "lookup"}
      ~> \/ pc[c] = "returned"
         \/ ~ gpuRunning
         \/ drawer = "outside" /\ faulty \cap tasks # {}

=============================================================================
