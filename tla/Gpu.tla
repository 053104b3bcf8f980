--------------------------------- MODULE Gpu ---------------------------------
(***************************************************************************)
(* The display list pipeline: src/src/pspemu/core/gpu/Gpu.d over           *)
(* DisplayList.d, CircularList.d and hle/kd/ge/sceGe.d.                    *)
(*                                                                         *)
(* The CPU thread enqueues display lists, moves their stall address and    *)
(* waits for them; the GPU thread consumes and executes them; the host may *)
(* interrupt the GPU.  There is no lock.  All the waits of both threads    *)
(* are bounded by 1 ms and followed by a new test, so a wait is a retry    *)
(* and the events only make it shorter.                                    *)
(*                                                                         *)
(* `readAvailable += 1' of one thread and `-= 1' of the other are a read   *)
(* and a write each, without a lock: the second write loses the first one  *)
(* when both read before (`torn').                                         *)
(*                                                                         *)
(* The frame store with which both syncs end goes to the GPU thread        *)
(* through the queue of module TaskQueue and is not repeated here.         *)
(*                                                                         *)
(* List l is the l-th enqueued.  Its commands are numbered from 0, the     *)
(* last one is OP_END, the others are draws.  A handle, the DisplayList*   *)
(* the guest keeps, is the slot the list was stored in.                    *)
(***************************************************************************)
EXTENDS CircularList, FiniteSets

CONSTANTS
  ListLength,    \* the commands of a list, OP_END included
  MaxLists,      \* bound on the lists enqueued
  Null

ASSUME GpuAssumption ==
  /\ ListLength \in Nat \ {0}
  /\ MaxLists \in Nat
  /\ Null \notin Nat

Lists == 1 .. MaxLists
DisplayList == [base    : Lists \cup {Null},
                pointer : 0 .. ListLength \cup {Null},
                stall   : 0 .. ListLength \cup {Null}]
NullList == [base |-> Null, pointer |-> Null, stall |-> Null]

VARIABLES
  running,
  currentDisplayList,   \* a slot, or Null
  executing,            \* the reference consume returned to executeList
  gpu, gpuRead,         \* where the GPU thread is, and its copy of readAvailable
  cpu, cpuRead,         \* the same for the CPU thread
  waited,               \* the list sceGeListSync waits for
  handle,               \* the handle of each list
  enqueued,             \* history: the number of lists enqueued
  executed,             \* history: the commands executed of each list
  written,              \* history: how far each list was given to the GPU
  ended,                \* history: the lists that ended, in order
  aborted,              \* history: those that ended in an exception
  overwritten,          \* history: a list was stored in a slot in execution
  torn                  \* history: an update of readAvailable was lost

gpuVars == <<list, headPosition, tailPosition, readAvailable, running,
             currentDisplayList, executing, gpu, gpuRead, cpu, cpuRead, waited,
             handle, enqueued, executed, written, ended, aborted, overwritten, torn>>

queueVars == <<list, headPosition, tailPosition, readAvailable, torn>>
cpuVars == <<cpu, cpuRead, waited, handle, enqueued, written, overwritten>>
gpuThreadVars == <<currentDisplayList, executing, gpu, gpuRead,
                   executed, ended, aborted>>

GpuStates == {"running?", "available?", "decrement", "begin", "execute",
              "finally", "finallyThrown", "wait", "stopped"}
CpuStates == {"idle", "enqueue", "increment", "listSync",
              "drawSync", "drawSyncExecuting"}

GpuTypeOK ==
  /\ ListTypeOK
  /\ running \in BOOLEAN
  /\ currentDisplayList \in Slots \cup {Null}
  /\ executing \in Slots
  /\ gpu \in GpuStates /\ cpu \in CpuStates
  /\ gpuRead \in 0 .. WordSize - 1 /\ cpuRead \in 0 .. WordSize - 1
  /\ waited \in Lists \cup {Null}
  /\ enqueued \in 0 .. MaxLists
  /\ handle \in [1 .. enqueued -> Slots]
  /\ ended \in Seq(Lists)

GpuInit ==
  /\ list = [i \in Slots |-> NullList]
  /\ headPosition = 0 /\ tailPosition = 0 /\ readAvailable = 0
  /\ running = TRUE
  /\ currentDisplayList = Null /\ executing = 0
  /\ gpu = "running?" /\ gpuRead = 0
  /\ cpu = "idle" /\ cpuRead = 0 /\ waited = Null
  /\ handle = <<>> /\ enqueued = 0
  /\ executed = [l \in Lists |-> 0] /\ written = [l \in Lists |-> 0]
  /\ ended = <<>> /\ aborted = {} /\ overwritten = FALSE /\ torn = FALSE

Ended(l) == \E i \in DOMAIN ended : ended[i] = l

-----------------------------------------------------------------------------
(* The CPU thread. *)

\* How far the GPU may go with stall address s.
Reach(s) == IF s = Null THEN ListLength ELSE s

\* _sceGeListEnQueue: the call.
sceGeListEnQueue ==
  /\ cpu = "idle" /\ enqueued < MaxLists
  /\ cpu' = "enqueue"
  /\ UNCHANGED <<queueVars, running, gpuThreadVars, cpuRead, waited, handle,
                 enqueued, written, overwritten>>

\* Mutant: the tail wraps one slot early.
enqueueStoreEarlyWrap(stall) ==
  /\ cpu = "enqueue" /\ writeAvailable # 0
  /\ list' = [list EXCEPT ![tailPosition] =
                [base |-> enqueued + 1, pointer |-> 0, stall |-> stall]]
  /\ tailPosition' = ((tailPosition + 1) % WordSize) % (Capacity - 1)
  /\ cpuRead' = readAvailable
  /\ handle' = Append(handle, tailPosition)
  /\ enqueued' = enqueued + 1
  /\ written' = [written EXCEPT ![enqueued + 1] = Reach(stall)]
  /\ overwritten' = (overwritten \/ (tailPosition = executing /\
       gpu \in {"decrement", "begin", "execute", "finally", "finallyThrown"}))
  /\ cpu' = "increment"
  /\ UNCHANGED <<headPosition, readAvailable, torn, running, gpuThreadVars, waited>>

\* The list is stored at the tail and the tail moves; readAvailable is read.
enqueueStore(stall) ==
  /\ cpu = "enqueue" /\ writeAvailable # 0
  /\ list' = [list EXCEPT ![tailPosition] =
                [base |-> enqueued + 1, pointer |-> 0, stall |-> stall]]
  /\ tailPosition' = ((tailPosition + 1) % WordSize) % Capacity
  /\ cpuRead' = readAvailable
  /\ handle' = Append(handle, tailPosition)
  /\ enqueued' = enqueued + 1
  /\ written' = [written EXCEPT ![enqueued + 1] = Reach(stall)]
  /\ overwritten' = (overwritten \/ (tailPosition = executing /\
       gpu \in {"decrement", "begin", "execute", "finally", "finallyThrown"}))
  /\ cpu' = "increment"
  /\ UNCHANGED <<headPosition, readAvailable, torn, running, gpuThreadVars, waited>>

\* The write of a counter that was read before.
updateAvailable(read, count) ==
  /\ readAvailable' = (read + count) % WordSize
  /\ torn' = (torn \/ readAvailable # read)

enqueueIncrement ==
  /\ cpu = "increment"
  /\ updateAvailable(cpuRead, 1)
  /\ cpu' = "idle"
  /\ UNCHANGED <<list, headPosition, tailPosition, running, gpuThreadVars,
                 cpuRead, waited, handle, enqueued, written, overwritten>>

\* The guest wrote more commands of list l; the write goes through its handle.
sceGeListUpdateStallAddr(l, stall) ==
  /\ cpu = "idle" /\ l \in 1 .. enqueued
  /\ Reach(stall) > written[l]
  /\ list' = [list EXCEPT ![handle[l]].stall = stall]
  /\ written' = [written EXCEPT ![l] = Reach(stall)]
  /\ UNCHANGED <<headPosition, tailPosition, readAvailable, torn, running,
                 gpuThreadVars, cpu, cpuRead, waited, handle, enqueued,
                 overwritten>>

sceGeListSync(l) ==
  /\ cpu = "idle" /\ l \in 1 .. enqueued
  /\ cpu' = "listSync" /\ waited' = l
  /\ UNCHANGED <<queueVars, running, gpuThreadVars, cpuRead, handle, enqueued,
                 written, overwritten>>

hasMore(slot) == list[slot].pointer # Null

\* Mutant: the sync looks at what is being executed instead of at the list.
listSyncReturnsWhenNotCurrent ==
  /\ cpu = "listSync" /\ currentDisplayList # handle[waited]
  /\ cpu' = "idle" /\ waited' = Null
  /\ UNCHANGED <<queueVars, running, gpuThreadVars, cpuRead, handle, enqueued,
                 written, overwritten>>

listSyncReturns ==
  /\ cpu = "listSync" /\ ~ hasMore(handle[waited])
  /\ cpu' = "idle" /\ waited' = Null
  /\ UNCHANGED <<queueVars, running, gpuThreadVars, cpuRead, handle, enqueued,
                 written, overwritten>>

\* The steps of the CPU thread that only move it to another test.
cpuMoves(from, to) ==
  /\ cpu = from /\ cpu' = to
  /\ UNCHANGED <<queueVars, running, gpuThreadVars, cpuRead, waited, handle,
                 enqueued, written, overwritten>>

sceGeDrawSync == cpuMoves("idle", "drawSync")

\* Mutant: the lists still in the queue are not looked at.
drawSyncWithoutQueue == cpuMoves("drawSync", "drawSyncExecuting")

\* while (displayLists.readAvailable || executingDisplayList): the two tests.
drawSyncNoneAvailable ==
  readAvailable = 0 /\ cpuMoves("drawSync", "drawSyncExecuting")

drawSyncExecuting ==
  currentDisplayList # Null /\ cpuMoves("drawSyncExecuting", "drawSync")

drawSyncReturns ==
  currentDisplayList = Null /\ cpuMoves("drawSyncExecuting", "idle")

-----------------------------------------------------------------------------
(* The GPU thread. *)

\* The steps of the GPU thread that only move it to another test.
gpuMoves(from, to) ==
  /\ gpu = from /\ gpu' = to
  /\ UNCHANGED <<queueVars, running, cpuVars, currentDisplayList, executing,
                 gpuRead, executed, ended, aborted>>

\* Mutant: the loop of run does not look at running.
testNothing == gpuMoves("running?", "available?")

\* while (running), the outer one and the inner one.
testRunning == gpuMoves("running?", IF running THEN "available?" ELSE "stopped")

nothingAvailable == readAvailable = 0 /\ gpuMoves("available?", "wait")

\* newWaitAndCheck, then newWaitAndCheck2, whose HaltException ends in run.
waitEnds == gpuMoves("wait", "running?")

\* Mutant: the reference is taken after the head moved.
consumeNext ==
  /\ gpu = "available?" /\ readAvailable # 0
  /\ headPosition' = ((headPosition + 1) % WordSize) % Capacity
  /\ executing' = headPosition'
  /\ gpuRead' = readAvailable
  /\ gpu' = "decrement"
  /\ UNCHANGED <<list, tailPosition, readAvailable, torn, running, cpuVars,
                 currentDisplayList, executed, ended, aborted>>

\* displayLists.consume: the reference is taken and the slot is given back.
consumeList ==
  /\ gpu = "available?" /\ readAvailable # 0
  /\ executing' = headPosition
  /\ headPosition' = ((headPosition + 1) % WordSize) % Capacity
  /\ gpuRead' = readAvailable
  /\ gpu' = "decrement"
  /\ UNCHANGED <<list, tailPosition, readAvailable, torn, running, cpuVars,
                 currentDisplayList, executed, ended, aborted>>

\* Mutant: the counter is left alone.
consumeUncounted ==
  /\ gpu = "decrement"
  /\ gpu' = "begin"
  /\ UNCHANGED <<queueVars, running, cpuVars, currentDisplayList, executing,
                 gpuRead, executed, ended, aborted>>

consumeDecrement ==
  /\ gpu = "decrement"
  /\ updateAvailable(gpuRead, -1)
  /\ gpu' = "begin"
  /\ UNCHANGED <<list, headPosition, tailPosition, running, cpuVars,
                 currentDisplayList, executing, gpuRead, executed, ended,
                 aborted>>

executeListBegins ==
  /\ gpu = "begin"
  /\ currentDisplayList' = executing
  /\ gpu' = "execute"
  /\ UNCHANGED <<queueVars, running, cpuVars, executing, gpuRead, executed,
                 ended, aborted>>

current == list[executing]

\* Mutant: the command at the stall address is executed.
isStalledLate == current.stall # Null /\ current.pointer > current.stall

isStalled == current.stall # Null /\ current.pointer = current.stall

canExecute == gpu = "execute" /\ hasMore(executing) /\ ~ isStalled

countExecuted == executed' = [executed EXCEPT ![current.base] = @ + 1]

executeSingleCommand ==
  /\ canExecute /\ current.pointer < ListLength - 1
  /\ list' = [list EXCEPT ![executing].pointer = @ + 1]
  /\ countExecuted
  /\ UNCHANGED <<headPosition, tailPosition, readAvailable, torn, running, cpuVars,
                 currentDisplayList, executing, gpu, gpuRead, ended, aborted>>

\* DisplayList.end
endList ==
  /\ list' = [list EXCEPT ![executing] = NullList]
  /\ ended' = IF current.base = Null THEN ended
              ELSE Append(ended, current.base)

OP_END ==
  /\ canExecute /\ current.pointer = ListLength - 1
  /\ endList
  /\ countExecuted
  /\ UNCHANGED <<headPosition, tailPosition, readAvailable, torn, running, cpuVars,
                 currentDisplayList, executing, gpu, gpuRead, aborted>>

\* A command the GPU does not implement, or an error of the renderer.
commandThrows ==
  /\ canExecute
  /\ list' = [list EXCEPT ![executing].pointer = @ + 1]
  /\ aborted' = aborted \cup {current.base}
  /\ gpu' = "finallyThrown"
  /\ UNCHANGED <<headPosition, tailPosition, readAvailable, torn, running, cpuVars,
                 currentDisplayList, executing, gpuRead, executed, ended>>

\* No more commands: newWaitAndCheck2 throws when the GPU was interrupted.
noMoreCommands ==
  /\ ~ hasMore(executing)
  /\ gpuMoves("execute", IF running THEN "finally" ELSE "finallyThrown")

\* Mutant: currentDisplayList is not cleared.
executeListEndsUncleared ==
  /\ gpu \in {"finally", "finallyThrown"}
  /\ endList
  /\ gpu' = IF gpu = "finally" THEN "available?" ELSE "running?"
  /\ UNCHANGED <<headPosition, tailPosition, readAvailable, torn, running, cpuVars,
                 currentDisplayList, executing, executed, gpuRead, aborted>>

\* The finally clause of executeList; an exception ends in run.
executeListEnds ==
  /\ gpu \in {"finally", "finallyThrown"}
  /\ endList
  /\ currentDisplayList' = Null
  /\ gpu' = IF gpu = "finally" THEN "available?" ELSE "running?"
  /\ UNCHANGED <<headPosition, tailPosition, readAvailable, torn, running, cpuVars,
                 executing, gpuRead, executed, aborted>>

-----------------------------------------------------------------------------

\* Gpu.interrupt, called by the host.
interrupt ==
  /\ running
  /\ running' = FALSE
  /\ UNCHANGED <<queueVars, cpuVars, gpuThreadVars>>

StallAddresses == 0 .. ListLength - 1 \cup {Null}

CpuNext ==
  \/ sceGeListEnQueue
  \/ \E s \in StallAddresses : enqueueStore(s)
  \/ enqueueIncrement
  \/ \E l \in Lists, s \in StallAddresses : sceGeListUpdateStallAddr(l, s)
  \/ \E l \in Lists : sceGeListSync(l)
  \/ listSyncReturns
  \/ sceGeDrawSync
  \/ drawSyncNoneAvailable
  \/ drawSyncExecuting
  \/ drawSyncReturns

GpuThreadNext ==
  \/ testRunning
  \/ nothingAvailable
  \/ waitEnds
  \/ consumeList
  \/ consumeDecrement
  \/ executeListBegins
  \/ executeSingleCommand
  \/ OP_END
  \/ commandThrows
  \/ noMoreCommands
  \/ executeListEnds

GpuNext == CpuNext \/ GpuThreadNext \/ interrupt

GpuSpec == GpuInit /\ [][GpuNext]_gpuVars

\* The GPU thread keeps running; a CPU thread inside a call keeps testing.
FairGpuSpec ==
  /\ GpuSpec
  /\ WF_gpuVars(GpuThreadNext)
  /\ WF_gpuVars(cpu # "idle" /\ CpuNext)

-----------------------------------------------------------------------------

stalled == gpu = "execute" /\ hasMore(executing) /\ isStalled

Outstanding == {l \in 1 .. enqueued : ~ Ended(l)}

\* No race has damaged the queue yet.
intact == ~ overwritten /\ ~ torn

InExecution ==
  IF gpu \in {"begin", "execute", "finally", "finallyThrown"}
    THEN {current.base} ELSE {}

(***************************************************************************)
(* Lists end in the order they were enqueued, none is skipped or ends      *)
(* twice, and a list that was not aborted was executed to its OP_END, as   *)
(* long as the queue is intact: no list was stored over the one in         *)
(* execution and no update of the counter was lost (Gpu.d:224-250,         *)
(* 264-288, CircularList.d:62-71).                                         *)
(***************************************************************************)
ExecutedInOrder ==
  intact =>
    /\ ended = [i \in DOMAIN ended |-> i]
    /\ \A l \in Lists : Ended(l) /\ l \notin aborted => executed[l] = ListLength

(***************************************************************************)
(* Between the operations of the two threads the queue counts exactly the  *)
(* lists enqueued and not consumed: none is lost and none comes back, so   *)
(* every list enqueued is executed (CircularList.d:37-60, Gpu.d:277).      *)
(***************************************************************************)
QueueCountsLists ==
  cpu # "increment" /\ gpu # "decrement" /\ intact =>
    readAvailable = Cardinality(Outstanding \ InExecution)

(***************************************************************************)
(* The GPU never reads a command the guest has not written yet, while the  *)
(* guest moves the stall address during execution (Gpu.d:233, 312).        *)
(***************************************************************************)
NeverReadsUnwritten ==
  intact /\ aborted = {} =>
    \A l \in Lists : executed[l] <= written[l]

(***************************************************************************)
(* The slot of a list in execution is overwritten only by the Capacity-th  *)
(* list after it, so never while fewer lists are outstanding: consume      *)
(* gives the slot back before the execution, and executeList still ends    *)
(* the slot after OP_END did (CircularList.d:62-65, Gpu.d:245-246).        *)
(***************************************************************************)
OverwrittenOnlyWhenFull ==
  [][overwritten' /\ intact =>
       Cardinality(Outstanding') >= Capacity]_gpuVars

(***************************************************************************)
(* Gpu.d:363: "Wait until all the remaining commands have been executed."  *)
(***************************************************************************)
DrawSyncWaitsForAll == [][drawSyncReturns /\ intact => Outstanding = {}]_gpuVars

(***************************************************************************)
(* sceGeDrawSync returns early, but for one list at most: the one consumed *)
(* and not yet entered in currentDisplayList (Gpu.d:226, 367).             *)
(***************************************************************************)
DrawSyncMissesAtMostOne ==
  [][drawSyncReturns /\ intact =>
       Outstanding = {} \/ (gpu = "begin" /\ Outstanding = {current.base})]_gpuVars

(***************************************************************************)
(* sceGeListSync waits for its list, also when its handle denotes a slot   *)
(* used again since, while the queue is intact (Gpu.d:318-324).            *)
(***************************************************************************)
ListSyncWaits == [][listSyncReturns /\ intact => Ended(waited)]_gpuVars

(***************************************************************************)
(* Gpu.d:316: "Wait until the specified list have been executed."          *)
(***************************************************************************)
ListSyncWaitsForList == [][listSyncReturns /\ ~ torn => Ended(waited)]_gpuVars

(***************************************************************************)
(* Every list enqueued ends, and every wait of the CPU thread returns,     *)
(* unless the GPU is interrupted, a list stays stalled, or a race damaged  *)
(* the queue.                                                              *)
(***************************************************************************)
WaitsReturn ==
  cpu # "idle" ~> cpu = "idle" \/ ~ running \/ stalled \/ ~ intact

(***************************************************************************)
(* An interrupted GPU thread stops, unless it waits at a stall address:    *)
(* the loop of line 233 does not look at running.                          *)
(***************************************************************************)
InterruptStopsGpu == ~ running ~> gpu = "stopped" \/ stalled

=============================================================================
