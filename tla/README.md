# A TLA+ model of pspemu

pspemu is a PSP emulator written in D. It runs guest code on a few native
threads (CPU, GPU, display, audio, GUI) that share rings, counters, flags and
events, most of them without a lock, and it emulates the services of the guest's
kernel on top of them. This directory holds TLA+ modules of those protocols, the
TLC configurations that check them on small instances, and proofs of their main
invariants that TLAPS checks. Paths below are relative to `src/src/pspemu/`
unless they begin otherwise.

## 1. Inventory

### 1.1 Components, state, operations

| Component | Source | State | Operations | Model |
|---|---|---|---|---|
| Thread scheduler | `hle/HleThreadManager.d`, `hle/HleThreadBase.d` | array of threads, `waitCount`, priorities, current thread | construction, `add`, `reset`, `executionLoop`, `switchToNext`, `removeFinishedThreads`, priority changes | `HleThreadManager`, `HleThreadManagerBypass` |
| Fiber threads | `hle/HleThread.d` | the static `current`, the fiber's state | `threadResume`, `threadYield`, end of `run` | `HleThread` |
| Task queue | `utils/TaskQueue.d`, its use in `core/gpu/Gpu.d` | associative array of delegates, events | `add`, `addAndWait`, `waitExecuted`, `executeAll`, `externalActionAdd` | `TaskQueue` |
| Circular list | `utils/CircularList.d` | slots, two positions, a counter, all `uint` | `enqueue`, `dequeue`, `consume`, `readFromTail`, `clear` | `CircularList`, `Deque` |
| Controller ring | `core/controller/Controller.d`, `hle/kd/ctrl/sceCtrl.d` | a circular list of frames, a time stamp | `push`, `readAt`, `reset`, `readBufferedFrames` | `Controller` |
| Display list pipeline | `core/gpu/Gpu.d`, `core/gpu/DisplayList.d`, `hle/kd/ge/sceGe.d` | queue of lists, current list, `running` | enqueue, stall update, list and draw sync; consume, execute, end; interrupt | `Gpu` |
| Display | `core/display/Display.d`, `hle/kd/display/sceDisplay.d` | `running`, `VBLANK_COUNT`, two events | the frame loop, `waitVblank`, `interrupt` | `Display` |
| Interrupt dispatch | `core/Interrupts.d`, `core/cpu/interpreter/CpuInterpreter.d` | array of raised interrupts, `I_F` | `interrupt`, `executeInterrupts`, the test of the CPU loop and its ends | `Display` |
| Audio channels | `core/audio/Audio.d`, `hle/kd/audio/sceAudio.d` | a ring buffer per channel, an event | `write`, `read`, `wait`, `writeWait`, the mixer, `stop` | `Audio` |
| Memory partitions | `utils/memory/MemorySegment.d`, `hle/HleMemoryManager.d`, `hle/kd/sysmem/SysMem.d` | the segments of a partition | `allocByLow`, `allocByHigh`, `allocByAddr`, `free`, free memory | `MemorySegment` |
| Semaphores | `hle/kd/threadman/ThreadMan_Semaphores.d` | a count, the number of waiters, an event | signal, wait, poll, delete | `Semaphore` |
| Event flags | `hle/kd/threadman/ThreadMan_Events.d` | bits, one event for all flags | set, clear, wait, poll, delete | `EventFlag` |
| Guest threads | `hle/kd/threadman/ThreadMan_Threads.d`, the commented-out part of `hle/HleThread.d` | status, wake-up count, critical section, two events | start, exit, terminate, wait for the end; sleep, wake up | `ThreadEnd`, `SleepWakeup` |
| Other kernel objects | the rest of `hle/kd/threadman` | callbacks, timers, mailboxes, mutexes | | not modelled |
| Wait objects | `utils/sync/*` | Win32 events, critical sections | signal, wait | `WaitEvent`, else by their use |
| Everything else | CPU, memory map, rendering, kirk, loader, syscall glue, file systems, GUI, debugger, vendored code | | | not modelled, see section 7 |

### 1.2 How they interact

* The host thread adds the main guest thread and runs `executionLoop`; all guest
  threads are fibers of that one native thread, which is the "CPU thread" of the
  other modules.
* The CPU thread hands display lists to the GPU thread through the circular list
  of `Gpu.d`, without a lock, and waits for them in `sceGeListSync` and
  `sceGeDrawSync`. Work that needs the OpenGL context goes to the GPU thread
  through `TaskQueue`.
* The display thread signals vertical blanks through an event that resets itself
  and raises an interrupt, which the CPU thread executes between instructions.
* The GUI thread pushes controller frames into the ring that the CPU thread reads.
* The CPU thread, and one extra thread per non-blocking call, write samples into
  the ring of a channel that the mixer thread reads.
* The services of `threadman` run on the native thread of the guest thread that
  calls them and meet in objects found by their identifier, without a lock but the
  critical section of a sleep. They wait for named events of the operating system:
  all event flags, all sleeps, all thread ends and all audio channels have one event
  each, because the name given to `CreateEventA` is the same for every object.
* The host stops the GPU, display and audio threads by clearing a flag each.

### 1.3 What is hard, and what makes each part correct

* Scheduler: it stops with an error when no thread has a `waitCount` of 0, so
  that may never happen; counts must not drift; every live thread gets its share.
* Fibers: `current` must follow the fiber that runs, across its end.
* Task queue: the executing thread releases the lock between the copy and the
  reset, and others add in between; a task that throws skips the reset.
* Circular list: `uint` arithmetic with a count of -1; positions wrap twice.
* Controller: nobody consumes the ring; frames move between two reads of a call.
* GPU: every shared variable is read and written without a lock; a slot is given
  back before its list was executed; stall addresses move; waits must end.
* Display: the event is signalled before the count moves, and remembers; the CPU
  thread, which executes the interrupts, may be waiting elsewhere, or have ended.
* Audio: two locks around two shared counters, a check before the lock, waits
  on an event that wakes one thread; nobody bounds the length of a call.
* Semaphores: the count is tested, read and written at three moments; a signal is
  one for all waiters; a deletion loops on a counter that waiters race on; amounts
  of any sign and size are taken.
* Event flags: a match and the clearing of its bits are two steps; waiters of other
  flags take the signal.
* Sleep and wake-up: a failed `tryLock` is taken for "asleep", the caller then waits
  for the end of the sleep.
* End of a thread: four unlocked writers of one status word, whose STOPPED flag is
  all that ends a wait.
* Memory: the gaps are computed from a sort that is not stable, sums wrap.

`PROJECT.json` lists these, line by line, as `hazards`, each with the properties
that would catch it going wrong.

## 2. Modules

| Module | What it is |
|---|---|
| `HleThreadManager` | the scheduler, one action per step of the native thread and per call of a guest thread |
| `HleThreadManagerBypass` | the scheduler with two history variables that measure by how much a thread is bypassed |
| `HleThread` | the scheduler composed with `current` of the fibers |
| `TaskQueue` | clients, and the thread that executes their tasks |
| `CircularList` | the ring; `Deque` is what it promises, and `ImplementsDeque` the refinement |
| `Controller` | extends `CircularList` with its writer and its reader |
| `Gpu` | extends `CircularList` with the CPU and GPU threads of the display lists |
| `Audio` | one channel between its writers and the mixer |
| `Display` | the vertical blank: display thread, CPU loop with interrupts, host |
| `MemorySegment` | one partition of guest memory |
| `WaitEvent` | auto-reset events, which the next four modules extend |
| `Semaphore` | the calls on one semaphore |
| `EventFlag` | the calls on event flags that share their event |
| `SleepWakeup` | sleeps and wake-ups of a few threads |
| `ThreadEnd` | the status of one thread: start, end, and the waits for its end |
| `HleThreadManager_proofs`, `TaskQueue_proofs`, `MemorySegment_proofs`, `Controller_proofs`, `Gpu_proofs`, `Audio_proofs`, `Display_proofs` | theorems about the module of that name; that of `HleThreadManager` has `HleThread` too, that of `Controller` the list and its refinement |
| `Threadman_proofs` | theorems about `Semaphore`, `EventFlag`, `SleepWakeup` and `ThreadEnd` |
| `MC*` | small instances for TLC |

Conventions. A definition that stands for code has the source's name, also where
the source misspells it (`writtingPosition`). A step is what a thread does
between two points at which another thread could see the difference: an unlocked
`x += n` is a read and a write. A wait that is bounded by 1 ms and followed by a
new test (GPU, task queue) is a retry; a wait without a bound (display, audio) is
an action enabled by its event. Variables called history change nothing in the
behaviour and only serve properties. Definitions marked `Mutant` are the same code
with a plausible bug: each property is checked to fail on one.

### 2.1 State and actions, module by module

`HleThreadManager`. The array is the set `hleThreads` with `order`, the place at
which each thread was appended, since only "the last added of those ready" is ever
asked. `loop` is where the native thread is. `switchToNext` is one turn up to
`threadResume` (removal, minimum, synchronisation, choice), `yields` and
`finishes` are the two ways a slice returns, both charging the priority. A slice
may `construct` and `add` threads and `changeThreadPriority`. `Thread` bounds how many
objects there are at once, not how many a program makes: the name of a finished
thread that left the array is taken by the next one constructed. A removal closes
the gaps of the array (`compacted`), so `order` is bounded too.

`HleThread` replaces the resume by `fiberResume` or `fiberResumeThrows`; a yield
clears `current`, the end of a fiber does not.

`TaskQueue`. Keys of the associative array are the tasks of clients and the
executing thread's `Own`. `executeAllCopy`, `executeTask` and `executeAllEnds` are
the three parts of `executeAll`; `waitExecutedTest` and `waitExecutedLookup` the
unlocked and the locked test of `waitExecuted`. Any task may be `faulty`: the memory
rejects its address, and it throws whenever it is executed (`executeTaskThrows`), out
of `executeAll` with all keys kept and up to the loop of `Gpu.run`, which goes on.
`gpuInterrupt` and `drawerEnds` are the end of that loop. The calls are not bounded.
History: `unexecuted` and `settled` are the tasks not executed, and executed, since
they were added; `addedDuring` the clients that added inside the window.

`CircularList` has the `uint` arithmetic of the source modulo `WordSize`.
`Controller` has no consumer, so the assertions of the list, off in the release
build (`src/fastbuild.bat`), are not part of it.

`Gpu`. A list is the record of its number, instruction pointer and stall address;
a handle is the slot. `enqueueStore`, `enqueueIncrement`, `consumeList` and
`consumeDecrement` are the halves of the queue's operations; `torn` records that an
unlocked update of `readAvailable` overwrote another, `overwritten` that a list
was stored over one in execution. Most properties are stated while neither
happened (`intact`); the exceptions are real, they are what the code can do.

`Audio`. A unit is a pair of samples. `hasSpace`/`overrun` is the check before the
lock, `lockWrite`, `storePair` and `unlockWrite` the region, with the counters
updated in two steps each. The mixer has the same for its side. `otherSignals` and
`otherWakes` are the other channels, whose event has the same name. A call has any
number of pairs, none included; `long` records one that is longer than the ring less
the threshold and a mixer buffer (85 554 pairs in the code). `deviceThrows` ends the
mixer, with `_running` still set. `intact` is as in `Gpu`.

`Display`. `interruptsTasks` keeps only whether there are tasks that were handled
and that were not. `waitVblank` converts `lastWaitedVblank` to `uint`, as the
comparison does, so the initial -1 is the largest count. The loop of the CPU thread
ends when the host stops it (`cpuInterrupt`, `cpuLoopEnds`; after 2^32 instructions it
returns to a head with the same test), and when an instruction or a handler throws
(`instructionThrows`, `executeInterruptsThrows`). `otherCall` is every other system
call: what it waits for is not in this module, so it need not return.

`WaitEvent`. An event is a Boolean; `waitAny` is a wait that is satisfied, which
resets it. Waits also end on `stopEventCpu` (the emulator stops) and on the
callbacks' event: they add a test of the same condition and are left out.

`Semaphore`. `sema[g]` says where in which call thread `g` is, with the copy it read.
`sceKernelDeleteSema` uses `incrementCount` as `sceKernelSignalSema` does;
`sceKernelPollSema` the test and the subtraction of a wait. The counts of the creation
and the amounts of the calls are any integers, as only the poll looks at its
argument; `unchecked` records one that makes no sense, an initial count outside
0..`maxCount` or an amount below zero. The count is an `int` of 32 bits in the code
and does not wrap here. `MutexNext` is the use the documentation gives as an example, a
lock. History: `overlapped` (two threads were between test or read and write),
`waitersTorn` (an update of `numWaitThreads` was lost), `missed` (a sleeper whose
signal another one took).

`EventFlag`. `flagThread[g]` likewise, with the arguments of the wait. A wait with a
timeout ends in an exception, as the code has it; in `Semaphore` it tests again.
`sceKernelPollEventFlag` changes nothing and is left out. History: `robbed`,
`bitsTorn`, and `granted`, the bits that a clearing wait took since they were set.

`SleepWakeup`. `sleepingCriticalSection[t]` is held by `t` through its whole sleep and
by a waker for one increment. The reads and writes of the count are synchronized in
the code, so each is one step. `stolen`: a thread other than the one woken up took
the signal.

`ThreadEnd`. `todo[a]` are the updates of the status that thread `a` still makes, each
a read and a write. `startRunning` assigns the status after the native thread was
started. The event is a manual-reset one that is never reset, and `otherEnds` is the
end of any other thread. `sceKernelTerminateThread` does not stop the native thread,
`sceKernelExitDeleteThread` neither marks nor signals. `unstopped` records that a
STOPPED flag was taken back.

The sources of `threadman` import a `ThreadState` that the repository no longer
contains: its definition is the commented-out `HleThreadState` at the end of
`hle/HleThread.d`, on native threads, while the new scheduler runs fibers. The four
modules take the services as written, over that definition; they are not composed
with `HleThread`, because nothing in the sources connects the two.

`MemorySegment`. An operation is one step, under the lock of the partition; one
that throws is no step. `usedBlocks` is any order an unstable sort may leave.
`emptied` records that a block of size 0 was handed out.

## 3. Runs

Each finishes within four minutes on two cores.

| Run | Instance | Shows |
|---|---|---|
| `scheduler` | 3 threads, priorities 1 and 3 | `SchedulerInv` (with `LoopEndsOnlyWithoutThreads` and `WaitCountBounded`), `BoundedBypass`, `ResumesOnlyLiveThreads`, `NoStarvation` |
| `fibers_end` (violation) | 3 threads | a thread that ends leaves `current` set, the next resume throws and the loop ends with threads left |
| `utils`, list | a ring of 4 slots, 3-bit positions | the deque is implemented |
| `utils`, task queue | 2 clients, the executing thread with 2 tasks of its own, no other bound | at most one execution per add unless a task threw; a task is lost only in one window; a call returns, or why not |
| `utils`, display | counts of 3 bits, no other bound | no interrupt lost, at most three returns per vertical blank, interrupts executed unless the CPU thread ends or is stuck, waits and the stop return |
| `gpu` | 2 slots, 3 lists of 2 commands | order, no unwritten command read, the counter counts the lists, when a slot may be overwritten, both syncs, the waits return, an interrupt stops the thread |
| `gpu_list_sync` (violation) | the same | `sceGeListSync` returns for a list that was not executed |
| `gpu_draw_sync` (violation) | the same | `sceGeDrawSync` returns with a list not begun |
| `audio` | 3 pairs, threshold 0, 2 writers, 2 calls of 0 to 3 pairs, other channels on the same event | order, space, when a call overruns, that a call returns |
| `display_handled` (violation) | counts of 3 bits | a handled interrupt is handled again |
| `memory` | 6 addresses in a 4-bit word, 3 segments | no overlap, nearest fit from either end and exact free memory against a reference address by address |
| `guest`, fibers | 3 threads, priorities 1 and 2 | `current` is the fiber that runs, or one that ended |
| `guest`, controller | 2 slots, 6 pushes | the n-th last frame is found after the counter ran past the capacity; frames are not stale |
| `guest`, semaphore | 3 threads, no permit at first, 1 at most, amounts -1, 1 and 2, 1 signal, poll or negative wait, any number of other waits, 1 deletion | permits are conserved; a waiter misses a permit only to another; a deletion returns, or why not |
| `guest`, event flags | 3 threads, 2 flags of 2 bits, 3 calls | a waiter misses its bits only to another; one set satisfies one clearing wait |
| `guest`, sleep | 3 threads, 3 calls | sleeps are covered by wake-ups; a wake-up returns, or why not |
| `guest`, end | a thread, 2 others, 1 wait of its own, 1 termination | no wait ends before its thread; every wait ends once the thread did, or why not |
| `sema_mutex` (violation) | 2 threads, a semaphore of one permit | two threads hold the lock |
| `event_flag_out` (violation) | 2 threads, one flag | a clearing wait returns bits that do not match |

`utils` and `guest` each check parts that share no state: the initial state chooses
the part, the others stand still, and a property of another part holds of its
initial state. The bounds and the fairness of a part are those given for it.

Why the bounds are enough. Three threads are the least with a running thread, one
that is preferred and one that may starve, and 3 is not a multiple of the slices
others get in between. Two slots and three lists (or more frames than slots) give
every wrap and the one overwrite; a list of two commands has one that draws and
`OP_END`, with a stall before each. Words of 3 or 4 bits wrap within a run, at a
multiple of the capacity or not, as 2^32 does. Two writers are needed for a shared
channel; a call of three pairs is the one that is long, one of two the longest that
is not. Three segments give a gap between two blocks and one more request. Three
guest threads and three calls are a waiter, one that takes its signal and the one
that signals, or two waiters and a deletion; each call is 3 to 8 steps and all their
interleavings are explored. The two flags show the shared event; the second bit, a
wait for several.

Each module has one type invariant (`SemaTypeOK`, `FlagTypeOK`, ...). Those of the
scheduler, the task queue, memory, the list, semaphores, event flags and sleeps are
part of the proved invariants; the others hold on the instances above, replace the
properties of a `.cfg` by one to see it.

State constraints. In `audio` and `guest`, `Undecided` stops at states past which the
properties of the part hold by their exceptions: a damaged ring of a shared channel, a
mixer that was stopped or ended; a semaphore with both an overlap and a negative
amount, or a torn number of waiters; torn bits. For the semaphore it also bounds what
has no bound in the code: waiters that come back for ever and race a deletion drive the
count arbitrarily far below zero, one deeper with each round, and the run stops below
`LowestCount`, -1. In `guest`, `Roles` cuts what symmetry would: threads 1 and 2
wait and poll, thread 2 for one permit, thread 1 for every amount, with a timeout if
it is one; thread 3 signals every amount and deletes; only thread 1 terminates and only
thread 3 clears bits.

`CHECK_DEADLOCK FALSE` is set where the system stops: the loop that threw, the
stopped GPU and audio threads, the stopped display with a guest that waits for it,
guests that made all their calls or wait for a signal nobody gives.

## 4. Fairness

* `FairBypassSpec`: the native thread runs its loop, and a slice returns. The
  threads are cooperative; one that never yields hangs the emulator. Calls made
  inside a slice (construction, add, priority) have no fairness. Two things do starve a
  thread in the code: another one with priority 0, which is never charged, and a
  program that adds threads for ever, each with a `waitCount` of 0 and preferred to
  the older ones. So `NoStarvation` is claimed for positive priorities, and for a
  program that adds no more threads from some point on (`NoMoreThreads`); the
  invariants hold for all.
* `TaskFairness`: the GPU thread polls its queue (`Gpu.d:387-400`) until it is told to
  end, and a waiting client keeps testing. That it comes back to the poll assumes that
  the lists it draws end: one that is stalled for ever keeps it away. Its end and a
  task that throws are in the model, and `AddAndWaitReturns` excepts them: after either
  a client waits for ever.
* `FairGpuSpec`, `DisplayFairness`: weak fairness of each native
  thread, which the operating system schedules. Guests need not call anything, other
  system calls of the CPU thread need not return, hosts need not stop anything.
  `InterruptsExecuted` therefore excepts a CPU thread that ended, that stays in such a
  call for ever, or in `waitVblank` after the display was stopped.
* `FairAudioSpec`: as before, and the device plays a buffer it was given. That it may
  report an error instead has no fairness, and `WriteWaitReturns` excepts it.
* `SemaFairness`, `SleepFairness`, `EndFairness`: weak fairness of the steps of each
  thread inside a call, which runs on a native thread; a thread asleep on an event
  that is not signalled has no step. No call is fair, so nobody has to signal. A wake-up of
  one thread does not favour a particular sleeper: another may take every signal.
  A deletion of a semaphore does not return while waiters keep coming, nor while one
  waits for more than `maxCount`: `DeleteReturns` says so (`NoMoreWaits`,
  `SomeoneWaitsForTooMuch`).

All fairness is weak.

## 5. Findings

* `HleThread.d:41`, run `fibers_end`: see above; against the comment of
  `HleThreadManager.d:26`.
* `Gpu.d:319`, run `gpu_list_sync`: with a full queue the next list goes to the
  slot of the one in execution and is ended with it; against `Gpu.d:316`.
* `Gpu.d:367`, run `gpu_draw_sync`: a list that was consumed and is not entered in
  `currentDisplayList` yet is seen by neither test, so a draw sync returns before it was
  executed; against `Gpu.d:363` and `sceGe.d:262`. `DrawSyncMissesAtMostOne` says that
  it is this one list at most.
* `Interrupts.d:55`, run `display_handled`: raised interrupts are never removed;
  against `src/tests/pspemu/core/InterruptsTest.d:32`.
* `ThreadMan_Semaphores.d:264`, run `sema_mutex`: the test of the count and its
  subtraction are two steps, so a semaphore of one permit is no lock; against
  `ThreadMan_Semaphores.d:63` and `:147`.
* `ThreadMan_Events.d:303`, run `event_flag_out`: the bits are read again after they
  were cleared, so `outBits` is not what matched; against `ThreadMan_Events.d:98`.

Weaker forms, true of the code, are the properties of the passing runs
(`OverwrittenOnlyWhenFull`, `ListSyncWaits`, `DrawSyncMissesAtMostOne`,
`LostOnlyInTheWindow`, `AtMostThreeReturnsPerVblank`, `NoOverlap`,
`PermitsConserved`, `OneWaitPerSet`, `WakeupReturns`, `WaitThreadEndReturns`): they say how far
what a caller would expect can fail, and where it cannot.

## 6. Proofs

Checked by TLAPS for every value of the constants. Every safety property of the
passing runs, the invariants and the action properties, is also a theorem, and so is
the refinement of `Deque`. The names are those of the theorems.

### 6.1 Scheduler and fibers

* `SchedulerCorrect`: `Spec => []SchedulerInv`, for any finite set of threads and
  any bounded set of priorities, 0 included. The invariant joins the type, the
  bounds of `waitCount`, that the resumed thread is ready and that the loop does
  not throw. It needs that a finite nonempty set of integers has a least element
  (`LeastElement`, by well-founded induction on finite subsets), that
  `calculateMinWaitCount` finds it (`MinWaitCount`), and that subtracting it makes a
  thread ready and keeps the differences (`Synchronized`, `SwitchToNextStep`).
* `FinishedNeverResumed`: `Spec => ResumesOnlyLiveThreads`.
* `BypassBounded`: `BypassSpec => []BoundedBypass`. The bound is not inductive:
  `BypassInv` adds that a thread owes at most its last charge and that what `u` was
  charged in the account of `t` is covered by the difference of their counts plus
  the last charge of `t`. Subtracting a minimum keeps differences; a slice
  (`ChargeStep`) raises both sides of the account it touches by the same amount.
* `CurrentFiberTracked`: `CurrentTracksFiber` is inductive as it stands.

### 6.2 The shared containers

* `QueueIsConsistent`: `TaskSpec => []TaskQueueInv`, for any set of clients, any
  number of calls and any tasks that throw, and from it `NothingExecutedTwice`,
  `OnlyTheWindowLoses` and `DrawingThreadExecutesItsOwn`. None of the three is
  inductive: `TaskQueueInv` adds that what was copied is still a key (`CopiedAreKeys`),
  that what is copied was added, or kept by an exception, since it was last executed
  (`PendingAreOwed`), that a call outside the window is executed or is still to be
  (`AwaitedIsPending`), and that nothing makes the queue forget a task of the executing
  thread before it was executed (`OwnTaskIsNext`).
* `ThrowerIsKeptForEver`: once `executeAll` can see a task that throws, the task stays a
  key and no `executeAll` ends, which is why `AddAndWaitReturns` excepts it.
* `ListImplementsDeque`: `ListSpec => ImplementsDeque`, for any capacity that divides
  the range of `uint`. `PositionsAgree` is the invariant it needs: the positions are
  `readAvailable` slots apart. The lemmas on remainders (`Forward`, `Back`,
  `ContentsOf`) replace the two wraps of the code by one test, and each operation of
  the list is then one of the deque (`EnqueueIsAppend`, `ConsumeIsTail`, ...).
* `ControllerInvariant`: the slots behind the tail hold the last frames, which makes
  `FramesAreNthLast` a matter of the position that `readAt` computes; that the frames
  a call has read are recent enough is kept by a push, as it only adds newer ones,
  and by a read (`FramesAreNotStale`).

### 6.3 Display lists

`GpuInvariant`: `GpuSpec => []GpuInv`, for any number and length of lists and any
capacity. `GpuInv` says that a queue no race has damaged (`intact`) is `Whole`: the
numbers of the lists enqueued and ended determine the positions, the counter (less
what is between its read and its write) and the handles (`CountersAgree`), which slot
holds which list (`SlotsAgree`), how far each was executed (`ExecutionAgrees`) and
written (`WrittenAgrees`), and what the copies of either thread can be
(`ThreadsAgree`). None of the properties is inductive without all of it: the order
of execution depends on the slots, the slots on the positions, these on the counter
that lets either thread move them. The steps that damage the queue set `torn` or
`overwritten`, so they need no more than their guard. From it follow
`ListsExecuteInOrder`, `UnwrittenAreNotRead`, `CounterCountsLists`,
`ListSyncIsSound`, `DrawSyncMissesOne` and `OverwritesAreOfFullQueues`; the last
three are action properties.

### 6.4 Audio and display

* `AudioInvariant`: `AudioSpec => []AudioInv`, for any writers and lengths of calls, and
  any ring that holds the threshold and a mixer buffer. The ring is whole (`RingIsWhole`):
  the counts, the two positions and the contents agree, the contents being the
  pairs stored and not played, in order; a call that is alone and not too long fits
  (`CallFits`), as the one before it returned at the threshold. From it `SpaceIsConserved`,
  `PairsArePlayedInOrder` and, of the steps, `OverrunsAreShared`.
* `ReturnsBounded`: three returns per vertical blank is not inductive. What is
  bounded is their number plus what can still come: one for an event, one for a count
  that differs from the one last waited for (`Earned`), one for the increment on its
  way. Each return uses one up (`AtMostThreeReturns`).
* `InterruptsAreNotLost`: inductive as it stands.

### 6.5 Kernel objects

All for any set of guest threads; while no update was lost where the property says so.

* `SemaInvariant`: for any counts and amounts, of any sign. While no two threads
  overlapped, one thread at most is between the test or the read of the count
  and its write, and what it tested still holds; while no amount was negative, every
  amount in use is not, and no copy of the count exceeds `maxCount` (`Sensible`). From it
  `PermitsAreConserved` and `SignalsAreOnlyTaken`.
* `FlagInvariant`: likewise for the bits of each flag, and bits that a wait was granted
  are out of the flag or on their way out (`GrantedLeaves`), which `OneWaitIsSatisfied`
  needs; and `FlagSignalsAreOnlyTaken`.
* `SleepsAreCovered`: the sleeps ended, the count and the sleep in progress are covered
  by the wake-ups less those that have not reached the count (`Covered`), which is a
  sum over sets of threads whose cardinality each step changes by one.
* `WaitEndsOnlyAtTheEnd`: until somebody begins to end it, the target alone
  updates its status (`NotEnding`), so STOPPED is the flag of its creation.

### 6.6 Memory

`SegmentsInvariant`: `MemorySpec => [](MemoryTypeOK /\ NoOverlap)`, for any number of
segments and all sizes, addresses and alignments. Disjoint blocks that are not empty
follow each other once sorted (`UsedBlocksFollow`), so the gaps between neighbours
are free (`AvailableAreFree`); a search takes its block inside a gap, because the
sums that wrap make a block the constructor rejects (`LowEndInside`, `HighEndInside`).
The one assumption beyond the types is that the memory ends below half the range of
`uint`, as 0x0A000000 does. From the invariant:

* `SegmentsDoNotOverlap`.
* `NearestIsFound`: `MemorySpec => []NearestFit`. Every interval of free addresses lies in
  one gap (`RoomIsAvailable`), two gaps do not overlap (`AvailableAreOrdered`), and
  the tests of the searches are exact or wrap (`LowEndExact`, `HighEndExact`); where one
  wraps, the alignment is beyond every address but 0. That there is an order to sort
  the blocks in is a lemma, `OrderExists`.
* `FreeMemoryIsExact`: `MemorySpec => []FreeMemoryExact`. The fold of `getFreeMemory` is
  shown to have the function it recurs on (`SumExists`), by the least number of
  blocks up to which it has none, and to be the number of addresses of the blocks
  (`SumIsCardinality`), by the least subset for which it is not.

### 6.7 Assumptions, and what is only model-checked

Assumptions are the named `ASSUME`s of the modules, which TLC evaluates in every run.

The inductive invariants were checked by TLC on the instances of section 3 before they
were proved. They, `BypassInv`, `TaskQueueInv` and `OwnTaskExecuted` are not repeated in
a run; the other theorems also have one.

Only model-checked: liveness (`NoStarvation`, `AddAndWaitReturns`, `WaitsReturn`,
`InterruptStopsGpu`, `WriteWaitReturns`, `InterruptsExecuted`, `WaitVblankReturns`,
`StopReturns`, `DeleteReturns`, `WakeupReturns`, `WaitThreadEndReturns`), which is out
of reach of the prover with fairness and `ENABLED`; the type invariants of `HleThread`,
`Gpu`, `Audio`, `Display` and `ThreadEnd`, of which the proofs use what they need; and
the six properties that the code violates, which a counterexample settles.

## 7. What is not modelled, and why

* CPU instructions, recompiler, memory map, drawing commands, kirk: data and
  arithmetic of one thread, no protocol.
* Loader, ELF, file formats, syscall glue: pure or generated transformations.
* GUI, debugger, vendored code (`dfl`, `derelict`, and the D compiler under
  `dev/dmd2`, most of the repository's lines): not the emulator's logic.
* Kernel objects left out: delays wait for a clock and meet nobody; mutexes hand each
  call to a Win32 mutex; virtual timers queue their handler at once; receiving from a
  mailbox and all of the message pipes are not implemented in the code. A timed wait
  for the end of a thread does not time out once any thread ended
  (`ThreadMan_Threads.d:455`, the event stays signalled): `ThreadEnd` has it, no
  property claims otherwise.
* `WaitReady` and `WaitSemaphore`: nothing modelled waits on them.
* A stall update through the handle of an ended list, which moves the stall address of
  the list that took its slot, is in `Gpu`, but what it writes counts as written by the
  guest for that list: no property tells the two apart.
* The load and store of the frame around the syncs of the GPU (`Gpu.d:323`, `Gpu.d:376`) as tasks
  of `TaskQueue`, and the jumps and calls of display lists.
* Of modelled components: `PROJECT.json` says under `components` what is left out
  of each. Stacks come from a tree of their own over the addresses of the user
  partition (`HleMemoryManager.d:57`): the two share nothing a model could relate,
  they simply may overlap.

## 8. Plan

1. Done: scheduler, fibers, task queue, circular list, controller, GPU queue,
   audio, display and interrupts, memory, semaphores, event flags, sleep and
   wake-up, the end of threads.
2. Done: every safety property of the passing runs and the refinement of `Deque` as
   theorems. Left to prove: the type invariants named in 6.7.
3. Then: `Gpu` composed with the tasks of `TaskQueue` that load and store the frame;
   the control flow of display lists.
