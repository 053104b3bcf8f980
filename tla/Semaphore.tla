------------------------------ MODULE Semaphore ------------------------------
(***************************************************************************)
(* PspSemaphore and its system calls, of                                   *)
(* src/src/pspemu/hle/kd/threadman/ThreadMan_Semaphores.d, for one         *)
(* semaphore.  No lock is held: `currentCount = ...', `currentCount -= n'  *)
(* and `numWaitThreads++' are a read and a write, and so are the test of   *)
(* the count and the subtraction that relies on it.                        *)
(*                                                                         *)
(* A wait with a timeout ends without a signal as well and tests again     *)
(* ("ignored timeout"); the waits on stopEventCpu and on the callbacks'    *)
(* event only add such tests and are left out.  An event whose semaphore   *)
(* has a name of its own is shared by the waiters of that semaphore only.  *)
(*                                                                         *)
(* The count is an int of 32 bits in the code; here it does not wrap.      *)
(***************************************************************************)
EXTENDS WaitEvent

CONSTANTS
  initCount,
  maxCount,
  Amounts,         \* the arguments `signal' of the calls, of any sign and size
  MaxSemaCalls     \* bound on the system calls of a run, except the waits for
                   \*   zero or more, which come back for ever, and the
                   \*   deletion, after which there are none

\* sceKernelCreateSema checks neither count, and only sceKernelPollSema looks
\* at its argument before it uses it.
ASSUME SemaphoreAssumption ==
  /\ initCount \in Int /\ maxCount \in Int /\ Amounts \subseteq Int
  /\ MaxSemaCalls \in Nat

VARIABLES
  currentCount, numWaitThreads, semaEvent,
  semaExists,      \* its id is in uniqueIdFactory
  sema,            \* where each thread is, and in which call
  semaCalls,       \* the calls made so far
  missed,          \* history: the threads asleep when another one took the
                   \*   last signal
  held,            \* history: permits acquired, less those signalled, until
                   \*   overlapped
  overlapped,      \* history: two threads were updating the count at once
  waitersTorn,     \* history: an update of numWaitThreads was lost
  unchecked,       \* history: a count or an argument was accepted that makes no
                   \*   sense: the count to begin with, a signal of less than
                   \*   nothing, or a wait for it
  holders          \* history of MutexSpec: the threads that acquired and did not
                   \*   signal since

semaCounters == <<currentCount, numWaitThreads, semaEvent, semaExists>>
semaHistory == <<missed, held, overlapped, waitersTorn, unchecked>>
semaVars == <<semaCounters, semaHistory, sema, semaCalls, holders>>

\* `read' is the thread's copy of the counter it is updating, n its `signal'
\* argument; timed: it gave a timeout.
Idle == [at |-> "idle", call |-> "none", n |-> 0, timed |-> FALSE, read |-> 0]

SemaTypeOK ==
  /\ currentCount \in Int /\ numWaitThreads \in Int
  /\ semaEvent \in BOOLEAN /\ semaExists \in BOOLEAN
  /\ sema \in
       [Guest ->
         [at : {"idle", "increment", "incrementWrite", "signal", "enter",
                "enterWrite", "test", "asleep", "take", "takeWrite", "leave",
                "leaveWrite", "waiting?", "remove"},
          call : {"none", "signal", "wait", "poll", "delete"},
          n : Int, timed : BOOLEAN, read : Int]]
  /\ semaCalls \in 0 .. MaxSemaCalls
  /\ missed \subseteq Guest /\ holders \subseteq Guest
  /\ held \in Int
  /\ overlapped \in BOOLEAN /\ waitersTorn \in BOOLEAN /\ unchecked \in BOOLEAN

SemaInit ==
  /\ currentCount = initCount /\ numWaitThreads = 0
  /\ semaEvent = FALSE /\ semaExists = TRUE
  /\ sema = [g \in Guest |-> Idle]
  /\ semaCalls = 0
  /\ missed = {} /\ held = 0 /\ holders = {}
  /\ overlapped = FALSE /\ waitersTorn = FALSE
  /\ unchecked = (initCount \notin 0 .. maxCount)

\* Thread g goes on inside its call, with a copy of a counter.
reads(g, from, to, counter) ==
  /\ sema[g].at = from
  /\ sema' = [sema EXCEPT ![g] =
       IF to = "idle" THEN Idle ELSE [@ EXCEPT !.at = to, !.read = counter]]
  /\ UNCHANGED semaCalls

moves(g, from, to) == reads(g, from, to, 0)

\* The threads between the read of the count, or its test, and the write.
Updating == {g \in Guest : sema[g].at \in {"incrementWrite", "take", "takeWrite"}}

entersUpdate(g) == overlapped' = (overlapped \/ Updating \ {g} # {})

-----------------------------------------------------------------------------
(* The calls. *)

\* A call finds the semaphore in uniqueIdFactory, or returns an error.
calls(g, call, n, timed, to) ==
  /\ semaExists
  /\ sema[g] = Idle
  /\ sema' = [sema EXCEPT ![g] =
       [at |-> to, call |-> call, n |-> n, timed |-> timed, read |-> 0]]
  /\ UNCHANGED <<semaCounters, missed, held, overlapped, waitersTorn>>

\* The bound on the calls.
counted == semaCalls < MaxSemaCalls /\ semaCalls' = semaCalls + 1

sceKernelSignalSema(g, n) ==
  /\ calls(g, "signal", n, FALSE, "increment") /\ counted
  /\ unchecked' = (unchecked \/ n < 0)

sceKernelWaitSema(g, n, timed) ==
  /\ calls(g, "wait", n, timed, "enter")
  /\ IF n < 0 THEN counted ELSE UNCHANGED semaCalls
  /\ unchecked' = (unchecked \/ n < 0)

\* The one call that looks at its argument.
sceKernelPollSema(g, n) ==
  /\ n > 0
  /\ calls(g, "poll", n, FALSE, "test") /\ counted
  /\ UNCHANGED unchecked

sceKernelDeleteSema(g) ==
  /\ calls(g, "delete", maxCount, FALSE, "waiting?")
  /\ UNCHANGED <<unchecked, semaCalls>>

-----------------------------------------------------------------------------
(* PspSemaphore.incrementCount: the read, the write, the signal. *)

incrementRead(g) ==
  /\ reads(g, "increment", "incrementWrite", currentCount)
  /\ entersUpdate(g)
  /\ UNCHANGED <<semaCounters, missed, held, waitersTorn, unchecked>>

\* Mutant: the count is not limited.
incrementedUnlimited(read, n) == read + n

incremented(read, n) == IF read + n < maxCount THEN read + n ELSE maxCount

incrementWrite(g) ==
  LET count == incremented(sema[g].read, sema[g].n) IN
  /\ moves(g, "incrementWrite", "signal")
  /\ currentCount' = count
  /\ held' = IF overlapped THEN held ELSE held - (count - sema[g].read)
  /\ UNCHANGED <<numWaitThreads, semaEvent, semaExists, missed, overlapped,
                 waitersTorn, unchecked>>

afterSignal(g) == IF sema[g].call = "delete" THEN "waiting?" ELSE "idle"

\* Mutant: a count that is full is not signalled.
incrementSignalUnlessFull(g) ==
  /\ moves(g, "signal", afterSignal(g))
  /\ semaEvent' = (semaEvent \/ currentCount < maxCount)
  /\ UNCHANGED <<currentCount, numWaitThreads, semaExists, semaHistory>>

incrementSignal(g) ==
  /\ moves(g, "signal", afterSignal(g))
  /\ signal(semaEvent)
  /\ UNCHANGED <<currentCount, numWaitThreads, semaExists, semaHistory>>

-----------------------------------------------------------------------------
(* PspSemaphore.waitSignal, and sceKernelPollSema, which never sleeps. *)

readWaiters(g, from, to) ==
  reads(g, from, to, numWaitThreads) /\ UNCHANGED <<semaCounters, semaHistory>>

writeWaiters(g, from, to, n) ==
  /\ moves(g, from, to)
  /\ numWaitThreads' = sema[g].read + n
  /\ waitersTorn' = (waitersTorn \/ numWaitThreads # sema[g].read)
  /\ UNCHANGED <<currentCount, semaEvent, semaExists, missed, held, overlapped,
                 unchecked>>

enterRead(g) == readWaiters(g, "enter", "enterWrite")
enterWrite(g) == writeWaiters(g, "enterWrite", "test", 1)

notEnough(g) == currentCount < sema[g].n

testFails(g) ==
  /\ notEnough(g)
  /\ moves(g, "test", IF sema[g].call = "poll" THEN "idle" ELSE "asleep")
  /\ UNCHANGED <<semaCounters, semaHistory>>

testSucceeds(g) ==
  /\ ~ notEnough(g)
  /\ moves(g, "test", "take")
  /\ entersUpdate(g)
  /\ UNCHANGED <<semaCounters, missed, held, waitersTorn, unchecked>>

\* The signal wakes one of the threads asleep.
semaWoken(g) ==
  /\ moves(g, "asleep", "test")
  /\ waitAny(semaEvent)
  /\ missed' = {h \in Guest \ {g} : sema[h].at = "asleep"}
  /\ UNCHANGED <<currentCount, numWaitThreads, semaExists, held, overlapped,
                 waitersTorn, unchecked>>

semaTimeout(g) ==
  /\ sema[g].timed
  /\ moves(g, "asleep", "test")
  /\ missed' = missed \ {g}
  /\ UNCHANGED <<semaCounters, held, overlapped, waitersTorn, unchecked>>

takeRead(g) ==
  reads(g, "take", "takeWrite", currentCount) /\ UNCHANGED <<semaCounters, semaHistory>>

takeWrite(g) ==
  /\ moves(g, "takeWrite", IF sema[g].call = "poll" THEN "idle" ELSE "leave")
  /\ currentCount' = sema[g].read - sema[g].n
  /\ held' = IF overlapped THEN held ELSE held + sema[g].n
  /\ UNCHANGED <<numWaitThreads, semaEvent, semaExists, missed, overlapped,
                 waitersTorn, unchecked>>

leaveRead(g) == readWaiters(g, "leave", "leaveWrite")

\* Mutant: the thread stays counted as waiting.
leaveUncounted(g) ==
  moves(g, "leaveWrite", "idle") /\ UNCHANGED <<semaCounters, semaHistory>>

leaveWrite(g) == writeWaiters(g, "leaveWrite", "idle", -1)

-----------------------------------------------------------------------------
(* sceKernelDeleteSema: the loop that wakes the waiters, and the removal.  *)
(* Between its test of numWaitThreads and the removal others may enter.    *)

deleteTest(g) ==
  /\ moves(g, "waiting?", IF numWaitThreads > 0 THEN "increment" ELSE "remove")
  /\ UNCHANGED <<semaCounters, semaHistory>>

deleteRemove(g) ==
  /\ moves(g, "remove", "idle")
  /\ semaExists' = FALSE
  /\ UNCHANGED <<currentCount, numWaitThreads, semaEvent, semaHistory>>

-----------------------------------------------------------------------------

\* The steps of a thread inside a call.
SemaStep(g) ==
  \/ incrementRead(g) \/ incrementWrite(g) \/ incrementSignal(g)
  \/ enterRead(g) \/ enterWrite(g)
  \/ testFails(g) \/ testSucceeds(g)
  \/ semaWoken(g) \/ semaTimeout(g)
  \/ takeRead(g) \/ takeWrite(g)
  \/ leaveRead(g) \/ leaveWrite(g)
  \/ deleteTest(g) \/ deleteRemove(g)

SemaNext ==
  /\ \E g \in Guest :
       \/ \E n \in Amounts :
            \/ sceKernelSignalSema(g, n)
            \/ sceKernelPollSema(g, n)
            \/ \E timed \in BOOLEAN : sceKernelWaitSema(g, n, timed)
       \/ sceKernelDeleteSema(g)
       \/ SemaStep(g)
  /\ UNCHANGED holders

SemaSpec == SemaInit /\ [][SemaNext]_semaVars

\* The native threads are scheduled.
SemaFairness == \A g \in Guest : WF_semaVars(SemaStep(g) /\ UNCHANGED holders)

FairSemaSpec == SemaSpec /\ SemaFairness

\* Threads that use the semaphore as a lock: they signal what they acquired.
MutexNext ==
  \E g \in Guest :
    \/ g \in holders /\ sceKernelSignalSema(g, 1) /\ holders' = holders \ {g}
    \/ g \notin holders /\ sceKernelWaitSema(g, 1, FALSE) /\ UNCHANGED holders
    \/ takeWrite(g) /\ holders' = holders \cup {g}
    \/ SemaStep(g) /\ sema[g].at # "takeWrite" /\ UNCHANGED holders

MutexSpec == SemaInit /\ [][MutexNext]_semaVars

-----------------------------------------------------------------------------

(***************************************************************************)
(* Permits are neither made nor lost as long as no two threads were        *)
(* between the test or the read of the count and its write at once; the    *)
(* count is then between zero and maxCount, unless a negative amount was   *)
(* accepted.  Whatever overlaps, it does not pass maxCount (lines 246, 264 *)
(* to 267, 197 to 199).                                                    *)
(***************************************************************************)
PermitsConserved ==
  /\ ~ overlapped => currentCount + held = initCount
  /\ ~ overlapped /\ ~ unchecked => currentCount >= 0
  /\ ~ unchecked => currentCount <= maxCount

(***************************************************************************)
(* A thread sleeps although the count is enough for it only when another   *)
(* thread was woken instead by the signal, which is one for all of them;   *)
(* no signal falls between the test and the wait (lines 246 to 248, 264 to *)
(* 266).  A wait for a negative amount raises the count and signals        *)
(* nobody.                                                                 *)
(***************************************************************************)
SemaMissedOnlyWhenTaken ==
  ~ overlapped /\ ~ unchecked =>
    \A g \in Guest :
      sema[g].at = "asleep" /\ ~ notEnough(g) /\ ~ semaEvent =>
        g \in missed \/ \E h \in Guest : sema[h].at = "signal"

(***************************************************************************)
(* sceKernelDeleteSema returns if the guest makes no more waits: raising   *)
(* the count by a positive maxCount until nobody waits lets every waiter   *)
(* leave, unless an update of the number of waiters was lost (lines 119 to *)
(* 124, 257), or one of them waits for more than maxCount, which nobody    *)
(* checks and the count never reaches (line 160).                          *)
(***************************************************************************)
NoMoreWaits ==
  <>[][\A g \in Guest : sema[g].at = "idle" => sema'[g].call # "wait"]_semaVars

SomeoneWaitsForTooMuch ==
  \E g \in Guest :
    /\ sema[g].call = "wait" /\ sema[g].at \in {"test", "asleep"}
    /\ sema[g].n > maxCount

Deleting == \E g \in Guest : sema[g].call = "delete"

DeleteReturns ==
  maxCount > 0 /\ NoMoreWaits =>
    (Deleting ~> ~ Deleting \/ waitersTorn \/ SomeoneWaitsForTooMuch)

(***************************************************************************)
(* ThreadMan_Semaphores.d:62-64 and 147: sceKernelCreateSema("MyMutex", 0, *)
(* 1, 1, 0) makes a lock, and sceKernelWaitSema is to "Lock a semaphore":  *)
(* of the threads that use it so, one holds it at a time.                  *)
(***************************************************************************)
MutualExclusion == \A g, h \in holders : g = h

=============================================================================
