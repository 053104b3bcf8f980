----------------------------- MODULE SleepWakeup -----------------------------
(***************************************************************************)
(* sceKernelSleepThread and sceKernelWakeupThread of                       *)
(* src/src/pspemu/hle/kd/threadman/ThreadMan_Threads.d, between guest      *)
(* threads that each have a wake-up count and a critical section, taken    *)
(* for the whole of a sleep.  The count, the section and the event are     *)
(* declared in the commented-out HleThreadState of hle/HleThread.d, the    *)
(* only definition the sources have of them: its reads and writes of the   *)
(* count are synchronized, one at a time, and every thread's event is      *)
(* named "WakeUpEvent", so it is one event.                                *)
(***************************************************************************)
EXTENDS WaitEvent

CONSTANT MaxSleepCalls   \* bound on the system calls of a run

ASSUME SleepWakeupAssumption == MaxSleepCalls \in Nat

VARIABLES
  wakeUpCount,
  sleepingCriticalSection,   \* who holds each thread's section
  wakeUpEvent,
  sleeper,       \* where each thread is, and whom it wakes up
  sleepCalls,    \* the calls made so far
  slept,         \* history: how often each thread came out of a sleep
  wakeups,       \* history: the calls that woke up each thread
  stolen         \* history: a thread took the signal while one that had been
                 \*   woken up was asleep

sleepVars == <<wakeUpCount, sleepingCriticalSection, wakeUpEvent, sleeper,
               sleepCalls, slept, wakeups, stolen>>

SleepTypeOK ==
  /\ wakeUpCount \in [Guest -> Int]
  /\ sleepingCriticalSection \in [Guest -> Guest \cup {Nobody}]
  /\ wakeUpEvent \in BOOLEAN /\ stolen \in BOOLEAN
  /\ sleeper \in
       [Guest ->
         [at : {"idle", "enter", "count?", "decrement", "awake?", "asleep",
                "increment", "reset", "signal", "waitEnded"},
          of : Guest]]
  /\ sleepCalls \in 0 .. MaxSleepCalls
  /\ slept \in [Guest -> Nat] /\ wakeups \in [Guest -> Nat]

SleepInit ==
  /\ wakeUpCount = [g \in Guest |-> 0]
  /\ sleepingCriticalSection = [g \in Guest |-> Nobody]
  /\ wakeUpEvent = FALSE
  /\ sleeper = [g \in Guest |-> [at |-> "idle", of |-> g]]
  /\ sleepCalls = 0
  /\ slept = [g \in Guest |-> 0] /\ wakeups = [g \in Guest |-> 0]
  /\ stolen = FALSE

at(g, where) == sleeper[g].at = where

advances(g, from, to) ==
  /\ at(g, from)
  /\ sleeper' = [sleeper EXCEPT ![g] =
       [at |-> to, of |-> IF to = "idle" THEN g ELSE @.of]]

enters(g, t) ==
  /\ sleepingCriticalSection[t] = Nobody
  /\ sleepingCriticalSection' = [sleepingCriticalSection EXCEPT ![t] = g]

leaves(t) ==
  sleepingCriticalSection' = [sleepingCriticalSection EXCEPT ![t] = Nobody]

sleepCall(g, to, t) ==
  /\ at(g, "idle") /\ sleepCalls < MaxSleepCalls
  /\ sleeper' = [sleeper EXCEPT ![g] = [at |-> to, of |-> t]]
  /\ sleepCalls' = sleepCalls + 1
  /\ UNCHANGED <<wakeUpCount, wakeUpEvent, slept, stolen>>

-----------------------------------------------------------------------------
(* _sceKernelSleepThreadCB. *)

sceKernelSleepThread(g) ==
  sleepCall(g, "enter", g) /\ UNCHANGED <<sleepingCriticalSection, wakeups>>

enterSleep(g) ==
  /\ advances(g, "enter", "count?")
  /\ enters(g, g)
  /\ UNCHANGED <<wakeUpCount, wakeUpEvent, sleepCalls, slept, wakeups, stolen>>

\* Mutant: a count of zero is not decremented.
testCountPositive(g) ==
  /\ advances(g, "count?", IF wakeUpCount[g] > 0 THEN "decrement" ELSE "awake?")
  /\ UNCHANGED <<wakeUpCount, sleepingCriticalSection, wakeUpEvent, sleepCalls,
                 slept, wakeups, stolen>>

testCount(g) ==
  /\ advances(g, "count?", IF wakeUpCount[g] >= 0 THEN "decrement" ELSE "awake?")
  /\ UNCHANGED <<wakeUpCount, sleepingCriticalSection, wakeUpEvent, sleepCalls,
                 slept, wakeups, stolen>>

decrementWakeUpCount(g) ==
  /\ advances(g, "decrement", "awake?")
  /\ wakeUpCount' = [wakeUpCount EXCEPT ![g] = @ - 1]
  /\ UNCHANGED <<sleepingCriticalSection, wakeUpEvent, sleepCalls, slept,
                 wakeups, stolen>>

fallsAsleep(g) ==
  /\ wakeUpCount[g] < 0
  /\ advances(g, "awake?", "asleep")
  /\ UNCHANGED <<wakeUpCount, sleepingCriticalSection, wakeUpEvent, sleepCalls,
                 slept, wakeups, stolen>>

\* The signal wakes one thread, whosever event it was signalled as.
sleepWoken(g) ==
  /\ advances(g, "asleep", "awake?")
  /\ waitAny(wakeUpEvent)
  /\ stolen' =
       (stolen \/ \E h \in Guest \ {g} : at(h, "asleep") /\ wakeUpCount[h] >= 0)
  /\ UNCHANGED <<wakeUpCount, sleepingCriticalSection, sleepCalls, slept, wakeups>>

sleepReturns(g) ==
  /\ wakeUpCount[g] >= 0
  /\ advances(g, "awake?", "idle")
  /\ leaves(g)
  /\ slept' = [slept EXCEPT ![g] = @ + 1]
  /\ UNCHANGED <<wakeUpCount, wakeUpEvent, sleepCalls, wakeups, stolen>>

-----------------------------------------------------------------------------
(* sceKernelWakeupThread.  tryLock enters the section of the other thread, *)
(* or takes it that the other one is asleep: it may also not have counted  *)
(* its sleep yet, have been woken up already, or not sleep at all while a  *)
(* third thread holds the section.                                         *)

sceKernelWakeupThread(g, t) ==
  /\ \/ sleepCall(g, "increment", t) /\ enters(g, t)
     \/ /\ sleepingCriticalSection[t] # Nobody
        /\ sleepCall(g, "reset", t)
        /\ UNCHANGED sleepingCriticalSection
  /\ wakeups' = [wakeups EXCEPT ![t] = @ + 1]

incrementWakeUpCount(g) ==
  LET t == sleeper[g].of IN
  /\ advances(g, "increment", "idle")
  /\ wakeUpCount' = [wakeUpCount EXCEPT ![t] = @ + 1]
  /\ leaves(t)
  /\ UNCHANGED <<wakeUpEvent, sleepCalls, slept, wakeups, stolen>>

resetWakeUpCount(g) ==
  /\ advances(g, "reset", "signal")
  /\ wakeUpCount' = [wakeUpCount EXCEPT ![sleeper[g].of] = 0]
  /\ UNCHANGED <<sleepingCriticalSection, wakeUpEvent, sleepCalls, slept,
                 wakeups, stolen>>

\* Mutant: the event is not signalled.
wakeupUnsignalled(g) ==
  /\ advances(g, "signal", "waitEnded")
  /\ UNCHANGED <<wakeUpCount, sleepingCriticalSection, wakeUpEvent, sleepCalls,
                 slept, wakeups, stolen>>

wakeupSignal(g) ==
  /\ advances(g, "signal", "waitEnded")
  /\ signal(wakeUpEvent)
  /\ UNCHANGED <<wakeUpCount, sleepingCriticalSection, sleepCalls, slept,
                 wakeups, stolen>>

\* The section is entered and left at once.
waitEnded(g) ==
  /\ sleepingCriticalSection[sleeper[g].of] = Nobody
  /\ advances(g, "waitEnded", "idle")
  /\ UNCHANGED <<wakeUpCount, sleepingCriticalSection, wakeUpEvent, sleepCalls,
                 slept, wakeups, stolen>>

-----------------------------------------------------------------------------

SleepStep(g) ==
  \/ enterSleep(g) \/ testCount(g) \/ decrementWakeUpCount(g)
  \/ fallsAsleep(g) \/ sleepWoken(g) \/ sleepReturns(g)
  \/ incrementWakeUpCount(g)
  \/ resetWakeUpCount(g) \/ wakeupSignal(g) \/ waitEnded(g)

SleepNext ==
  \E g \in Guest :
    \/ sceKernelSleepThread(g)
    \/ \E t \in Guest : sceKernelWakeupThread(g, t)
    \/ SleepStep(g)

SleepSpec == SleepInit /\ [][SleepNext]_sleepVars

\* The native threads are scheduled.
SleepFairness == \A g \in Guest : WF_sleepVars(SleepStep(g))

-----------------------------------------------------------------------------

(***************************************************************************)
(* A thread comes out of no more sleeps than it was woken up from,         *)
(* although resets overwrite its count at any time (lines 203 to 210, 288  *)
(* to 295).                                                                *)
(***************************************************************************)
SleepsCovered == \A g \in Guest : slept[g] <= wakeups[g]

(***************************************************************************)
(* sceKernelWakeupThread returns, unless another thread took its signal or *)
(* its target stays asleep on a negative count: either the target began    *)
(* another sleep or the reset came before the target counted the sleep     *)
(* (lines 203 to 210, 288 to 295).                                         *)
(***************************************************************************)
WakeupReturns ==
  \A g \in Guest :
    LET t == sleeper[g].of IN
    at(g, "waitEnded")
      ~> \/ at(g, "idle") \/ stolen
         \/ [](at(t, "asleep") /\ wakeUpCount[t] < 0)

=============================================================================
