------------------------------ MODULE ThreadEnd ------------------------------
(***************************************************************************)
(* The end of a thread in                                                  *)
(* src/src/pspemu/hle/kd/threadman/ThreadMan_Threads.d: the status of one  *)
(* thread, the target, between the thread itself, the one that starts it,  *)
(* those that terminate it and those that wait for its end.                *)
(*                                                                         *)
(* Every `status |= f' and `status &= ~f' is a read and a write without a  *)
(* lock, and sceKernelStartThread assigns the whole status after the       *)
(* native thread runs.  What the native thread does first, waitingBlock and *)
(* the event are in the commented-out HleThreadState of hle/HleThread.d,   *)
(* the only definition there is: the event is named "ThreadEndedEvent", so *)
(* it is one event for all threads, and nobody resets it.                  *)
(***************************************************************************)
EXTENDS WaitEvent, Sequences

CONSTANTS
  Waiter,           \* the guest threads that wait for its end or end it
  Target,           \* the thread that is started and ends
  MaxBlocks,        \* bound on the waits of the target itself
  MaxTerminations   \* bound on the calls of sceKernelTerminateThread

ASSUME ThreadEndAssumption ==
  /\ Target \notin Waiter
  /\ MaxBlocks \in Nat /\ MaxTerminations \in Nat

VARIABLES
  status,            \* the PspThreadStatus of the target
  threadEndedEvent,
  started,           \* sceKernelStartThread: not called, inside, returned
  alive,             \* the native thread of the target runs guest code
  todo,              \* the updates of the status each thread still makes
  copied,            \* the status it read for the next one
  reading,           \* the threads between that read and the write
  signals,           \* the threads that signal after their updates
  waiter,            \* where each guest is in sceKernelWaitThreadEnd
  blocks, terminations,
  ending,            \* history: somebody began to end the target
  ended,             \* history: and signalled its event
  unstopped          \* history: the STOPPED flag of the end was taken back

statusVars == <<status, todo, copied, reading, ending, ended, unstopped>>
boundVars == <<blocks, terminations>>
endVars == <<statusVars, threadEndedEvent, started, alive, signals, waiter,
             boundVars>>

Status == {"RUNNING", "WAITING", "STOPPED"}
Updaters == Waiter \cup {Target}

set(f) == [add |-> {f}, remove |-> {}]
unset(f) == [add |-> {}, remove |-> {f}]

\* The updates of the native thread when it starts, of waitingBlock, and of
\* _sceKernelTerminateThread.
Begin == <<unset("STOPPED"), set("RUNNING")>>
Block == <<set("WAITING"), unset("WAITING")>>
End == <<set("STOPPED"), unset("RUNNING")>>

NotWaiting == [at |-> "idle", timed |-> FALSE, since |-> FALSE]

EndTypeOK ==
  /\ status \subseteq Status /\ copied \in [Updaters -> SUBSET Status]
  /\ threadEndedEvent \in BOOLEAN /\ alive \in BOOLEAN
  /\ started \in {"no", "native", "yes"}
  /\ \A a \in Updaters : Len(todo[a]) <= 2
  /\ reading \subseteq Updaters /\ signals \subseteq Updaters
  /\ waiter \in
       [Waiter -> [at : {"idle", "test", "asleep", "ended"},
                  timed : BOOLEAN, since : BOOLEAN]]
  /\ blocks \in 0 .. MaxBlocks /\ terminations \in 0 .. MaxTerminations
  /\ ending \in BOOLEAN /\ ended \in BOOLEAN /\ unstopped \in BOOLEAN

EndInit ==
  /\ status = {"STOPPED"} /\ threadEndedEvent = FALSE
  /\ started = "no" /\ alive = FALSE
  /\ todo = [a \in Updaters |-> <<>>]
  /\ copied = [a \in Updaters |-> {}]
  /\ reading = {} /\ signals = {}
  /\ waiter = [g \in Waiter |-> NotWaiting]
  /\ blocks = 0 /\ terminations = 0
  /\ ending = FALSE /\ ended = FALSE /\ unstopped = FALSE

-----------------------------------------------------------------------------
(* One update of the status, and the event after the last of an end. *)

starts(a, updates) ==
  /\ todo[a] = <<>> /\ a \notin signals
  /\ todo' = [todo EXCEPT ![a] = updates]
  /\ UNCHANGED <<copied, reading>>

takesBack ==
  unstopped' =
    (unstopped \/ (ending /\ "STOPPED" \in status /\ "STOPPED" \notin status'))

readStatus(a) ==
  /\ todo[a] # <<>> /\ a \notin reading
  /\ reading' = reading \cup {a}
  /\ copied' = [copied EXCEPT ![a] = status]
  /\ UNCHANGED <<status, todo, ending, ended, unstopped, threadEndedEvent, started,
                 alive, signals, waiter, boundVars>>

writeStatus(a) ==
  /\ a \in reading
  /\ reading' = reading \ {a}
  /\ status' = (copied[a] \cup Head(todo[a]).add) \ Head(todo[a]).remove
  /\ takesBack
  /\ todo' = [todo EXCEPT ![a] = Tail(@)]
  /\ copied' = [copied EXCEPT ![a] = {}]
  /\ UNCHANGED <<ending, ended, threadEndedEvent, started, alive, signals, waiter,
                 boundVars>>

\* Mutant: the event is not signalled.
endUnsignalled(a) ==
  /\ a \in signals /\ todo[a] = <<>>
  /\ signals' = signals \ {a}
  /\ ended' = TRUE
  /\ UNCHANGED <<status, todo, copied, reading, ending, unstopped,
                 threadEndedEvent, started, alive, waiter, boundVars>>

endSignal(a) ==
  /\ a \in signals /\ todo[a] = <<>>
  /\ signals' = signals \ {a}
  /\ signal(threadEndedEvent)
  /\ ended' = TRUE
  /\ UNCHANGED <<status, todo, copied, reading, ending, unstopped, started,
                 alive, waiter, boundVars>>

\* The event is every thread's: another one ends.
otherEnds ==
  /\ ~ threadEndedEvent
  /\ signal(threadEndedEvent)
  /\ UNCHANGED <<statusVars, started, alive, signals, waiter, boundVars>>

-----------------------------------------------------------------------------
(* sceKernelStartThread: the native thread, then the status. *)

startNative ==
  /\ started = "no"
  /\ started' = "native" /\ alive' = TRUE
  /\ starts(Target, Begin)
  /\ UNCHANGED <<status, ending, ended, unstopped, threadEndedEvent, signals, waiter,
                 boundVars>>

\* Mutant: the status is left to the native thread.
startUnmarked ==
  /\ started = "native"
  /\ started' = "yes"
  /\ UNCHANGED <<statusVars, threadEndedEvent, alive, signals, waiter, boundVars>>

startRunning ==
  /\ started = "native"
  /\ started' = "yes"
  /\ status' = {"RUNNING"}
  /\ takesBack
  /\ UNCHANGED <<todo, copied, reading, ending, ended, threadEndedEvent, alive,
                 signals, waiter, boundVars>>

-----------------------------------------------------------------------------
(* The target, and those that terminate it: it runs on. *)

waitingBlock ==
  /\ alive /\ blocks < MaxBlocks
  /\ starts(Target, Block)
  /\ blocks' = blocks + 1
  /\ UNCHANGED <<status, ending, ended, unstopped, threadEndedEvent, started, alive,
                 signals, waiter, terminations>>

\* sceKernelExitThread.
sceKernelExitThread ==
  /\ alive /\ alive' = FALSE
  /\ starts(Target, End)
  /\ signals' = signals \cup {Target}
  /\ ending' = TRUE
  /\ UNCHANGED <<status, ended, unstopped, threadEndedEvent, started, waiter, boundVars>>

\* Neither the status nor the event tells of it.
sceKernelExitDeleteThread ==
  /\ alive /\ alive' = FALSE
  /\ todo[Target] = <<>>
  /\ UNCHANGED <<statusVars, threadEndedEvent, started, signals, waiter, boundVars>>

sceKernelTerminateThread(g) ==
  /\ started = "yes" /\ terminations < MaxTerminations
  /\ waiter[g] = NotWaiting
  /\ terminations' = terminations + 1
  /\ starts(g, End)
  /\ signals' = signals \cup {g}
  /\ ending' = TRUE
  /\ UNCHANGED <<status, ended, unstopped, threadEndedEvent, started, alive, waiter, blocks>>

-----------------------------------------------------------------------------
(* _sceKernelWaitThreadEndCB. *)

waits(g, to) ==
  /\ waiter' = [waiter EXCEPT ![g] = to]
  /\ UNCHANGED <<statusVars, threadEndedEvent, started, alive, signals, boundVars>>

sceKernelWaitThreadEnd(g, timed) ==
  /\ waiter[g] = NotWaiting /\ g \notin signals
  /\ waits(g, [at |-> "test", timed |-> timed, since |-> started = "yes"])

mustContinue == "STOPPED" \notin status

waitTests(g) ==
  /\ waiter[g].at = "test"
  /\ waits(g, [waiter[g] EXCEPT !.at = IF mustContinue THEN "asleep" ELSE "ended"])

\* The event stays signalled.
waitWoken(g) ==
  /\ waiter[g].at = "asleep" /\ threadEndedEvent
  /\ waits(g, [waiter[g] EXCEPT !.at = "test"])

\* WaitObjectTimeoutException, when the event is not signalled.
waitTimesOut(g) ==
  /\ waiter[g].at = "asleep" /\ waiter[g].timed /\ ~ threadEndedEvent
  /\ waits(g, NotWaiting)

waitEnds(g) == waiter[g].at = "ended" /\ waits(g, NotWaiting)

-----------------------------------------------------------------------------

StatusStep(a) == readStatus(a) \/ writeStatus(a) \/ endSignal(a)
WaitStep(g) == waitTests(g) \/ waitWoken(g) \/ waitTimesOut(g) \/ waitEnds(g)

EndNext ==
  \/ startNative \/ startRunning \/ otherEnds
  \/ waitingBlock \/ sceKernelExitThread \/ sceKernelExitDeleteThread
  \/ \E a \in Updaters : StatusStep(a)
  \/ \E g \in Waiter :
       \/ sceKernelTerminateThread(g)
       \/ \E timed \in BOOLEAN : sceKernelWaitThreadEnd(g, timed)
       \/ WaitStep(g)

EndSpec == EndInit /\ [][EndNext]_endVars

\* The native threads are scheduled.
EndFairness ==
  /\ \A a \in Updaters : WF_endVars(StatusStep(a))
  /\ \A g \in Waiter : WF_endVars(WaitStep(g))

-----------------------------------------------------------------------------

(***************************************************************************)
(* Who waits for the end of a thread returns once the thread ended and the *)
(* event was signalled, unless the STOPPED flag was taken back: by the     *)
(* assignment of sceKernelStartThread after a thread that ended already,   *)
(* by an update read before, or by the first of a native thread terminated *)
(* before it ran (lines 127 to 129, 140 to 144, 444 to 458).               *)
(***************************************************************************)
WaitThreadEndReturns ==
  \A g \in Waiter :
    waiter[g] # NotWaiting /\ ended
      ~> waiter[g] = NotWaiting \/ unstopped

(***************************************************************************)
(* A wait begun after sceKernelStartThread returned does not find the      *)
(* STOPPED flag of the creation, whatever the native thread has run of its *)
(* own start: it ends only when somebody ends the thread (lines 103, 127   *)
(* to 129, 445).                                                           *)
(***************************************************************************)
NotEndedEarly ==
  \A g \in Waiter : waiter[g].at = "ended" /\ waiter[g].since => ending

=============================================================================
