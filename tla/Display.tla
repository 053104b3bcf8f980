------------------------------- MODULE Display -------------------------------
(***************************************************************************)
(* The vertical blank: src/src/pspemu/core/display/Display.d with          *)
(* core/Interrupts.d, the loop of core/cpu/interpreter/CpuInterpreter.d    *)
(* and the wait of hle/kd/display/sceDisplay.d.                            *)
(*                                                                         *)
(* The display thread signals every vertical blank, raises its interrupt   *)
(* and counts it.  The CPU thread executes the interrupts between two      *)
(* instructions and, in waitVblank, waits without a bound for the signal.  *)
(* The host stops the display thread and the CPU.  An instruction, or the  *)
(* handler of an interrupt, may throw: the CPU thread then ends.  The      *)
(* other system calls that wait are one that need not return.  Frame       *)
(* limiting is on, the default (enableWaitVblank), and one handler is      *)
(* registered for the interrupt, the only one the program raises.  Of the  *)
(* tasks in the array, which only grows, the model keeps whether there are *)
(* any that were handled, and any that were not.                           *)
(***************************************************************************)
EXTENDS Integers

CONSTANT CountSize   \* 2^32, the range of VBLANK_COUNT

ASSUME DisplayAssumption == CountSize \in Nat \ {0}

VARIABLES
  VBLANK_COUNT,
  vblankStartConditionEvent,
  running,
  cpuRunning,         \* Cpu.running
  interruptedEvent,
  interruptsTasks,    \* subset of {"raised", "handled"}
  _I_F,
  lastWaitedVblank,
  display, cpu, host, \* where the three threads are
  repeated,           \* history: a task was handled again
  returns             \* history: the calls of waitVblank that returned since
                      \*   the event was last signalled

interruptVars == <<interruptsTasks, _I_F, repeated>>
waitVars == <<lastWaitedVblank, returns>>
displayVars == <<VBLANK_COUNT, vblankStartConditionEvent, running, cpuRunning,
                 interruptedEvent, interruptVars, waitVars, display, cpu, host>>

DisplayInit ==
  /\ VBLANK_COUNT = 0
  /\ vblankStartConditionEvent = FALSE
  /\ running = TRUE /\ cpuRunning = TRUE
  /\ interruptedEvent = FALSE
  /\ interruptsTasks = {} /\ _I_F = FALSE
  /\ lastWaitedVblank = -1
  /\ display = "running?" /\ cpu = "loop" /\ host = "started"
  /\ repeated = FALSE /\ returns = 0

-----------------------------------------------------------------------------
(* The display thread. *)

\* while (running), and the rows up to the vertical blank.
frameStarts ==
  /\ display = "running?" /\ running
  /\ display' = "signal"
  /\ UNCHANGED <<VBLANK_COUNT, vblankStartConditionEvent, running, interruptedEvent,
                 interruptVars, waitVars, cpu, cpuRunning, host>>

\* Mutant: the thread ends without a signal.
frameLoopEndsSilently ==
  /\ display = "running?" /\ ~ running
  /\ display' = "ended"
  /\ UNCHANGED <<VBLANK_COUNT, vblankStartConditionEvent, running, interruptedEvent,
                 interruptVars, waitVars, cpu, cpuRunning, host>>

frameLoopEnds ==
  /\ display = "running?" /\ ~ running
  /\ display' = "ended"
  /\ interruptedEvent' = TRUE
  /\ UNCHANGED <<VBLANK_COUNT, vblankStartConditionEvent, running,
                 interruptVars, waitVars, cpu, cpuRunning, host>>

\* Mutant: the signal is left out.
signalNoVblank ==
  /\ display = "signal"
  /\ display' = "raise"
  /\ returns' = 0
  /\ UNCHANGED <<VBLANK_COUNT, vblankStartConditionEvent, running, interruptedEvent,
                 interruptVars, lastWaitedVblank, cpu, cpuRunning, host>>

\* The event resets itself when a wait ends.
signalVblank ==
  /\ display = "signal"
  /\ display' = "raise"
  /\ vblankStartConditionEvent' = TRUE
  /\ returns' = 0
  /\ UNCHANGED <<VBLANK_COUNT, running, interruptedEvent, interruptVars,
                 lastWaitedVblank, cpu, cpuRunning, host>>

\* Mutant: the flag is raised for the first task only.
interruptFlagsFirst ==
  /\ display = "raise"
  /\ display' = "count"
  /\ interruptsTasks' = interruptsTasks \cup {"raised"}
  /\ _I_F' = (_I_F \/ interruptsTasks = {})
  /\ UNCHANGED <<VBLANK_COUNT, vblankStartConditionEvent, running, interruptedEvent,
                 repeated, waitVars, cpu, cpuRunning, host>>

\* Interrupts.interrupt, under its lock.
interrupt ==
  /\ display = "raise"
  /\ display' = "count"
  /\ interruptsTasks' = interruptsTasks \cup {"raised"}
  /\ _I_F' = TRUE
  /\ UNCHANGED <<VBLANK_COUNT, vblankStartConditionEvent, running, interruptedEvent,
                 repeated, waitVars, cpu, cpuRunning, host>>

countVblank ==
  /\ display = "count"
  /\ display' = "running?"
  /\ VBLANK_COUNT' = (VBLANK_COUNT + 1) % CountSize
  /\ UNCHANGED <<vblankStartConditionEvent, running, interruptedEvent,
                 interruptVars, waitVars, cpu, cpuRunning, host>>

-----------------------------------------------------------------------------
(* The CPU thread. *)

cpuMoves(from, to) ==
  /\ cpu = from /\ cpu' = to
  /\ UNCHANGED <<VBLANK_COUNT, vblankStartConditionEvent, running, interruptedEvent,
                 cpuRunning, display, host>>

\* Mutant: the test is inverted.
testNoInterrupts ==
  /\ cpuRunning
  /\ cpuMoves("loop", IF _I_F THEN "instruction" ELSE "interrupts")
  /\ UNCHANGED <<interruptVars, waitVars>>

\* while (running), at the head of execute_loop too, to which the loop returns
\* after 0xFFFFFFFF instructions.
cpuLoopEnds ==
  /\ ~ cpuRunning
  /\ cpuMoves("loop", "ended")
  /\ UNCHANGED <<interruptVars, waitVars>>

\* The head of the loop reads I_F without the lock.
testInterrupts ==
  /\ cpuRunning
  /\ cpuMoves("loop", IF _I_F THEN "interrupts" ELSE "instruction")
  /\ UNCHANGED <<interruptVars, waitVars>>

\* The tasks of the array stay in it.
handleTasks ==
  /\ interruptsTasks' = {"handled" : task \in interruptsTasks}
  /\ repeated' = (repeated \/ "handled" \in interruptsTasks)

\* executeInterrupts, under the lock.
executeInterrupts ==
  /\ cpuMoves("interrupts", "instruction")
  /\ handleTasks
  /\ _I_F' = FALSE
  /\ UNCHANGED waitVars

\* A handler throws: the tasks before its own were handled, and I_F stays up.
executeInterruptsThrows ==
  /\ cpuMoves("interrupts", "ended")
  /\ interruptsTasks' \in {interruptsTasks, interruptsTasks \cup {"handled"}}
  /\ repeated' \in {repeated, repeated \/ "handled" \in interruptsTasks}
  /\ UNCHANGED <<_I_F, waitVars>>

instruction ==
  /\ cpuMoves("instruction", "loop")
  /\ UNCHANGED <<interruptVars, waitVars>>

\* HaltException and any other leave execute.
instructionThrows ==
  /\ cpuMoves("instruction", "ended")
  /\ UNCHANGED <<interruptVars, waitVars>>

\* A syscall that waits for something else: the GPU, another thread.
otherCall ==
  /\ cpuMoves("instruction", "call")
  /\ UNCHANGED <<interruptVars, waitVars>>

otherCallReturns ==
  /\ cpuMoves("call", "loop")
  /\ UNCHANGED <<interruptVars, waitVars>>

\* A syscall that calls waitVblank: -1 is a large uint in its first test.
waitVblank ==
  /\ cpuMoves("instruction",
              IF lastWaitedVblank % CountSize >= VBLANK_COUNT THEN "wait" ELSE "record")
  /\ UNCHANGED <<interruptVars, waitVars>>

\* Mutant: the event has to be reset by hand, and is not.
vblankArrivesUnreset ==
  /\ cpu = "wait" /\ vblankStartConditionEvent
  /\ cpu' = "record"
  /\ UNCHANGED <<VBLANK_COUNT, vblankStartConditionEvent, running, interruptedEvent,
                 interruptVars, waitVars, cpuRunning, display, host>>

vblankArrives ==
  /\ cpu = "wait" /\ vblankStartConditionEvent
  /\ cpu' = "record"
  /\ vblankStartConditionEvent' = FALSE
  /\ UNCHANGED <<VBLANK_COUNT, running, interruptedEvent, interruptVars, waitVars,
                 cpuRunning, display, host>>

waitVblankReturns ==
  /\ cpuMoves("record", "loop")
  /\ lastWaitedVblank' = VBLANK_COUNT
  /\ returns' = returns + 1
  /\ UNCHANGED interruptVars

-----------------------------------------------------------------------------
(* The host. *)

stopDisplay ==
  /\ host = "started"
  /\ host' = "stopping"
  /\ running' = FALSE
  /\ UNCHANGED <<VBLANK_COUNT, vblankStartConditionEvent, interruptedEvent,
                 interruptVars, waitVars, display, cpu, cpuRunning>>

displayStopped ==
  /\ host = "stopping" /\ interruptedEvent
  /\ host' = "stopped"
  /\ interruptedEvent' = FALSE
  /\ UNCHANGED <<VBLANK_COUNT, vblankStartConditionEvent, running,
                 interruptVars, waitVars, display, cpu, cpuRunning>>

\* EmulatorState.interrupt.
cpuInterrupt ==
  /\ cpuRunning' = FALSE
  /\ UNCHANGED <<VBLANK_COUNT, vblankStartConditionEvent, running, interruptedEvent,
                 interruptVars, waitVars, display, cpu, host>>

-----------------------------------------------------------------------------

DisplayThread ==
  frameStarts \/ frameLoopEnds \/ signalVblank \/ interrupt \/ countVblank

CpuThread ==
  \/ cpuLoopEnds
  \/ testInterrupts
  \/ executeInterrupts
  \/ instruction
  \/ waitVblank
  \/ vblankArrives
  \/ waitVblankReturns

\* What a guest program may do with the CPU thread, and need not.
GuestChoice ==
  executeInterruptsThrows \/ instructionThrows \/ otherCall \/ otherCallReturns

Host == stopDisplay \/ displayStopped \/ cpuInterrupt

DisplayNext == DisplayThread \/ CpuThread \/ GuestChoice \/ Host

DisplaySpec == DisplayInit /\ [][DisplayNext]_displayVars

(***************************************************************************)
(* The threads are scheduled.  Nothing is assumed of the other system      *)
(* calls.                                                                  *)
(***************************************************************************)
DisplayFairness ==
  /\ WF_displayVars(DisplayThread)
  /\ WF_displayVars(CpuThread)
  /\ WF_displayVars(displayStopped)

FairDisplaySpec == DisplaySpec /\ DisplayFairness

-----------------------------------------------------------------------------

(***************************************************************************)
(* No interrupt is lost between the unlocked test of I_F, the execution    *)
(* and the interrupts raised meanwhile: when I_F is down, every task was   *)
(* handled (Interrupts.d:43-71, CpuInterpreter.d:59).                      *)
(***************************************************************************)
NoInterruptLost == ~ _I_F => "raised" \notin interruptsTasks

(***************************************************************************)
(* At most three calls of waitVblank return between two vertical blanks:   *)
(* for a count the guest had not waited for, for the event, which may be   *)
(* an old one, and for the count again, as it is incremented after the     *)
(* signal (lines 162 to 175, 206 and 210).                                 *)
(***************************************************************************)
AtMostThreeReturnsPerVblank == returns <= 3

\* The CPU thread ended, or waits for what does not come.
CpuStuck == cpu \in {"ended", "call"} \/ (cpu = "wait" /\ ~ running)

(***************************************************************************)
(* A raised interrupt is executed, unless the CPU thread ends or stays in  *)
(* a system call for ever: in a waitVblank that is possible only when the  *)
(* display was stopped (CpuInterpreter.d:57-61).                           *)
(***************************************************************************)
InterruptsExecuted == _I_F ~> (~ _I_F \/ []CpuStuck)

(***************************************************************************)
(* waitVblank returns while the display runs: no signal is missed between  *)
(* the test of the count and the wait (lines 166 to 171).                  *)
(***************************************************************************)
WaitVblankReturns == cpu = "wait" ~> cpu # "wait" \/ ~ running

(***************************************************************************)
(* The host's interrupt of the display returns (lines 124 to 127, 219).    *)
(***************************************************************************)
StopReturns == host = "stopping" ~> host = "stopped"

(***************************************************************************)
(* InterruptsTest.d:32, "assertEquals(1, executedCount_Thread0)": the      *)
(* handler of an interrupt that was raised once is executed once.          *)
(***************************************************************************)
HandledOncePerInterrupt == ~ repeated

=============================================================================
