----------------------------- MODULE Display_proofs -----------------------------
(***************************************************************************)
(* Proofs about Display, for any range of the count of vertical blanks and *)
(* however long the threads run.                                           *)
(***************************************************************************)
EXTENDS Display, TLAPS

One(condition) == IF condition THEN 1 ELSE 0

\* A return the guest has already earned: it is on its way, or the count is
\* one it has not waited for.
Earned == cpu = "record" \/ lastWaitedVblank % CountSize < VBLANK_COUNT

(***************************************************************************)
(* The returns since the signal and those that can still come before the   *)
(* next one: for the event, for the count as it is, and for the count that *)
(* the display thread is about to increment.                               *)
(***************************************************************************)
ReturnsAreBounded ==
  /\ VBLANK_COUNT \in 0 .. CountSize - 1
  /\ lastWaitedVblank \in Int
  /\ returns \in Nat
  /\ returns + One(vblankStartConditionEvent) + One(Earned)
       + One(display \in {"raise", "count"}) <= 3

-----------------------------------------------------------------------------

LEMMA BoundInitially == DisplayInit => ReturnsAreBounded
<1>. SUFFICES ASSUME DisplayInit
              PROVE  ReturnsAreBounded
  OBVIOUS
<1>1. ~ Earned
  BY DisplayAssumption DEF DisplayInit, Earned
<1>. QED
  BY <1>1, DisplayAssumption DEF DisplayInit, ReturnsAreBounded, One

\* A vertical blank: the signal starts the account again, and the increment
\* turns the third return into the second.
LEMMA DisplayThreadKeepsBound ==
  ASSUME ReturnsAreBounded, DisplayThread
  PROVE  ReturnsAreBounded'
<1>1. CASE frameStarts
  BY <1>1 DEF frameStarts, waitVars, ReturnsAreBounded, Earned, One
<1>2. CASE frameLoopEnds
  BY <1>2 DEF frameLoopEnds, waitVars, ReturnsAreBounded, Earned, One
<1>3. CASE signalVblank
  BY <1>3 DEF signalVblank, ReturnsAreBounded, Earned, One
<1>4. CASE interrupt
  BY <1>4 DEF interrupt, ReturnsAreBounded, Earned, One, waitVars
<1>5. CASE countVblank
  <2>1. VBLANK_COUNT' \in 0 .. CountSize - 1
    BY <1>5, DisplayAssumption DEF countVblank, ReturnsAreBounded
  <2>2. /\ display = "count" /\ display' = "running?"
        /\ UNCHANGED <<vblankStartConditionEvent, lastWaitedVblank, returns>>
    BY <1>5 DEF countVblank, waitVars
  <2>. QED
    BY <2>1, <2>2 DEF ReturnsAreBounded, One
<1>. QED
  BY <1>1, <1>2, <1>3, <1>4, <1>5 DEF DisplayThread

LEMMA CpuThreadKeepsBound ==
  ASSUME ReturnsAreBounded, CpuThread
  PROVE  ReturnsAreBounded'
<1>1. CASE cpuLoopEnds \/ testInterrupts \/ executeInterrupts \/ instruction
  <2>1. /\ cpu # "record" /\ cpu' # "record"
        /\ UNCHANGED <<VBLANK_COUNT, vblankStartConditionEvent, display,
                       lastWaitedVblank, returns>>
    BY <1>1 DEF cpuLoopEnds, testInterrupts, executeInterrupts, instruction, cpuMoves, waitVars
  <2>. QED
    BY <2>1 DEF ReturnsAreBounded, Earned, One
<1>2. CASE waitVblank
  <2>1. /\ cpu' = "record" => ~ (lastWaitedVblank % CountSize >= VBLANK_COUNT)
        /\ UNCHANGED <<VBLANK_COUNT, vblankStartConditionEvent, display,
                       lastWaitedVblank, returns>>
    BY <1>2 DEF waitVblank, cpuMoves, waitVars
  <2>2. lastWaitedVblank % CountSize \in Int
    BY DisplayAssumption DEF ReturnsAreBounded
  <2>3. Earned' => Earned
    BY <2>1, <2>2 DEF ReturnsAreBounded, Earned
  <2>. QED
    BY <2>1, <2>3 DEF ReturnsAreBounded, One
<1>3. CASE vblankArrives
  BY <1>3 DEF vblankArrives, ReturnsAreBounded, One, waitVars
<1>4. CASE waitVblankReturns
  <2>1. /\ cpu = "record" /\ cpu' = "loop"
        /\ lastWaitedVblank' = VBLANK_COUNT /\ returns' = returns + 1
        /\ UNCHANGED <<VBLANK_COUNT, vblankStartConditionEvent, display>>
    BY <1>4 DEF waitVblankReturns, cpuMoves
  <2>2. VBLANK_COUNT % CountSize = VBLANK_COUNT
    BY DisplayAssumption DEF ReturnsAreBounded
  <2>3. Earned /\ ~ Earned'
    BY <2>1, <2>2 DEF Earned, ReturnsAreBounded
  <2>. QED
    BY <2>1, <2>3 DEF ReturnsAreBounded, One
<1>. QED
  BY <1>1, <1>2, <1>3, <1>4 DEF CpuThread

\* No return is earned by an exception or by another system call.
LEMMA GuestChoiceKeepsBound ==
  ASSUME ReturnsAreBounded, GuestChoice
  PROVE  ReturnsAreBounded'
<1>1. /\ cpu # "record" /\ cpu' # "record"
      /\ UNCHANGED <<VBLANK_COUNT, vblankStartConditionEvent, display,
                     lastWaitedVblank, returns>>
  BY DEF GuestChoice, executeInterruptsThrows, instructionThrows, otherCall,
         otherCallReturns, cpuMoves, waitVars
<1>. QED
  BY <1>1 DEF ReturnsAreBounded, Earned, One

(***************************************************************************)
(* ReturnsAreBounded is an invariant: the returns of waitVblank since the  *)
(* last signal and those already earned are three at most, whenever the    *)
(* display thread signals, counts and raises its interrupt.                *)
(***************************************************************************)
THEOREM ReturnsBounded == DisplaySpec => []ReturnsAreBounded
<1>1. ReturnsAreBounded /\ [DisplayNext]_displayVars => ReturnsAreBounded'
  <2>. SUFFICES ASSUME ReturnsAreBounded, [DisplayNext]_displayVars
                PROVE  ReturnsAreBounded'
    OBVIOUS
  <2>1. CASE Host
    BY <2>1 DEF Host, stopDisplay, displayStopped, cpuInterrupt,
                ReturnsAreBounded, Earned, waitVars
  <2>2. CASE UNCHANGED displayVars
    BY <2>2 DEF displayVars, waitVars, ReturnsAreBounded, Earned
  <2>. QED
    BY <2>1, <2>2, DisplayThreadKeepsBound, CpuThreadKeepsBound,
       GuestChoiceKeepsBound
    DEF DisplayNext
<1>. QED
  BY <1>1, BoundInitially, PTL DEF DisplaySpec

(***************************************************************************)
(* At most three calls of waitVblank return between two vertical blanks    *)
(* (Display.d:162-175, 206 and 210), also when the count wraps.            *)
(***************************************************************************)
THEOREM AtMostThreeReturns == DisplaySpec => []AtMostThreeReturnsPerVblank
<1>1. ReturnsAreBounded => AtMostThreeReturnsPerVblank
  BY DEF ReturnsAreBounded, AtMostThreeReturnsPerVblank, One
<1>. QED
  BY <1>1, ReturnsBounded, PTL

(***************************************************************************)
(* No interrupt is lost, although the CPU thread tests I_F without the     *)
(* lock (Interrupts.d:43-71): the tasks and the flag change together.      *)
(***************************************************************************)
THEOREM InterruptsAreNotLost == DisplaySpec => []NoInterruptLost
<1>1. DisplayInit => NoInterruptLost
  BY DEF DisplayInit, NoInterruptLost
<1>2. NoInterruptLost /\ [DisplayNext]_displayVars => NoInterruptLost'
  <2>. SUFFICES ASSUME NoInterruptLost, [DisplayNext]_displayVars
                PROVE  NoInterruptLost'
    OBVIOUS
  <2>1. CASE interrupt
    BY <2>1 DEF interrupt, NoInterruptLost
  <2>2. CASE executeInterrupts
    <3>1. interruptsTasks' = {"handled" : task \in interruptsTasks}
      BY <2>2 DEF executeInterrupts, handleTasks
    <3>. QED
      BY <3>1 DEF NoInterruptLost
  <2>3. CASE UNCHANGED interruptVars
    BY <2>3 DEF interruptVars, NoInterruptLost
  <2>4. CASE executeInterruptsThrows
    BY <2>4 DEF executeInterruptsThrows, NoInterruptLost
  <2>5. \/ interrupt \/ executeInterrupts \/ executeInterruptsThrows
        \/ UNCHANGED interruptVars
    BY DEF DisplayNext, DisplayThread, CpuThread, GuestChoice, Host, frameStarts,
           frameLoopEnds, signalVblank, countVblank, cpuLoopEnds, testInterrupts,
           instruction, instructionThrows, otherCall, otherCallReturns,
           waitVblank, vblankArrives, waitVblankReturns, stopDisplay,
           displayStopped, cpuInterrupt, displayVars
  <2>. QED
    BY <2>1, <2>2, <2>3, <2>4, <2>5
<1>. QED
  BY <1>1, <1>2, PTL DEF DisplaySpec

=============================================================================
