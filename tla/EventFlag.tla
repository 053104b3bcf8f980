------------------------------ MODULE EventFlag ------------------------------
(***************************************************************************)
(* The event flags of                                                      *)
(* src/src/pspemu/hle/kd/threadman/ThreadMan_Events.d: PspWaitEvent and    *)
(* its system calls.  No lock is held: `bits |= b' and `bits &= b' are a   *)
(* read and a write, and another thread may run between the match of a     *)
(* wait and the bits it clears.                                            *)
(*                                                                         *)
(* The constructor names its event "PspWaitEvent" whatever the flag: the   *)
(* waiters of every flag sleep on one auto-reset event.  The waits on      *)
(* stopEventCpu and on the callbacks' event only add tests of the flag and *)
(* are left out.                                                           *)
(***************************************************************************)
EXTENDS WaitEvent

CONSTANTS
  Flag,           \* the event flags
  Bit,            \* the bits of a flag
  Masks,          \* the `bits' that guests set and clear with
  Waits,          \* the waits that guests make, of WaitArguments
  MaxFlagCalls    \* bound on the system calls of a run

\* or: PSP_EVENT_WAITOR; clear: PSP_EVENT_WAITCLEARALL or PSP_EVENT_WAITCLEAR.
WaitArguments ==
  [pattern : SUBSET Bit, or : BOOLEAN, clear : {"none", "all", "pattern"},
   timed : BOOLEAN]

ASSUME EventFlagAssumption ==
  /\ IsFiniteSet(Flag) /\ Flag # {} /\ IsFiniteSet(Bit)
  /\ Masks \subseteq SUBSET Bit
  /\ Waits \subseteq WaitArguments /\ Waits # {}
  /\ MaxFlagCalls \in Nat

VARIABLES
  bits, flagExists,
  flagEvent,     \* the one event named "PspWaitEvent"
  flagThread,    \* where each thread is, and in which call
  flagCalls,     \* the calls made so far
  robbed,        \* history: the threads asleep when another one took the
                 \*   last signal
  granted,       \* history: the bits a clearing wait took since they were set
  grantedTwice,  \* history: a clearing wait took a bit that was granted
  bitsTorn       \* history: two threads were updating a flag at once

flagVars == <<bits, flagExists, flagEvent, flagThread, flagCalls, robbed,
              granted, grantedTwice, bitsTorn>>
flagHistory == <<granted, grantedTwice, bitsTorn>>

AnyWait == CHOOSE w \in Waits : TRUE
FlagIdle ==
  [at |-> "idle", flag |-> CHOOSE f \in Flag : TRUE, wait |-> AnyWait,
   bits |-> {}, read |-> {}]

FlagTypeOK ==
  /\ bits \in [Flag -> SUBSET Bit] /\ flagExists \in [Flag -> BOOLEAN]
  /\ flagEvent \in BOOLEAN
  /\ flagThread \in
       [Guest ->
         [at : {"idle", "set", "setWrite", "signal", "clear", "clearWrite",
                "test", "asleep", "matched", "waitClearWrite", "out"},
          flag : Flag, wait : Waits, bits : SUBSET Bit, read : SUBSET Bit]]
  /\ flagCalls \in 0 .. MaxFlagCalls
  /\ robbed \subseteq Guest
  /\ granted \in [Flag -> SUBSET Bit]
  /\ grantedTwice \in BOOLEAN /\ bitsTorn \in BOOLEAN

FlagInit ==
  /\ bits = [f \in Flag |-> {}] /\ flagExists = [f \in Flag |-> TRUE]
  /\ flagEvent = FALSE
  /\ flagThread = [g \in Guest |-> FlagIdle]
  /\ flagCalls = 0
  /\ robbed = {} /\ granted = [f \in Flag |-> {}]
  /\ grantedTwice = FALSE /\ bitsTorn = FALSE

\* Thread g goes on inside its call, with what it read of the bits.
continues(g, from, to, read) ==
  /\ flagThread[g].at = from
  /\ flagThread' = [flagThread EXCEPT ![g] =
       IF to = "idle" THEN FlagIdle ELSE [@ EXCEPT !.at = to, !.read = read]]
  /\ UNCHANGED <<flagExists, flagCalls>>

flagOf(g) == flagThread[g].flag
waitOf(g) == flagThread[g].wait

\* A thread between its read of the bits of the flag and its write.
updates(h, f) ==
  /\ flagThread[h].at \in {"setWrite", "clearWrite", "matched", "waitClearWrite"}
  /\ flagThread[h].flag = f
  /\ flagThread[h].at = "matched" => flagThread[h].wait.clear # "none"

begins(g) ==
  bitsTorn' = (bitsTorn \/ \E h \in Guest \ {g} : updates(h, flagOf(g)))

writes(g, value) == bits' = [bits EXCEPT ![flagOf(g)] = value]

-----------------------------------------------------------------------------
(* The calls. *)

flagCall(g, f, wait, b, to) ==
  /\ flagExists[f] /\ flagCalls < MaxFlagCalls
  /\ flagThread[g] = FlagIdle
  /\ flagThread' = [flagThread EXCEPT ![g] =
       [at |-> to, flag |-> f, wait |-> wait, bits |-> b, read |-> {}]]
  /\ flagCalls' = flagCalls + 1
  /\ UNCHANGED <<bits, flagExists, flagEvent, robbed, flagHistory>>

sceKernelSetEventFlag(g, f, b) == flagCall(g, f, AnyWait, b, "set")
sceKernelClearEventFlag(g, f, b) == flagCall(g, f, AnyWait, b, "clear")
sceKernelWaitEventFlag(g, f, wait) == flagCall(g, f, wait, {}, "test")

\* sceKernelPollEventFlag reads the bits once and clears none: a test without
\* effect on the flag, left out.

\* uniqueIdFactory.remove: those inside a call keep the object.
sceKernelDeleteEventFlag(f) ==
  /\ flagExists[f] /\ flagCalls < MaxFlagCalls
  /\ flagExists' = [flagExists EXCEPT ![f] = FALSE]
  /\ flagCalls' = flagCalls + 1
  /\ UNCHANGED <<bits, flagEvent, flagThread, robbed, flagHistory>>

-----------------------------------------------------------------------------
(* setBits and clearBits: the read and the write; setBits then signals. *)

setRead(g) ==
  /\ continues(g, "set", "setWrite", bits[flagOf(g)])
  /\ begins(g)
  /\ UNCHANGED <<bits, flagEvent, robbed, granted, grantedTwice>>

setWrite(g) ==
  /\ continues(g, "setWrite", "signal", {})
  /\ writes(g, flagThread[g].read \cup flagThread[g].bits)
  /\ granted' = [granted EXCEPT ![flagOf(g)] = @ \ flagThread[g].bits]
  /\ UNCHANGED <<flagEvent, robbed, grantedTwice, bitsTorn>>

\* Mutant: no signal, as in clearBits.
setUnsignalled(g) ==
  continues(g, "signal", "idle", {}) /\ UNCHANGED <<bits, flagEvent, robbed, flagHistory>>

setSignal(g) ==
  /\ continues(g, "signal", "idle", {})
  /\ signal(flagEvent)
  /\ UNCHANGED <<bits, robbed, flagHistory>>

clearRead(g) ==
  /\ continues(g, "clear", "clearWrite", bits[flagOf(g)])
  /\ begins(g)
  /\ UNCHANGED <<bits, flagEvent, robbed, granted, grantedTwice>>

clearWrite(g) ==
  /\ continues(g, "clearWrite", "idle", {})
  /\ writes(g, flagThread[g].read \cap flagThread[g].bits)
  /\ UNCHANGED <<flagEvent, robbed, flagHistory>>

-----------------------------------------------------------------------------
(* waitEventFlag. *)

checkEventFlag(value, wait) ==
  IF wait.or
  THEN value \cap wait.pattern # {}
  ELSE wait.pattern \subseteq value

flagTestFails(g) ==
  /\ ~ checkEventFlag(bits[flagOf(g)], waitOf(g))
  /\ continues(g, "test", "asleep", {})
  /\ UNCHANGED <<bits, flagEvent, robbed, flagHistory>>

flagMatches(g) ==
  /\ checkEventFlag(bits[flagOf(g)], waitOf(g))
  /\ continues(g, "test", "matched", bits[flagOf(g)])
  /\ IF waitOf(g).clear = "none" THEN UNCHANGED bitsTorn ELSE begins(g)
  /\ UNCHANGED <<bits, flagEvent, robbed, granted, grantedTwice>>

\* One of those asleep, on whatever flag.
flagWoken(g) ==
  /\ continues(g, "asleep", "test", {})
  /\ waitAny(flagEvent)
  /\ robbed' = {h \in Guest \ {g} : flagThread[h].at = "asleep"}
  /\ UNCHANGED <<bits, flagHistory>>

\* The TimeoutException ends the call.
flagTimeout(g) ==
  /\ waitOf(g).timed
  /\ continues(g, "asleep", "idle", {})
  /\ robbed' = robbed \ {g}
  /\ UNCHANGED <<bits, flagEvent, flagHistory>>

grants(g) ==
  LET taken == waitOf(g).pattern \cap flagThread[g].read IN
  /\ granted' = [granted EXCEPT ![flagOf(g)] = @ \cup taken]
  /\ grantedTwice' = (grantedTwice \/ taken \cap granted[flagOf(g)] # {})

\* What the wait leaves of the bits it reads when it clears.
\* Mutant: WAITCLEAR clears what is outside the pattern.
keptComplement(value, wait) ==
  IF wait.clear = "all" THEN {} ELSE value \cap wait.pattern

kept(value, wait) == IF wait.clear = "all" THEN {} ELSE value \ wait.pattern

waitKeeps(g) ==
  /\ waitOf(g).clear = "none"
  /\ continues(g, "matched", "out", {})
  /\ UNCHANGED <<bits, flagEvent, robbed, flagHistory>>

waitClearRead(g) ==
  /\ waitOf(g).clear # "none"
  /\ continues(g, "matched", "waitClearWrite", bits[flagOf(g)])
  /\ grants(g)
  /\ UNCHANGED <<bits, flagEvent, robbed, bitsTorn>>

waitClearWrite(g) ==
  /\ continues(g, "waitClearWrite", "out", {})
  /\ writes(g, kept(flagThread[g].read, waitOf(g)))
  /\ UNCHANGED <<flagEvent, robbed, flagHistory>>

\* The last `matches' reads the bits once more, and these are the outBits.
outBits(g) == bits[flagOf(g)]

waitReturns(g) ==
  /\ continues(g, "out", "idle", {})
  /\ UNCHANGED <<bits, flagEvent, robbed, flagHistory>>

-----------------------------------------------------------------------------

FlagStep(g) ==
  \/ setRead(g) \/ setWrite(g) \/ setSignal(g)
  \/ clearRead(g) \/ clearWrite(g)
  \/ flagTestFails(g) \/ flagMatches(g) \/ flagWoken(g) \/ flagTimeout(g)
  \/ waitKeeps(g) \/ waitClearRead(g) \/ waitClearWrite(g) \/ waitReturns(g)

FlagNext ==
  \/ \E g \in Guest, f \in Flag :
       \/ \E b \in Masks :
            sceKernelSetEventFlag(g, f, b) \/ sceKernelClearEventFlag(g, f, b)
       \/ \E wait \in Waits : sceKernelWaitEventFlag(g, f, wait)
  \/ \E f \in Flag : sceKernelDeleteEventFlag(f)
  \/ \E g \in Guest : FlagStep(g)

FlagSpec == FlagInit /\ [][FlagNext]_flagVars

-----------------------------------------------------------------------------

(***************************************************************************)
(* A thread sleeps on a flag that matches only when another one was woken  *)
(* by the signal, which is one for the waiters of all flags, or an update  *)
(* of the bits was lost: setBits never signals before the bits are there,  *)
(* and clearBits, which does not signal, never completes a pattern (lines  *)
(* 248 to 256, 284 to 289).                                                *)
(***************************************************************************)
FlagMissedOnlyWhenRobbed ==
  ~ bitsTorn =>
    \A g \in Guest :
      /\ flagThread[g].at = "asleep"
      /\ checkEventFlag(bits[flagOf(g)], waitOf(g))
      /\ ~ flagEvent
      => g \in robbed \/ \E h \in Guest : flagThread[h].at = "signal"

(***************************************************************************)
(* One setting of a bit satisfies one of the waits that clear it, unless   *)
(* another thread ran between a match and the clearing (lines 284, 297 to  *)
(* 301).                                                                   *)
(***************************************************************************)
OneWaitPerSet == ~ bitsTorn => ~ grantedTwice

(***************************************************************************)
(* ThreadMan_Events.d:98: "outBits - The bit pattern that was matched."    *)
(***************************************************************************)
OutBitsMatched ==
  \A g \in Guest :
    flagThread[g].at = "out" /\ ~ bitsTorn =>
      checkEventFlag(outBits(g), waitOf(g))

=============================================================================
