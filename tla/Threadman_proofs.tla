-------------------------- MODULE Threadman_proofs --------------------------
(***************************************************************************)
(* Proofs about Semaphore, EventFlag, SleepWakeup and ThreadEnd, for any   *)
(* number of guest threads, permits, flags, bits and calls: SemaInv,       *)
(* FlagInv, SleepInv and EndInv are inductive invariants, and with them    *)
(* what the waits of src/src/pspemu/hle/kd/threadman promise although      *)
(* nobody holds a lock.                                                    *)
(***************************************************************************)
EXTENDS Semaphore, EventFlag, SleepWakeup, ThreadEnd, FiniteSetTheorems,
        TLAPS

-----------------------------------------------------------------------------
(* Sleep and wake-up. *)

\* The calls of sceKernelWakeupThread that are counted, but have not reached
\* the count of t yet.
Pending(t) ==
  {h \in Guest : sleeper[h].at \in {"increment", "reset"} /\ sleeper[h].of = t}

\* Thread t is in a sleep that its count accounts for.
inSleep(t) == IF sleeper[t].at \in {"awake?", "asleep"} THEN 1 ELSE 0

\* The sleeps a thread came out of, and what its count lets it come out of,
\* are covered by the calls that woke it up and are not pending.
Covered(t) ==
  LET spent == slept[t] + Cardinality(Pending(t)) IN
  spent <= wakeups[t] /\ spent + wakeUpCount[t] + inSleep(t) <= wakeups[t]

SleepInv == SleepTypeOK /\ \A t \in Guest : Covered(t)

-----------------------------------------------------------------------------
(* The end of a thread. *)

\* Until somebody begins to end it, the target alone updates its status, and
\* STOPPED is the flag of its creation, gone before sceKernelStartThread
\* returns and read by no update but the first.
NotEnding ==
  /\ signals = {} /\ reading \subseteq {Target}
  /\ \A g \in Waiter : todo[g] = <<>>
  /\ todo[Target] \in {<<>>, Begin, Tail(Begin), Block, Tail(Block)}
  /\ todo[Target] = <<>> => reading = {}
  /\ started = "no" => todo[Target] = <<>> /\ ~ alive
  /\ "STOPPED" \in status =>
       started = "no" \/ (started = "native" /\ todo[Target] = Begin)
  /\ Target \in reading /\ "STOPPED" \in copied[Target] => todo[Target] = Begin

\* The updates a thread may have left to make, and the types they live in.
Updates ==
  {<<>>, Begin, Tail(Begin), Block, Tail(Block), End, Tail(End)}

WaiterState ==
  [at : {"idle", "test", "asleep", "ended"}, timed : BOOLEAN, since : BOOLEAN]

EndTyped ==
  /\ status \in SUBSET Status
  /\ todo \in [Updaters -> Updates]
  /\ copied \in [Updaters -> SUBSET Status]
  /\ waiter \in [Waiter -> WaiterState]
  /\ \A a \in reading : a \in Updaters /\ todo[a] # <<>>
  /\ signals \subseteq Updaters

EndInv ==
  /\ EndTyped
  /\ \A g \in Waiter : waiter[g].since => started = "yes"
  /\ ~ ending => NotEnding
  /\ NotEndedEarly

-----------------------------------------------------------------------------
(* Event flags. *)

OneUpdater ==
  \A f \in Flag : \A g, h \in Guest : updates(g, f) /\ updates(h, f) => g = h

\* What a thread read for the update it is in is what the flag holds.
ReadIsCurrent ==
  \A g \in Guest : updates(g, flagOf(g)) => flagThread[g].read = bits[flagOf(g)]

\* A bit that a wait was granted is out of the flag, or on its way out.
GrantedLeaves ==
  \A f \in Flag : \A b \in granted[f] \cap bits[f] :
    \E h \in Guest :
      /\ flagThread[h].at = "waitClearWrite" /\ flagOf(h) = f
      /\ waitOf(h).clear = "all" \/ b \in waitOf(h).pattern

FlagInv ==
  /\ FlagTypeOK
  /\ ~ bitsTorn => OneUpdater /\ ReadIsCurrent /\ GrantedLeaves
  /\ OneWaitPerSet
  /\ FlagMissedOnlyWhenRobbed

-----------------------------------------------------------------------------
(* The proof for sleep and wake-up. *)

SleepPlace ==
  {"idle", "enter", "count?", "decrement", "awake?", "asleep", "increment",
   "reset", "signal", "waitEnded"}

Sleeper == [at : SleepPlace, of : Guest]

\* The type invariant, with the type of the threads by its name.
SleepTyped ==
  /\ sleeper \in [Guest -> Sleeper]
  /\ wakeUpCount \in [Guest -> Int]
  /\ sleepingCriticalSection \in [Guest -> Guest \cup {Nobody}]
  /\ wakeUpEvent \in BOOLEAN /\ stolen \in BOOLEAN
  /\ sleepCalls \in 0 .. MaxSleepCalls
  /\ slept \in [Guest -> Nat] /\ wakeups \in [Guest -> Nat]

LEMMA SleepTypeIsTyped ==
  (SleepTypeOK <=> SleepTyped) /\ (SleepTypeOK' <=> SleepTyped')
BY DEF SleepTypeOK, SleepTyped, Sleeper, SleepPlace

LEMMA SleepPlaces ==
  {"idle", "enter", "count?", "decrement", "awake?", "asleep", "increment",
   "reset", "signal", "waitEnded"} \subseteq SleepPlace
BY DEF SleepPlace

\* A thread that goes on inside its call moves only itself.
LEMMA AdvancesMoves ==
  ASSUME SleepTyped, NEW g \in Guest, NEW from, NEW to \in SleepPlace,
         advances(g, from, to)
  PROVE  /\ sleeper[g].at = from /\ sleeper'[g].at = to
         /\ to # "idle" => sleeper'[g].of = sleeper[g].of
         /\ \A h \in Guest \ {g} : sleeper'[h] = sleeper[h]
         /\ sleeper' \in [Guest -> Sleeper]
BY DEF advances, at, SleepTyped, Sleeper

LEMMA PendingCounted ==
  \A t \in Guest : IsFiniteSet(Pending(t)) /\ Cardinality(Pending(t)) \in Nat
<1> SUFFICES ASSUME NEW t \in Guest
             PROVE  IsFiniteSet(Pending(t)) /\ Cardinality(Pending(t)) \in Nat
  OBVIOUS
<1>1. Pending(t) \in SUBSET Guest
  BY DEF Pending
<1>2. IsFiniteSet(Pending(t))
  BY <1>1, FS_Subset, GuestAssumption
<1> QED
  BY <1>2, FS_CardinalityType

\* Covered with its numbers named.
LEMMA CoveredNumbers ==
  ASSUME SleepTyped, NEW t \in Guest
  PROVE  /\ slept[t] \in Nat /\ wakeups[t] \in Nat /\ wakeUpCount[t] \in Int
         /\ inSleep(t) \in 0 .. 1
         /\ Cardinality(Pending(t)) \in Nat
BY PendingCounted DEF SleepTyped, inSleep

LEMMA SleepInitEstablishes == SleepInit => SleepInv
<1> SUFFICES ASSUME SleepInit
             PROVE  SleepInv
  OBVIOUS
<1> USE DEF SleepInit
<1>1. SleepTypeOK
  <2>1. sleeper \in [Guest -> Sleeper]
    <3>1. \A g \in Guest : [at |-> "idle", of |-> g] \in Sleeper
      BY SleepPlaces DEF Sleeper
    <3> QED
      BY <3>1
  <2>2. sleepCalls \in 0 .. MaxSleepCalls
    BY SleepWakeupAssumption
  <2>3. /\ wakeUpCount \in [Guest -> Int]
        /\ sleepingCriticalSection \in [Guest -> Guest \cup {Nobody}]
        /\ slept \in [Guest -> Nat] /\ wakeups \in [Guest -> Nat]
    OBVIOUS
  <2>4. wakeUpEvent \in BOOLEAN /\ stolen \in BOOLEAN
    OBVIOUS
  <2> HIDE DEF SleepInit
  <2>5. SleepTyped
    BY <2>1, <2>2, <2>3, <2>4 DEF SleepTyped
  <2> QED
    BY <2>5, SleepTypeIsTyped
<1>2. \A t \in Guest : Covered(t)
  <2> SUFFICES ASSUME NEW t \in Guest
               PROVE  Covered(t)
    OBVIOUS
  <2>1. Pending(t) = {} /\ inSleep(t) = 0
    BY DEF Pending, inSleep
  <2>2. Cardinality(Pending(t)) = 0
    BY <2>1, FS_EmptySet
  <2> QED
    BY <2>1, <2>2 DEF Covered
<1> QED
  BY <1>1, <1>2 DEF SleepInv

\* A step of the own sleep of g, that counts nothing but a return.
LEMMA OwnSleepPreserves ==
  ASSUME SleepInv, NEW g \in Guest, NEW from \in SleepPlace, NEW to \in SleepPlace,
         from \notin {"increment", "reset"}, to \notin {"increment", "reset"},
         sleeper' \in [Guest -> Sleeper], SleepTyped',
         sleeper[g].at = from, sleeper'[g].at = to,
         \A h \in Guest \ {g} : sleeper'[h] = sleeper[h],
         wakeups' = wakeups,
         \A h \in Guest \ {g} :
           wakeUpCount'[h] = wakeUpCount[h] /\ slept'[h] = slept[h],
         slept'[g] <= slept[g] \/ (slept'[g] = slept[g] + 1 /\ from = "awake?"
                                   /\ wakeUpCount[g] >= 0),
         slept'[g] + wakeUpCount'[g] + inSleep(g)'
           <= slept[g] + wakeUpCount[g] + inSleep(g)
         \/ (slept'[g] + wakeUpCount'[g] + inSleep(g)' <= slept[g])
  PROVE  SleepInv'
<1> USE DEF SleepInv
<1>1. SleepTyped
  BY SleepTypeIsTyped
<1>2. SleepTypeOK'
  BY SleepTypeIsTyped
<1>3. \A t \in Guest : Pending(t)' = Pending(t)
  BY DEF Pending
<1>4. ASSUME NEW t \in Guest \ {g}
      PROVE  Covered(t)'
  <2>1. inSleep(t)' = inSleep(t)
    BY DEF inSleep
  <2> QED
    BY <1>3, <2>1 DEF Covered
<1>5. Covered(g)'
  <2> DEFINE p == Cardinality(Pending(g))
             q == inSleep(g)
             r == inSleep(g)'
  <2>1. /\ slept[g] \in Nat /\ wakeups[g] \in Nat /\ wakeUpCount[g] \in Int
        /\ q \in 0 .. 1 /\ p \in Nat
    BY <1>1, CoveredNumbers
  <2>2. slept'[g] \in Nat /\ wakeUpCount'[g] \in Int /\ r \in 0 .. 1
    BY DEF SleepTyped, inSleep
  <2>3. from = "awake?" => q = 1
    BY DEF inSleep
  <2>4. /\ slept[g] + p <= wakeups[g]
        /\ slept[g] + p + wakeUpCount[g] + q <= wakeups[g]
    BY DEF Covered
  <2>5. Cardinality(Pending(g)') = p /\ wakeups'[g] = wakeups[g]
    BY <1>3
  <2> HIDE DEF p, q
  <2>6. slept'[g] + p <= wakeups[g]
    BY <2>1, <2>2, <2>3, <2>4
  <2>7. slept'[g] + wakeUpCount'[g] + r <= slept[g] + wakeUpCount[g] + q
        \/ slept'[g] + wakeUpCount'[g] + r <= slept[g]
    BY DEF q
  <2> HIDE DEF r
  <2>8. slept'[g] + p + wakeUpCount'[g] + r <= wakeups[g]
    BY <2>1, <2>2, <2>4, <2>7
  <2> QED
    BY <2>5, <2>6, <2>8 DEF Covered, r
<1> QED
  BY <1>2, <1>4, <1>5

\* The steps inside a call that reach no other thread's count.
LEMMA SleepStepPreserves ==
  ASSUME SleepInv, NEW g \in Guest,
         \/ enterSleep(g) \/ testCount(g) \/ decrementWakeUpCount(g)
         \/ fallsAsleep(g) \/ sleepWoken(g) \/ sleepReturns(g)
         \/ wakeupSignal(g) \/ waitEnded(g)
  PROVE  SleepInv'
<1>1. SleepTyped
  BY SleepTypeIsTyped DEF SleepInv
<1>2. /\ wakeUpCount \in [Guest -> Int] /\ slept \in [Guest -> Nat]
      /\ wakeUpCount[g] \in Int /\ slept[g] \in Nat
  BY <1>1 DEF SleepTyped
<1>3. CASE enterSleep(g)
  <2>1. advances(g, "enter", "count?")
    BY <1>3 DEF enterSleep
  <2>2. /\ sleeper[g].at = "enter" /\ sleeper'[g].at = "count?"
        /\ \A h \in Guest \ {g} : sleeper'[h] = sleeper[h]
        /\ sleeper' \in [Guest -> Sleeper]
    BY <1>1, <2>1, AdvancesMoves, SleepPlaces
  <2>3. /\ UNCHANGED <<wakeUpCount, wakeUpEvent, sleepCalls, slept, wakeups, stolen>>
        /\ sleepingCriticalSection' \in [Guest -> Guest \cup {Nobody}]
    BY <1>1, <1>3 DEF enterSleep, enters, SleepTyped
  <2>4. SleepTyped'
    BY <1>1, <2>2, <2>3 DEF SleepTyped
  <2>5. inSleep(g) = 0 /\ inSleep(g)' = 0
    BY <2>2 DEF inSleep
  <2> QED
    BY <1>2, <2>2, <2>3, <2>4, <2>5, OwnSleepPreserves, SleepPlaces
<1>4. CASE testCount(g)
  <2> DEFINE to == IF wakeUpCount[g] >= 0 THEN "decrement" ELSE "awake?"
  <2>1. advances(g, "count?", to) /\ to \in SleepPlace
    BY <1>4, SleepPlaces DEF testCount
  <2>2. /\ sleeper[g].at = "count?" /\ sleeper'[g].at = to
        /\ \A h \in Guest \ {g} : sleeper'[h] = sleeper[h]
        /\ sleeper' \in [Guest -> Sleeper]
    <3> HIDE DEF to
    <3> QED
      BY <1>1, <2>1, AdvancesMoves
  <2>3. UNCHANGED <<wakeUpCount, sleepingCriticalSection, wakeUpEvent,
                    sleepCalls, slept, wakeups, stolen>>
    BY <1>4 DEF testCount
  <2>4. SleepTyped'
    BY <1>1, <2>2, <2>3 DEF SleepTyped
  <2>5. inSleep(g) = 0
    BY <2>2 DEF inSleep
  <2>6. inSleep(g)' = IF wakeUpCount[g] >= 0 THEN 0 ELSE 1
    BY <2>2 DEF inSleep
  <2>7. slept[g] + wakeUpCount[g] + inSleep(g)' <= slept[g] + wakeUpCount[g] + 0
        \/ slept[g] + wakeUpCount[g] + inSleep(g)' <= slept[g]
    BY <1>2, <2>6
  <2>8. to \notin {"increment", "reset"}
    OBVIOUS
  <2> HIDE DEF to
  <2> QED
    BY <1>2, <2>1, <2>2, <2>3, <2>4, <2>5, <2>7, <2>8, OwnSleepPreserves, SleepPlaces
<1>5. CASE decrementWakeUpCount(g)
  <2>1. advances(g, "decrement", "awake?")
    BY <1>5 DEF decrementWakeUpCount
  <2>2. /\ sleeper[g].at = "decrement" /\ sleeper'[g].at = "awake?"
        /\ \A h \in Guest \ {g} : sleeper'[h] = sleeper[h]
        /\ sleeper' \in [Guest -> Sleeper]
    BY <1>1, <2>1, AdvancesMoves, SleepPlaces
  <2>3. /\ UNCHANGED <<sleepingCriticalSection, wakeUpEvent, sleepCalls, slept,
                       wakeups, stolen>>
        /\ wakeUpCount' = [wakeUpCount EXCEPT ![g] = @ - 1]
    BY <1>5 DEF decrementWakeUpCount
  <2>4. /\ wakeUpCount' \in [Guest -> Int]
        /\ wakeUpCount'[g] = wakeUpCount[g] - 1
        /\ \A h \in Guest \ {g} : wakeUpCount'[h] = wakeUpCount[h]
    BY <1>2, <2>3
  <2>5. SleepTyped'
    BY <1>1, <2>2, <2>3, <2>4 DEF SleepTyped
  <2>6. inSleep(g) = 0 /\ inSleep(g)' = 1
    BY <2>2 DEF inSleep
  <2>7. slept[g] + wakeUpCount'[g] + 1 <= slept[g] + wakeUpCount[g] + 0
    BY <1>2, <2>4
  <2> QED
    BY <1>2, <2>2, <2>3, <2>4, <2>5, <2>6, <2>7, OwnSleepPreserves, SleepPlaces
<1>6. CASE fallsAsleep(g) \/ sleepWoken(g)
  <2>1. PICK from \in SleepPlace, to \in SleepPlace :
          /\ advances(g, from, to)
          /\ from \in {"awake?", "asleep"} /\ to \in {"awake?", "asleep"}
    BY <1>6, SleepPlaces DEF fallsAsleep, sleepWoken
  <2>2. /\ sleeper[g].at = from /\ sleeper'[g].at = to
        /\ \A h \in Guest \ {g} : sleeper'[h] = sleeper[h]
        /\ sleeper' \in [Guest -> Sleeper]
    BY <1>1, <2>1, AdvancesMoves
  <2>3. /\ UNCHANGED <<wakeUpCount, sleepingCriticalSection, sleepCalls, slept,
                       wakeups>>
        /\ wakeUpEvent' \in BOOLEAN /\ stolen' \in BOOLEAN
    BY <1>1, <1>6 DEF fallsAsleep, sleepWoken, waitAny, SleepTyped
  <2>4. SleepTyped'
    BY <1>1, <2>2, <2>3 DEF SleepTyped
  <2>5. inSleep(g) = 1 /\ inSleep(g)' = 1
    BY <2>1, <2>2 DEF inSleep
  <2>6. from \notin {"increment", "reset"} /\ to \notin {"increment", "reset"}
    BY <2>1
  <2> QED
    BY <1>2, <2>2, <2>3, <2>4, <2>5, <2>6, OwnSleepPreserves
<1>7. CASE sleepReturns(g)
  <2>1. advances(g, "awake?", "idle") /\ wakeUpCount[g] >= 0
    BY <1>7 DEF sleepReturns
  <2>2. /\ sleeper[g].at = "awake?" /\ sleeper'[g].at = "idle"
        /\ \A h \in Guest \ {g} : sleeper'[h] = sleeper[h]
        /\ sleeper' \in [Guest -> Sleeper]
    BY <1>1, <2>1, AdvancesMoves, SleepPlaces
  <2>3. /\ UNCHANGED <<wakeUpCount, wakeUpEvent, sleepCalls, wakeups, stolen>>
        /\ slept' = [slept EXCEPT ![g] = @ + 1]
        /\ sleepingCriticalSection' \in [Guest -> Guest \cup {Nobody}]
    BY <1>1, <1>7 DEF sleepReturns, leaves, SleepTyped
  <2>4. /\ slept' \in [Guest -> Nat] /\ slept'[g] = slept[g] + 1
        /\ \A h \in Guest \ {g} : slept'[h] = slept[h]
    BY <1>2, <2>3
  <2>5. SleepTyped'
    BY <1>1, <2>2, <2>3, <2>4 DEF SleepTyped
  <2>6. inSleep(g) = 1 /\ inSleep(g)' = 0
    BY <2>2 DEF inSleep
  <2>7. slept'[g] + wakeUpCount[g] + 0 <= slept[g] + wakeUpCount[g] + 1
    BY <1>2, <2>4
  <2> QED
    BY <1>2, <2>1, <2>2, <2>3, <2>4, <2>5, <2>6, <2>7, OwnSleepPreserves, SleepPlaces
<1>8. CASE wakeupSignal(g) \/ waitEnded(g)
  <2>1. PICK from \in SleepPlace, to \in SleepPlace :
          /\ advances(g, from, to)
          /\ from \in {"signal", "waitEnded"} /\ to \in {"waitEnded", "idle"}
    BY <1>8, SleepPlaces DEF wakeupSignal, waitEnded
  <2>2. /\ sleeper[g].at = from /\ sleeper'[g].at = to
        /\ \A h \in Guest \ {g} : sleeper'[h] = sleeper[h]
        /\ sleeper' \in [Guest -> Sleeper]
    BY <1>1, <2>1, AdvancesMoves
  <2>3. /\ UNCHANGED <<wakeUpCount, sleepingCriticalSection, sleepCalls, slept,
                       wakeups, stolen>>
        /\ wakeUpEvent' \in BOOLEAN
    BY <1>1, <1>8 DEF wakeupSignal, waitEnded, signal, SleepTyped
  <2>4. SleepTyped'
    BY <1>1, <2>2, <2>3 DEF SleepTyped
  <2>5. inSleep(g) = 0 /\ inSleep(g)' = 0
    BY <2>1, <2>2 DEF inSleep
  <2>6. from \notin {"increment", "reset"} /\ to \notin {"increment", "reset"}
    BY <2>1
  <2> QED
    BY <1>2, <2>2, <2>3, <2>4, <2>5, <2>6, OwnSleepPreserves
<1> QED
  BY <1>3, <1>4, <1>5, <1>6, <1>7, <1>8

\* A call of sceKernelWakeupThread: counted, and pending.
LEMMA WakeupCallPreserves ==
  ASSUME SleepInv, NEW g \in Guest, NEW t \in Guest, sceKernelWakeupThread(g, t)
  PROVE  SleepInv'
<1>1. SleepTyped
  BY SleepTypeIsTyped DEF SleepInv
<1>2. PICK to \in SleepPlace :
        to \in {"increment", "reset"} /\ sleepCall(g, to, t)
  BY SleepPlaces DEF sceKernelWakeupThread
<1>3. /\ sleeper[g].at = "idle"
      /\ sleeper' = [sleeper EXCEPT ![g] = [at |-> to, of |-> t]]
      /\ sleepCalls' \in 0 .. MaxSleepCalls
      /\ UNCHANGED <<wakeUpCount, wakeUpEvent, slept, stolen>>
  BY <1>1, <1>2, SleepWakeupAssumption DEF sleepCall, at, SleepTyped
<1>4. /\ sleepingCriticalSection' \in [Guest -> Guest \cup {Nobody}]
      /\ wakeups' = [wakeups EXCEPT ![t] = @ + 1]
  BY <1>1 DEF sceKernelWakeupThread, enters, SleepTyped
<1>5. [at |-> to, of |-> t] \in Sleeper
  BY DEF Sleeper
<1>6. /\ sleeper' \in [Guest -> Sleeper]
      /\ sleeper'[g].at = to /\ sleeper'[g].of = t
      /\ \A h \in Guest \ {g} : sleeper'[h] = sleeper[h]
  BY <1>1, <1>3, <1>5 DEF SleepTyped
<1>7. /\ wakeups' \in [Guest -> Nat] /\ wakeups'[t] = wakeups[t] + 1
      /\ \A h \in Guest \ {t} : wakeups'[h] = wakeups[h]
  BY <1>1, <1>4 DEF SleepTyped
<1>8. SleepTyped'
  BY <1>1, <1>3, <1>4, <1>6, <1>7 DEF SleepTyped
<1>9. \A u \in Guest : inSleep(u)' = inSleep(u)
  BY <1>2, <1>3, <1>6 DEF inSleep
<1>10. \A u \in Guest \ {t} : Pending(u)' = Pending(u)
  BY <1>3, <1>6 DEF Pending
<1>11. Pending(t)' = Pending(t) \cup {g} /\ g \notin Pending(t)
  BY <1>2, <1>3, <1>6 DEF Pending
<1>12. Cardinality(Pending(t)') = Cardinality(Pending(t)) + 1
  BY <1>11, PendingCounted, FS_AddElement
<1>13. ASSUME NEW u \in Guest
       PROVE  Covered(u)'
  <2>1. CASE u # t
    BY <1>3, <1>7, <1>9, <1>10, <2>1 DEF Covered, SleepInv
  <2>2. CASE u = t
    <3>1. /\ slept[t] \in Nat /\ wakeups[t] \in Nat /\ wakeUpCount[t] \in Int
          /\ inSleep(t) \in 0 .. 1 /\ Cardinality(Pending(t)) \in Nat
      BY <1>1, CoveredNumbers
    <3>2. Covered(t)
      BY DEF SleepInv
    <3> QED
      BY <1>3, <1>7, <1>9, <1>12, <2>2, <3>1, <3>2 DEF Covered
  <2> QED
    BY <2>1, <2>2
<1> QED
  BY <1>8, <1>13, SleepTypeIsTyped DEF SleepInv

\* A wake-up reaches the count: one less is pending, and the count is one more
\* or zero.
LEMMA WakeupCountPreserves ==
  ASSUME SleepInv, NEW g \in Guest, incrementWakeUpCount(g) \/ resetWakeUpCount(g)
  PROVE  SleepInv'
<1>1. SleepTyped
  BY SleepTypeIsTyped DEF SleepInv
<1>2. PICK t \in Guest : t = sleeper[g].of
  BY <1>1 DEF SleepTyped, Sleeper
<1>3. PICK from \in {"increment", "reset"}, to \in SleepPlace :
        to \in {"idle", "signal"} /\ advances(g, from, to)
  BY SleepPlaces DEF incrementWakeUpCount, resetWakeUpCount
<1>4. /\ sleeper[g].at = from /\ sleeper'[g].at = to
      /\ \A h \in Guest \ {g} : sleeper'[h] = sleeper[h]
      /\ sleeper' \in [Guest -> Sleeper]
  BY <1>1, <1>3, AdvancesMoves
<1>5. PICK count \in Int :
        /\ wakeUpCount' = [wakeUpCount EXCEPT ![t] = count]
        /\ count = wakeUpCount[t] + 1 \/ count = 0
  BY <1>1, <1>2 DEF incrementWakeUpCount, resetWakeUpCount, SleepTyped
<1>6. /\ UNCHANGED <<wakeUpEvent, sleepCalls, slept, wakeups, stolen>>
      /\ sleepingCriticalSection' \in [Guest -> Guest \cup {Nobody}]
  BY <1>1, <1>2 DEF incrementWakeUpCount, resetWakeUpCount, leaves, SleepTyped
<1>7. /\ wakeUpCount' \in [Guest -> Int] /\ wakeUpCount'[t] = count
      /\ \A h \in Guest \ {t} : wakeUpCount'[h] = wakeUpCount[h]
  BY <1>1, <1>2, <1>5 DEF SleepTyped
<1>8. SleepTyped'
  BY <1>1, <1>4, <1>6, <1>7 DEF SleepTyped
<1>9. \A u \in Guest : inSleep(u)' = inSleep(u)
  BY <1>3, <1>4 DEF inSleep
<1>10. \A u \in Guest \ {t} : Pending(u)' = Pending(u)
  BY <1>2, <1>3, <1>4 DEF Pending
<1>11. Pending(t)' = Pending(t) \ {g} /\ g \in Pending(t)
  BY <1>2, <1>3, <1>4 DEF Pending
<1>12. Cardinality(Pending(t)') = Cardinality(Pending(t)) - 1
  BY <1>2, <1>11, PendingCounted, FS_RemoveElement
<1>13. ASSUME NEW u \in Guest
       PROVE  Covered(u)'
  <2>1. CASE u # t
    BY <1>6, <1>7, <1>9, <1>10, <2>1 DEF Covered, SleepInv
  <2>2. CASE u = t
    <3>1. /\ slept[t] \in Nat /\ wakeups[t] \in Nat /\ wakeUpCount[t] \in Int
          /\ inSleep(t) \in 0 .. 1 /\ Cardinality(Pending(t)) \in Nat
      BY <1>1, <1>2, CoveredNumbers
    <3>2. Covered(t)
      BY <1>2 DEF SleepInv
    <3> QED
      BY <1>2, <1>5, <1>6, <1>7, <1>9, <1>12, <2>2, <3>1, <3>2 DEF Covered
  <2> QED
    BY <2>1, <2>2
<1> QED
  BY <1>8, <1>13, SleepTypeIsTyped DEF SleepInv

LEMMA SleepCallPreserves ==
  ASSUME SleepInv, NEW g \in Guest, sceKernelSleepThread(g)
  PROVE  SleepInv'
<1>1. SleepTyped
  BY SleepTypeIsTyped DEF SleepInv
<1>2. /\ sleeper[g].at = "idle"
      /\ sleeper' = [sleeper EXCEPT ![g] = [at |-> "enter", of |-> g]]
      /\ sleepCalls' \in 0 .. MaxSleepCalls
      /\ UNCHANGED <<wakeUpCount, sleepingCriticalSection, wakeUpEvent, slept,
                     wakeups, stolen>>
  BY <1>1, SleepWakeupAssumption
  DEF sceKernelSleepThread, sleepCall, at, SleepTyped
<1>3. [at |-> "enter", of |-> g] \in Sleeper
  BY SleepPlaces DEF Sleeper
<1>4. /\ sleeper' \in [Guest -> Sleeper] /\ sleeper'[g].at = "enter"
      /\ \A h \in Guest \ {g} : sleeper'[h] = sleeper[h]
  BY <1>1, <1>2, <1>3 DEF SleepTyped
<1>5. SleepTyped'
  BY <1>1, <1>2, <1>4 DEF SleepTyped
<1>6. inSleep(g) = 0 /\ inSleep(g)' = 0
  BY <1>2, <1>4 DEF inSleep
<1>7. wakeUpCount[g] \in Int /\ slept[g] \in Nat
  BY <1>1 DEF SleepTyped
<1> QED
  BY <1>2, <1>4, <1>5, <1>6, <1>7, OwnSleepPreserves, SleepPlaces

LEMMA SleepInductive == SleepInv /\ [SleepNext]_sleepVars => SleepInv'
<1>1. ASSUME SleepInv, NEW g \in Guest, SleepStep(g)
      PROVE  SleepInv'
  BY <1>1, SleepStepPreserves, WakeupCountPreserves DEF SleepStep
<1>2. ASSUME SleepInv, UNCHANGED sleepVars
      PROVE  SleepInv'
  BY <1>2 DEF sleepVars, SleepInv, SleepTypeOK, Covered, Pending, inSleep
<1> QED
  BY <1>1, <1>2, SleepCallPreserves, WakeupCallPreserves DEF SleepNext

(***************************************************************************)
(* A thread comes out of no more sleeps than it was woken up from, however *)
(* the resets of its count by those that wake it up fall between its own   *)
(* test, its decrement and its waits.                                      *)
(***************************************************************************)
THEOREM SleepsAreCovered == SleepSpec => []SleepsCovered
<1>1. SleepInv => SleepsCovered
  <2> SUFFICES ASSUME SleepInv, NEW g \in Guest
               PROVE  slept[g] <= wakeups[g]
    BY DEF SleepsCovered
  <2>1. SleepTyped /\ Covered(g)
    BY SleepTypeIsTyped DEF SleepInv
  <2> QED
    BY <2>1, CoveredNumbers DEF Covered
<1> QED
  BY <1>1, SleepInitEstablishes, SleepInductive, PTL DEF SleepSpec

-----------------------------------------------------------------------------
(* The proof for the end of a thread. *)

LEMMA UpdatesHeads ==
  /\ \A u \in Updates \ {<<>>} :
       /\ Head(u).add \in SUBSET Status /\ Tail(u) \in Updates
  /\ "STOPPED" \in Head(Begin).remove
  /\ \A u \in {Begin, Tail(Begin), Block, Tail(Block)} :
       /\ u # <<>> /\ "STOPPED" \notin Head(u).add
       /\ Tail(u) \in {<<>>, Tail(Begin), Tail(Block)}
  /\ {<<>>, Begin, Tail(Begin), Block, Tail(Block), End} \subseteq Updates
<1>1. /\ Head(Begin) = unset("STOPPED") /\ Tail(Begin) = <<set("RUNNING")>>
      /\ Head(Block) = set("WAITING") /\ Tail(Block) = <<unset("WAITING")>>
      /\ Head(End) = set("STOPPED") /\ Tail(End) = <<unset("RUNNING")>>
      /\ Begin # <<>> /\ Block # <<>> /\ End # <<>>
  BY DEF Begin, Block, End
<1>2. \A x : Head(<<x>>) = x /\ Tail(<<x>>) = <<>> /\ <<x>> # <<>>
  OBVIOUS
<1>3. /\ set("RUNNING").add = {"RUNNING"} /\ set("WAITING").add = {"WAITING"}
      /\ set("STOPPED").add = {"STOPPED"}
      /\ unset("STOPPED").add = {} /\ unset("WAITING").add = {}
      /\ unset("RUNNING").add = {}
      /\ unset("STOPPED").remove = {"STOPPED"}
  BY DEF set, unset
<1>4. {"RUNNING"} \in SUBSET Status /\ {"WAITING"} \in SUBSET Status
      /\ {"STOPPED"} \in SUBSET Status /\ {} \in SUBSET Status
      /\ "STOPPED" \notin {"RUNNING"} /\ "STOPPED" \notin {"WAITING"}
      /\ "STOPPED" \notin {}
  BY DEF Status
<1>5. ASSUME NEW u \in Updates \ {<<>>}
      PROVE  Head(u).add \in SUBSET Status /\ Tail(u) \in Updates
  BY <1>1, <1>2, <1>3, <1>4 DEF Updates
<1>6. ASSUME NEW u \in {Begin, Tail(Begin), Block, Tail(Block)}
      PROVE  /\ u # <<>> /\ "STOPPED" \notin Head(u).add
             /\ Tail(u) \in {<<>>, Tail(Begin), Tail(Block)}
  BY <1>1, <1>2, <1>3, <1>4
<1>7. "STOPPED" \in Head(Begin).remove
  BY <1>1, <1>3
<1> QED
  BY <1>5, <1>6, <1>7 DEF Updates

LEMMA EndInitEstablishes == EndInit => EndInv
<1> SUFFICES ASSUME EndInit
             PROVE  EndInv
  OBVIOUS
<1> USE DEF EndInit
<1>1. {"STOPPED"} \in SUBSET Status /\ NotWaiting \in WaiterState
  BY DEF Status, NotWaiting, WaiterState
<1>2. Target \in Updaters /\ Waiter \subseteq Updaters /\ <<>> \in Updates
  BY DEF Updaters, Updates
<1>3. EndTyped
  BY <1>1, <1>2 DEF EndTyped
<1>4. NotEnding
  BY <1>2 DEF NotEnding
<1>5. \A g \in Waiter : ~ waiter[g].since /\ waiter[g].at = "idle"
  BY DEF NotWaiting
<1> QED
  BY <1>3, <1>4, <1>5 DEF EndInv, NotEndedEarly

\* An update of the status, of whichever thread.
LEMMA StatusStepPreserves ==
  ASSUME EndInv, NEW a \in Updaters, StatusStep(a)
  PROVE  EndInv'
<1> USE DEF EndInv
<1>1. UNCHANGED <<started, alive, waiter, ending>>
  BY DEF StatusStep, readStatus, writeStatus, endSignal
<1>2. NotEndedEarly' /\ \A g \in Waiter : waiter'[g].since => started' = "yes"
  BY <1>1 DEF NotEndedEarly
<1>3. CASE readStatus(a)
  <2>1. /\ todo[a] # <<>> /\ reading' = reading \cup {a}
        /\ copied' = [copied EXCEPT ![a] = status]
        /\ UNCHANGED <<status, todo, signals>>
    BY <1>3 DEF readStatus
  <2>2. EndTyped'
    BY <1>1, <2>1 DEF EndTyped
  <2>3. ASSUME ~ ending
        PROVE  NotEnding'
    <3>1. a = Target /\ NotEnding
      BY <2>1, <2>3 DEF NotEnding, Updaters
    <3>2. copied'[Target] = status
      BY <2>1, <3>1 DEF EndTyped
    <3>3. "STOPPED" \in status => todo[Target] = Begin
      BY <2>1, <3>1 DEF NotEnding
    <3> QED
      BY <1>1, <2>1, <3>1, <3>2, <3>3 DEF NotEnding
  <2> QED
    BY <1>1, <1>2, <2>2, <2>3
<1>4. CASE writeStatus(a)
  <2> DEFINE u == todo[a]
  <2>1. /\ a \in reading /\ reading' = reading \ {a}
        /\ status' = (copied[a] \cup Head(u).add) \ Head(u).remove
        /\ todo' = [todo EXCEPT ![a] = Tail(u)]
        /\ copied' = [copied EXCEPT ![a] = {}]
        /\ UNCHANGED signals
    BY <1>4 DEF writeStatus
  <2>2. u \in Updates \ {<<>>} /\ copied[a] \in SUBSET Status
    BY <2>1 DEF EndTyped
  <2>3. Head(u).add \in SUBSET Status /\ Tail(u) \in Updates
    BY <2>2, UpdatesHeads
  <2> HIDE DEF u
  <2>4. status' \in SUBSET Status
    BY <2>1, <2>2, <2>3
  <2>5. EndTyped'
    BY <1>1, <2>1, <2>3, <2>4 DEF EndTyped
  <2>6. ASSUME ~ ending
        PROVE  NotEnding'
    <3>1. a = Target /\ NotEnding
      BY <2>1, <2>6 DEF NotEnding
    <3>2. u \in {Begin, Tail(Begin), Block, Tail(Block)}
      BY <2>2, <3>1 DEF NotEnding, u
    <3>3. "STOPPED" \in copied[Target] => "STOPPED" \in Head(u).remove
      BY <2>1, <3>1, UpdatesHeads DEF NotEnding, u
    <3>4. "STOPPED" \notin status'
      BY <2>1, <3>1, <3>2, <3>3, UpdatesHeads
    <3>5. todo'[Target] = Tail(u) /\ \A g \in Waiter : todo'[g] = todo[g]
      BY <2>1, <3>1, ThreadEndAssumption DEF EndTyped, Updaters
    <3>6. todo'[Target] \in {<<>>, Tail(Begin), Tail(Block)}
      BY <3>2, <3>5, UpdatesHeads
    <3>7. reading' = {} /\ started # "no"
      BY <2>1, <2>2, <3>1 DEF NotEnding, u
    <3> QED
      BY <1>1, <2>1, <3>1, <3>4, <3>5, <3>6, <3>7 DEF NotEnding
  <2> QED
    BY <1>1, <1>2, <2>5, <2>6
<1>5. CASE endSignal(a)
  <2>1. a \in signals /\ signals' = signals \ {a}
        /\ UNCHANGED <<status, todo, copied, reading>>
    BY <1>5 DEF endSignal
  <2>2. EndTyped'
    BY <1>1, <2>1 DEF EndTyped
  <2>3. ending
    BY <2>1 DEF NotEnding
  <2> QED
    BY <1>1, <1>2, <2>2, <2>3
<1> QED
  BY <1>3, <1>4, <1>5 DEF StatusStep

\* The starts, and the calls that begin updates.
LEMMA StartPreserves ==
  ASSUME EndInv, startNative \/ startRunning
  PROVE  EndInv'
<1> USE DEF EndInv
<1>1. CASE startNative
  <2>1. /\ started = "no" /\ started' = "native" /\ todo[Target] = <<>>
        /\ todo' = [todo EXCEPT ![Target] = Begin]
        /\ UNCHANGED <<status, copied, reading, ending, signals, waiter>>
    BY <1>1 DEF startNative, starts
  <2>2. Target \in Updaters /\ Begin \in Updates /\ Begin # <<>>
    BY UpdatesHeads DEF Updaters
  <2>3. EndTyped'
    BY <2>1, <2>2 DEF EndTyped
  <2>4. todo'[Target] = Begin /\ \A g \in Waiter : todo'[g] = todo[g]
    BY <2>1, <2>2, ThreadEndAssumption DEF EndTyped, Updaters
  <2>5. ~ ending => NotEnding'
    BY <2>1, <2>2, <2>4 DEF NotEnding
  <2>6. \A g \in Waiter : ~ waiter[g].since
    BY <2>1
  <2> QED
    BY <2>1, <2>3, <2>5, <2>6 DEF NotEndedEarly
<1>2. CASE startRunning
  <2>1. /\ started = "native" /\ started' = "yes" /\ status' = {"RUNNING"}
        /\ UNCHANGED <<todo, copied, reading, ending, alive, signals, waiter>>
    BY <1>2 DEF startRunning
  <2>2. status' \in SUBSET Status /\ "STOPPED" \notin status'
    BY <2>1 DEF Status
  <2>3. EndTyped'
    BY <2>1, <2>2 DEF EndTyped
  <2>4. ~ ending => NotEnding'
    BY <2>1, <2>2 DEF NotEnding
  <2> QED
    BY <2>1, <2>3, <2>4 DEF NotEndedEarly
<1> QED
  BY <1>1, <1>2

LEMMA TargetCallPreserves ==
  ASSUME EndInv,
         \/ waitingBlock \/ sceKernelExitThread \/ sceKernelExitDeleteThread
         \/ \E g \in Waiter : sceKernelTerminateThread(g)
  PROVE  EndInv'
<1> USE DEF EndInv
<1>1. CASE waitingBlock
  <2>1. /\ alive /\ todo[Target] = <<>>
        /\ todo' = [todo EXCEPT ![Target] = Block]
        /\ UNCHANGED <<status, copied, reading, ending, signals, waiter, started,
                       alive>>
    BY <1>1 DEF waitingBlock, starts
  <2>2. Target \in Updaters /\ Block \in Updates /\ Block # <<>>
    BY UpdatesHeads DEF Updaters
  <2>3. EndTyped'
    BY <2>1, <2>2 DEF EndTyped
  <2>4. todo'[Target] = Block /\ \A g \in Waiter : todo'[g] = todo[g]
    BY <2>1, <2>2, ThreadEndAssumption DEF EndTyped, Updaters
  <2>5. ASSUME ~ ending
        PROVE  NotEnding'
    <3>1. NotEnding /\ Begin # <<>>
      BY <2>5, UpdatesHeads
    <3>2. "STOPPED" \notin status /\ started # "no" /\ reading = {}
      BY <2>1, <3>1 DEF NotEnding
    <3> QED
      BY <2>1, <2>2, <2>4, <3>1, <3>2 DEF NotEnding
  <2> QED
    BY <2>1, <2>3, <2>5 DEF NotEndedEarly
<1>2. CASE sceKernelExitDeleteThread
  <2>1. /\ ~ alive' /\ started' = started
        /\ UNCHANGED <<status, todo, copied, reading, ending, signals, waiter>>
    BY <1>2 DEF sceKernelExitDeleteThread, statusVars
  <2>2. EndTyped' /\ (~ ending => NotEnding')
    BY <2>1 DEF EndTyped, NotEnding
  <2> QED
    BY <2>1, <2>2 DEF NotEndedEarly
<1>3. CASE \/ sceKernelExitThread
           \/ \E g \in Waiter : sceKernelTerminateThread(g)
  <2>1. PICK a \in Updaters :
          /\ todo[a] = <<>> /\ todo' = [todo EXCEPT ![a] = End]
          /\ signals' = signals \cup {a} /\ ending' = TRUE
          /\ UNCHANGED <<status, copied, reading, waiter, started>>
    BY <1>3
    DEF sceKernelExitThread, sceKernelTerminateThread, starts, Updaters
  <2>2. EndTyped'
    BY <2>1, UpdatesHeads DEF EndTyped
  <2> QED
    BY <2>1, <2>2 DEF NotEndedEarly
<1> QED
  BY <1>1, <1>2, <1>3

\* A wait that finds STOPPED after the start returned finds an end.
LEMMA WaitPreserves ==
  ASSUME EndInv, NEW g \in Waiter,
         \/ \E timed \in BOOLEAN : sceKernelWaitThreadEnd(g, timed)
         \/ WaitStep(g)
  PROVE  EndInv'
<1> USE DEF EndInv
<1>1. waiter[g] \in WaiterState /\ DOMAIN waiter = Waiter
  BY DEF EndTyped
<1>2. PICK to \in WaiterState :
        /\ waits(g, to)
        /\ to.since => started = "yes"
        /\ to.at = "ended" => "STOPPED" \in status
  <2>1. CASE \E timed \in BOOLEAN : sceKernelWaitThreadEnd(g, timed)
    <3>1. PICK timed \in BOOLEAN : sceKernelWaitThreadEnd(g, timed)
      BY <2>1
    <3>2. [at |-> "test", timed |-> timed, since |-> started = "yes"] \in WaiterState
      BY DEF WaiterState
    <3> QED
      BY <3>1, <3>2 DEF sceKernelWaitThreadEnd
  <2>2. CASE waitTests(g)
    <3> DEFINE to == [waiter[g] EXCEPT !.at = IF mustContinue THEN "asleep" ELSE "ended"]
    <3>1. to \in WaiterState /\ to.since = waiter[g].since
          /\ (to.at = "ended" => "STOPPED" \in status)
      BY <1>1 DEF WaiterState, mustContinue
    <3>2. waits(g, to)
      BY <2>2 DEF waitTests
    <3> HIDE DEF to
    <3> QED
      BY <3>1, <3>2
  <2>3. CASE waitWoken(g)
    <3> DEFINE to == [waiter[g] EXCEPT !.at = "test"]
    <3>1. to \in WaiterState /\ to.since = waiter[g].since /\ to.at = "test"
      BY <1>1 DEF WaiterState
    <3>2. waits(g, to)
      BY <2>3 DEF waitWoken
    <3> HIDE DEF to
    <3> QED
      BY <3>1, <3>2
  <2>4. CASE waitTimesOut(g) \/ waitEnds(g)
    <3>1. NotWaiting \in WaiterState /\ ~ NotWaiting.since /\ NotWaiting.at = "idle"
      BY DEF NotWaiting, WaiterState
    <3>2. waits(g, NotWaiting)
      BY <2>4 DEF waitTimesOut, waitEnds
    <3> QED
      BY <3>1, <3>2
  <2> QED
    BY <2>1, <2>2, <2>3, <2>4 DEF WaitStep
<1>3. /\ waiter' = [waiter EXCEPT ![g] = to]
      /\ UNCHANGED <<status, todo, copied, reading, ending, started, alive, signals>>
  BY <1>2 DEF waits, statusVars
<1>4. waiter'[g] = to /\ \A h \in Waiter \ {g} : waiter'[h] = waiter[h]
  BY <1>1, <1>3
<1>5. EndTyped'
  BY <1>3 DEF EndTyped
<1>6. ~ ending => NotEnding'
  BY <1>3 DEF NotEnding
<1>7. \A h \in Waiter : waiter'[h].since => started' = "yes"
  BY <1>2, <1>3, <1>4
<1>8. to.at = "ended" /\ to.since => ending
  BY <1>2 DEF NotEnding
<1>9. NotEndedEarly'
  BY <1>3, <1>4, <1>8 DEF NotEndedEarly
<1> QED
  BY <1>3, <1>5, <1>6, <1>7, <1>9

LEMMA EndInductive == EndInv /\ [EndNext]_endVars => EndInv'
<1>1. ASSUME EndInv, otherEnds
      PROVE  EndInv'
  BY <1>1 DEF otherEnds, statusVars, EndInv, EndTyped, NotEnding, NotEndedEarly
<1>2. ASSUME EndInv, UNCHANGED endVars
      PROVE  EndInv'
  BY <1>2 DEF endVars, statusVars, EndInv, EndTyped, NotEnding, NotEndedEarly
<1> QED
  BY <1>1, <1>2, StatusStepPreserves, StartPreserves, TargetCallPreserves,
     WaitPreserves DEF EndNext

(***************************************************************************)
(* A wait begun after sceKernelStartThread returned ends only when         *)
(* somebody ends the thread, whatever the native thread has run of its own *)
(* start and of its waits.                                                 *)
(***************************************************************************)
THEOREM WaitEndsOnlyAtTheEnd == EndSpec => []NotEndedEarly
<1>1. EndInv => NotEndedEarly
  BY DEF EndInv
<1> QED
  BY <1>1, EndInitEstablishes, EndInductive, PTL DEF EndSpec

-----------------------------------------------------------------------------
(* The proof for event flags. *)

FlagPlace ==
  {"idle", "set", "setWrite", "signal", "clear", "clearWrite", "test", "asleep",
   "matched", "waitClearWrite", "out"}

FlagCaller ==
  [at : FlagPlace, flag : Flag, wait : Waits, bits : SUBSET Bit,
   read : SUBSET Bit]

\* The type invariant, with the type of the threads by its name.
FlagTyped ==
  /\ flagThread \in [Guest -> FlagCaller]
  /\ bits \in [Flag -> SUBSET Bit] /\ flagExists \in [Flag -> BOOLEAN]
  /\ flagEvent \in BOOLEAN
  /\ flagCalls \in 0 .. MaxFlagCalls
  /\ robbed \subseteq Guest
  /\ granted \in [Flag -> SUBSET Bit]
  /\ grantedTwice \in BOOLEAN /\ bitsTorn \in BOOLEAN

LEMMA FlagTypeIsTyped == (FlagTypeOK <=> FlagTyped) /\ (FlagTypeOK' <=> FlagTyped')
BY DEF FlagTypeOK, FlagTyped, FlagCaller, FlagPlace

LEMMA FlagPlaces ==
  {"idle", "set", "setWrite", "signal", "clear", "clearWrite", "test", "asleep",
   "matched", "waitClearWrite", "out"} \subseteq FlagPlace
BY DEF FlagPlace

LEMMA FlagIdleIsCaller == FlagIdle \in FlagCaller /\ FlagIdle.at = "idle"
<1>1. AnyWait \in Waits
  BY EventFlagAssumption DEF AnyWait
<1>2. (CHOOSE f \in Flag : TRUE) \in Flag
  BY EventFlagAssumption
<1> QED
  BY <1>1, <1>2, FlagPlaces DEF FlagIdle, FlagCaller

\* A thread that goes on inside its call moves only itself.
LEMMA ContinuesMoves ==
  ASSUME FlagTyped, NEW g \in Guest, NEW from, NEW to \in FlagPlace,
         NEW read \in SUBSET Bit, continues(g, from, to, read)
  PROVE  /\ flagThread[g].at = from /\ flagThread'[g].at = to
         /\ to # "idle" =>
              /\ flagThread'[g].flag = flagThread[g].flag
              /\ flagThread'[g].wait = flagThread[g].wait
              /\ flagThread'[g].read = read
         /\ \A h \in Guest \ {g} : flagThread'[h] = flagThread[h]
         /\ flagThread' \in [Guest -> FlagCaller]
         /\ UNCHANGED <<flagExists, flagCalls>>
BY FlagIdleIsCaller DEF continues, FlagTyped, FlagCaller

\* Fewer bits match no more waits.
LEMMA FewerBitsMatchLess ==
  ASSUME NEW wait, NEW more, NEW less, less \subseteq more,
         checkEventFlag(less, wait)
  PROVE  checkEventFlag(more, wait)
BY DEF checkEventFlag

Quiet == OneUpdater /\ ReadIsCurrent /\ GrantedLeaves

LEMMA FlagInitEstablishes == FlagInit => FlagInv
<1> SUFFICES ASSUME FlagInit
             PROVE  FlagInv
  OBVIOUS
<1> USE DEF FlagInit
<1>1. \A g \in Guest : flagThread[g].at = "idle"
  BY FlagIdleIsCaller
<1>2. FlagTypeOK
  <2>1. flagThread \in [Guest -> FlagCaller] /\ flagCalls \in 0 .. MaxFlagCalls
    BY FlagIdleIsCaller, EventFlagAssumption
  <2>2. /\ bits \in [Flag -> SUBSET Bit] /\ robbed \subseteq Guest
        /\ granted \in [Flag -> SUBSET Bit]
    OBVIOUS
  <2>3. flagExists \in [Flag -> BOOLEAN]
    OBVIOUS
  <2>4. /\ flagEvent \in BOOLEAN /\ grantedTwice \in BOOLEAN
        /\ bitsTorn \in BOOLEAN
    OBVIOUS
  <2> HIDE DEF FlagInit
  <2>5. FlagTyped
    BY <2>1, <2>2, <2>3, <2>4 DEF FlagTyped
  <2> QED
    BY <2>5, FlagTypeIsTyped
<1>3. OneUpdater /\ ReadIsCurrent
  BY <1>1 DEF OneUpdater, ReadIsCurrent, updates
<1>4. GrantedLeaves
  BY DEF GrantedLeaves
<1>5. OneWaitPerSet /\ FlagMissedOnlyWhenRobbed
  BY <1>1 DEF OneWaitPerSet, FlagMissedOnlyWhenRobbed
<1> QED
  BY <1>2, <1>3, <1>4, <1>5 DEF FlagInv

\* A step of a thread that is in no update after it and was not clearing.
LEMMA OutsideKeepsQuiet ==
  ASSUME Quiet, NEW g \in Guest,
         \A h \in Guest \ {g} : flagThread'[h] = flagThread[h],
         \A f : ~ updates(g, f)',
         flagThread[g].at # "waitClearWrite",
         UNCHANGED <<bits, granted>>
  PROVE  Quiet'
<1>1. \A f \in Flag : \A h \in Guest : updates(h, f)' => h # g /\ updates(h, f)
  BY DEF updates
<1>2. OneUpdater'
  BY <1>1 DEF Quiet, OneUpdater
<1>3. ReadIsCurrent'
  <2> SUFFICES ASSUME NEW h \in Guest, updates(h, flagOf(h))'
               PROVE  flagThread'[h].read = bits[flagThread'[h].flag]
    BY DEF ReadIsCurrent, flagOf
  <2>1. h # g
    BY DEF updates, flagOf
  <2>2. updates(h, flagOf(h))
    BY <2>1 DEF updates, flagOf
  <2> QED
    BY <2>1, <2>2 DEF Quiet, ReadIsCurrent, flagOf
<1>4. GrantedLeaves'
  BY DEF Quiet, GrantedLeaves, flagOf, waitOf
<1> QED
  BY <1>2, <1>3, <1>4 DEF Quiet

\* Nobody is asleep who was not, nobody stops being about to signal, and no bit
\* is set.
LEMMA MissedKeeps ==
  ASSUME FlagTyped, ~ bitsTorn, FlagMissedOnlyWhenRobbed, NEW g \in Guest,
         \A h \in Guest \ {g} : flagThread'[h] = flagThread[h],
         flagThread[g].at # "signal", flagThread'[g].at # "asleep",
         \A f \in Flag : bits'[f] \subseteq bits[f],
         UNCHANGED <<flagEvent, robbed>>
  PROVE  FlagMissedOnlyWhenRobbed'
<1> SUFFICES ASSUME NEW h \in Guest, flagThread'[h].at = "asleep",
                    checkEventFlag(bits'[flagThread'[h].flag], flagThread'[h].wait),
                    ~ flagEvent
             PROVE  h \in robbed \/ \E k \in Guest : flagThread'[k].at = "signal"
  BY DEF FlagMissedOnlyWhenRobbed, checkEventFlag, flagOf, waitOf
<1>1. h # g /\ flagThread'[h] = flagThread[h]
  OBVIOUS
<1>2. bits'[flagOf(h)] \subseteq bits[flagOf(h)]
  BY DEF FlagTyped, FlagCaller, flagOf
<1>3. checkEventFlag(bits[flagOf(h)], waitOf(h))
  BY <1>1, <1>2, FewerBitsMatchLess DEF flagOf, waitOf
<1>4. h \in robbed \/ \E k \in Guest : flagThread[k].at = "signal"
  BY <1>1, <1>3 DEF FlagMissedOnlyWhenRobbed
<1> QED
  BY <1>4

-----------------------------------------------------------------------------
(* Its calls and steps. *)

LEMMA FlagCallPreserves ==
  ASSUME FlagInv, NEW g \in Guest, NEW f \in Flag, NEW wait \in Waits,
         NEW b \in SUBSET Bit, NEW to \in FlagPlace, to \in {"set", "clear", "test"},
         flagCall(g, f, wait, b, to)
  PROVE  FlagInv'
<1> USE DEF FlagInv
<1>1. FlagTyped
  BY FlagTypeIsTyped
<1>2. /\ flagThread[g].at = "idle"
      /\ flagThread' = [flagThread EXCEPT ![g] =
           [at |-> to, flag |-> f, wait |-> wait, bits |-> b, read |-> {}]]
      /\ flagCalls' \in 0 .. MaxFlagCalls
      /\ UNCHANGED <<bits, flagExists, flagEvent, robbed, granted, grantedTwice,
                     bitsTorn>>
  BY <1>1, FlagIdleIsCaller, EventFlagAssumption
  DEF flagCall, flagHistory, FlagTyped
<1>3. [at |-> to, flag |-> f, wait |-> wait, bits |-> b, read |-> {}] \in FlagCaller
  BY DEF FlagCaller
<1>4. /\ flagThread' \in [Guest -> FlagCaller] /\ flagThread'[g].at = to
      /\ \A h \in Guest \ {g} : flagThread'[h] = flagThread[h]
  BY <1>1, <1>2, <1>3 DEF FlagTyped
<1>5. FlagTyped'
  BY <1>1, <1>2, <1>4 DEF FlagTyped
<1>6. \A k : ~ updates(g, k)'
  BY <1>4 DEF updates
<1>7. ~ bitsTorn => Quiet'
  BY <1>2, <1>4, <1>6, OutsideKeepsQuiet DEF Quiet
<1>8. FlagMissedOnlyWhenRobbed'
  BY <1>1, <1>2, <1>4, MissedKeeps DEF FlagMissedOnlyWhenRobbed
<1> QED
  BY <1>2, <1>5, <1>7, <1>8, FlagTypeIsTyped DEF Quiet, OneWaitPerSet

\* A thread takes a copy of the bits for an update: no other one is updating
\* the flag, or that is on record.
LEMMA UpdateBeginPreserves ==
  ASSUME FlagInv, NEW g \in Guest,
         \/ setRead(g) \/ clearRead(g)
         \/ flagMatches(g) /\ waitOf(g).clear # "none"
  PROVE  FlagInv'
<1> USE DEF FlagInv
<1>1. FlagTyped
  BY FlagTypeIsTyped
<1>2. flagOf(g) \in Flag /\ bits[flagOf(g)] \in SUBSET Bit
  BY <1>1 DEF FlagTyped, FlagCaller, flagOf
<1>3. PICK from \in FlagPlace, to \in FlagPlace :
        /\ from \in {"set", "clear", "test"}
        /\ to \in {"setWrite", "clearWrite", "matched"}
        /\ to = "matched" => waitOf(g).clear # "none"
        /\ continues(g, from, to, bits[flagOf(g)])
  BY FlagPlaces DEF setRead, clearRead, flagMatches
<1>4. /\ begins(g)
      /\ UNCHANGED <<bits, flagEvent, robbed, granted, grantedTwice>>
  BY DEF setRead, clearRead, flagMatches
<1>5. /\ flagThread[g].at = from /\ flagThread'[g].at = to
      /\ flagThread'[g].flag = flagThread[g].flag
      /\ flagThread'[g].wait = flagThread[g].wait
      /\ flagThread'[g].read = bits[flagOf(g)]
      /\ \A h \in Guest \ {g} : flagThread'[h] = flagThread[h]
      /\ flagThread' \in [Guest -> FlagCaller]
      /\ UNCHANGED <<flagExists, flagCalls>>
  <2>1. to # "idle"
    BY <1>3
  <2> QED
    BY <1>1, <1>2, <1>3, <2>1, ContinuesMoves
<1>6. bitsTorn' = (bitsTorn \/ \E h \in Guest \ {g} : updates(h, flagOf(g)))
  BY <1>4 DEF begins
<1>7. FlagTyped'
  BY <1>1, <1>4, <1>5, <1>6 DEF FlagTyped
<1>8. ASSUME ~ bitsTorn'
      PROVE  Quiet'
  <2>1. ~ bitsTorn /\ \A h \in Guest \ {g} : ~ updates(h, flagOf(g))
    BY <1>6, <1>8
  <2>2. \A h \in Guest \ {g} : \A f \in Flag : updates(h, f)' <=> updates(h, f)
    BY <1>5 DEF updates
  <2>3. \A f \in Flag : updates(g, f)' => f = flagOf(g)
    BY <1>5 DEF updates, flagOf
  <2>4. OneUpdater'
    BY <2>1, <2>2, <2>3 DEF OneUpdater
  <2>5. ReadIsCurrent'
    <3> SUFFICES ASSUME NEW h \in Guest, updates(h, flagOf(h))'
                 PROVE  flagThread'[h].read = bits'[flagThread'[h].flag]
      BY DEF ReadIsCurrent, flagOf
    <3>1. CASE h = g
      BY <1>4, <1>5, <3>1 DEF flagOf
    <3>2. CASE h # g
      <4>1. updates(h, flagOf(h))
        BY <1>5, <3>2 DEF updates, flagOf
      <4> QED
        BY <1>4, <1>5, <2>1, <3>2, <4>1 DEF ReadIsCurrent, flagOf
    <3> QED
      BY <3>1, <3>2
  <2>6. GrantedLeaves'
    BY <1>3, <1>4, <1>5, <2>1 DEF GrantedLeaves, flagOf, waitOf
  <2> QED
    BY <2>4, <2>5, <2>6 DEF Quiet
<1>9. FlagMissedOnlyWhenRobbed'
  <2>1. flagThread[g].at # "signal" /\ flagThread'[g].at # "asleep"
    BY <1>3, <1>5
  <2>2. CASE ~ bitsTorn
    BY <1>1, <1>4, <1>5, <2>1, <2>2, MissedKeeps
  <2>3. CASE bitsTorn
    BY <1>6, <2>3 DEF FlagMissedOnlyWhenRobbed
  <2> QED
    BY <2>2, <2>3
<1> QED
  BY <1>4, <1>6, <1>7, <1>8, <1>9, FlagTypeIsTyped DEF Quiet, OneWaitPerSet

\* The steps that neither update a flag nor begin to.
LEMMA OutsidePreserves ==
  ASSUME FlagInv, NEW g \in Guest,
         \/ setSignal(g) \/ flagTestFails(g) \/ flagWoken(g) \/ flagTimeout(g)
         \/ waitKeeps(g) \/ waitReturns(g)
         \/ flagMatches(g) /\ waitOf(g).clear = "none"
  PROVE  FlagInv'
<1> USE DEF FlagInv
<1>1. FlagTyped
  BY FlagTypeIsTyped
<1>2. {} \in SUBSET Bit /\ bits[flagOf(g)] \in SUBSET Bit
  BY <1>1 DEF FlagTyped, FlagCaller, flagOf
<1>3. PICK from \in FlagPlace, to \in FlagPlace, read \in SUBSET Bit :
        /\ from \in {"signal", "test", "asleep", "matched", "out"}
        /\ to \in {"idle", "asleep", "test", "out", "matched"}
        /\ to = "matched" => waitOf(g).clear = "none"
        /\ to = "asleep" => flagTestFails(g)
        /\ from = "signal" => setSignal(g)
        /\ continues(g, from, to, read)
  BY <1>2, FlagPlaces
  DEF setSignal, flagTestFails, flagWoken, flagTimeout, waitKeeps, waitReturns,
      flagMatches
<1>4. UNCHANGED <<bits, granted, grantedTwice, bitsTorn>>
  BY DEF setSignal, flagTestFails, flagWoken, flagTimeout, waitKeeps,
         waitReturns, flagMatches, flagHistory
<1>5. flagEvent' \in BOOLEAN /\ robbed' \subseteq Guest
  BY <1>1
  DEF setSignal, flagTestFails, flagWoken, flagTimeout, waitKeeps, waitReturns,
      flagMatches, signal, waitAny, FlagTyped
<1>6. /\ flagThread[g].at = from /\ flagThread'[g].at = to
      /\ to # "idle" =>
           /\ flagThread'[g].flag = flagThread[g].flag
           /\ flagThread'[g].wait = flagThread[g].wait
      /\ \A h \in Guest \ {g} : flagThread'[h] = flagThread[h]
      /\ flagThread' \in [Guest -> FlagCaller]
      /\ UNCHANGED <<flagExists, flagCalls>>
  BY <1>1, <1>3, ContinuesMoves
<1>7. FlagTyped'
  BY <1>1, <1>4, <1>5, <1>6 DEF FlagTyped
<1>8. \A f : ~ updates(g, f)'
  BY <1>3, <1>6 DEF updates, waitOf
<1>9. flagThread[g].at # "waitClearWrite"
  BY <1>3, <1>6
<1>10. ~ bitsTorn => Quiet'
  BY <1>4, <1>6, <1>8, <1>9, OutsideKeepsQuiet DEF Quiet
<1>11. FlagMissedOnlyWhenRobbed'
  <2>1. CASE bitsTorn
    BY <1>4, <2>1 DEF FlagMissedOnlyWhenRobbed
  <2>2. CASE ~ bitsTorn /\ setSignal(g)
    BY <2>2 DEF setSignal, signal, FlagMissedOnlyWhenRobbed
  <2>3. CASE ~ bitsTorn /\ flagWoken(g)
    <3>1. /\ flagThread[g].at = "asleep" /\ flagThread'[g].at = "test"
          /\ robbed' = {h \in Guest \ {g} : flagThread[h].at = "asleep"}
      BY <1>1, <2>3, <1>2, FlagPlaces, ContinuesMoves DEF flagWoken
    <3> QED
      BY <1>6, <3>1 DEF FlagMissedOnlyWhenRobbed
  <2>4. CASE ~ bitsTorn /\ flagTestFails(g)
    <3>1. /\ ~ checkEventFlag(bits[flagOf(g)], waitOf(g))
          /\ UNCHANGED <<flagEvent, robbed>>
          /\ flagThread[g].at = "test" /\ flagThread'[g].at = "asleep"
          /\ flagThread'[g].flag = flagThread[g].flag
          /\ flagThread'[g].wait = flagThread[g].wait
      <4>1. /\ ~ checkEventFlag(bits[flagOf(g)], waitOf(g))
            /\ UNCHANGED <<flagEvent, robbed>>
            /\ continues(g, "test", "asleep", {})
        BY <2>4 DEF flagTestFails
      <4>2. "asleep" \in FlagPlace /\ "asleep" # "idle"
        BY FlagPlaces
      <4> QED
        BY <1>1, <1>2, <4>1, <4>2, ContinuesMoves
    <3> SUFFICES ASSUME NEW h \in Guest, flagThread'[h].at = "asleep",
                        checkEventFlag(bits[flagThread'[h].flag], flagThread'[h].wait),
                        ~ flagEvent
                 PROVE  h \in robbed \/ \E k \in Guest : flagThread'[k].at = "signal"
      BY <1>4, <3>1 DEF FlagMissedOnlyWhenRobbed, checkEventFlag, flagOf, waitOf
    <3>2. h # g
      BY <3>1 DEF flagOf, waitOf
    <3>3. h \in robbed \/ \E k \in Guest : flagThread[k].at = "signal"
      BY <1>6, <2>4, <3>2 DEF FlagMissedOnlyWhenRobbed, flagOf, waitOf
    <3> QED
      BY <1>6, <3>1, <3>3
  <2>5. CASE ~ bitsTorn /\ flagTimeout(g)
    <3>1. /\ flagThread[g].at = "asleep" /\ flagThread'[g].at = "idle"
          /\ robbed' = robbed \ {g} /\ flagEvent' = flagEvent
      <4>1. /\ robbed' = robbed \ {g} /\ flagEvent' = flagEvent
            /\ continues(g, "asleep", "idle", {})
        BY <2>5 DEF flagTimeout
      <4>2. "idle" \in FlagPlace
        BY FlagPlaces
      <4> QED
        BY <1>1, <1>2, <4>1, <4>2, ContinuesMoves
    <3> SUFFICES ASSUME NEW h \in Guest, flagThread'[h].at = "asleep",
                        checkEventFlag(bits[flagThread'[h].flag], flagThread'[h].wait),
                        ~ flagEvent
                 PROVE  h \in robbed' \/ \E k \in Guest : flagThread'[k].at = "signal"
      BY <1>4, <3>1 DEF FlagMissedOnlyWhenRobbed, checkEventFlag, flagOf, waitOf
    <3>2. h # g
      BY <3>1
    <3>3. h \in robbed \/ \E k \in Guest : flagThread[k].at = "signal"
      BY <1>6, <2>5, <3>2 DEF FlagMissedOnlyWhenRobbed, flagOf, waitOf
    <3> QED
      BY <1>6, <3>1, <3>2, <3>3
  <2>6. CASE ~ bitsTorn /\ \/ waitKeeps(g) \/ waitReturns(g)
                           \/ flagMatches(g) /\ waitOf(g).clear = "none"
    <3>1. PICK old, new \in FlagPlace, value \in SUBSET Bit :
            /\ old \in {"matched", "out", "test"} /\ new \in {"out", "idle", "matched"}
            /\ continues(g, old, new, value)
      BY <1>2, <2>6, FlagPlaces DEF waitKeeps, waitReturns, flagMatches
    <3>2. flagThread[g].at = old /\ flagThread'[g].at = new
      BY <1>1, <3>1, ContinuesMoves
    <3>3. flagThread[g].at # "signal" /\ flagThread'[g].at # "asleep"
      BY <3>1, <3>2
    <3>4. UNCHANGED <<flagEvent, robbed>>
      BY <2>6 DEF waitKeeps, waitReturns, flagMatches
    <3> QED
      BY <1>1, <1>4, <1>6, <2>6, <3>3, <3>4, MissedKeeps
  <2> QED
    BY <2>1, <2>2, <2>3, <2>4, <2>5, <2>6
<1> QED
  BY <1>4, <1>7, <1>10, <1>11, FlagTypeIsTyped DEF Quiet, OneWaitPerSet

\* The writes: the copy was the flag, and no other thread was updating it.
LEMMA WritePreserves ==
  ASSUME FlagInv, NEW g \in Guest, setWrite(g) \/ clearWrite(g) \/ waitClearWrite(g)
  PROVE  FlagInv'
<1> USE DEF FlagInv
<1>1. FlagTyped
  BY FlagTypeIsTyped
<1>2. PICK f \in Flag : f = flagOf(g)
  BY <1>1 DEF FlagTyped, FlagCaller, flagOf
<1>3. /\ flagThread[g].read \in SUBSET Bit /\ flagThread[g].bits \in SUBSET Bit
      /\ bits[f] \in SUBSET Bit /\ granted[f] \in SUBSET Bit
      /\ {} \in SUBSET Bit
  BY <1>1 DEF FlagTyped, FlagCaller
<1>4. PICK from \in FlagPlace, to \in FlagPlace :
        /\ from \in {"setWrite", "clearWrite", "waitClearWrite"}
        /\ to \in {"signal", "idle", "out"}
        /\ from = "setWrite" <=> setWrite(g)
        /\ from = "waitClearWrite" => waitClearWrite(g)
        /\ to = "signal" <=> from = "setWrite"
        /\ continues(g, from, to, {})
  <2>1. CASE setWrite(g)
    <3>1. continues(g, "setWrite", "signal", {})
      BY <2>1 DEF setWrite
    <3> QED
      BY <2>1, <3>1, FlagPlaces
  <2>2. CASE clearWrite(g)
    <3>1. continues(g, "clearWrite", "idle", {}) /\ ~ setWrite(g)
      BY <2>2 DEF clearWrite, setWrite, continues
    <3> QED
      BY <2>2, <3>1, FlagPlaces
  <2>3. CASE waitClearWrite(g)
    <3>1. continues(g, "waitClearWrite", "out", {}) /\ ~ setWrite(g)
      BY <2>3 DEF waitClearWrite, setWrite, continues
    <3> QED
      BY <2>3, <3>1, FlagPlaces
  <2> QED
    BY <2>1, <2>2, <2>3
<1>5. /\ flagThread[g].at = from /\ flagThread'[g].at = to
      /\ \A h \in Guest \ {g} : flagThread'[h] = flagThread[h]
      /\ flagThread' \in [Guest -> FlagCaller]
      /\ UNCHANGED <<flagExists, flagCalls>>
  BY <1>1, <1>3, <1>4, ContinuesMoves
<1>6. PICK value \in SUBSET Bit :
        /\ bits' = [bits EXCEPT ![f] = value]
        /\ from # "setWrite" => value \subseteq flagThread[g].read
        /\ from = "setWrite" =>
             value = flagThread[g].read \cup flagThread[g].bits
        /\ from = "waitClearWrite" =>
             \A b \in value :
               waitOf(g).clear # "all" /\ b \notin waitOf(g).pattern
  <2>1. CASE setWrite(g)
    BY <1>2, <1>3, <1>4, <2>1 DEF setWrite, writes
  <2>2. CASE clearWrite(g)
    <3>1. from = "clearWrite"
      BY <1>5, <2>2 DEF clearWrite, continues
    <3> QED
      BY <1>2, <1>3, <2>2, <3>1 DEF clearWrite, writes
  <2>3. CASE waitClearWrite(g)
    <3> DEFINE left == kept(flagThread[g].read, waitOf(g))
    <3>1. /\ left \in SUBSET Bit /\ left \subseteq flagThread[g].read
          /\ \A b \in left : waitOf(g).clear # "all" /\ b \notin waitOf(g).pattern
      BY <1>3 DEF kept
    <3>2. from = "waitClearWrite"
      BY <1>5, <2>3 DEF waitClearWrite, continues
    <3>3. bits' = [bits EXCEPT ![f] = left]
      BY <1>2, <2>3 DEF waitClearWrite, writes
    <3> HIDE DEF left
    <3> QED
      BY <3>1, <3>2, <3>3
  <2> QED
    BY <2>1, <2>2, <2>3
<1>7. /\ UNCHANGED <<flagEvent, robbed, grantedTwice, bitsTorn>>
      /\ from # "setWrite" => granted' = granted
      /\ from = "setWrite" =>
           granted' = [granted EXCEPT ![f] = @ \ flagThread[g].bits]
  BY <1>2, <1>4 DEF setWrite, clearWrite, waitClearWrite, flagHistory
<1>8. bits' \in [Flag -> SUBSET Bit] /\ granted' \in [Flag -> SUBSET Bit]
  BY <1>1, <1>3, <1>6, <1>7 DEF FlagTyped
<1>9. FlagTyped'
  BY <1>1, <1>5, <1>7, <1>8 DEF FlagTyped
<1>10. /\ bits'[f] = value /\ \A k \in Flag \ {f} : bits'[k] = bits[k]
       /\ \A k \in Flag \ {f} : granted'[k] = granted[k]
       /\ from # "setWrite" => granted'[f] = granted[f]
       /\ from = "setWrite" => granted'[f] = granted[f] \ flagThread[g].bits
  BY <1>1, <1>6, <1>7 DEF FlagTyped
<1>11. ASSUME ~ bitsTorn
       PROVE  Quiet' /\ flagThread[g].read = bits[f]
  <2>1. updates(g, f)
    BY <1>2, <1>4, <1>5 DEF updates, flagOf
  <2>2. \A h \in Guest \ {g} : ~ updates(h, f)
    BY <1>11, <2>1 DEF OneUpdater
  <2>3. flagThread[g].read = bits[f]
    BY <1>2, <1>11, <2>1 DEF ReadIsCurrent
  <2>4. \A k : ~ updates(g, k)'
    BY <1>4, <1>5 DEF updates
  <2>5. \A k : \A h \in Guest : updates(h, k)' => h # g /\ updates(h, k)
    BY <1>5, <2>4 DEF updates
  <2>6. OneUpdater'
    BY <1>11, <2>5 DEF OneUpdater
  <2>7. ReadIsCurrent'
    <3> SUFFICES ASSUME NEW h \in Guest, updates(h, flagOf(h))'
                 PROVE  flagThread'[h].read = bits'[flagThread'[h].flag]
      BY DEF ReadIsCurrent, flagOf
    <3>1. h # g /\ flagThread'[h] = flagThread[h]
      BY <1>5, <2>4 DEF updates, flagOf
    <3>2. updates(h, flagOf(h))
      BY <3>1 DEF updates, flagOf
    <3>3. flagOf(h) \in Flag /\ flagOf(h) # f
      BY <1>1, <2>2, <3>1, <3>2 DEF FlagTyped, FlagCaller, flagOf
    <3> QED
      BY <1>10, <1>11, <3>1, <3>2, <3>3 DEF ReadIsCurrent, flagOf
  <2>8. GrantedLeaves'
    <3> SUFFICES ASSUME NEW k \in Flag, NEW b \in granted'[k] \cap bits'[k]
                 PROVE  \E h \in Guest :
                          /\ flagThread'[h].at = "waitClearWrite"
                          /\ flagThread'[h].flag = k
                          /\ \/ flagThread'[h].wait.clear = "all"
                             \/ b \in flagThread'[h].wait.pattern
      BY DEF GrantedLeaves, flagOf, waitOf
    <3>1. b \in granted[k] \cap bits[k]
      BY <1>6, <1>10, <2>3
    <3>2. PICK h \in Guest :
            /\ flagThread[h].at = "waitClearWrite" /\ flagOf(h) = k
            /\ waitOf(h).clear = "all" \/ b \in waitOf(h).pattern
      BY <1>11, <3>1 DEF GrantedLeaves
    <3>3. h # g
      <4> SUFFICES ASSUME h = g
                   PROVE  FALSE
        OBVIOUS
      <4>1. k = f /\ from = "waitClearWrite" /\ b \in value
        BY <1>2, <1>5, <1>10, <3>2
      <4> QED
        BY <1>6, <3>2, <4>1
    <3> QED
      BY <1>5, <3>2, <3>3 DEF flagOf, waitOf
  <2> QED
    BY <2>3, <2>6, <2>7, <2>8 DEF Quiet
<1>12. FlagMissedOnlyWhenRobbed'
  <2>1. CASE bitsTorn
    BY <1>7, <2>1 DEF FlagMissedOnlyWhenRobbed
  <2>2. CASE from = "setWrite"
    BY <1>4, <1>5, <2>2 DEF FlagMissedOnlyWhenRobbed
  <2>3. CASE ~ bitsTorn /\ from # "setWrite"
    <3>1. \A k \in Flag : bits'[k] \subseteq bits[k]
      BY <1>6, <1>10, <1>11, <2>3
    <3>2. flagThread[g].at # "signal" /\ flagThread'[g].at # "asleep"
      BY <1>4, <1>5
    <3> QED
      BY <1>1, <1>5, <1>7, <2>3, <3>1, <3>2, MissedKeeps
  <2> QED
    BY <2>1, <2>2, <2>3
<1> QED
  BY <1>7, <1>9, <1>11, <1>12, FlagTypeIsTyped DEF Quiet, OneWaitPerSet

\* The bits a wait takes have been granted to nobody since they were set.
LEMMA GrantPreserves ==
  ASSUME FlagInv, NEW g \in Guest, waitClearRead(g)
  PROVE  FlagInv'
<1> USE DEF FlagInv
<1> DEFINE taken == waitOf(g).pattern \cap flagThread[g].read
<1>1. FlagTyped
  BY FlagTypeIsTyped
<1>2. PICK f \in Flag : f = flagOf(g)
  BY <1>1 DEF FlagTyped, FlagCaller, flagOf
<1>3. /\ bits[f] \in SUBSET Bit /\ granted[f] \in SUBSET Bit
      /\ taken \in SUBSET Bit /\ taken \subseteq flagThread[g].read
      /\ taken \subseteq waitOf(g).pattern
  BY <1>1 DEF FlagTyped, FlagCaller
<1>4. /\ continues(g, "matched", "waitClearWrite", bits[f])
      /\ waitOf(g).clear # "none"
      /\ granted' = [granted EXCEPT ![f] = @ \cup taken]
      /\ grantedTwice' = (grantedTwice \/ taken \cap granted[f] # {})
      /\ UNCHANGED <<bits, flagEvent, robbed, bitsTorn>>
  BY <1>2 DEF waitClearRead, grants
<1> HIDE DEF taken
<1>5. /\ flagThread[g].at = "matched" /\ flagThread'[g].at = "waitClearWrite"
      /\ flagThread'[g].flag = flagThread[g].flag
      /\ flagThread'[g].wait = flagThread[g].wait
      /\ flagThread'[g].read = bits[f]
      /\ \A h \in Guest \ {g} : flagThread'[h] = flagThread[h]
      /\ flagThread' \in [Guest -> FlagCaller]
      /\ UNCHANGED <<flagExists, flagCalls>>
  <2>1. "waitClearWrite" \in FlagPlace /\ "waitClearWrite" # "idle"
    BY FlagPlaces
  <2> QED
    BY <1>1, <1>3, <1>4, <2>1, ContinuesMoves
<1>6. granted' \in [Flag -> SUBSET Bit] /\ granted'[f] = granted[f] \cup taken
      /\ \A k \in Flag \ {f} : granted'[k] = granted[k]
  BY <1>1, <1>3, <1>4 DEF FlagTyped
<1>7. FlagTyped'
  BY <1>1, <1>4, <1>5, <1>6 DEF FlagTyped
<1>8. ASSUME ~ bitsTorn
      PROVE  Quiet' /\ ~ grantedTwice'
  <2>1. updates(g, f)
    BY <1>2, <1>4, <1>5 DEF updates, flagOf, waitOf
  <2>2. \A h \in Guest \ {g} : ~ updates(h, f)
    BY <1>8, <2>1 DEF OneUpdater
  <2>3. flagThread[g].read = bits[f]
    BY <1>2, <1>8, <2>1 DEF ReadIsCurrent
  <2>4. \A k : \A h \in Guest : updates(h, k)' <=> updates(h, k)
    BY <1>2, <1>4, <1>5 DEF updates, flagOf, waitOf
  <2>5. OneUpdater'
    BY <1>8, <2>4 DEF OneUpdater
  <2>6. ReadIsCurrent'
    <3> SUFFICES ASSUME NEW h \in Guest, updates(h, flagOf(h))'
                 PROVE  flagThread'[h].read = bits'[flagThread'[h].flag]
      BY DEF ReadIsCurrent, flagOf
    <3>1. CASE h = g
      BY <1>2, <1>4, <1>5, <3>1 DEF flagOf
    <3>2. CASE h # g
      <4>1. flagThread'[h] = flagThread[h] /\ updates(h, flagOf(h))
        BY <1>5, <3>2 DEF updates, flagOf
      <4> QED
        BY <1>4, <1>8, <4>1 DEF ReadIsCurrent, flagOf
    <3> QED
      BY <3>1, <3>2
  <2>7. granted[f] \cap bits[f] = {}
    <3> SUFFICES ASSUME NEW b \in granted[f] \cap bits[f]
                 PROVE  FALSE
      OBVIOUS
    <3>1. PICK h \in Guest : flagThread[h].at = "waitClearWrite" /\ flagOf(h) = f
      BY <1>8 DEF GrantedLeaves
    <3>2. h # g /\ updates(h, f)
      BY <1>5, <3>1 DEF updates, flagOf
    <3> QED
      BY <2>2, <3>2
  <2>8. ~ grantedTwice'
    BY <1>3, <1>4, <1>8, <2>3, <2>7 DEF OneWaitPerSet
  <2>9. GrantedLeaves'
    <3> SUFFICES ASSUME NEW k \in Flag, NEW b \in granted'[k] \cap bits'[k]
                 PROVE  \E h \in Guest :
                          /\ flagThread'[h].at = "waitClearWrite"
                          /\ flagThread'[h].flag = k
                          /\ \/ flagThread'[h].wait.clear = "all"
                             \/ b \in flagThread'[h].wait.pattern
      BY DEF GrantedLeaves, flagOf, waitOf
    <3>1. CASE k = f
      <4>1. b \in taken
        BY <1>4, <1>6, <2>7, <3>1
      <4>2. b \in flagThread'[g].wait.pattern /\ flagThread'[g].flag = k
        BY <1>2, <1>3, <1>5, <3>1, <4>1 DEF waitOf, flagOf
      <4> QED
        BY <1>5, <4>2
    <3>2. CASE k # f
      <4>1. PICK h \in Guest :
              /\ flagThread[h].at = "waitClearWrite" /\ flagOf(h) = k
              /\ waitOf(h).clear = "all" \/ b \in waitOf(h).pattern
        BY <1>4, <1>6, <1>8, <3>2 DEF GrantedLeaves
      <4>2. h # g
        BY <1>5, <4>1
      <4> QED
        BY <1>5, <4>1, <4>2 DEF flagOf, waitOf
    <3> QED
      BY <3>1, <3>2
  <2> QED
    BY <2>5, <2>6, <2>8, <2>9 DEF Quiet
<1>9. FlagMissedOnlyWhenRobbed'
  <2>1. CASE bitsTorn
    BY <1>4, <2>1 DEF FlagMissedOnlyWhenRobbed
  <2>2. CASE ~ bitsTorn
    BY <1>1, <1>4, <1>5, <2>2, MissedKeeps
  <2> QED
    BY <2>1, <2>2
<1> QED
  BY <1>4, <1>7, <1>8, <1>9, FlagTypeIsTyped DEF Quiet, OneWaitPerSet

LEMMA FlagInductive == FlagInv /\ [FlagNext]_flagVars => FlagInv'
<1>1. ASSUME FlagInv, NEW g \in Guest, NEW f \in Flag, NEW b \in Masks,
             sceKernelSetEventFlag(g, f, b) \/ sceKernelClearEventFlag(g, f, b)
      PROVE  FlagInv'
  <2>1. AnyWait \in Waits /\ b \in SUBSET Bit
    BY EventFlagAssumption DEF AnyWait
  <2>2. CASE sceKernelSetEventFlag(g, f, b)
    BY <1>1, <2>1, <2>2, FlagCallPreserves, FlagPlaces DEF sceKernelSetEventFlag
  <2>3. CASE sceKernelClearEventFlag(g, f, b)
    BY <1>1, <2>1, <2>3, FlagCallPreserves, FlagPlaces DEF sceKernelClearEventFlag
  <2> QED
    BY <1>1, <2>2, <2>3
<1>2. ASSUME FlagInv, NEW g \in Guest, NEW f \in Flag, NEW wait \in Waits,
             sceKernelWaitEventFlag(g, f, wait)
      PROVE  FlagInv'
  BY <1>2, FlagCallPreserves, FlagPlaces DEF sceKernelWaitEventFlag
<1>3. ASSUME FlagInv, NEW f \in Flag, sceKernelDeleteEventFlag(f)
      PROVE  FlagInv'
  <2>1. FlagTyped'
    BY <1>3, FlagTypeIsTyped, EventFlagAssumption
    DEF FlagInv, FlagTyped, sceKernelDeleteEventFlag, flagHistory
  <2>2. UNCHANGED <<bits, flagEvent, flagThread, robbed, granted, grantedTwice,
                    bitsTorn>>
    BY <1>3 DEF sceKernelDeleteEventFlag, flagHistory
  <2> QED
    BY <1>3, <2>1, <2>2, FlagTypeIsTyped
    DEF FlagInv, OneUpdater, ReadIsCurrent, GrantedLeaves, OneWaitPerSet,
        FlagMissedOnlyWhenRobbed, updates, flagOf, waitOf, checkEventFlag
<1>4. ASSUME FlagInv, NEW g \in Guest, FlagStep(g)
      PROVE  FlagInv'
  BY <1>4, UpdateBeginPreserves, OutsidePreserves, WritePreserves, GrantPreserves
  DEF FlagStep
<1>5. ASSUME FlagInv, UNCHANGED flagVars
      PROVE  FlagInv'
  BY <1>5
  DEF flagVars, FlagInv, FlagTypeOK, OneUpdater, ReadIsCurrent, GrantedLeaves,
      OneWaitPerSet, FlagMissedOnlyWhenRobbed, updates, flagOf, waitOf,
      checkEventFlag
<1> QED
  BY <1>1, <1>2, <1>3, <1>4, <1>5 DEF FlagNext

(***************************************************************************)
(* FlagInv is an invariant of the calls on event flags: while no update of *)
(* the bits overwrote another, one thread at most updates a flag, what it  *)
(* read is current, and bits that a wait was granted leave the flag with   *)
(* it.                                                                     *)
(***************************************************************************)
THEOREM FlagInvariant == FlagSpec => []FlagInv
BY FlagInitEstablishes, FlagInductive, PTL DEF FlagSpec

(***************************************************************************)
(* setBits never signals before the bits are there and clearBits never     *)
(* completes a pattern: a thread sleeps on a flag that matches only when   *)
(* the one signal of all flags woke another, or an update was lost.        *)
(***************************************************************************)
THEOREM FlagSignalsAreOnlyTaken == FlagSpec => []FlagMissedOnlyWhenRobbed
<1>1. FlagInv => FlagMissedOnlyWhenRobbed
  BY DEF FlagInv
<1> QED
  BY <1>1, FlagInvariant, PTL

(***************************************************************************)
(* One setting of a bit satisfies one of the waits that clear it, unless   *)
(* two threads were updating the flag at once.                             *)
(***************************************************************************)
THEOREM OneWaitIsSatisfied == FlagSpec => []OneWaitPerSet
<1>1. FlagInv => OneWaitPerSet
  BY DEF FlagInv
<1> QED
  BY <1>1, FlagInvariant, PTL

-----------------------------------------------------------------------------
(* Semaphores. *)

\* As long as no two threads updated the count at once, there is one at most
\* that does.
OneUpdates == ~ overlapped => \A g, h \in Updating : g = h

\* What it read of the count is the count, and what it tested still holds.
UpdateIsCurrent ==
  ~ overlapped =>
    \A g \in Guest :
      /\ sema[g].at \in {"incrementWrite", "takeWrite"} =>
           sema[g].read = currentCount
      /\ sema[g].at \in {"take", "takeWrite"} => currentCount >= sema[g].n

\* While no argument made no sense: a thread that saw enough permits, and whose
\* copy of the count may be old, still takes the count no higher.
Sensible ==
  ~ unchecked =>
    /\ 0 <= maxCount /\ currentCount <= maxCount
    /\ \A g \in Guest :
         /\ sema[g].n >= 0
         /\ sema[g].at = "takeWrite" => sema[g].read <= maxCount

SemaInv ==
  /\ SemaTypeOK
  /\ Sensible
  /\ OneUpdates
  /\ UpdateIsCurrent
  /\ PermitsConserved
  /\ SemaMissedOnlyWhenTaken

Place == {"idle", "increment", "incrementWrite", "signal", "enter", "enterWrite",
          "test", "asleep", "take", "takeWrite", "leave", "leaveWrite",
          "waiting?", "remove"}

LEMMA Places ==
  /\ {"idle", "increment", "incrementWrite", "signal", "enter", "enterWrite",
      "test", "asleep", "take", "takeWrite", "leave", "leaveWrite", "waiting?",
      "remove"} \subseteq Place
  /\ \A p \in Place :
       /\ p \in {"idle", "increment", "signal", "enter", "enterWrite", "test",
                "leave", "leaveWrite", "waiting?", "remove"} =>
            p \notin {"incrementWrite", "take", "takeWrite", "asleep"}
BY DEF Place

Caller ==
  [at : Place, call : {"none", "signal", "wait", "poll", "delete"},
   n : Int, timed : BOOLEAN, read : Int]

\* The type invariant with the type of the threads by its name, which the
\* provers need not open.
SemaTyped ==
  /\ sema \in [Guest -> Caller]
  /\ currentCount \in Int /\ numWaitThreads \in Int
  /\ semaEvent \in BOOLEAN /\ semaExists \in BOOLEAN
  /\ semaCalls \in 0 .. MaxSemaCalls
  /\ missed \subseteq Guest /\ holders \subseteq Guest
  /\ held \in Int
  /\ overlapped \in BOOLEAN /\ waitersTorn \in BOOLEAN /\ unchecked \in BOOLEAN

LEMMA TypeIsTyped == (SemaTypeOK <=> SemaTyped) /\ (SemaTypeOK' <=> SemaTyped')
BY DEF SemaTypeOK, SemaTyped, Caller, Place

LEMMA IdleIsCaller == Idle \in Caller
BY SemaphoreAssumption DEF Idle, Caller, Place

\* A thread that goes on inside its call moves only itself.
LEMMA ReadsMoves ==
  ASSUME SemaTypeOK, NEW g \in Guest, NEW from, NEW to \in Place,
         NEW counter \in Int, reads(g, from, to, counter)
  PROVE  /\ sema[g].at = from
         /\ sema' \in [Guest -> Caller]
         /\ sema'[g].at = to
         /\ to # "idle" => sema'[g].n = sema[g].n /\ sema'[g].read = counter
         /\ sema'[g].n \in {0, sema[g].n}
         /\ \A h \in Guest \ {g} : sema'[h] = sema[h]
         /\ semaCalls' = semaCalls
<1>1. Idle \in Caller /\ Idle.at = "idle" /\ Idle.n = 0
  BY IdleIsCaller DEF Idle
<1>2. sema \in [Guest -> Caller]
  BY TypeIsTyped DEF SemaTyped
<1> QED
  BY <1>1, <1>2 DEF reads, Caller

\* What is sensible stays so when a thread goes on and the count is in its bounds.
LEMMA SensibleStays ==
  ASSUME SemaTypeOK, Sensible, NEW g \in Guest, unchecked' = unchecked,
         sema'[g].n \in {0, sema[g].n},
         \A h \in Guest \ {g} : sema'[h] = sema[h],
         ~ unchecked /\ 0 <= maxCount => currentCount' <= maxCount,
         ~ unchecked /\ sema'[g].at = "takeWrite" => sema'[g].read <= maxCount
  PROVE  Sensible'
<1>1. \A h \in Guest : sema[h].n \in Int
  BY DEF SemaTypeOK
<1> QED
  BY <1>1 DEF Sensible

LEMMA SemaInitEstablishes == SemaInit => SemaInv
<1> SUFFICES ASSUME SemaInit
             PROVE  SemaInv
  OBVIOUS
<1> USE DEF SemaInit
<1>1. \A g \in Guest : sema[g].at = "idle"
  BY DEF Idle
<1>2. SemaTypeOK
  <2>1. sema \in [Guest -> Caller]
    BY IdleIsCaller
  <2>2. initCount \in Int /\ MaxSemaCalls \in Nat
    BY SemaphoreAssumption
  <2>3. /\ currentCount \in Int /\ numWaitThreads \in Int
        /\ semaCalls \in 0 .. MaxSemaCalls /\ held \in Int
    BY <2>2
  <2>4. /\ semaEvent \in BOOLEAN /\ semaExists \in BOOLEAN
        /\ overlapped \in BOOLEAN /\ waitersTorn \in BOOLEAN
        /\ unchecked \in BOOLEAN
        /\ missed \subseteq Guest /\ holders \subseteq Guest
    OBVIOUS
  <2> HIDE DEF SemaInit
  <2>5. SemaTyped
    BY <2>1, <2>3, <2>4 DEF SemaTyped
  <2> QED
    BY <2>5, TypeIsTyped
<1>3. OneUpdates /\ UpdateIsCurrent /\ SemaMissedOnlyWhenTaken
  BY <1>1 DEF OneUpdates, UpdateIsCurrent, SemaMissedOnlyWhenTaken, Updating
<1>4. ~ unchecked => 0 <= currentCount /\ currentCount <= maxCount
  <2>1. ~ unchecked => initCount \in 0 .. maxCount
    BY Zenon
  <2>2. currentCount = initCount
    OBVIOUS
  <2> QED
    BY <2>1, <2>2, SemaphoreAssumption
<1>5. PermitsConserved
  BY <1>4, SemaphoreAssumption DEF PermitsConserved
<1>6. Sensible
  <2>1. \A g \in Guest : sema[g].n = 0
    BY DEF Idle
  <2> QED
    BY <1>1, <1>4, <2>1, SemaphoreAssumption DEF Sensible
<1> QED
  BY <1>2, <1>3, <1>5, <1>6 DEF SemaInv

-----------------------------------------------------------------------------
(* The calls, and the steps that change neither the count nor the event. *)

LEMMA CallPreserves ==
  ASSUME SemaInv, NEW g \in Guest, NEW n \in Int, NEW timed \in BOOLEAN,
         NEW call \in {"signal", "wait", "poll", "delete"},
         NEW to \in {"increment", "enter", "test", "waiting?"},
         calls(g, call, n, timed, to), UNCHANGED holders,
         semaCalls' \in 0 .. MaxSemaCalls, unchecked' \in BOOLEAN,
         ~ unchecked' => ~ unchecked /\ n >= 0
  PROVE  SemaInv'
<1> USE DEF SemaInv, calls, semaCounters
<1>1. /\ sema'[g].at = to /\ sema'[g].n = n
      /\ \A h \in Guest \ {g} : sema'[h] = sema[h]
  BY DEF SemaTypeOK
<1>2. SemaTypeOK'
  BY SemaphoreAssumption DEF SemaTypeOK
<1>3. OneUpdates'
  BY <1>1 DEF OneUpdates, Updating
<1>4. UpdateIsCurrent'
  BY <1>1 DEF UpdateIsCurrent
<1>5. PermitsConserved'
  BY DEF PermitsConserved
<1>6. SemaMissedOnlyWhenTaken'
  BY <1>1 DEF SemaMissedOnlyWhenTaken, notEnough, Idle
<1>7. Sensible'
  BY <1>1 DEF Sensible
<1> QED
  BY <1>2, <1>3, <1>4, <1>5, <1>6, <1>7

\* A thread that neither begins nor ends an update, nor falls asleep, nor signals.
LEMMA PassPreserves ==
  ASSUME SemaInv, NEW g \in Guest, NEW from \in Place, NEW to \in Place,
         NEW counter \in Int, reads(g, from, to, counter),
         from \notin {"incrementWrite", "take", "takeWrite", "signal"},
         to \notin {"incrementWrite", "take", "takeWrite", "asleep"},
         UNCHANGED <<currentCount, semaEvent, missed, held, holders, overlapped,
                     unchecked>>,
         numWaitThreads' \in Int, semaExists' \in BOOLEAN, waitersTorn' \in BOOLEAN
  PROVE  SemaInv'
<1> USE DEF SemaInv
<1>1. /\ sema[g].at = from /\ sema'[g].at = to
      /\ \A h \in Guest \ {g} : sema'[h] = sema[h]
      /\ sema' \in [Guest -> Caller] /\ semaCalls' = semaCalls
      /\ sema'[g].n \in {0, sema[g].n}
  BY ReadsMoves
<1>2. SemaTypeOK'
  BY <1>1, TypeIsTyped DEF SemaTyped
<1>3. OneUpdates'
  BY <1>1 DEF OneUpdates, Updating
<1>4. UpdateIsCurrent'
  BY <1>1 DEF UpdateIsCurrent
<1>5. PermitsConserved'
  BY DEF PermitsConserved
<1>6. SemaMissedOnlyWhenTaken'
  BY <1>1 DEF SemaMissedOnlyWhenTaken, notEnough
<1>7. Sensible'
  <2>1. sema'[g].at = "takeWrite" => sema'[g].read <= maxCount
    BY <1>1 DEF Sensible
  <2>2. ~ unchecked /\ 0 <= maxCount => currentCount' <= maxCount
    BY DEF Sensible
  <2> QED
    BY <1>1, <2>1, <2>2, SensibleStays
<1> QED
  BY <1>2, <1>3, <1>4, <1>5, <1>6, <1>7

LEMMA WaitersPreserves ==
  ASSUME SemaInv, NEW g \in Guest,
         enterRead(g) \/ enterWrite(g) \/ leaveRead(g) \/ leaveWrite(g),
         UNCHANGED holders
  PROVE  SemaInv'
<1>1. SemaTypeOK
  BY DEF SemaInv
<1>2. /\ numWaitThreads \in Int /\ sema[g].read \in Int
      /\ semaExists \in BOOLEAN /\ waitersTorn \in BOOLEAN
  BY <1>1 DEF SemaTypeOK
<1>3. CASE enterRead(g)
  BY <1>2, <1>3, PassPreserves, Places
  DEF enterRead, readWaiters, semaCounters, semaHistory
<1>4. CASE enterWrite(g)
  BY <1>2, <1>4, PassPreserves, Places DEF enterWrite, writeWaiters, moves
<1>5. CASE leaveRead(g)
  BY <1>2, <1>5, PassPreserves, Places
  DEF leaveRead, readWaiters, semaCounters, semaHistory
<1>6. CASE leaveWrite(g)
  BY <1>2, <1>6, PassPreserves, Places DEF leaveWrite, writeWaiters, moves
<1> QED
  BY <1>3, <1>4, <1>5, <1>6

LEMMA DeletePreserves ==
  ASSUME SemaInv, NEW g \in Guest, deleteTest(g) \/ deleteRemove(g), UNCHANGED holders
  PROVE  SemaInv'
<1>1. numWaitThreads \in Int /\ semaExists \in BOOLEAN /\ waitersTorn \in BOOLEAN
  BY DEF SemaInv, SemaTypeOK
<1>2. CASE deleteTest(g)
  <2> DEFINE to == IF numWaitThreads > 0 THEN "increment" ELSE "remove"
  <2>1. to \in Place \ {"incrementWrite", "take", "takeWrite", "asleep"}
    BY DEF Place
  <2>2. reads(g, "waiting?", to, 0)
    BY <1>2 DEF deleteTest, moves
  <2> HIDE DEF to
  <2> QED
    BY <1>1, <1>2, <2>1, <2>2, PassPreserves, Places
    DEF deleteTest, semaCounters, semaHistory
<1>3. CASE deleteRemove(g)
  <2>1. /\ reads(g, "remove", "idle", 0)
        /\ UNCHANGED <<currentCount, semaEvent, missed, held, holders, overlapped,
                       unchecked>>
        /\ numWaitThreads' \in Int /\ semaExists' \in BOOLEAN
        /\ waitersTorn' \in BOOLEAN
    BY <1>1, <1>3 DEF deleteRemove, moves, semaHistory
  <2> QED
    BY <2>1, PassPreserves, Places
<1> QED
  BY <1>2, <1>3

-----------------------------------------------------------------------------
(* PspSemaphore.incrementCount. *)

\* Entering an update: nobody else is in one, or the overlap is on record.
LEMMA EnterUpdatePreserves ==
  ASSUME SemaInv, NEW g \in Guest, incrementRead(g) \/ testSucceeds(g), UNCHANGED holders
  PROVE  SemaInv'
<1> USE DEF SemaInv
<1>1. currentCount \in Int
  BY DEF SemaTypeOK
<1>2. PICK to \in {"incrementWrite", "take"}, from \in {"increment", "test"},
           counter \in Int :
        /\ reads(g, from, to, counter)
        /\ to = "incrementWrite" => counter = currentCount
        /\ to = "take" => currentCount >= sema[g].n
  BY <1>1 DEF incrementRead, testSucceeds, moves, notEnough, SemaTypeOK
<1>3. /\ UNCHANGED <<currentCount, numWaitThreads, semaEvent, semaExists,
                     missed, held, holders, waitersTorn, unchecked>>
      /\ overlapped' = (overlapped \/ Updating \ {g} # {})
  BY DEF incrementRead, testSucceeds, semaCounters, entersUpdate
<1>4. /\ to \in Place /\ to # "idle"
  BY <1>2, Places
<1>5. /\ sema[g].at = from /\ sema'[g].at = to
      /\ sema'[g].n = sema[g].n /\ sema'[g].read = counter
      /\ \A h \in Guest \ {g} : sema'[h] = sema[h]
      /\ sema' \in [Guest -> Caller] /\ semaCalls' = semaCalls
  BY <1>2, <1>4, ReadsMoves
<1>6. SemaTypeOK'
  BY <1>3, <1>5, TypeIsTyped DEF SemaTyped
<1>7. OneUpdates'
  BY <1>3, <1>5 DEF OneUpdates, Updating
<1>8. UpdateIsCurrent'
  BY <1>2, <1>3, <1>5 DEF UpdateIsCurrent
<1>9. PermitsConserved'
  BY <1>3 DEF PermitsConserved
<1>10. SemaMissedOnlyWhenTaken'
  BY <1>2, <1>3, <1>5 DEF SemaMissedOnlyWhenTaken, notEnough
<1>11. Sensible'
  BY <1>2, <1>3, <1>5, SensibleStays DEF Sensible
<1> QED
  BY <1>6, <1>7, <1>8, <1>9, <1>10, <1>11

LEMMA IncrementWritePreserves ==
  ASSUME SemaInv, NEW g \in Guest, incrementWrite(g), UNCHANGED holders
  PROVE  SemaInv'
<1> USE DEF SemaInv
<1> DEFINE count == incremented(sema[g].read, sema[g].n)
<1>1. /\ sema[g].read \in Int /\ sema[g].n \in Int
      /\ currentCount \in Int /\ held \in Int
      /\ overlapped \in BOOLEAN
  BY DEF SemaTypeOK
<1>2. /\ count \in Int /\ count <= maxCount
      /\ 0 <= maxCount /\ 0 <= sema[g].read /\ 0 <= sema[g].n => 0 <= count
  BY <1>1, SemaphoreAssumption DEF incremented
<1>3. /\ currentCount' = count
      /\ held' = IF overlapped THEN held ELSE held - (count - sema[g].read)
      /\ UNCHANGED <<numWaitThreads, semaEvent, semaExists, missed, holders,
                     overlapped, waitersTorn, unchecked>>
      /\ reads(g, "incrementWrite", "signal", 0)
  BY DEF incrementWrite, moves
<1> HIDE DEF count
<1>4. /\ sema[g].at = "incrementWrite" /\ sema'[g].at = "signal"
      /\ \A h \in Guest \ {g} : sema'[h] = sema[h]
      /\ sema' \in [Guest -> Caller] /\ semaCalls' = semaCalls
      /\ sema'[g].n \in {0, sema[g].n}
  BY <1>3, ReadsMoves, Places
<1>5. SemaTypeOK'
  BY <1>1, <1>2, <1>3, <1>4, TypeIsTyped DEF SemaTyped
<1>6. OneUpdates'
  BY <1>3, <1>4 DEF OneUpdates, Updating
<1>7. ~ overlapped => \A h \in Guest \ {g} : h \notin Updating
  BY <1>4 DEF OneUpdates, Updating
<1>8. UpdateIsCurrent'
  BY <1>3, <1>4, <1>7 DEF UpdateIsCurrent, Updating
<1>9. ~ overlapped => sema[g].read = currentCount
  BY <1>4 DEF UpdateIsCurrent
<1>10. PermitsConserved'
  <2>1. ~ unchecked => 0 <= maxCount /\ 0 <= sema[g].n
    BY DEF Sensible
  <2>2. ~ overlapped => currentCount + held = initCount
    BY DEF PermitsConserved
  <2>3. ~ overlapped /\ ~ unchecked => currentCount >= 0
    BY DEF PermitsConserved
  <2>4. ~ overlapped => currentCount' + held' = initCount
    <3> SUFFICES ASSUME ~ overlapped
                 PROVE  currentCount' + held' = initCount
      OBVIOUS
    <3>1. currentCount' = count /\ held' = held - (count - currentCount)
      BY <1>3, <1>9
    <3> QED
      BY <1>1, <1>2, <2>2, <3>1
  <2>5. ~ overlapped /\ ~ unchecked => currentCount' >= 0
    BY <1>1, <1>2, <1>3, <1>9, <2>1, <2>3, SemaphoreAssumption
  <2>6. currentCount' <= maxCount
    BY <1>2, <1>3
  <2> QED
    BY <1>3, <2>4, <2>5, <2>6 DEF PermitsConserved
<1>11. SemaMissedOnlyWhenTaken'
  BY <1>3, <1>4 DEF SemaMissedOnlyWhenTaken
<1>12. Sensible'
  BY <1>2, <1>3, <1>4, SensibleStays
<1> QED
  BY <1>5, <1>6, <1>8, <1>10, <1>11, <1>12

LEMMA IncrementSignalPreserves ==
  ASSUME SemaInv, NEW g \in Guest, incrementSignal(g), UNCHANGED holders
  PROVE  SemaInv'
<1> USE DEF SemaInv
<1>1. PICK to \in {"waiting?", "idle"} : reads(g, "signal", to, 0)
  BY DEF incrementSignal, moves, afterSignal
<1>2. /\ semaEvent' = TRUE
      /\ UNCHANGED <<currentCount, numWaitThreads, semaExists, missed, held,
                     holders, overlapped, waitersTorn, unchecked>>
  BY DEF incrementSignal, signal, semaHistory
<1>3. to \in Place
  BY <1>1, Places
<1>4. /\ sema'[g].at = to
      /\ to # "idle" => sema'[g].n = sema[g].n
      /\ sema'[g].n \in {0, sema[g].n}
      /\ \A h \in Guest \ {g} : sema'[h] = sema[h]
      /\ sema' \in [Guest -> Caller] /\ semaCalls' = semaCalls
  BY <1>1, <1>3, ReadsMoves
<1>5. SemaTypeOK'
  BY <1>2, <1>4, TypeIsTyped DEF SemaTyped
<1>6. OneUpdates'
  BY <1>1, <1>2, <1>4 DEF OneUpdates, Updating
<1>7. UpdateIsCurrent'
  BY <1>1, <1>2, <1>4 DEF UpdateIsCurrent
<1>8. PermitsConserved'
  BY <1>2 DEF PermitsConserved
<1>9. SemaMissedOnlyWhenTaken'
  BY <1>2 DEF SemaMissedOnlyWhenTaken
<1>10. Sensible'
  BY <1>1, <1>2, <1>4, SensibleStays DEF Sensible
<1> QED
  BY <1>5, <1>6, <1>7, <1>8, <1>9, <1>10

-----------------------------------------------------------------------------
(* PspSemaphore.waitSignal. *)

\* Who falls asleep tested the count in the same step.
LEMMA TestFailsPreserves ==
  ASSUME SemaInv, NEW g \in Guest, testFails(g), UNCHANGED holders
  PROVE  SemaInv'
<1> USE DEF SemaInv
<1>1. PICK to \in Place : to \in {"asleep", "idle"} /\ reads(g, "test", to, 0)
  BY Places DEF testFails, moves
<1>2. /\ currentCount < sema[g].n
      /\ UNCHANGED <<currentCount, numWaitThreads, semaEvent, semaExists, missed,
                     held, holders, overlapped, waitersTorn, unchecked>>
  BY DEF testFails, notEnough, semaCounters, semaHistory
<1>4. /\ sema[g].at = "test" /\ sema'[g].at = to
      /\ to # "idle" => sema'[g].n = sema[g].n
      /\ sema'[g].n \in {0, sema[g].n}
      /\ \A h \in Guest \ {g} : sema'[h] = sema[h]
      /\ sema' \in [Guest -> Caller] /\ semaCalls' = semaCalls
  BY <1>1, ReadsMoves
<1>5. SemaTypeOK'
  BY <1>2, <1>4, TypeIsTyped DEF SemaTyped
<1>6. OneUpdates'
  BY <1>1, <1>2, <1>4 DEF OneUpdates, Updating
<1>7. UpdateIsCurrent'
  BY <1>1, <1>2, <1>4 DEF UpdateIsCurrent
<1>8. PermitsConserved'
  BY <1>2 DEF PermitsConserved
<1>9. SemaMissedOnlyWhenTaken'
  <2> SUFFICES ASSUME ~ overlapped, ~ unchecked, NEW h \in Guest, sema'[h].at = "asleep",
                      currentCount >= sema'[h].n, ~ semaEvent
               PROVE  h \in missed \/ \E k \in Guest : sema'[k].at = "signal"
    BY <1>2, <1>4, TypeIsTyped
    DEF SemaMissedOnlyWhenTaken, notEnough, SemaTyped, Caller
  <2>1. currentCount \in Int /\ sema[g].n \in Int /\ sema[h].n \in Int
    BY DEF SemaTypeOK
  <2>2. h # g
    BY <1>1, <1>2, <1>4, <2>1
  <2>3. sema'[h] = sema[h]
    BY <1>4, <2>2
  <2>4. h \in missed \/ \E k \in Guest : sema[k].at = "signal"
    BY <2>1, <2>3 DEF SemaMissedOnlyWhenTaken, notEnough
  <2>5. \A k \in Guest : sema[k].at = "signal" => sema'[k].at = "signal"
    BY <1>4
  <2> QED
    BY <2>4, <2>5
<1>10. Sensible'
  BY <1>1, <1>2, <1>4, SensibleStays DEF Sensible
<1> QED
  BY <1>5, <1>6, <1>7, <1>8, <1>9, <1>10

LEMMA WakePreserves ==
  ASSUME SemaInv, NEW g \in Guest, semaWoken(g) \/ semaTimeout(g), UNCHANGED holders
  PROVE  SemaInv'
<1> USE DEF SemaInv
<1>1. reads(g, "asleep", "test", 0)
  BY DEF semaWoken, semaTimeout, moves
<1>2. /\ sema[g].at = "asleep" /\ sema'[g].at = "test"
      /\ \A h \in Guest \ {g} : sema'[h] = sema[h]
      /\ sema'[g].n \in {0, sema[g].n}
      /\ UNCHANGED <<currentCount, numWaitThreads, semaExists, held, holders,
                     overlapped, waitersTorn, unchecked>>
  <2>1. UNCHANGED <<currentCount, numWaitThreads, semaExists, held, overlapped,
                    waitersTorn, unchecked>>
    BY DEF semaWoken, semaTimeout, semaCounters
  <2>2. "test" \in Place /\ "test" # "idle"
    BY Places
  <2> QED
    BY <1>1, <2>1, <2>2, ReadsMoves
<1>3. /\ missed' \subseteq Guest /\ semaEvent' \in BOOLEAN
      /\ \/ /\ semaEvent' = semaEvent
            /\ missed' = missed \ {g}
         \/ missed' = {h \in Guest \ {g} : sema[h].at = "asleep"}
  BY DEF semaWoken, semaTimeout, waitAny, semaCounters, SemaTypeOK
<1>4. SemaTypeOK'
  BY <1>1, <1>2, <1>3, ReadsMoves, Places, TypeIsTyped DEF SemaTyped
<1>5. OneUpdates'
  BY <1>2 DEF OneUpdates, Updating
<1>6. UpdateIsCurrent'
  BY <1>2 DEF UpdateIsCurrent
<1>7. PermitsConserved'
  BY <1>2 DEF PermitsConserved
<1>8. SemaMissedOnlyWhenTaken'
  BY <1>2, <1>3 DEF SemaMissedOnlyWhenTaken, notEnough
<1>9. Sensible'
  BY <1>2, SensibleStays DEF Sensible
<1> QED
  BY <1>4, <1>5, <1>6, <1>7, <1>8, <1>9

\* The second read of the count, of the `currentCount -= n'.
LEMMA TakeReadPreserves ==
  ASSUME SemaInv, NEW g \in Guest, takeRead(g), UNCHANGED holders
  PROVE  SemaInv'
<1> USE DEF SemaInv
<1>1. currentCount \in Int /\ reads(g, "take", "takeWrite", currentCount)
  BY DEF SemaTypeOK, takeRead
<1>2. UNCHANGED <<currentCount, numWaitThreads, semaEvent, semaExists, missed,
                  held, holders, overlapped, waitersTorn, unchecked>>
  BY DEF takeRead, semaCounters, semaHistory
<1>3. /\ sema[g].at = "take" /\ sema'[g].at = "takeWrite"
      /\ sema'[g].n = sema[g].n /\ sema'[g].read = currentCount
      /\ \A h \in Guest \ {g} : sema'[h] = sema[h]
  BY <1>1, ReadsMoves, Places
<1>4. SemaTypeOK'
  BY <1>1, <1>2, ReadsMoves, Places, TypeIsTyped DEF SemaTyped
<1>5. OneUpdates'
  BY <1>2, <1>3 DEF OneUpdates, Updating
<1>6. UpdateIsCurrent'
  BY <1>2, <1>3 DEF UpdateIsCurrent
<1>7. PermitsConserved'
  BY <1>2 DEF PermitsConserved
<1>8. SemaMissedOnlyWhenTaken'
  BY <1>2, <1>3 DEF SemaMissedOnlyWhenTaken, notEnough
<1>9. Sensible'
  BY <1>2, <1>3, SensibleStays DEF Sensible
<1> QED
  BY <1>4, <1>5, <1>6, <1>7, <1>8, <1>9

\* The count falls, if what is taken makes sense: nobody asleep finds it enough
\* who did not before.
LEMMA TakeWritePreserves ==
  ASSUME SemaInv, NEW g \in Guest, takeWrite(g), UNCHANGED holders
  PROVE  SemaInv'
<1> USE DEF SemaInv
<1>1. PICK to \in {"idle", "leave"} : reads(g, "takeWrite", to, 0)
  BY DEF takeWrite, moves
<1>2. /\ sema[g].at = "takeWrite" /\ sema'[g].at = to
      /\ \A h \in Guest \ {g} : sema'[h] = sema[h]
      /\ sema' \in [Guest -> Caller] /\ semaCalls' = semaCalls
      /\ sema'[g].n \in {0, sema[g].n}
  <2>1. to \in Place
    BY <1>1, Places
  <2> QED
    BY <1>1, <2>1, ReadsMoves
<1>3. /\ currentCount' = sema[g].read - sema[g].n
      /\ held' = IF overlapped THEN held ELSE held + sema[g].n
      /\ UNCHANGED <<numWaitThreads, semaEvent, semaExists, missed, overlapped,
                     waitersTorn, unchecked>>
  BY DEF takeWrite
<1>4. /\ sema[g].read \in Int /\ sema[g].n \in Int
      /\ currentCount \in Int /\ held \in Int
      /\ \A h \in Guest : sema[h].n \in Int
  BY DEF SemaTypeOK
<1>5. SemaTypeOK'
  BY <1>2, <1>3, <1>4, TypeIsTyped DEF SemaTyped
<1>6. OneUpdates'
  BY <1>2, <1>3 DEF OneUpdates, Updating
<1>7. ~ overlapped => \A h \in Guest \ {g} : h \notin Updating
  BY <1>2 DEF OneUpdates, Updating
<1>8. UpdateIsCurrent'
  BY <1>2, <1>3, <1>7 DEF UpdateIsCurrent, Updating
<1>9. ~ overlapped => sema[g].read = currentCount /\ currentCount >= sema[g].n
  BY <1>2 DEF UpdateIsCurrent
<1>10. ~ unchecked => currentCount' <= maxCount /\ sema[g].n >= 0
  BY <1>2, <1>3, <1>4, SemaphoreAssumption DEF Sensible
<1>11. ~ overlapped /\ ~ unchecked =>
         currentCount' <= currentCount /\ currentCount' \in Int
  BY <1>3, <1>4, <1>9, <1>10, SemaphoreAssumption
<1>13. PermitsConserved'
  BY <1>3, <1>4, <1>9, <1>10, SemaphoreAssumption DEF PermitsConserved
<1>14. Sensible'
  BY <1>1, <1>2, <1>3, <1>10, SensibleStays
<1>12. SemaMissedOnlyWhenTaken'
  BY <1>2, <1>3, <1>4, <1>11, SemaphoreAssumption
  DEF SemaMissedOnlyWhenTaken, notEnough
<1> QED
  BY <1>5, <1>6, <1>8, <1>12, <1>13, <1>14

-----------------------------------------------------------------------------

LEMMA SemaInductive == SemaInv /\ [SemaNext]_semaVars => SemaInv'
<1> SUFFICES ASSUME SemaInv, [SemaNext]_semaVars
             PROVE  SemaInv'
  OBVIOUS
<1>0. /\ Amounts \subseteq Int /\ maxCount \in Int
      /\ semaCalls \in 0 .. MaxSemaCalls /\ unchecked \in BOOLEAN
      /\ counted => semaCalls' \in 0 .. MaxSemaCalls
  BY SemaphoreAssumption DEF SemaInv, SemaTypeOK, counted
<1>1. ASSUME NEW g \in Guest, NEW n \in Amounts, sceKernelSignalSema(g, n),
             UNCHANGED holders
      PROVE  SemaInv'
  <2>1. calls(g, "signal", n, FALSE, "increment") /\ counted /\ n \in Int
    BY <1>0, <1>1 DEF sceKernelSignalSema
  <2>2. unchecked' \in BOOLEAN /\ (~ unchecked' => ~ unchecked /\ n >= 0)
    <3>1. unchecked' = (unchecked \/ n < 0)
      BY <1>1 DEF sceKernelSignalSema
    <3>2. ~ unchecked' => ~ unchecked /\ ~ n < 0
      BY <3>1, Zenon
    <3>3. unchecked' \in BOOLEAN
      BY <3>1, Zenon
    <3> QED
      BY <2>1, <3>2, <3>3
  <2> QED
    BY <1>0, <1>1, <2>1, <2>2, CallPreserves
<1>2. ASSUME NEW g \in Guest, NEW n \in Amounts, sceKernelPollSema(g, n),
             UNCHANGED holders
      PROVE  SemaInv'
  <2>1. /\ calls(g, "poll", n, FALSE, "test") /\ counted /\ n \in Int /\ n > 0
        /\ unchecked' = unchecked
    BY <1>0, <1>2 DEF sceKernelPollSema
  <2>2. n >= 0
    BY <2>1
  <2> QED
    BY <1>0, <1>2, <2>1, <2>2, CallPreserves
<1>3. ASSUME NEW g \in Guest, NEW n \in Amounts, NEW timed \in BOOLEAN,
             sceKernelWaitSema(g, n, timed), UNCHANGED holders
      PROVE  SemaInv'
  <2>1. /\ calls(g, "wait", n, timed, "enter") /\ n \in Int
        /\ semaCalls' \in 0 .. MaxSemaCalls
    BY <1>0, <1>3 DEF sceKernelWaitSema
  <2>2. unchecked' \in BOOLEAN /\ (~ unchecked' => ~ unchecked /\ n >= 0)
    <3>1. unchecked' = (unchecked \/ n < 0)
      BY <1>3 DEF sceKernelWaitSema
    <3>2. ~ unchecked' => ~ unchecked /\ ~ n < 0
      BY <3>1, Zenon
    <3>3. unchecked' \in BOOLEAN
      BY <3>1, Zenon
    <3> QED
      BY <2>1, <3>2, <3>3
  <2> QED
    BY <1>3, <2>1, <2>2, CallPreserves
<1>4. ASSUME NEW g \in Guest, sceKernelDeleteSema(g), UNCHANGED holders
      PROVE  SemaInv'
  <2>1. /\ calls(g, "delete", maxCount, FALSE, "waiting?")
        /\ unchecked' = unchecked /\ semaCalls' = semaCalls
    BY <1>4 DEF sceKernelDeleteSema
  <2>2. ~ unchecked => maxCount >= 0
    BY <1>0 DEF SemaInv, Sensible
  <2> QED
    BY <1>0, <1>4, <2>1, <2>2, CallPreserves
<1>5. ASSUME NEW g \in Guest, SemaStep(g), UNCHANGED holders
      PROVE  SemaInv'
  BY <1>5, EnterUpdatePreserves, IncrementWritePreserves,
     IncrementSignalPreserves, WaitersPreserves, TestFailsPreserves,
     WakePreserves, TakeReadPreserves, TakeWritePreserves, DeletePreserves
  DEF SemaStep
<1>6. CASE UNCHANGED semaVars
  BY <1>6
  DEF semaVars, semaCounters, semaHistory, SemaInv, SemaTypeOK, Sensible,
      OneUpdates, UpdateIsCurrent, PermitsConserved, SemaMissedOnlyWhenTaken,
      Updating, notEnough
<1> QED
  BY <1>1, <1>2, <1>3, <1>4, <1>5, <1>6 DEF SemaNext

(***************************************************************************)
(* SemaInv is an invariant of the calls on a semaphore: while no two       *)
(* threads were between test, read and write, one at most updates the      *)
(* count and what it tested still holds; while no argument was negative,   *)
(* an old copy of the count does not pass maxCount either.                 *)
(***************************************************************************)
THEOREM SemaInvariant == SemaSpec => []SemaInv
BY SemaInitEstablishes, SemaInductive, PTL DEF SemaSpec

(***************************************************************************)
(* Whatever integers the threads wait for and signal, permits are neither  *)
(* made nor lost as long as no two threads were between the read of the    *)
(* count and its write, and the count is not below zero unless one of them *)
(* was negative.  Without a negative one it does not pass maxCount,        *)
(* whatever overlaps (ThreadMan_Semaphores.d:197-199, 246, 264-267).       *)
(***************************************************************************)
THEOREM PermitsAreConserved == SemaSpec => []PermitsConserved
<1>1. SemaInv => PermitsConserved
  BY DEF SemaInv
<1> QED
  BY <1>1, SemaInvariant, PTL

(***************************************************************************)
(* No signal falls between the test of the count and the wait: a thread    *)
(* sleeps on a count that is enough only when the one signal woke another. *)
(***************************************************************************)
THEOREM SignalsAreOnlyTaken == SemaSpec => []SemaMissedOnlyWhenTaken
<1>1. SemaInv => SemaMissedOnlyWhenTaken
  BY DEF SemaInv
<1> QED
  BY <1>1, SemaInvariant, PTL
=============================================================================
