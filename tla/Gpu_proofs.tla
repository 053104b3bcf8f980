-------------------------------- MODULE Gpu_proofs --------------------------------
(***************************************************************************)
(* Proofs about Gpu, for any number and length of display lists and any    *)
(* capacity of the queue that divides the range of uint.  Whole, what is   *)
(* true of the pipeline until a race damages the queue, is preserved by    *)
(* every step that does not damage it.                                     *)
(***************************************************************************)
EXTENDS Gpu, FiniteSetTheorems, TLAPS

\* The slot of the l-th list, and the number of lists that ended.
SlotOf(l) == (l - 1) % Capacity
Done == Len(ended)

One(condition) == IF condition THEN 1 ELSE 0

\* A list was consumed; it is live until its slot is ended.
Working == gpu \in {"decrement", "begin", "execute", "finally", "finallyThrown"}
Live == Working /\ list[executing].base # Null

\* The lists consumed, and those the counter knows to be.
Consumed == Done + One(Live)
CountedOut == Done + One(Live /\ gpu # "decrement")

Entry == [base : Nat \cup {Null}, pointer : Nat \cup {Null}, stall : StallAddresses]

Typed ==
  /\ list \in [Slots -> Entry]
  /\ headPosition \in Slots /\ tailPosition \in Slots /\ executing \in Slots
  /\ readAvailable \in Int
  /\ gpu \in GpuStates /\ cpu \in CpuStates
  /\ enqueued \in 0 .. MaxLists
  /\ handle \in Seq(Slots) /\ ended \in Seq(Nat)
  /\ executed \in [Lists -> Nat] /\ written \in [Lists -> Nat]
  /\ aborted \subseteq Lists

\* The positions, the counter and the handles are those of the lists' numbers.
CountersAgree ==
  /\ headPosition = SlotOf(Consumed + 1)
  /\ tailPosition = SlotOf(enqueued + 1)
  /\ readAvailable = enqueued - One(cpu = "increment") - CountedOut
  /\ readAvailable >= One(gpu = "decrement")
  /\ enqueued - Done <= Capacity
  /\ Len(handle) = enqueued
  /\ \A l \in 1 .. enqueued : handle[l] = SlotOf(l)

\* The slots hold the lists: those waiting, and the one consumed last until it
\* ends.
SlotsAgree ==
  /\ \A l \in Consumed + 1 .. enqueued :
       list[SlotOf(l)].base = l /\ list[SlotOf(l)].pointer = 0
  /\ Live =>
       /\ executing = SlotOf(Done + 1)
       /\ list[executing].base = Done + 1
       /\ list[executing].pointer \in Nat
  /\ Working /\ ~ Live =>
       /\ Done >= 1 /\ executing = SlotOf(Done)
       /\ list[executing].pointer = Null
  /\ gpu \in {"decrement", "begin"} => Live
  /\ gpu = "finally" => ~ Live

\* Where the pointer stands, the commands before it were executed.
ExecutionAgrees ==
  /\ \A l \in 1 .. Done : ended[l] = l /\ (l \notin aborted => executed[l] = ListLength)
  /\ \A l \in Lists : l > Consumed => executed[l] = 0 /\ l \notin aborted
  /\ Live /\ gpu # "finallyThrown" =>
       /\ executed[Done + 1] = list[executing].pointer
       /\ list[executing].pointer < ListLength
       /\ Done + 1 \notin aborted
  /\ Live /\ gpu = "finallyThrown" => Done + 1 \in aborted

\* The stall address of a list that has not ended is what the guest wrote.
WrittenAgrees ==
  /\ \A l \in Lists : written[l] <= ListLength
  /\ aborted = {} =>
       /\ \A l \in Done + 1 .. enqueued : Reach(list[SlotOf(l)].stall) = written[l]
       /\ \A l \in Lists : executed[l] <= written[l]

ThreadsAgree ==
  /\ currentDisplayList = Null <=> gpu \notin {"execute", "finally", "finallyThrown"}
  /\ cpu = "drawSyncExecuting" => readAvailable = 0
  /\ cpu = "listSync" => waited \in 1 .. enqueued
  /\ cpu = "enqueue" => enqueued < MaxLists

Whole ==
  /\ Typed
  /\ CountersAgree
  /\ SlotsAgree
  /\ ExecutionAgrees
  /\ WrittenAgrees
  /\ ThreadsAgree

GpuInv == intact => Whole

-----------------------------------------------------------------------------
(* Arithmetic of the slots. *)

LEMMA Sizes ==
  /\ Capacity \in Nat \ {0} /\ WordSize \in Nat \ {0} /\ Capacity < WordSize
  /\ ListLength \in Nat \ {0} /\ MaxLists \in Nat /\ Null \notin Nat
BY CapacityAssumption, GpuAssumption

LEMMA ModuloSmall ==
  ASSUME NEW c \in Nat \ {0}, NEW x \in 0 .. c - 1
  PROVE  x % c = x
OBVIOUS

LEMMA ModuloTurns ==
  ASSUME NEW c \in Nat \ {0}, NEW k \in Int, NEW r \in 0 .. c - 1
  PROVE  (c * k + r) % c = r
OBVIOUS

LEMMA Division ==
  ASSUME NEW c \in Int, c > 0, NEW x \in Int, NEW q \in Int, NEW r \in Int,
         q = x \div c, r = x % c
  PROVE  x = c * q + r
BY SMTT(20)

LEMMA Multiple ==
  ASSUME NEW c \in Nat \ {0}, NEW k \in Int, c * k > 0
  PROVE  c * k >= c
<1>1. k >= 1
  OBVIOUS
<1>. QED
  BY <1>1

\* Every list number is a number of turns of the ring and a slot.
LEMMA Turns ==
  ASSUME NEW l \in Nat
  PROVE  SlotOf(l) \in Slots /\ \E k \in Int : l - 1 = Capacity * k + SlotOf(l)
<1>1. l - 1 \in Int /\ Capacity \in Int /\ Capacity > 0
  BY Sizes
<1>2. (l - 1) % Capacity \in 0 .. Capacity - 1 /\ (l - 1) \div Capacity \in Int
  BY <1>1, Sizes
<1>3. PICK q \in Int, r \in Int : q = (l - 1) \div Capacity /\ r = (l - 1) % Capacity
  BY <1>2, Sizes
<1>4. l - 1 = Capacity * q + r
  BY <1>1, <1>3, Division
<1>. QED
  BY <1>2, <1>3, <1>4 DEF SlotOf, Slots

LEMMA SlotIs ==
  ASSUME NEW l \in Nat, NEW k \in Int, NEW r \in Slots, l - 1 = Capacity * k + r
  PROVE  SlotOf(l) = r
BY Sizes, ModuloTurns DEF SlotOf, Slots

\* The position moves from the slot of a list to the slot of the next one.
LEMMA NextSlot ==
  ASSUME NEW l \in Nat
  PROVE  ((SlotOf(l) + 1) % WordSize) % Capacity = SlotOf(l + 1)
<1>1. SlotOf(l) \in 0 .. Capacity - 1
  BY Turns DEF Slots
<1>2. PICK k \in Int : l - 1 = Capacity * k + SlotOf(l)
  BY Turns
<1>3. (SlotOf(l) + 1) % WordSize = SlotOf(l) + 1
  <2>1. SlotOf(l) + 1 \in 0 .. WordSize - 1
    BY <1>1, Sizes
  <2>. QED
    BY <2>1, Sizes, ModuloSmall
<1>4. CASE SlotOf(l) + 1 < Capacity
  <2>1. SlotOf(l) + 1 \in Slots /\ l + 1 - 1 = Capacity * k + (SlotOf(l) + 1)
    BY <1>1, <1>2, <1>4, Sizes DEF Slots
  <2>2. SlotOf(l + 1) = SlotOf(l) + 1
    BY <2>1, SlotIs
  <2>. QED
    BY <1>3, <2>1, <2>2, Sizes, ModuloSmall DEF Slots
<1>5. CASE SlotOf(l) + 1 = Capacity
  <2>1. 0 \in Slots /\ l + 1 - 1 = Capacity * (k + 1) + 0 /\ k + 1 \in Int
    BY <1>1, <1>2, <1>5, Sizes DEF Slots
  <2>2. SlotOf(l + 1) = 0
    BY <2>1, SlotIs
  <2>3. (Capacity * 1 + 0) % Capacity = 0
    BY Sizes, ModuloTurns
  <2>. QED
    BY <1>3, <1>5, <2>2, <2>3, Sizes
<1>. QED
  BY <1>1, <1>4, <1>5, Sizes

\* Two lists with the same slot are a turn apart or more.
LEMMA SameSlot ==
  ASSUME NEW l \in Nat, NEW m \in Nat, l < m, SlotOf(l) = SlotOf(m)
  PROVE  m - l >= Capacity
<1>1. PICK k \in Int : l - 1 = Capacity * k + SlotOf(l)
  BY Turns
<1>2. PICK n \in Int : m - 1 = Capacity * n + SlotOf(m)
  BY Turns
<1>3. SlotOf(l) \in Int
  BY Turns, Sizes DEF Slots
<1>4. m - l = Capacity * n - Capacity * k
  BY <1>1, <1>2, <1>3, Sizes
<1>5. Capacity * n - Capacity * k = Capacity * (n - k)
  BY Sizes
<1>6. Capacity * (n - k) > 0 /\ n - k \in Int
  BY <1>4, <1>5, Sizes
<1>7. Capacity * (n - k) >= Capacity
  BY <1>6, Sizes, Multiple
<1>. QED
  BY <1>4, <1>5, <1>7, Sizes

\* A turn later it is the same slot.
LEMMA SlotAgain ==
  ASSUME NEW l \in Nat
  PROVE  SlotOf(l + Capacity) = SlotOf(l)
<1>1. PICK k \in Int : l - 1 = Capacity * k + SlotOf(l)
  BY Turns
<1>2. SlotOf(l) \in Slots /\ l + Capacity \in Nat
  BY Turns, Sizes
<1>3. PICK m \in Nat : m = l + Capacity
  BY <1>2
<1>4. PICK turns \in Int : turns = k + 1
  OBVIOUS
<1>5. m - 1 = Capacity * turns + SlotOf(l)
  BY <1>1, <1>2, <1>3, <1>4, Sizes DEF Slots
<1>6. SlotOf(m) = SlotOf(l)
  BY <1>2, <1>5, SlotIs
<1>. QED
  BY <1>3, <1>6

-----------------------------------------------------------------------------
(* What Whole says of the numbers, for the steps. *)

LEMMA OneIs == \A c \in BOOLEAN : One(c) \in {0, 1} /\ (One(c) = 1 <=> c)
BY DEF One

LEMMA Numbers ==
  ASSUME Whole
  PROVE  /\ Done \in Nat /\ enqueued \in Nat /\ enqueued <= MaxLists
         /\ Consumed \in Nat /\ Done <= Consumed /\ Consumed <= Done + 1
         /\ Consumed + One(cpu = "increment") <= enqueued
         /\ CountedOut + One(gpu = "decrement") = Consumed
         /\ CountedOut \in Nat
         /\ Live => Consumed = Done + 1
         /\ ~ Live => Consumed = Done
<1>1. Done \in Nat /\ enqueued \in Nat /\ enqueued <= MaxLists /\ readAvailable \in Int
  BY Sizes DEF Whole, Typed, Done
<1>2. gpu = "decrement" => Live
  BY DEF Whole, SlotsAgree
<1>3. /\ readAvailable = enqueued - One(cpu = "increment") - CountedOut
      /\ readAvailable >= One(gpu = "decrement")
  BY DEF Whole, CountersAgree
<1>4. CountedOut + One(gpu = "decrement") = Consumed /\ CountedOut \in Nat
  BY <1>1, <1>2 DEF CountedOut, Consumed, One
<1>5. Consumed \in Nat /\ Done <= Consumed /\ Consumed <= Done + 1
  BY <1>1 DEF Consumed, One
<1>6. Consumed + One(cpu = "increment") <= enqueued
  <2>1. One(cpu = "increment") \in {0, 1} /\ One(gpu = "decrement") \in {0, 1}
    BY DEF One
  <2>. QED
    BY <2>1, <1>1, <1>3, <1>4
<1>7. (Live => Consumed = Done + 1) /\ (~ Live => Consumed = Done)
  BY <1>1 DEF Consumed, One
<1>. QED
  BY <1>1, <1>4, <1>5, <1>6, <1>7

\* A list that has not ended has a slot of its own.
LEMMA OwnSlots ==
  ASSUME Whole, NEW l \in Done + 1 .. enqueued, NEW m \in Done + 1 .. enqueued, l # m
  PROVE  SlotOf(l) # SlotOf(m)
<1>1. Done \in Nat /\ enqueued \in Nat /\ l \in Nat /\ m \in Nat /\ enqueued - Done <= Capacity
  BY Numbers DEF Whole, CountersAgree
<1>2. ASSUME l < m
      PROVE  SlotOf(l) # SlotOf(m)
  BY <1>1, <1>2, SameSlot, Sizes
<1>3. ASSUME m < l
      PROVE  SlotOf(m) # SlotOf(l)
  BY <1>1, <1>3, SameSlot, Sizes
<1>. QED
  BY <1>1, <1>2, <1>3

\* Where the lists that have not ended are, and what is in their slots.
LEMMA NotEnded ==
  ASSUME Whole, NEW l \in Done + 1 .. enqueued
  PROVE  /\ l \in Lists /\ l \in Nat /\ SlotOf(l) \in Slots
         /\ list[SlotOf(l)].base = l
         /\ list[SlotOf(l)].pointer \in Nat
         /\ l \in Consumed + 1 .. enqueued \/ (Live /\ l = Done + 1)
<1>1. Done \in Nat /\ enqueued \in Nat /\ enqueued <= MaxLists /\ l \in Nat
  BY Numbers
<1>2. SlotOf(l) \in Slots /\ l \in Lists
  BY <1>1, Turns, Sizes DEF Lists
<1>3. l \in Consumed + 1 .. enqueued \/ (Live /\ l = Done + 1)
  BY <1>1, Numbers
<1>. QED
  BY <1>1, <1>2, <1>3 DEF Whole, SlotsAgree

-----------------------------------------------------------------------------
(* The steps of one thread that only move it to another test. *)

LEMMA CpuMovesKeep ==
  ASSUME Whole,
         UNCHANGED <<list, headPosition, tailPosition, readAvailable>>,
         UNCHANGED <<currentDisplayList, executing, gpu, executed, ended, aborted>>,
         UNCHANGED <<handle, enqueued, written>>,
         cpu \notin {"increment"}, cpu' \in CpuStates \ {"increment"},
         cpu' = "drawSyncExecuting" => readAvailable = 0,
         cpu' = "listSync" => waited' \in 1 .. enqueued,
         cpu' = "enqueue" => enqueued < MaxLists
  PROVE  Whole'
<1>1. Done' = Done /\ Live' = Live /\ Working' = Working
  BY DEF Done, Live, Working
<1>2. Consumed' = Consumed /\ CountedOut' = CountedOut
      /\ One(cpu' = "increment") = One(cpu = "increment")
  BY <1>1 DEF Consumed, CountedOut, One
<1>3. Typed'
  BY DEF Whole, Typed, Slots
<1>4. CountersAgree'
  BY <1>1, <1>2 DEF Whole, CountersAgree, SlotOf, One
<1>5. SlotsAgree'
  BY <1>1, <1>2 DEF Whole, SlotsAgree, SlotOf
<1>6. ExecutionAgrees'
  BY <1>1, <1>2 DEF Whole, ExecutionAgrees
<1>7. WrittenAgrees'
  BY <1>1 DEF Whole, WrittenAgrees, SlotOf, Reach
<1>8. ThreadsAgree'
  BY DEF Whole, ThreadsAgree
<1>. QED
  BY <1>3, <1>4, <1>5, <1>6, <1>7, <1>8 DEF Whole

\* The GPU thread between two lists.
LEMMA GpuMovesKeep ==
  ASSUME Whole,
         UNCHANGED <<list, headPosition, tailPosition, readAvailable>>,
         UNCHANGED <<currentDisplayList, executing, executed, ended, aborted>>,
         UNCHANGED <<cpu, waited, handle, enqueued, written>>,
         ~ Working, ~ Working', gpu' \in GpuStates
  PROVE  Whole'
<1>1. Done' = Done /\ ~ Live /\ ~ Live'
  BY DEF Done, Live
<1>2. Consumed' = Consumed /\ CountedOut' = CountedOut
      /\ One(gpu' = "decrement") = One(gpu = "decrement")
  BY <1>1 DEF Consumed, CountedOut, One, Working
<1>3. Typed'
  BY DEF Whole, Typed, Slots
<1>4. CountersAgree'
  BY <1>1, <1>2 DEF Whole, CountersAgree, SlotOf, One
<1>5. SlotsAgree'
  BY <1>1, <1>2 DEF Whole, SlotsAgree, SlotOf, Working
<1>6. ExecutionAgrees'
  BY <1>1, <1>2 DEF Whole, ExecutionAgrees
<1>7. WrittenAgrees'
  BY <1>1 DEF Whole, WrittenAgrees, SlotOf, Reach
<1>8. ThreadsAgree'
  BY DEF Whole, ThreadsAgree, Working
<1>. QED
  BY <1>3, <1>4, <1>5, <1>6, <1>7, <1>8 DEF Whole

-----------------------------------------------------------------------------
(* The CPU thread. *)

(***************************************************************************)
(* There is a slot for the list that is enqueued: the counter says so, or  *)
(* the slot it takes is the one in execution, which is the damage.         *)
(***************************************************************************)
LEMMA EnqueueHasRoom ==
  ASSUME Whole, cpu = "enqueue", writeAvailable # 0,
         ~ (tailPosition = executing /\ Working)
  PROVE  enqueued + 1 - Done <= Capacity
<1>1. /\ Done \in Nat /\ enqueued \in Nat /\ enqueued - Done <= Capacity
      /\ readAvailable = enqueued - CountedOut
      /\ tailPosition = SlotOf(enqueued + 1)
  BY Numbers DEF Whole, CountersAgree, One
<1>2. readAvailable # Capacity
  <2>1. 0 % WordSize = 0
    BY Sizes
  <2>. QED
    BY <1>1, <2>1, Sizes DEF writeAvailable
<1>3. CASE CountedOut = Done
  BY <1>1, <1>2, <1>3, Sizes
<1>4. CASE CountedOut # Done
  <2>1. Live /\ executing = SlotOf(Done + 1) /\ Working
    BY <1>1, <1>4 DEF CountedOut, One, Live, Whole, SlotsAgree
  <2>2. SlotOf((Done + 1) + Capacity) = SlotOf(Done + 1)
    BY <1>1, SlotAgain
  <2>3. enqueued # Done + Capacity
    <3>1. enqueued = Done + Capacity => enqueued + 1 = (Done + 1) + Capacity
      BY <1>1, Sizes
    <3>. QED
      BY <1>1, <2>1, <2>2, <3>1
  <2>. QED
    BY <1>1, <2>3, Sizes
<1>. QED
  BY <1>3, <1>4

LEMMA EnqueueStoreKeeps ==
  ASSUME Whole, intact', NEW stall \in StallAddresses, enqueueStore(stall)
  PROVE  Whole'
<1>1. /\ cpu = "enqueue" /\ cpu' = "increment" /\ writeAvailable # 0
      /\ tailPosition' = ((tailPosition + 1) % WordSize) % Capacity
      /\ handle' = Append(handle, tailPosition)
      /\ enqueued' = enqueued + 1
      /\ ~ (tailPosition = executing /\ Working)
      /\ UNCHANGED <<headPosition, readAvailable>>
      /\ UNCHANGED <<currentDisplayList, executing, gpu, executed, ended, aborted>>
  BY DEF enqueueStore, gpuThreadVars, intact, Working
<1>2. list' = [list EXCEPT ![tailPosition] =
                 [base |-> enqueued + 1, pointer |-> 0, stall |-> stall]]
  BY DEF enqueueStore
<1>3. written' = [written EXCEPT ![enqueued + 1] = Reach(stall)]
  BY DEF enqueueStore
<1>4. PICK new \in Nat : new = enqueued + 1
  BY Numbers
<1>5. /\ Typed /\ CountersAgree /\ SlotsAgree /\ ExecutionAgrees /\ WrittenAgrees /\ ThreadsAgree
      /\ Done \in Nat /\ enqueued \in Nat /\ Consumed \in Nat /\ Done <= Consumed
      /\ Consumed <= enqueued /\ new - Done <= Capacity
      /\ new \in Lists /\ new \notin 1 .. enqueued
      /\ tailPosition = SlotOf(new) /\ SlotOf(new) \in Slots
      /\ list \in [Slots -> Entry] /\ written \in [Lists -> Nat]
      /\ handle \in Seq(Slots) /\ Len(handle) = enqueued
  <2>1. enqueued + 1 - Done <= Capacity
    BY <1>1, EnqueueHasRoom
  <2>2. enqueued < MaxLists
    BY <1>1 DEF Whole, ThreadsAgree
  <2>3. /\ Done \in Nat /\ enqueued \in Nat /\ Consumed \in Nat /\ Done <= Consumed
        /\ Consumed <= enqueued
    BY Numbers, <1>1 DEF One
  <2>4. tailPosition = SlotOf(new) /\ SlotOf(new) \in Slots
    BY <1>4, <2>3, Turns DEF Whole, CountersAgree
  <2>5. new \in Lists /\ new \notin 1 .. enqueued /\ new - Done <= Capacity
    BY <1>4, <2>1, <2>2, <2>3, Sizes DEF Lists
  <2>. QED
    BY <2>3, <2>4, <2>5 DEF Whole, Typed, CountersAgree
<1>6. Reach(stall) \in 0 .. ListLength /\ Reach(stall) \in Nat
  BY Sizes DEF Reach, StallAddresses
<1>7. \A s \in Slots : s # tailPosition => list'[s] = list[s]
  BY <1>2, <1>5
<1>8. /\ list'[tailPosition].base = new /\ list'[tailPosition].pointer = 0
      /\ list'[tailPosition].stall = stall
  BY <1>2, <1>4, <1>5
<1>9. list' \in [Slots -> Entry]
  <2>1. [base |-> enqueued + 1, pointer |-> 0, stall |-> stall] \in Entry
    BY <1>4, <1>5 DEF Entry
  <2>. QED
    BY <2>1, <1>2, <1>5
<1>10. \A l \in Done + 1 .. enqueued :
         SlotOf(l) # tailPosition /\ SlotOf(l) \in Slots /\ list'[SlotOf(l)] = list[SlotOf(l)]
  <2>. SUFFICES ASSUME NEW l \in Done + 1 .. enqueued
                PROVE  SlotOf(l) # tailPosition /\ SlotOf(l) \in Slots
    BY <1>7
  <2>1. l \in Nat /\ l < new /\ ~ (new - l >= Capacity)
    BY <1>4, <1>5, Sizes
  <2>. QED
    BY <2>1, <1>5, SameSlot, Turns
<1>11. Working => executing # tailPosition /\ list'[executing] = list[executing]
  <2>1. executing \in Slots
    BY <1>5 DEF Typed
  <2>. QED
    BY <2>1, <1>1, <1>7
<1>12. Done' = Done /\ Live' = Live /\ Working' = Working
  BY <1>1, <1>11 DEF Done, Live, Working
<1>13. Consumed' = Consumed /\ CountedOut' = CountedOut
  BY <1>1, <1>12 DEF Consumed, CountedOut, One
<1>14. Typed'
  <2>1. handle' \in Seq(Slots)
    BY <1>1, <1>5
  <2>2. written' \in [Lists -> Nat]
    BY <1>3, <1>5, <1>6
  <2>3. tailPosition' \in Slots
    BY <1>1, <1>4, <1>5, NextSlot, Turns
  <2>4. enqueued' \in 0 .. MaxLists /\ cpu' \in CpuStates
    BY <1>1, <1>4, <1>5, Sizes DEF Lists, CpuStates
  <2>. QED
    BY <2>1, <2>2, <2>3, <2>4, <1>1, <1>5, <1>9 DEF Typed, Slots
<1>15. CountersAgree'
  <2>1. tailPosition' = SlotOf(enqueued' + 1)
    BY <1>1, <1>4, <1>5, NextSlot
  <2>2. Len(handle') = enqueued' /\ \A l \in 1 .. enqueued' : handle'[l] = SlotOf(l)
    <3>1. Len(handle') = enqueued + 1 /\ handle'[enqueued + 1] = tailPosition
      BY <1>1, <1>5
    <3>2. \A l \in 1 .. enqueued : handle'[l] = SlotOf(l)
      BY <1>1, <1>5 DEF CountersAgree
    <3>3. \A l \in 1 .. enqueued + 1 : l \in 1 .. enqueued \/ l = enqueued + 1
      BY <1>5
    <3>. QED
      BY <3>1, <3>2, <3>3, <1>1, <1>4, <1>5
  <2>3. readAvailable' = enqueued' - One(cpu' = "increment") - CountedOut'
    <3>1. readAvailable = enqueued - CountedOut
      BY <1>1, <1>5 DEF CountersAgree, One
    <3>2. One(cpu' = "increment") = 1 /\ CountedOut \in Nat
      BY <1>1, Numbers DEF One
    <3>. QED
      BY <3>1, <3>2, <1>1, <1>5, <1>13
  <2>. QED
    BY <2>1, <2>2, <2>3, <1>1, <1>4, <1>5, <1>12, <1>13 DEF CountersAgree, SlotOf, One
<1>16. SlotsAgree'
  <2>1. ASSUME NEW l \in Consumed + 1 .. enqueued + 1
        PROVE  list'[SlotOf(l)].base = l /\ list'[SlotOf(l)].pointer = 0
    <3>1. CASE l = new
      BY <3>1, <1>5, <1>8
    <3>2. CASE l \in Consumed + 1 .. enqueued
      <4>1. l \in Done + 1 .. enqueued
        BY <3>2, <1>5
      <4>. QED
        BY <3>2, <4>1, <1>5, <1>10 DEF SlotsAgree
    <3>. QED
      BY <3>1, <3>2, <1>4, <1>5
  <2>2. Live => /\ executing = SlotOf(Done + 1)
                /\ list'[executing].base = Done + 1
                /\ list'[executing].pointer \in Nat
    BY <1>5, <1>11 DEF SlotsAgree, Live
  <2>3. Working /\ ~ Live => /\ Done >= 1 /\ executing = SlotOf(Done)
                             /\ list'[executing].pointer = Null
    BY <1>5, <1>11 DEF SlotsAgree
  <2>4. (gpu \in {"decrement", "begin"} => Live) /\ (gpu = "finally" => ~ Live)
    BY <1>5 DEF SlotsAgree
  <2>5. /\ \A l \in Consumed' + 1 .. enqueued' :
             list'[SlotOf(l)].base = l /\ list'[SlotOf(l)].pointer = 0
        /\ gpu' = gpu /\ executing' = executing
    BY <2>1, <1>1, <1>13
  <2>. QED
    BY <2>2, <2>3, <2>4, <2>5, <1>12 DEF SlotsAgree, SlotOf
<1>17. ExecutionAgrees'
  <2>1. Live => list'[executing] = list[executing]
    BY <1>11 DEF Live
  <2>. QED
    BY <2>1, <1>1, <1>5, <1>12, <1>13 DEF ExecutionAgrees
<1>18. WrittenAgrees'
  <2>1. /\ written'[new] = Reach(stall) /\ Reach(list'[SlotOf(new)].stall) = Reach(stall)
        /\ \A l \in Lists : l # new => written'[l] = written[l]
    BY <1>3, <1>4, <1>5, <1>8
  <2>2. executed[new] = 0
    BY <1>4, <1>5 DEF ExecutionAgrees
  <2>3. \A l \in Lists : written'[l] <= ListLength
    BY <2>1, <1>5, <1>6, Sizes DEF WrittenAgrees
  <2>4. ASSUME aborted = {}
        PROVE  /\ \A l \in Done + 1 .. new : Reach(list'[SlotOf(l)].stall) = written'[l]
               /\ \A l \in Lists : executed[l] <= written'[l]
    <3>1. \A l \in Done + 1 .. enqueued : Reach(list[SlotOf(l)].stall) = written[l]
      BY <2>4, <1>5 DEF WrittenAgrees
    <3>2. \A l \in Lists : executed[l] <= written[l]
      BY <2>4, <1>5 DEF WrittenAgrees
    <3>3. \A l \in Done + 1 .. enqueued : l \in Lists /\ l # new
      BY NotEnded, <1>5
    <3>4. \A l \in Done + 1 .. new : l \in Done + 1 .. enqueued \/ l = new
      BY <1>4, <1>5
    <3>. QED
      BY <3>1, <3>2, <3>3, <3>4, <2>1, <2>2, <1>6, <1>10
  <2>. QED
    BY <2>3, <2>4, <1>1, <1>4, <1>12 DEF WrittenAgrees, SlotOf, Reach
<1>19. ThreadsAgree'
  BY <1>1, <1>5 DEF ThreadsAgree
<1>. QED
  BY <1>14, <1>15, <1>16, <1>17, <1>18, <1>19 DEF Whole

LEMMA EnqueueIncrementKeeps ==
  ASSUME Whole, intact', enqueueIncrement
  PROVE  Whole'
<1>1. /\ cpu = "increment" /\ cpu' = "idle"
      /\ readAvailable' = (cpuRead + 1) % WordSize
      /\ torn' = (torn \/ readAvailable # cpuRead)
      /\ UNCHANGED <<list, headPosition, tailPosition, handle, enqueued, written, waited>>
      /\ UNCHANGED <<currentDisplayList, executing, gpu, executed, ended, aborted>>
  BY DEF enqueueIncrement, updateAvailable, gpuThreadVars
<1>2. /\ Typed /\ CountersAgree /\ SlotsAgree /\ ExecutionAgrees /\ WrittenAgrees /\ ThreadsAgree
      /\ readAvailable = cpuRead
  BY <1>1 DEF Whole, intact
<1>3. /\ Done \in Nat /\ enqueued \in Nat /\ CountedOut \in Nat /\ Done <= CountedOut
      /\ readAvailable = enqueued - 1 - CountedOut /\ enqueued - Done <= Capacity
      /\ readAvailable >= One(gpu = "decrement") /\ One(gpu = "decrement") \in {0, 1}
  <2>1. Done <= CountedOut
    BY Numbers DEF CountedOut, One
  <2>2. One(gpu = "decrement") \in {0, 1} /\ One(cpu = "increment") = 1
    BY <1>1 DEF One
  <2>. QED
    BY <2>1, <2>2, <1>2, Numbers DEF CountersAgree
<1>4. readAvailable' = readAvailable + 1
  <2>1. readAvailable + 1 \in 0 .. WordSize - 1
    BY <1>3, Sizes
  <2>. QED
    BY <2>1, <1>1, <1>2, Sizes, ModuloSmall
<1>5. Done' = Done /\ Live' = Live /\ Working' = Working
  BY <1>1 DEF Done, Live, Working
<1>6. /\ Consumed' = Consumed /\ CountedOut' = CountedOut
      /\ One(gpu' = "decrement") = One(gpu = "decrement") /\ One(cpu' = "increment") = 0
  BY <1>1, <1>5 DEF Consumed, CountedOut, One
<1>7. Typed'
  <2>1. readAvailable' \in Int /\ cpu' \in CpuStates
    BY <1>1, <1>3, <1>4 DEF CpuStates
  <2>. QED
    BY <2>1, <1>1, <1>2 DEF Typed, Slots
<1>8. CountersAgree'
  <2>1. /\ readAvailable' = enqueued' - One(cpu' = "increment") - CountedOut'
        /\ readAvailable' >= One(gpu' = "decrement")
    BY <1>1, <1>3, <1>4, <1>6
  <2>. QED
    BY <2>1, <1>1, <1>2, <1>5, <1>6 DEF CountersAgree, SlotOf
<1>9. SlotsAgree'
  BY <1>1, <1>2, <1>5, <1>6 DEF SlotsAgree, SlotOf
<1>10. ExecutionAgrees'
  BY <1>1, <1>2, <1>5, <1>6 DEF ExecutionAgrees
<1>11. WrittenAgrees'
  BY <1>1, <1>2, <1>5 DEF WrittenAgrees, SlotOf, Reach
<1>12. ThreadsAgree'
  BY <1>1, <1>2 DEF ThreadsAgree
<1>. QED
  BY <1>7, <1>8, <1>9, <1>10, <1>11, <1>12 DEF Whole

(***************************************************************************)
(* Through its handle the guest moves the stall address of the list it     *)
(* means, or, if that one ended, of whatever the slot holds.  A list that  *)
(* ended without an exception was written to its end, so this is an        *)
(* aborted one.                                                            *)
(***************************************************************************)
LEMMA UpdateStallKeeps ==
  ASSUME Whole, NEW l \in Lists, NEW stall \in StallAddresses,
         sceGeListUpdateStallAddr(l, stall)
  PROVE  Whole'
<1>1. /\ cpu = "idle" /\ l \in 1 .. enqueued
      /\ Reach(stall) > written[l]
      /\ list' = [list EXCEPT ![handle[l]].stall = stall]
      /\ written' = [written EXCEPT ![l] = Reach(stall)]
      /\ UNCHANGED <<headPosition, tailPosition, readAvailable, executing, handle, enqueued>>
      /\ UNCHANGED <<cpu, waited, currentDisplayList, gpu, executed, ended, aborted>>
  BY DEF sceGeListUpdateStallAddr, gpuThreadVars
<1>2. /\ Typed /\ CountersAgree /\ SlotsAgree /\ ExecutionAgrees /\ WrittenAgrees /\ ThreadsAgree
      /\ Done \in Nat /\ enqueued \in Nat
      /\ list \in [Slots -> Entry] /\ written \in [Lists -> Nat] /\ executed \in [Lists -> Nat]
      /\ handle[l] = SlotOf(l) /\ SlotOf(l) \in Slots /\ l \in Nat
  <2>1. l \in Nat
    BY Sizes DEF Lists
  <2>. QED
    BY <2>1, <1>1, Numbers, Turns DEF Whole, Typed, CountersAgree
<1>3. Reach(stall) \in Nat /\ Reach(stall) <= ListLength
  BY Sizes DEF Reach, StallAddresses
<1>4. /\ list' \in [Slots -> Entry]
      /\ \A s \in Slots : list'[s].base = list[s].base /\ list'[s].pointer = list[s].pointer
      /\ \A s \in Slots : s # SlotOf(l) => list'[s].stall = list[s].stall
      /\ list'[SlotOf(l)].stall = stall
  <2>1. list' = [list EXCEPT ![SlotOf(l)] = [list[SlotOf(l)] EXCEPT !.stall = stall]]
    BY <1>1, <1>2
  <2>2. list[SlotOf(l)] \in Entry
    BY <1>2
  <2>3. /\ [list[SlotOf(l)] EXCEPT !.stall = stall] \in Entry
        /\ [list[SlotOf(l)] EXCEPT !.stall = stall].base = list[SlotOf(l)].base
        /\ [list[SlotOf(l)] EXCEPT !.stall = stall].pointer = list[SlotOf(l)].pointer
        /\ [list[SlotOf(l)] EXCEPT !.stall = stall].stall = stall
    BY <2>2 DEF Entry
  <2>. QED
    BY <2>1, <2>3, <1>2
<1>5. /\ written' \in [Lists -> Nat] /\ written'[l] = Reach(stall)
      /\ \A m \in Lists : m # l => written'[m] = written[m]
  BY <1>1, <1>2, <1>3
<1>6. executing \in Slots
  BY <1>2 DEF Typed
<1>7. Done' = Done /\ Live' = Live /\ Working' = Working
  BY <1>1, <1>4, <1>6 DEF Done, Live, Working
<1>8. Consumed' = Consumed /\ CountedOut' = CountedOut
  BY <1>1, <1>7 DEF Consumed, CountedOut
<1>9. Typed'
  BY <1>1, <1>2, <1>4, <1>5 DEF Typed, Slots
<1>10. CountersAgree'
  BY <1>1, <1>2, <1>7, <1>8 DEF CountersAgree, SlotOf, One
<1>11. \A m \in Consumed + 1 .. enqueued : SlotOf(m) \in Slots
  <2>1. \A m \in Consumed + 1 .. enqueued : m \in Done + 1 .. enqueued
    BY Numbers
  <2>. QED
    BY <2>1, NotEnded
<1>12. SlotsAgree'
  BY <1>1, <1>2, <1>4, <1>6, <1>7, <1>8, <1>11 DEF SlotsAgree, SlotOf
<1>13. ExecutionAgrees'
  BY <1>1, <1>2, <1>4, <1>6, <1>7, <1>8 DEF ExecutionAgrees
<1>14. WrittenAgrees'
  <2>1. \A m \in Lists : written'[m] <= ListLength
    BY <1>2, <1>3, <1>5 DEF WrittenAgrees
  <2>2. ASSUME aborted = {}
        PROVE  /\ \A m \in Done + 1 .. enqueued : Reach(list'[SlotOf(m)].stall) = written'[m]
               /\ \A m \in Lists : executed[m] <= written'[m]
    <3>1. /\ \A m \in Done + 1 .. enqueued : Reach(list[SlotOf(m)].stall) = written[m]
          /\ \A m \in Lists : executed[m] <= written[m]
      BY <2>2, <1>2 DEF WrittenAgrees
    <3>2. l \in Done + 1 .. enqueued
      <4>1. ~ (l \in 1 .. Done)
        <5>. SUFFICES ASSUME l \in 1 .. Done
                      PROVE  FALSE
          OBVIOUS
        <5>1. executed[l] = ListLength
          BY <2>2, <1>2 DEF ExecutionAgrees
        <5>2. executed[l] <= written[l] /\ written[l] \in Nat
          BY <3>1, <1>2
        <5>. QED
          BY <5>1, <5>2, <1>1, <1>3, Sizes
      <4>. QED
        BY <4>1, <1>1, <1>2
    <3>3. ASSUME NEW m \in Done + 1 .. enqueued
          PROVE  Reach(list'[SlotOf(m)].stall) = written'[m]
      <4>1. m \in Lists /\ SlotOf(m) \in Slots
        BY NotEnded
      <4>2. m # l => SlotOf(m) # SlotOf(l)
        BY <3>2, OwnSlots
      <4>. QED
        BY <4>1, <4>2, <3>1, <1>4, <1>5
    <3>4. \A m \in Lists : executed[m] <= written'[m]
      BY <3>1, <1>1, <1>2, <1>3, <1>5
    <3>. QED
      BY <3>3, <3>4
  <2>. QED
    BY <2>1, <2>2, <1>1, <1>7 DEF WrittenAgrees, SlotOf, Reach
<1>15. ThreadsAgree'
  BY <1>1, <1>2 DEF ThreadsAgree
<1>. QED
  BY <1>9, <1>10, <1>12, <1>13, <1>14, <1>15 DEF Whole

LEMMA CpuKeeps ==
  ASSUME Whole, intact', CpuNext
  PROVE  Whole'
<1>1. CASE sceGeListEnQueue
  BY <1>1, CpuMovesKeep DEF sceGeListEnQueue, queueVars, gpuThreadVars, CpuStates
<1>2. ASSUME NEW s \in StallAddresses, enqueueStore(s)
      PROVE  Whole'
  BY <1>2, EnqueueStoreKeeps
<1>3. CASE enqueueIncrement
  BY <1>3, EnqueueIncrementKeeps
<1>4. ASSUME NEW l \in Lists, NEW s \in StallAddresses, sceGeListUpdateStallAddr(l, s)
      PROVE  Whole'
  BY <1>4, UpdateStallKeeps
<1>5. ASSUME NEW l \in Lists, sceGeListSync(l)
      PROVE  Whole'
  BY <1>5, CpuMovesKeep DEF sceGeListSync, queueVars, gpuThreadVars, CpuStates
<1>6. CASE listSyncReturns
  BY <1>6, CpuMovesKeep DEF listSyncReturns, queueVars, gpuThreadVars, CpuStates
<1>7. CASE sceGeDrawSync
  BY <1>7, CpuMovesKeep DEF sceGeDrawSync, cpuMoves, queueVars, gpuThreadVars, CpuStates
<1>8. CASE drawSyncNoneAvailable
  BY <1>8, CpuMovesKeep DEF drawSyncNoneAvailable, cpuMoves, queueVars, gpuThreadVars, CpuStates
<1>9. CASE drawSyncExecuting
  BY <1>9, CpuMovesKeep DEF drawSyncExecuting, cpuMoves, queueVars, gpuThreadVars, CpuStates
<1>10. CASE drawSyncReturns
  BY <1>10, CpuMovesKeep DEF drawSyncReturns, cpuMoves, queueVars, gpuThreadVars, CpuStates
<1>. QED
  BY <1>1, <1>2, <1>3, <1>4, <1>5, <1>6, <1>7, <1>8, <1>9, <1>10 DEF CpuNext

-----------------------------------------------------------------------------
(* The GPU thread. *)

\* The list consumed last and not ended.
LEMMA LiveList ==
  ASSUME Whole, Live
  PROVE  /\ Done + 1 \in Done + 1 .. enqueued /\ Done + 1 \in Lists /\ Done + 1 \in Nat
         /\ Consumed = Done + 1
         /\ executing = SlotOf(Done + 1) /\ list[executing].base = Done + 1
         /\ list[executing].pointer \in Nat
<1>1. Done \in Nat /\ enqueued \in Nat /\ Consumed = Done + 1 /\ Consumed <= enqueued
  BY Numbers DEF One
<1>2. Done + 1 \in Done + 1 .. enqueued
  BY <1>1
<1>. QED
  BY <1>1, <1>2, NotEnded DEF Whole, SlotsAgree

\* The waiting lists are not in the slot of the list in execution.
LEMMA WaitingElsewhere ==
  ASSUME Whole, Working
  PROVE  \A l \in Consumed + 1 .. enqueued :
           l \in Done + 1 .. enqueued /\ SlotOf(l) \in Slots /\ SlotOf(l) # executing
<1>. SUFFICES ASSUME NEW l \in Consumed + 1 .. enqueued
              PROVE  l \in Done + 1 .. enqueued /\ SlotOf(l) \in Slots /\ SlotOf(l) # executing
  OBVIOUS
<1>1. (l \in Done + 1 .. enqueued /\ l # Done + 1) \/ ~ Live
  BY Numbers
<1>2. l \in Done + 1 .. enqueued /\ l \in Nat
  BY Numbers
<1>3. SlotOf(l) \in Slots /\ list[SlotOf(l)].base = l
  BY <1>2, NotEnded
<1>4. CASE Live
  BY <1>1, <1>2, <1>3, <1>4, LiveList, OwnSlots
<1>5. CASE ~ Live
  BY <1>2, <1>3, <1>5, Sizes DEF Live
<1>. QED
  BY <1>2, <1>3, <1>4, <1>5

LEMMA ConsumeListKeeps ==
  ASSUME Whole, consumeList
  PROVE  Whole'
<1>1. /\ gpu = "available?" /\ gpu' = "decrement" /\ readAvailable # 0
      /\ executing' = headPosition
      /\ headPosition' = ((headPosition + 1) % WordSize) % Capacity
      /\ UNCHANGED <<list, tailPosition, readAvailable, currentDisplayList>>
      /\ UNCHANGED <<executed, ended, aborted, cpu, waited, handle, enqueued, written>>
  BY DEF consumeList, cpuVars
<1>2. /\ Typed /\ CountersAgree /\ SlotsAgree /\ ExecutionAgrees /\ WrittenAgrees /\ ThreadsAgree
  BY DEF Whole
<1>3. ~ Live /\ Consumed = Done /\ CountedOut = Done /\ Done \in Nat /\ enqueued \in Nat
  <2>1. ~ Live
    BY <1>1 DEF Live, Working
  <2>2. One(gpu = "decrement") = 0
    BY <1>1 DEF One
  <2>. QED
    BY <2>1, <2>2, Numbers
<1>4. readAvailable = enqueued - One(cpu = "increment") - Done /\ readAvailable >= 1
      /\ One(cpu = "increment") \in {0, 1}
  BY <1>1, <1>2, <1>3 DEF CountersAgree, One, Typed
<1>5. Done + 1 \in Done + 1 .. enqueued
  BY <1>3, <1>4
<1>6. /\ headPosition = SlotOf(Done + 1) /\ SlotOf(Done + 1) \in Slots
      /\ Done + 1 \in Lists
      /\ list[SlotOf(Done + 1)].base = Done + 1 /\ list[SlotOf(Done + 1)].pointer = 0
  BY <1>2, <1>3, <1>5, NotEnded DEF CountersAgree, SlotsAgree
<1>7. Done' = Done /\ Working' /\ Live'
  BY <1>1, <1>3, <1>6, Sizes DEF Done, Live, Working
<1>8. Consumed' = Done + 1 /\ CountedOut' = Done /\ One(gpu' = "decrement") = 1
  BY <1>1, <1>3, <1>7 DEF Consumed, CountedOut, One
<1>9. headPosition' = SlotOf(Consumed' + 1) /\ headPosition' \in Slots
  BY <1>1, <1>3, <1>6, <1>8, NextSlot, Turns
<1>10. Typed'
  BY <1>1, <1>2, <1>6, <1>9 DEF Typed, Slots, GpuStates
<1>11. CountersAgree'
  BY <1>1, <1>2, <1>4, <1>7, <1>8, <1>9 DEF CountersAgree, SlotOf
<1>12. SlotsAgree'
  <2>1. \A l \in Consumed' + 1 .. enqueued : l \in Consumed + 1 .. enqueued
    BY <1>3, <1>8
  <2>2. \A l \in Consumed' + 1 .. enqueued' :
          list'[SlotOf(l)].base = l /\ list'[SlotOf(l)].pointer = 0
    BY <2>1, <1>1, <1>2 DEF SlotsAgree
  <2>. QED
    BY <2>2, <1>1, <1>6, <1>7 DEF SlotsAgree, SlotOf
<1>13. ExecutionAgrees'
  <2>1. executed[Done + 1] = 0 /\ Done + 1 \notin aborted
    BY <1>2, <1>3, <1>6 DEF ExecutionAgrees
  <2>2. \A l \in Lists : l > Consumed' => executed[l] = 0 /\ l \notin aborted
    <3>1. \A l \in Lists : l > Done + 1 => l > Done
      BY <1>3, Sizes DEF Lists
    <3>. QED
      BY <3>1, <1>2, <1>3, <1>8 DEF ExecutionAgrees
  <2>. QED
    BY <2>1, <2>2, <1>1, <1>2, <1>6, <1>7, Sizes DEF ExecutionAgrees
<1>14. WrittenAgrees'
  BY <1>1, <1>2, <1>7 DEF WrittenAgrees, SlotOf, Reach
<1>15. ThreadsAgree'
  BY <1>1, <1>2 DEF ThreadsAgree
<1>. QED
  BY <1>10, <1>11, <1>12, <1>13, <1>14, <1>15 DEF Whole

LEMMA ConsumeDecrementKeeps ==
  ASSUME Whole, intact', consumeDecrement
  PROVE  Whole'
<1>1. /\ gpu = "decrement" /\ gpu' = "begin"
      /\ readAvailable' = (gpuRead + (-1)) % WordSize
      /\ torn' = (torn \/ readAvailable # gpuRead)
      /\ UNCHANGED <<list, headPosition, tailPosition, currentDisplayList, executing>>
      /\ UNCHANGED <<executed, ended, aborted, cpu, waited, handle, enqueued, written>>
  BY DEF consumeDecrement, updateAvailable, cpuVars
<1>2. /\ Typed /\ CountersAgree /\ SlotsAgree /\ ExecutionAgrees /\ WrittenAgrees /\ ThreadsAgree
      /\ readAvailable = gpuRead /\ Live
  BY <1>1 DEF Whole, intact, SlotsAgree
<1>3. /\ Done \in Nat /\ enqueued \in Nat /\ CountedOut = Done /\ Consumed = Done + 1
      /\ readAvailable = enqueued - One(cpu = "increment") - Done
      /\ One(cpu = "increment") \in {0, 1}
      /\ readAvailable >= 1 /\ enqueued - Done <= Capacity
  <2>1. One(gpu = "decrement") = 1 /\ One(cpu = "increment") \in {0, 1}
    BY <1>1 DEF One
  <2>. QED
    BY <2>1, <1>1, <1>2, Numbers DEF CountersAgree
<1>4. readAvailable' = readAvailable - 1
  <2>1. readAvailable - 1 \in 0 .. WordSize - 1 /\ readAvailable + (-1) = readAvailable - 1
    BY <1>3, Sizes
  <2>. QED
    BY <2>1, <1>1, <1>2, Sizes, ModuloSmall
<1>5. Done' = Done /\ Working /\ Working' /\ Live'
  BY <1>1, <1>2 DEF Done, Live, Working
<1>6. Consumed' = Done + 1 /\ CountedOut' = Done + 1 /\ One(gpu' = "decrement") = 0
      /\ One(cpu' = "increment") = One(cpu = "increment")
  BY <1>1, <1>3, <1>5 DEF Consumed, CountedOut, One
<1>7. Typed'
  BY <1>1, <1>2, <1>3, <1>4 DEF Typed, Slots, GpuStates
<1>8. CountersAgree'
  <2>1. /\ readAvailable' = enqueued' - One(cpu' = "increment") - CountedOut'
        /\ readAvailable' >= One(gpu' = "decrement")
    BY <1>1, <1>3, <1>4, <1>6
  <2>. QED
    BY <2>1, <1>1, <1>2, <1>3, <1>5, <1>6 DEF CountersAgree, SlotOf
<1>9. SlotsAgree'
  BY <1>1, <1>2, <1>3, <1>5, <1>6 DEF SlotsAgree, SlotOf
<1>10. ExecutionAgrees'
  BY <1>1, <1>2, <1>3, <1>5, <1>6 DEF ExecutionAgrees
<1>11. WrittenAgrees'
  BY <1>1, <1>2, <1>5 DEF WrittenAgrees, SlotOf, Reach
<1>12. ThreadsAgree'
  BY <1>1, <1>2, <1>3 DEF ThreadsAgree
<1>. QED
  BY <1>7, <1>8, <1>9, <1>10, <1>11, <1>12 DEF Whole

LEMMA ExecuteListBeginsKeeps ==
  ASSUME Whole, executeListBegins
  PROVE  Whole'
<1>1. /\ gpu = "begin" /\ gpu' = "execute" /\ currentDisplayList' = executing
      /\ UNCHANGED <<list, headPosition, tailPosition, readAvailable, executing>>
      /\ UNCHANGED <<executed, ended, aborted, cpu, waited, handle, enqueued, written>>
  BY DEF executeListBegins, cpuVars, queueVars
<1>2. /\ Typed /\ CountersAgree /\ SlotsAgree /\ ExecutionAgrees /\ WrittenAgrees /\ ThreadsAgree
      /\ Live
  BY <1>1 DEF Whole, SlotsAgree
<1>3. Done' = Done /\ Working /\ Working' /\ Live'
  BY <1>1, <1>2 DEF Done, Live, Working
<1>4. Consumed' = Consumed /\ CountedOut' = CountedOut
      /\ One(gpu' = "decrement") = One(gpu = "decrement")
  BY <1>1, <1>2, <1>3 DEF Consumed, CountedOut, One
<1>5. currentDisplayList' # Null
  BY <1>1, <1>2, Sizes DEF Typed, Slots
<1>6. Typed' /\ ThreadsAgree'
  BY <1>1, <1>2, <1>5 DEF Typed, ThreadsAgree, Slots, GpuStates
<1>7. CountersAgree'
  BY <1>1, <1>2, <1>3, <1>4 DEF CountersAgree, SlotOf, One
<1>8. SlotsAgree'
  BY <1>1, <1>2, <1>3, <1>4 DEF SlotsAgree, SlotOf
<1>9. ExecutionAgrees'
  BY <1>1, <1>2, <1>3, <1>4 DEF ExecutionAgrees
<1>10. WrittenAgrees'
  BY <1>1, <1>2, <1>3 DEF WrittenAgrees, SlotOf, Reach
<1>. QED
  BY <1>6, <1>7, <1>8, <1>9, <1>10 DEF Whole

\* No more commands: the slot was ended by OP_END.
LEMMA NoMoreCommandsKeeps ==
  ASSUME Whole, noMoreCommands
  PROVE  Whole'
<1>1. /\ gpu = "execute" /\ gpu' \in {"finally", "finallyThrown"}
      /\ list[executing].pointer = Null
      /\ UNCHANGED <<list, headPosition, tailPosition, readAvailable, executing>>
      /\ UNCHANGED <<currentDisplayList, executed, ended, aborted>>
      /\ UNCHANGED <<cpu, waited, handle, enqueued, written>>
  BY DEF noMoreCommands, gpuMoves, hasMore, cpuVars, queueVars
<1>2. /\ Typed /\ CountersAgree /\ SlotsAgree /\ ExecutionAgrees /\ WrittenAgrees /\ ThreadsAgree
  BY DEF Whole
<1>3. ~ Live /\ Working /\ Working' /\ ~ Live' /\ Done' = Done
  <2>1. ~ Live
    BY <1>1, LiveList, Sizes
  <2>. QED
    BY <2>1, <1>1 DEF Live, Working, Done
<1>4. Consumed' = Consumed /\ CountedOut' = CountedOut
      /\ One(gpu' = "decrement") = One(gpu = "decrement")
  BY <1>1, <1>3 DEF Consumed, CountedOut, One
<1>6. Typed' /\ ThreadsAgree'
  BY <1>1, <1>2 DEF Typed, ThreadsAgree, Slots, GpuStates
<1>7. CountersAgree'
  BY <1>1, <1>2, <1>3, <1>4 DEF CountersAgree, SlotOf, One
<1>8. SlotsAgree'
  BY <1>1, <1>2, <1>3, <1>4 DEF SlotsAgree, SlotOf
<1>9. ExecutionAgrees'
  BY <1>1, <1>2, <1>3, <1>4 DEF ExecutionAgrees
<1>10. WrittenAgrees'
  BY <1>1, <1>2, <1>3 DEF WrittenAgrees, SlotOf, Reach
<1>. QED
  BY <1>6, <1>7, <1>8, <1>9, <1>10 DEF Whole

\* What canExecute says of the list in execution: it is live, and the pointer
\* is short of the commands written, as long as no list was aborted.
LEMMA CanExecute ==
  ASSUME Whole, canExecute
  PROVE  /\ gpu = "execute" /\ Live /\ Working
         /\ current.base = Done + 1 /\ Done + 1 \in Lists
         /\ current.pointer \in Nat /\ current.pointer < ListLength
         /\ executed[Done + 1] = current.pointer
         /\ Done + 1 \notin aborted
         /\ aborted = {} => current.pointer + 1 <= written[Done + 1]
<1>1. /\ gpu = "execute" /\ list[executing].pointer # Null
      /\ ~ (list[executing].stall # Null /\ list[executing].pointer = list[executing].stall)
  BY DEF canExecute, hasMore, isStalled, current
<1>2. Working /\ Live
  BY <1>1 DEF Working, Whole, SlotsAgree
<1>3. /\ current.base = Done + 1 /\ Done + 1 \in Lists /\ Done + 1 \in Done + 1 .. enqueued
      /\ current.pointer \in Nat /\ executing = SlotOf(Done + 1) /\ executing \in Slots
  BY <1>2, LiveList DEF current, Whole, Typed
<1>4. /\ executed[Done + 1] = current.pointer /\ current.pointer < ListLength
      /\ Done + 1 \notin aborted
  BY <1>1, <1>2 DEF Whole, ExecutionAgrees, current
<1>5. aborted = {} => current.pointer + 1 <= written[Done + 1]
  <2>. SUFFICES ASSUME aborted = {}
                PROVE  current.pointer + 1 <= written[Done + 1]
    OBVIOUS
  <2>1. Reach(list[executing].stall) = written[Done + 1] /\ executed[Done + 1] <= written[Done + 1]
    BY <1>3 DEF Whole, WrittenAgrees
  <2>2. list[executing].stall \in StallAddresses
    BY <1>3 DEF Whole, Typed, Entry
  <2>. QED
    BY <2>1, <2>2, <1>1, <1>3, <1>4, Sizes DEF Reach, StallAddresses, current
<1>. QED
  BY <1>1, <1>2, <1>3, <1>4, <1>5

\* The slot in execution changes; the others do not.
LEMMA SlotChanges ==
  ASSUME Whole, Live, NEW entry \in Entry, list' = [list EXCEPT ![executing] = entry]
  PROVE  /\ list' \in [Slots -> Entry] /\ list'[executing] = entry
         /\ \A l \in Done + 2 .. enqueued :
              /\ l \in Done + 1 .. enqueued /\ l \in Consumed + 1 .. enqueued
              /\ list'[SlotOf(l)] = list[SlotOf(l)]
<1>1. list \in [Slots -> Entry] /\ executing \in Slots
  BY DEF Whole, Typed
<1>2. Done \in Nat /\ enqueued \in Nat /\ Consumed = Done + 1 /\ Working
  BY Numbers DEF Live
<1>3. \A l \in Done + 2 .. enqueued : l \in Done + 1 .. enqueued /\ l \in Consumed + 1 .. enqueued
  BY <1>2
<1>4. \A l \in Done + 2 .. enqueued : SlotOf(l) # executing /\ SlotOf(l) \in Slots
  BY <1>2, <1>3, WaitingElsewhere
<1>. QED
  BY <1>1, <1>3, <1>4

\* The pointer of the list in execution moves to the next command.
LEMMA PointerMoves ==
  ASSUME Whole, Live, list' = [list EXCEPT ![executing].pointer = @ + 1]
  PROVE  /\ list' \in [Slots -> Entry]
         /\ list'[executing].base = list[executing].base
         /\ list'[executing].pointer = list[executing].pointer + 1
         /\ list'[executing].stall = list[executing].stall
         /\ \A l \in Done + 2 .. enqueued :
              /\ l \in Done + 1 .. enqueued /\ l \in Consumed + 1 .. enqueued
              /\ list'[SlotOf(l)] = list[SlotOf(l)]
<1>1. list \in [Slots -> Entry] /\ executing \in Slots /\ list[executing].pointer \in Nat
  BY LiveList DEF Whole, Typed
<1>2. list[executing] \in Entry
  BY <1>1
<1>3. PICK entry \in Entry :
        /\ entry = [list[executing] EXCEPT !.pointer = list[executing].pointer + 1]
        /\ entry.base = list[executing].base
        /\ entry.pointer = list[executing].pointer + 1
        /\ entry.stall = list[executing].stall
  BY <1>1, <1>2 DEF Entry
<1>4. list' = [list EXCEPT ![executing] = entry]
  BY <1>1, <1>3
<1>. QED
  BY <1>3, <1>4, SlotChanges

\* A command: counted as executed, or thrown and the list aborted.
LEMMA CommandKeeps ==
  ASSUME Whole, canExecute, list' = [list EXCEPT ![executing].pointer = @ + 1],
         UNCHANGED <<headPosition, tailPosition, readAvailable, currentDisplayList, executing>>,
         UNCHANGED <<ended, cpu, waited, handle, enqueued, written>>,
         \/ /\ gpu' = "execute" /\ current.pointer < ListLength - 1 /\ aborted' = aborted
            /\ executed' = [executed EXCEPT ![current.base] = @ + 1]
         \/ /\ gpu' = "finallyThrown" /\ executed' = executed
            /\ aborted' = aborted \cup {current.base}
  PROVE  Whole'
<1>1. /\ Typed /\ CountersAgree /\ SlotsAgree /\ ExecutionAgrees /\ WrittenAgrees /\ ThreadsAgree
      /\ executed \in [Lists -> Nat] /\ written \in [Lists -> Nat] /\ aborted \subseteq Lists
  BY DEF Whole, Typed
<1>2. /\ gpu = "execute" /\ Live /\ Working
      /\ current.base = Done + 1 /\ Done + 1 \in Lists
      /\ current.pointer \in Nat /\ current.pointer < ListLength
      /\ executed[Done + 1] = current.pointer
      /\ Done + 1 \notin aborted
      /\ aborted = {} => current.pointer + 1 <= written[Done + 1]
      /\ current = list[executing]
  BY CanExecute DEF current
<1>3. /\ list' \in [Slots -> Entry]
      /\ list'[executing].base = Done + 1
      /\ list'[executing].pointer = current.pointer + 1
      /\ list'[executing].stall = list[executing].stall
      /\ \A l \in Done + 2 .. enqueued :
           /\ l \in Done + 1 .. enqueued /\ l \in Consumed + 1 .. enqueued
           /\ list'[SlotOf(l)] = list[SlotOf(l)]
  BY <1>2, PointerMoves
<1>4. Done \in Nat /\ enqueued \in Nat /\ Consumed = Done + 1 /\ executing = SlotOf(Done + 1)
      /\ Done + 1 \in Done + 1 .. enqueued
  BY <1>2, Numbers, LiveList
<1>5. Done' = Done /\ Working' /\ Live'
  BY <1>2, <1>3, <1>4, Sizes DEF Done, Live, Working
<1>6. Consumed' = Consumed /\ CountedOut' = CountedOut
      /\ One(gpu' = "decrement") = One(gpu = "decrement")
      /\ One(cpu' = "increment") = One(cpu = "increment")
  BY <1>2, <1>5 DEF Consumed, CountedOut, One
<1>7. /\ executed' \in [Lists -> Nat]
      /\ \A l \in Lists : l # Done + 1 => executed'[l] = executed[l]
      /\ gpu' = "execute" => executed'[Done + 1] = current.pointer + 1
      /\ gpu' = "finallyThrown" => executed'[Done + 1] = executed[Done + 1]
  BY <1>1, <1>2
<1>8. Typed'
  <2>1. gpu' \in GpuStates /\ aborted' \subseteq Lists
    BY <1>1, <1>2 DEF GpuStates
  <2>. QED
    BY <2>1, <1>1, <1>3, <1>7 DEF Typed, Slots
<1>9. CountersAgree'
  BY <1>1, <1>5, <1>6 DEF CountersAgree, SlotOf
<1>10. SlotsAgree'
  <2>1. \A l \in Consumed' + 1 .. enqueued' :
          list'[SlotOf(l)].base = l /\ list'[SlotOf(l)].pointer = 0
    <3>1. \A l \in Consumed + 1 .. enqueued : l \in Done + 2 .. enqueued
      BY <1>4
    <3>. QED
      BY <3>1, <1>1, <1>3, <1>6 DEF SlotsAgree
  <2>2. gpu' \notin {"decrement", "begin", "finally"} /\ list'[executing].pointer \in Nat
    BY <1>2, <1>3
  <2>. QED
    BY <2>1, <2>2, <1>3, <1>4, <1>5 DEF SlotsAgree, SlotOf
<1>11. ExecutionAgrees'
  <2>1. \A l \in 1 .. Done : l # Done + 1 /\ l \in Lists
    BY <1>2, <1>4, Sizes DEF Lists
  <2>2. \A l \in 1 .. Done : ended'[l] = l /\ (l \notin aborted' => executed'[l] = ListLength)
    BY <2>1, <1>1, <1>2, <1>7 DEF ExecutionAgrees
  <2>3. \A l \in Lists : l > Consumed => l # Done + 1 /\ executed'[l] = 0 /\ l \notin aborted'
    BY <1>1, <1>2, <1>4, <1>7 DEF ExecutionAgrees
  <2>4. gpu' # "finallyThrown" =>
          /\ executed'[Done + 1] = list'[executing].pointer
          /\ list'[executing].pointer < ListLength
          /\ Done + 1 \notin aborted'
    BY <1>2, <1>3, <1>7, Sizes
  <2>5. gpu' = "finallyThrown" => Done + 1 \in aborted'
    BY <1>2
  <2>. QED
    BY <2>2, <2>3, <2>4, <2>5, <1>5, <1>6 DEF ExecutionAgrees
<1>12. WrittenAgrees'
  <2>1. ASSUME aborted' = {}
        PROVE  /\ \A l \in Done + 1 .. enqueued : Reach(list'[SlotOf(l)].stall) = written[l]
               /\ \A l \in Lists : executed'[l] <= written[l]
    <3>1. aborted = {} /\ gpu' = "execute"
      BY <2>1
    <3>2. /\ \A l \in Done + 1 .. enqueued : Reach(list[SlotOf(l)].stall) = written[l]
          /\ \A l \in Lists : executed[l] <= written[l]
      BY <3>1, <1>1 DEF WrittenAgrees
    <3>3. \A l \in Done + 1 .. enqueued : l = Done + 1 \/ l \in Done + 2 .. enqueued
      BY <1>4
    <3>4. \A l \in Done + 1 .. enqueued : list'[SlotOf(l)].stall = list[SlotOf(l)].stall
      BY <3>3, <1>3, <1>4
    <3>5. \A l \in Lists : executed'[l] <= written[l]
      BY <3>1, <3>2, <1>2, <1>7
    <3>. QED
      BY <3>2, <3>4, <3>5
  <2>. QED
    BY <2>1, <1>1, <1>5 DEF WrittenAgrees, SlotOf, Reach
<1>13. ThreadsAgree'
  BY <1>1, <1>2 DEF ThreadsAgree
<1>. QED
  BY <1>8, <1>9, <1>10, <1>11, <1>12, <1>13 DEF Whole

(***************************************************************************)
(* The slot of the list in execution is ended: by OP_END, when the list    *)
(* was executed, or after an exception, when it was aborted.               *)
(***************************************************************************)
LEMMA EndKeeps ==
  ASSUME Whole, Live, gpu \in {"execute", "finallyThrown"}, endList,
         UNCHANGED <<headPosition, tailPosition, readAvailable, executing, aborted>>,
         UNCHANGED <<cpu, waited, handle, enqueued, written>>,
         gpu' \in {"execute", "running?"},
         currentDisplayList' = Null <=> gpu' = "running?",
         executed' \in [Lists -> Nat],
         \A l \in Lists : l # Done + 1 => executed'[l] = executed[l],
         Done + 1 \notin aborted => executed'[Done + 1] = ListLength,
         aborted = {} => executed'[Done + 1] <= written[Done + 1]
  PROVE  Whole'
<1>1. /\ Typed /\ CountersAgree /\ SlotsAgree /\ ExecutionAgrees /\ WrittenAgrees /\ ThreadsAgree
  BY DEF Whole
<1>2. /\ Done \in Nat /\ enqueued \in Nat /\ Consumed = Done + 1
      /\ executing = SlotOf(Done + 1) /\ list[executing].base = Done + 1
      /\ Done + 1 \in Lists /\ Done + 1 \in Done + 1 .. enqueued
  BY Numbers, LiveList
<1>3. CountedOut = Done + 1 /\ One(gpu = "decrement") = 0 /\ One(gpu' = "decrement") = 0
  BY <1>2, Numbers DEF One
<1>4. list' = [list EXCEPT ![executing] = NullList] /\ ended' = Append(ended, Done + 1)
  BY <1>2, Sizes DEF endList, current
<1>5. NullList \in Entry
  BY DEF NullList, Entry, StallAddresses
<1>6. /\ list' \in [Slots -> Entry] /\ list'[executing] = NullList
      /\ \A l \in Done + 2 .. enqueued :
           /\ l \in Done + 1 .. enqueued /\ l \in Consumed + 1 .. enqueued
           /\ list'[SlotOf(l)] = list[SlotOf(l)]
  BY <1>4, <1>5, SlotChanges
<1>7. /\ ended' \in Seq(Nat) /\ Done' = Done + 1
      /\ \A l \in 1 .. Done : ended'[l] = ended[l]
      /\ ended'[Done + 1] = Done + 1
  BY <1>1, <1>2, <1>4 DEF Typed, Done
<1>8. ~ Live' /\ Consumed' = Done + 1 /\ CountedOut' = Done + 1
      /\ One(cpu' = "increment") = One(cpu = "increment")
  <2>1. ~ Live'
    BY <1>6 DEF Live, NullList
  <2>. QED
    BY <2>1, <1>2, <1>7 DEF Consumed, CountedOut, One
<1>9. Typed'
  <2>1. gpu' \in GpuStates
    BY DEF GpuStates
  <2>. QED
    BY <2>1, <1>1, <1>6, <1>7 DEF Typed, Slots
<1>10. CountersAgree'
  <2>1. enqueued' - Done' <= Capacity
    BY <1>1, <1>2, <1>7, Sizes DEF CountersAgree
  <2>2. headPosition' = SlotOf(Consumed' + 1)
    BY <1>1, <1>2, <1>8 DEF CountersAgree
  <2>3. /\ readAvailable' = enqueued' - One(cpu' = "increment") - CountedOut'
        /\ readAvailable' >= One(gpu' = "decrement")
    BY <1>1, <1>3, <1>8 DEF CountersAgree
  <2>4. /\ tailPosition' = SlotOf(enqueued' + 1) /\ Len(handle') = enqueued'
        /\ \A l \in 1 .. enqueued' : handle'[l] = SlotOf(l)
    BY <1>1 DEF CountersAgree
  <2>. QED
    BY <2>1, <2>2, <2>3, <2>4 DEF CountersAgree, SlotOf
<1>11. SlotsAgree'
  <2>1. \A l \in Consumed' + 1 .. enqueued' :
          list'[SlotOf(l)].base = l /\ list'[SlotOf(l)].pointer = 0
    <3>1. \A l \in Consumed' + 1 .. enqueued : l \in Done + 2 .. enqueued
      BY <1>2, <1>8
    <3>. QED
      BY <3>1, <1>1, <1>6 DEF SlotsAgree
  <2>2. Done' >= 1 /\ executing' = SlotOf(Done') /\ list'[executing'].pointer = Null
    BY <1>2, <1>6, <1>7 DEF NullList
  <2>. QED
    BY <2>1, <2>2, <1>8 DEF SlotsAgree, SlotOf
<1>12. ExecutionAgrees'
  <2>1. \A l \in 1 .. Done : l # Done + 1 /\ l \in Lists
    BY <1>2, Sizes DEF Lists
  <2>2. \A l \in 1 .. Done + 1 : l \in 1 .. Done \/ l = Done + 1
    BY <1>2
  <2>3. \A l \in 1 .. Done : ended'[l] = l /\ (l \notin aborted => executed'[l] = ListLength)
    BY <2>1, <1>1, <1>7 DEF ExecutionAgrees
  <2>4. \A l \in 1 .. Done' : ended'[l] = l /\ (l \notin aborted' => executed'[l] = ListLength)
    BY <2>2, <2>3, <1>7
  <2>5. \A l \in Lists : l > Consumed' => executed'[l] = 0 /\ l \notin aborted'
    BY <1>1, <1>2, <1>8 DEF ExecutionAgrees
  <2>. QED
    BY <2>4, <2>5, <1>8 DEF ExecutionAgrees
<1>13. WrittenAgrees'
  <2>1. ASSUME aborted = {}
        PROVE  /\ \A l \in Done + 2 .. enqueued : Reach(list'[SlotOf(l)].stall) = written[l]
               /\ \A l \in Lists : executed'[l] <= written[l]
    BY <2>1, <1>1, <1>6 DEF WrittenAgrees
  <2>2. Done' + 1 = Done + 2
    BY <1>2, <1>7
  <2>. QED
    BY <2>1, <2>2, <1>1 DEF WrittenAgrees, SlotOf, Reach
<1>14. ThreadsAgree'
  BY <1>1 DEF ThreadsAgree
<1>. QED
  BY <1>9, <1>10, <1>11, <1>12, <1>13, <1>14 DEF Whole

\* The slot was ended before; ending it again harms nobody.
LEMMA EndAgainKeeps ==
  ASSUME Whole, ~ Live, gpu \in {"finally", "finallyThrown"}, endList,
         UNCHANGED <<headPosition, tailPosition, readAvailable, executing, aborted, executed>>,
         UNCHANGED <<cpu, waited, handle, enqueued, written>>,
         gpu' \in {"available?", "running?"}, currentDisplayList' = Null
  PROVE  Whole'
<1>1. /\ Typed /\ CountersAgree /\ SlotsAgree /\ ExecutionAgrees /\ WrittenAgrees /\ ThreadsAgree
      /\ Working /\ list[executing].base = Null
  BY DEF Whole, Working, Live
<1>2. Done \in Nat /\ enqueued \in Nat /\ Consumed = Done
  BY Numbers
<1>3. list' = [list EXCEPT ![executing] = NullList] /\ ended' = ended
  BY <1>1 DEF endList, current
<1>4. NullList \in Entry
  BY DEF NullList, Entry, StallAddresses
<1>5. /\ list' \in [Slots -> Entry]
      /\ \A l \in Done + 1 .. enqueued : list'[SlotOf(l)] = list[SlotOf(l)]
  <2>1. list \in [Slots -> Entry] /\ executing \in Slots
    BY <1>1 DEF Typed
  <2>2. \A l \in Done + 1 .. enqueued : SlotOf(l) # executing /\ SlotOf(l) \in Slots
    BY <1>1, <1>2, WaitingElsewhere
  <2>. QED
    BY <2>1, <2>2, <1>3, <1>4
<1>6. Done' = Done /\ ~ Live' /\ ~ Working'
  BY <1>3 DEF Done, Live, Working
<1>7. Consumed' = Consumed /\ CountedOut' = CountedOut
      /\ One(gpu' = "decrement") = One(gpu = "decrement")
      /\ One(cpu' = "increment") = One(cpu = "increment")
  BY <1>6 DEF Consumed, CountedOut, One
<1>8. Typed'
  <2>1. gpu' \in GpuStates
    BY DEF GpuStates
  <2>. QED
    BY <2>1, <1>1, <1>3, <1>5 DEF Typed, Slots
<1>9. CountersAgree'
  BY <1>1, <1>6, <1>7 DEF CountersAgree, SlotOf
<1>10. SlotsAgree'
  <2>1. \A l \in Consumed' + 1 .. enqueued' :
          list'[SlotOf(l)].base = l /\ list'[SlotOf(l)].pointer = 0
    BY <1>1, <1>2, <1>5, <1>7 DEF SlotsAgree
  <2>2. gpu' \notin {"decrement", "begin", "finally"}
    OBVIOUS
  <2>. QED
    BY <2>1, <2>2, <1>6 DEF SlotsAgree, SlotOf
<1>11. ExecutionAgrees'
  BY <1>1, <1>3, <1>6, <1>7 DEF ExecutionAgrees
<1>12. WrittenAgrees'
  BY <1>1, <1>5, <1>6 DEF WrittenAgrees, SlotOf, Reach
<1>13. ThreadsAgree'
  BY <1>1 DEF ThreadsAgree
<1>. QED
  BY <1>8, <1>9, <1>10, <1>11, <1>12, <1>13 DEF Whole

LEMMA GpuThreadKeeps ==
  ASSUME Whole, intact', GpuThreadNext
  PROVE  Whole'
<1>1. CASE testRunning
  BY <1>1, GpuMovesKeep DEF testRunning, gpuMoves, queueVars, cpuVars, GpuStates, Working
<1>2. CASE nothingAvailable
  BY <1>2, GpuMovesKeep DEF nothingAvailable, gpuMoves, queueVars, cpuVars, GpuStates, Working
<1>3. CASE waitEnds
  BY <1>3, GpuMovesKeep DEF waitEnds, gpuMoves, queueVars, cpuVars, GpuStates, Working
<1>4. CASE consumeList
  BY <1>4, ConsumeListKeeps
<1>5. CASE consumeDecrement
  BY <1>5, ConsumeDecrementKeeps
<1>6. CASE executeListBegins
  BY <1>6, ExecuteListBeginsKeeps
<1>7. CASE executeSingleCommand
  BY <1>7, CommandKeeps, CanExecute DEF executeSingleCommand, countExecuted, cpuVars
<1>8. CASE OP_END
  <2>1. /\ canExecute /\ current.pointer = ListLength - 1 /\ endList
        /\ executed' = [executed EXCEPT ![current.base] = @ + 1]
        /\ UNCHANGED <<headPosition, tailPosition, readAvailable, executing, aborted>>
        /\ UNCHANGED <<cpu, waited, handle, enqueued, written>>
        /\ UNCHANGED <<gpu, currentDisplayList>>
    BY <1>8 DEF OP_END, countExecuted, cpuVars
  <2>2. /\ gpu = "execute" /\ Live /\ current.base = Done + 1 /\ Done + 1 \in Lists
        /\ executed[Done + 1] = current.pointer
        /\ aborted = {} => current.pointer + 1 <= written[Done + 1]
    BY <2>1, CanExecute
  <2>3. currentDisplayList # Null /\ executed \in [Lists -> Nat]
    BY <2>2 DEF Whole, ThreadsAgree, Typed
  <2>4. /\ executed' \in [Lists -> Nat] /\ executed'[Done + 1] = ListLength
        /\ \A l \in Lists : l # Done + 1 => executed'[l] = executed[l]
        /\ current.pointer + 1 = ListLength
    BY <2>1, <2>2, <2>3, Sizes
  <2>. QED
    BY <2>1, <2>2, <2>3, <2>4, EndKeeps
<1>9. CASE commandThrows
  BY <1>9, CommandKeeps DEF commandThrows, cpuVars
<1>10. CASE noMoreCommands
  BY <1>10, NoMoreCommandsKeeps
<1>11. CASE executeListEnds
  <2>1. /\ gpu \in {"finally", "finallyThrown"} /\ endList /\ currentDisplayList' = Null
        /\ gpu' = IF gpu = "finally" THEN "available?" ELSE "running?"
        /\ UNCHANGED <<headPosition, tailPosition, readAvailable, executing, aborted, executed>>
        /\ UNCHANGED <<cpu, waited, handle, enqueued, written>>
    BY <1>11 DEF executeListEnds, cpuVars
  <2>2. CASE Live
    <3>1. gpu = "finallyThrown" /\ Done + 1 \in aborted /\ executed \in [Lists -> Nat]
      BY <2>1, <2>2 DEF Whole, SlotsAgree, ExecutionAgrees, Typed
    <3>. QED
      BY <2>1, <2>2, <3>1, EndKeeps
  <2>3. CASE ~ Live
    BY <2>1, <2>3, EndAgainKeeps
  <2>. QED
    BY <2>2, <2>3
<1>. QED
  BY <1>1, <1>2, <1>3, <1>4, <1>5, <1>6, <1>7, <1>8, <1>9, <1>10, <1>11 DEF GpuThreadNext

-----------------------------------------------------------------------------
(* The theorems. *)

LEMMA UnchangedKeeps ==
  ASSUME Whole,
         UNCHANGED <<list, headPosition, tailPosition, readAvailable>>,
         UNCHANGED <<currentDisplayList, executing, gpu, executed, ended, aborted>>,
         UNCHANGED <<cpu, waited, handle, enqueued, written>>
  PROVE  Whole'
<1>1. Done' = Done /\ Live' = Live /\ Working' = Working
  BY DEF Done, Live, Working
<1>2. Consumed' = Consumed /\ CountedOut' = CountedOut
  BY <1>1 DEF Consumed, CountedOut
<1>3. Typed' /\ CountersAgree'
  BY <1>1, <1>2 DEF Whole, Typed, Slots, CountersAgree, SlotOf, One
<1>4. SlotsAgree' /\ ExecutionAgrees'
  BY <1>1, <1>2 DEF Whole, SlotsAgree, SlotOf, ExecutionAgrees
<1>5. WrittenAgrees' /\ ThreadsAgree'
  BY <1>1 DEF Whole, WrittenAgrees, SlotOf, Reach, ThreadsAgree
<1>. QED
  BY <1>3, <1>4, <1>5 DEF Whole

LEMMA GpuInitially == GpuInit => GpuInv
<1>. SUFFICES ASSUME GpuInit
              PROVE  Whole
  BY DEF GpuInv
<1>1. /\ list = [i \in Slots |-> NullList]
      /\ headPosition = 0 /\ tailPosition = 0 /\ readAvailable = 0
      /\ currentDisplayList = Null /\ executing = 0
      /\ gpu = "running?" /\ cpu = "idle"
      /\ handle = <<>> /\ enqueued = 0
      /\ executed = [l \in Lists |-> 0] /\ written = [l \in Lists |-> 0]
      /\ ended = <<>> /\ aborted = {}
  BY DEF GpuInit
<1>2. Done = 0 /\ ~ Working /\ ~ Live
  BY <1>1 DEF Done, Working, Live
<1>3. Consumed = 0 /\ CountedOut = 0
  BY <1>2 DEF Consumed, CountedOut, One
<1>4. SlotOf(1) = 0 /\ 0 \in Slots
  <2>1. 0 \in Slots /\ 1 - 1 = Capacity * 0 + 0 /\ 0 \in Int /\ 1 \in Nat
    BY Sizes DEF Slots
  <2>. QED
    BY <2>1, SlotIs
<1>5. Typed
  <2>1. NullList \in Entry
    BY DEF NullList, Entry, StallAddresses
  <2>2. list \in [Slots -> Entry] /\ executed \in [Lists -> Nat] /\ written \in [Lists -> Nat]
    BY <2>1, <1>1
  <2>. QED
    BY <2>2, <1>1, <1>4, Sizes DEF Typed, GpuStates, CpuStates
<1>6. CountersAgree
  <2>1. enqueued - Done <= Capacity
    BY <1>1, <1>2, Sizes
  <2>. QED
    BY <2>1, <1>1, <1>2, <1>3, <1>4 DEF CountersAgree, One
<1>7. SlotsAgree
  BY <1>1, <1>2, <1>3 DEF SlotsAgree
<1>8. ExecutionAgrees
  BY <1>1, <1>2, <1>3 DEF ExecutionAgrees
<1>9. WrittenAgrees
  BY <1>1, <1>2, Sizes DEF WrittenAgrees
<1>10. ThreadsAgree
  BY <1>1 DEF ThreadsAgree
<1>. QED
  BY <1>5, <1>6, <1>7, <1>8, <1>9, <1>10 DEF Whole

\* The damage is recorded for good.
LEMMA DamageStays == [GpuNext]_gpuVars /\ intact' => intact
<1>. SUFFICES ASSUME [GpuNext]_gpuVars, torn \/ overwritten
              PROVE  torn' \/ overwritten'
  BY DEF intact
<1>1. ASSUME NEW s \in StallAddresses, enqueueStore(s)
      PROVE  torn' \/ overwritten'
  <2>1. torn' = torn /\ (overwritten => overwritten')
    BY <1>1 DEF enqueueStore
  <2>. QED
    BY <2>1
<1>2. CASE enqueueIncrement \/ consumeDecrement
  <2>1. (torn => torn') /\ overwritten' = overwritten
    BY <1>2 DEF enqueueIncrement, consumeDecrement, updateAvailable, cpuVars
  <2>. QED
    BY <2>1
<1>3. CASE UNCHANGED <<torn, overwritten>>
  BY <1>3
<1>4. \/ \E s \in StallAddresses : enqueueStore(s)
      \/ enqueueIncrement \/ consumeDecrement
      \/ UNCHANGED <<torn, overwritten>>
  BY DEF GpuNext, CpuNext, sceGeListEnQueue, sceGeListUpdateStallAddr, sceGeListSync,
         listSyncReturns, sceGeDrawSync, drawSyncNoneAvailable, drawSyncExecuting,
         drawSyncReturns, cpuMoves, GpuThreadNext, testRunning, nothingAvailable, waitEnds,
         gpuMoves, consumeList, executeListBegins, executeSingleCommand, OP_END,
         commandThrows, noMoreCommands, executeListEnds, interrupt, gpuVars, queueVars, cpuVars
<1>. QED
  BY <1>1, <1>2, <1>3, <1>4

LEMMA GpuStep == GpuInv /\ [GpuNext]_gpuVars => GpuInv'
<1>. SUFFICES ASSUME GpuInv, [GpuNext]_gpuVars, intact'
              PROVE  Whole'
  BY DEF GpuInv
<1>1. Whole
  BY DamageStays DEF GpuInv
<1>2. CASE interrupt \/ UNCHANGED gpuVars
  BY <1>1, <1>2, UnchangedKeeps DEF interrupt, gpuVars, queueVars, cpuVars, gpuThreadVars
<1>. QED
  BY <1>1, <1>2, CpuKeeps, GpuThreadKeeps DEF GpuNext

(***************************************************************************)
(* Until a race damages the queue, the slots, positions and counters are   *)
(* those of the lists' numbers.                                            *)
(***************************************************************************)
THEOREM GpuInvariant == GpuSpec => []GpuInv
<1>. QED
  BY GpuInitially, GpuStep, PTL DEF GpuSpec

LEMMA EndedAreDone ==
  ASSUME Whole
  PROVE  \A l \in Nat : Ended(l) <=> l \in 1 .. Done
<1>1. ended \in Seq(Nat) /\ \A l \in 1 .. Done : ended[l] = l
  BY DEF Whole, Typed, ExecutionAgrees
<1>2. DOMAIN ended = 1 .. Done
  BY <1>1 DEF Done
<1>. QED
  BY <1>1, <1>2 DEF Ended

LEMMA OutstandingAre ==
  ASSUME Whole
  PROVE  Outstanding = Done + 1 .. enqueued
<1>1. Done \in Nat /\ enqueued \in Nat
  BY Numbers
<1>. QED
  BY <1>1, EndedAreDone DEF Outstanding

(***************************************************************************)
(* Lists end in the order they were enqueued, each once, and executed to   *)
(* OP_END unless an exception ended them (Gpu.d:224-250, 264-288).         *)
(***************************************************************************)
THEOREM ListsExecuteInOrder == GpuSpec => []ExecutedInOrder
<1>1. GpuInv => ExecutedInOrder
  <2>. SUFFICES ASSUME Whole
                PROVE  /\ ended = [i \in DOMAIN ended |-> i]
                       /\ \A l \in Lists : Ended(l) /\ l \notin aborted => executed[l] = ListLength
    BY DEF GpuInv, ExecutedInOrder
  <2>1. ended \in Seq(Nat) /\ \A l \in 1 .. Done : ended[l] = l
    BY DEF Whole, Typed, ExecutionAgrees
  <2>2. DOMAIN ended = 1 .. Done /\ ended = [i \in DOMAIN ended |-> ended[i]]
    BY <2>1 DEF Done
  <2>3. ended = [i \in DOMAIN ended |-> i]
    BY <2>1, <2>2
  <2>4. \A l \in Lists : l \in Nat
    BY Sizes DEF Lists
  <2>. QED
    BY <2>3, <2>4, EndedAreDone DEF Whole, ExecutionAgrees
<1>. QED
  BY <1>1, GpuInvariant, PTL

(***************************************************************************)
(* The GPU reads no command that the guest has not written (Gpu.d:233,     *)
(* 312), while the guest moves the stall address.                          *)
(***************************************************************************)
THEOREM UnwrittenAreNotRead == GpuSpec => []NeverReadsUnwritten
<1>1. GpuInv => NeverReadsUnwritten
  BY DEF GpuInv, Whole, WrittenAgrees, NeverReadsUnwritten
<1>. QED
  BY <1>1, GpuInvariant, PTL

(***************************************************************************)
(* The counter of the queue is the number of lists enqueued and not        *)
(* consumed (CircularList.d:37-60, Gpu.d:277).                             *)
(***************************************************************************)
THEOREM CounterCountsLists == GpuSpec => []QueueCountsLists
<1>1. GpuInv => QueueCountsLists
  <2>. SUFFICES ASSUME Whole, cpu # "increment", gpu # "decrement"
                PROVE  readAvailable = Cardinality(Outstanding \ InExecution)
    BY DEF GpuInv, QueueCountsLists
  <2>1. /\ Done \in Nat /\ enqueued \in Nat /\ Consumed \in Nat /\ Consumed <= enqueued
        /\ CountedOut = Consumed /\ readAvailable = enqueued - Consumed
    BY Numbers DEF Whole, CountersAgree, One
  <2>2. Outstanding \ InExecution = Consumed + 1 .. enqueued
    <3>1. CASE Live
      <4>1. InExecution = {Done + 1} /\ Consumed = Done + 1
        BY <3>1, LiveList DEF InExecution, Live, Working, current
      <4>. QED
        BY <4>1, <2>1, OutstandingAre
    <3>2. CASE ~ Live
      <4>1. InExecution \subseteq {Null} /\ Consumed = Done
        BY <3>2, Numbers DEF InExecution, Live, Working, current
      <4>2. Null \notin Done + 1 .. enqueued
        BY <2>1, Sizes
      <4>. QED
        BY <4>1, <4>2, OutstandingAre
    <3>. QED
      BY <3>1, <3>2
  <2>3. Cardinality(Consumed + 1 .. enqueued) = enqueued - Consumed
    <3>1. Consumed + 1 \in Int /\ enqueued \in Int
      BY <2>1
    <3>2. Cardinality(Consumed + 1 .. enqueued)
            = IF Consumed + 1 > enqueued THEN 0 ELSE enqueued - (Consumed + 1) + 1
      BY <3>1, FS_Interval
    <3>. QED
      BY <3>2, <2>1
  <2>. QED
    BY <2>1, <2>2, <2>3
<1>. QED
  BY <1>1, GpuInvariant, PTL

(***************************************************************************)
(* sceGeListSync returns only when its list has ended (Gpu.d:318-324).     *)
(***************************************************************************)
THEOREM ListSyncIsSound == GpuSpec => ListSyncWaits
<1>1. GpuInv => (listSyncReturns /\ intact => Ended(waited))
  <2>. SUFFICES ASSUME Whole, listSyncReturns
                PROVE  Ended(waited)
    BY DEF GpuInv
  <2>1. /\ cpu = "listSync" /\ list[handle[waited]].pointer = Null
        /\ waited \in 1 .. enqueued /\ handle[waited] = SlotOf(waited)
    BY DEF listSyncReturns, hasMore, Whole, ThreadsAgree, CountersAgree
  <2>2. waited \notin Done + 1 .. enqueued
    BY <2>1, NotEnded, Sizes
  <2>3. waited \in Nat /\ waited \in 1 .. Done
    BY <2>1, <2>2, Numbers
  <2>. QED
    BY <2>3, EndedAreDone
<1>. QED
  BY <1>1, GpuInvariant, PTL DEF ListSyncWaits

(***************************************************************************)
(* sceGeDrawSync returns with at most one list outstanding, the one the    *)
(* GPU thread has consumed and not entered yet (Gpu.d:226, 367).           *)
(***************************************************************************)
THEOREM DrawSyncMissesOne == GpuSpec => DrawSyncMissesAtMostOne
<1>1. GpuInv => (drawSyncReturns /\ intact =>
                   Outstanding = {} \/ (gpu = "begin" /\ Outstanding = {current.base}))
  <2>. SUFFICES ASSUME Whole, drawSyncReturns
                PROVE  Outstanding = {} \/ (gpu = "begin" /\ Outstanding = {current.base})
    BY DEF GpuInv
  <2>1. /\ cpu = "drawSyncExecuting" /\ readAvailable = 0
        /\ gpu \notin {"execute", "finally", "finallyThrown"}
    BY DEF drawSyncReturns, cpuMoves, Whole, ThreadsAgree
  <2>2. gpu # "decrement"
    BY <2>1 DEF Whole, CountersAgree, One
  <2>3. /\ Done \in Nat /\ enqueued \in Nat /\ enqueued = Consumed
    BY <2>1, <2>2, Numbers DEF Whole, CountersAgree, One
  <2>4. CASE Live
    <3>1. gpu = "begin" /\ Consumed = Done + 1 /\ current.base = Done + 1
      BY <2>1, <2>2, <2>4, LiveList DEF Live, Working, current
    <3>. QED
      BY <3>1, <2>3, OutstandingAre
  <2>5. CASE ~ Live
    <3>1. enqueued = Done
      BY <2>3, <2>5, Numbers
    <3>. QED
      BY <3>1, <2>3, OutstandingAre
  <2>. QED
    BY <2>4, <2>5
<1>. QED
  BY <1>1, GpuInvariant, PTL DEF DrawSyncMissesAtMostOne

(***************************************************************************)
(* A list is stored over the one in execution only when as many lists are  *)
(* outstanding as the queue has slots (CircularList.d:62-65,               *)
(* Gpu.d:245-246): with fewer, the damage does not happen.                 *)
(***************************************************************************)
THEOREM OverwritesAreOfFullQueues == GpuSpec => OverwrittenOnlyWhenFull
<1>1. GpuInv /\ [GpuNext]_gpuVars =>
        (overwritten' /\ intact => Cardinality(Outstanding') >= Capacity)
  <2>. SUFFICES ASSUME Whole, intact, [GpuNext]_gpuVars, overwritten'
                PROVE  Cardinality(Outstanding') >= Capacity
    BY DEF GpuInv
  <2>1. PICK stall \in StallAddresses : enqueueStore(stall)
    <3>1. ~ overwritten
      BY DEF intact
    <3>2. CASE CpuNext
      BY <3>1, <3>2 DEF CpuNext, sceGeListEnQueue, enqueueIncrement, updateAvailable,
              sceGeListUpdateStallAddr, sceGeListSync, listSyncReturns, sceGeDrawSync,
              drawSyncNoneAvailable, drawSyncExecuting, drawSyncReturns, cpuMoves
    <3>3. CASE GpuThreadNext
      BY <3>1, <3>3 DEF GpuThreadNext, testRunning, nothingAvailable, waitEnds, gpuMoves,
              consumeList, consumeDecrement, updateAvailable, executeListBegins,
              executeSingleCommand, OP_END, commandThrows, noMoreCommands, executeListEnds, cpuVars
    <3>4. CASE interrupt \/ UNCHANGED gpuVars
      BY <3>1, <3>4 DEF interrupt, gpuVars, cpuVars
    <3>. QED
      BY <3>2, <3>3, <3>4 DEF GpuNext
  <2>2. /\ tailPosition = executing /\ Working
        /\ enqueued' = enqueued + 1 /\ ended' = ended
    BY <2>1 DEF enqueueStore, intact, Working, gpuThreadVars
  <2>3. Done \in Nat /\ enqueued \in Nat /\ Done <= enqueued /\ tailPosition = SlotOf(enqueued + 1)
    BY Numbers DEF Whole, CountersAgree, One
  <2>4. enqueued + 1 - Done >= Capacity
    <3>1. CASE Live
      <4>1. executing = SlotOf(Done + 1) /\ Done + 1 \in Done + 1 .. enqueued
        BY <3>1, LiveList
      <4>2. enqueued + 1 - (Done + 1) >= Capacity
        BY <4>1, <2>2, <2>3, SameSlot
      <4>. QED
        BY <4>2, <2>3, Sizes
    <3>2. CASE ~ Live
      <4>1. executing = SlotOf(Done)
        BY <3>2, <2>2 DEF Whole, SlotsAgree
      <4>2. Done < enqueued + 1 /\ enqueued + 1 \in Nat
        BY <2>3
      <4>3. PICK m \in Nat : m = enqueued + 1
        BY <4>2
      <4>4. SlotOf(Done) = SlotOf(m) /\ Done < m /\ Done \in Nat
        BY <4>1, <4>2, <4>3, <2>2, <2>3
      <4>5. m - Done >= Capacity
        BY <4>4, SameSlot
      <4>. QED
        BY <4>3, <4>5, <2>3, Sizes
    <3>. QED
      BY <3>1, <3>2
  <2>5. Outstanding' = Done + 1 .. enqueued + 1
    <3>1. \A l \in Nat : Ended(l)' <=> l \in 1 .. Done
      BY <2>2, EndedAreDone DEF Ended
    <3>. QED
      BY <3>1, <2>2, <2>3 DEF Outstanding
  <2>6. Cardinality(Done + 1 .. enqueued + 1) = enqueued + 1 - Done
    BY <2>3, FS_Interval
  <2>. QED
    BY <2>4, <2>5, <2>6
<1>. QED
  BY <1>1, GpuInvariant, PTL DEF OverwrittenOnlyWhenFull, GpuSpec

=============================================================================
