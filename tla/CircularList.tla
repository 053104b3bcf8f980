---------------------------- MODULE CircularList ----------------------------
(***************************************************************************)
(* src/src/pspemu/utils/CircularList.d: a ring of Capacity slots with a    *)
(* head, a tail and a counter, all three of type uint.                     *)
(*                                                                         *)
(* The operators are the methods; the assertions of CheckAvailable are     *)
(* compiled out of the build (-release) and are not guards of them.  Next  *)
(* is the use the assertions allow, on one thread; the modules that use    *)
(* the list with their own discipline are Controller and Gpu.              *)
(***************************************************************************)
EXTENDS Integers, Sequences

CONSTANTS
  Value,      \* what the slots hold
  NoValue,    \* the content of a slot never written
  Capacity,   \* list.length
  WordSize    \* 2^32, the range of uint

\* Both lists of the program have 1024 slots.
ASSUME CapacityAssumption ==
  /\ Capacity \in Nat \ {0}
  /\ WordSize \in Nat \ {0}
  /\ Capacity < WordSize
  /\ WordSize % Capacity = 0

VARIABLES list, headPosition, tailPosition, readAvailable

listVars == <<list, headPosition, tailPosition, readAvailable>>

Slots == 0 .. Capacity - 1

ListTypeOK ==
  /\ list \in [Slots -> Value \cup {NoValue}]
  /\ headPosition \in Slots
  /\ tailPosition \in Slots
  /\ readAvailable \in 0 .. WordSize - 1

ListInit ==
  /\ list = [i \in Slots |-> NoValue]
  /\ headPosition = 0
  /\ tailPosition = 0
  /\ readAvailable = 0

-----------------------------------------------------------------------------

writeAvailable == (Capacity - readAvailable) % WordSize

clear ==
  /\ readAvailable' = 0
  /\ headPosition' = 0
  /\ tailPosition' = 0
  /\ UNCHANGED list

\* The head moves by one whatever count is.
headPosition__Inc(count) ==
  /\ headPosition' = ((headPosition + 1) % WordSize) % Capacity
  /\ readAvailable' = (readAvailable - count) % WordSize

tailPosition__Inc(count) ==
  /\ tailPosition' = ((tailPosition + count) % WordSize) % Capacity
  /\ readAvailable' = (readAvailable + count) % WordSize

\* Returns a reference to slot headPosition.
consume ==
  /\ headPosition__Inc(1)
  /\ UNCHANGED <<list, tailPosition>>

\* Mutant: the value is stored after the tail moved.
enqueueAfterInc(value) ==
  /\ tailPosition__Inc(1)
  /\ list' = [list EXCEPT ![tailPosition'] = value]
  /\ UNCHANGED headPosition

enqueue(value) ==
  /\ list' = [list EXCEPT ![tailPosition] = value]
  /\ tailPosition__Inc(1)
  /\ UNCHANGED headPosition

\* Returns a reference to slot tailPosition'.
dequeue ==
  /\ tailPosition__Inc(-1)
  /\ UNCHANGED <<list, headPosition>>

\* The slot readFromTail(pos) returns a reference to.
slotFromTail(pos) == ((tailPosition + pos) % WordSize) % Capacity

readFromTail(pos) == list[slotFromTail(pos)]

-----------------------------------------------------------------------------

\* The assertions of headPosition__Inc and tailPosition__Inc.
CanRead == readAvailable >= 1
CanWrite == writeAvailable >= 1

ListNext ==
  \/ CanRead /\ consume
  \/ CanWrite /\ \E v \in Value : enqueue(v)
  \/ CanRead /\ dequeue
  \/ clear

ListSpec == ListInit /\ [][ListNext]_listVars

-----------------------------------------------------------------------------

\* What the list holds, from the head to the tail.
Contents == [i \in 1 .. readAvailable |->
               list[(headPosition + i - 1) % Capacity]]

(***************************************************************************)
(* A list used within its assertions is a bounded deque, through every     *)
(* wrap of the positions at the ring's and at the machine word's boundary, *)
(* also when the uint sum of a count of -1 wraps (lines 37 to 76).         *)
(***************************************************************************)
IsDeque == INSTANCE Deque WITH items <- Contents, Bound <- Capacity
ImplementsDeque == IsDeque!Spec

=============================================================================
