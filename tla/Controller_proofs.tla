--------------------------- MODULE Controller_proofs ---------------------------
(***************************************************************************)
(* Proofs about CircularList and Controller, for any capacity that divides *)
(* the range of the machine word: what the positions' arithmetic computes, *)
(* that the list implements Deque, and the controller's invariants.        *)
(***************************************************************************)
EXTENDS Controller, SequenceTheorems, TLAPS

\* x modulo the capacity, for an x that is past the end by one turn at most.
Wrap(x) == IF x < Capacity THEN x ELSE x - Capacity

LEMMA CapacityType == Capacity \in Nat \ {0} /\ WordSize \in Nat \ {0} /\ Capacity < WordSize
BY CapacityAssumption

LEMMA ModuloSmall ==
  ASSUME NEW c \in Nat \ {0}, NEW x \in 0 .. c - 1
  PROVE  x % c = x
OBVIOUS

LEMMA ModuloNegative ==
  ASSUME NEW c \in Nat \ {0}, NEW x \in -c .. -1
  PROVE  x % c = x + c
OBVIOUS

LEMMA ModuloTurns ==
  ASSUME NEW c \in Nat \ {0}, NEW k \in Int, NEW r \in 0 .. c - 1
  PROVE  (c * k + r) % c = r
OBVIOUS

LEMMA Division ==
  ASSUME NEW c \in Int, c > 0, NEW x \in Int, NEW q \in Int, NEW r \in Int,
         q = x \div c, r = x % c
  PROVE  x = c * q + r
BY SMTT(20)

LEMMA Wrapped ==
  ASSUME NEW x \in 0 .. 2 * Capacity - 1
  PROVE  x % Capacity = Wrap(x) /\ Wrap(x) \in Slots
<1>1. CASE x < Capacity
  BY <1>1, CapacityType, ModuloSmall DEF Wrap, Slots
<1>2. CASE x >= Capacity
  <2>1. x - Capacity \in 0 .. Capacity - 1 /\ 1 \in Int
    BY <1>2, CapacityType
  <2>2. (Capacity * 1 + (x - Capacity)) % Capacity = x - Capacity
    BY <2>1, CapacityType, ModuloTurns
  <2>. QED
    BY <1>2, <2>1, <2>2, CapacityType DEF Wrap, Slots
<1>. QED
  BY <1>1, <1>2, CapacityType

(***************************************************************************)
(* A position that moves forward by one, in uint.                          *)
(***************************************************************************)
LEMMA Forward ==
  ASSUME NEW p \in Slots
  PROVE  ((p + 1) % WordSize) % Capacity = Wrap(p + 1) /\ Wrap(p + 1) \in Slots
<1>1. p + 1 \in 0 .. WordSize - 1 /\ p + 1 \in 0 .. 2 * Capacity - 1
  BY CapacityType DEF Slots
<1>2. (p + 1) % WordSize = p + 1
  BY <1>1, CapacityType, ModuloSmall
<1>. QED
  BY <1>1, <1>2, Wrapped

(***************************************************************************)
(* A position that moves back by k, in uint: the range of uint is a        *)
(* multiple of the capacity, so the wrap of the word is harmless.          *)
(***************************************************************************)
LEMMA Back ==
  ASSUME NEW p \in Slots, NEW k \in 1 .. Capacity
  PROVE  /\ ((p - k) % WordSize) % Capacity =
              IF p >= k THEN p - k ELSE p - k + Capacity
         /\ ((p - k) % WordSize) % Capacity \in Slots
<1>1. CASE p >= k
  <2>1. p - k \in 0 .. WordSize - 1 /\ p - k \in 0 .. Capacity - 1
    BY <1>1, CapacityType DEF Slots
  <2>. QED
    BY <1>1, <2>1, CapacityType, ModuloSmall DEF Slots
<1>2. CASE p < k
  <2>1. p - k \in -WordSize .. -1 /\ p - k + Capacity \in 0 .. Capacity - 1
    BY <1>2, CapacityType DEF Slots
  <2>2. (p - k) % WordSize = p - k + WordSize
    BY <2>1, CapacityType, ModuloNegative
  <2>3. PICK turns \in Int : turns = WordSize \div Capacity
    BY CapacityType
  <2>4. WordSize = Capacity * turns
    <3>1. 0 = WordSize % Capacity /\ Capacity \in Int /\ Capacity > 0 /\ WordSize \in Int /\ 0 \in Int
      BY CapacityType, CapacityAssumption
    <3>2. WordSize = Capacity * turns + 0
      BY <2>3, <3>1, Division
    <3>. QED
      BY <2>3, <3>1, <3>2
  <2>5. p - k + WordSize = Capacity * (turns - 1) + (p - k + Capacity) /\ turns - 1 \in Int
    BY <2>3, <2>4, CapacityType DEF Slots
  <2>6. (p - k + WordSize) % Capacity = p - k + Capacity
    BY <2>1, <2>5, CapacityType, ModuloTurns
  <2>. QED
    BY <1>2, <2>1, <2>2, <2>6, CapacityType DEF Slots
<1>. QED
  BY <1>1, <1>2, CapacityType DEF Slots

-----------------------------------------------------------------------------
(* The list implements the bounded deque. *)

\* The tail is where the head and the counter say.
DequeInv ==
  /\ ListTypeOK
  /\ readAvailable \in 0 .. Capacity
  /\ tailPosition = Wrap(headPosition + readAvailable)

\* The slot of the i-th value from a head h.
SlotFrom(h, i) == Wrap(h + i - 1)

LEMMA ContentsOf ==
  ASSUME NEW h \in Slots, NEW i \in 1 .. Capacity
  PROVE  (h + i - 1) % Capacity = SlotFrom(h, i) /\ SlotFrom(h, i) \in Slots
<1>1. h + i - 1 \in 0 .. 2 * Capacity - 1
  BY CapacityType DEF Slots
<1>. QED
  BY <1>1, Wrapped DEF SlotFrom

\* The contents with the wrap in the place of the remainder.
LEMMA ContentsBySlot ==
  ASSUME DequeInv
  PROVE  /\ Contents = [i \in 1 .. readAvailable |-> list[SlotFrom(headPosition, i)]]
         /\ Contents \in Seq(Value \cup {NoValue})
         /\ Len(Contents) = readAvailable
<1>1. \A i \in 1 .. readAvailable :
        /\ (headPosition + i - 1) % Capacity = SlotFrom(headPosition, i)
        /\ SlotFrom(headPosition, i) \in Slots
  BY ContentsOf, CapacityType DEF DequeInv, ListTypeOK
<1>2. Contents = [i \in 1 .. readAvailable |-> list[SlotFrom(headPosition, i)]]
  BY <1>1 DEF Contents
<1>3. Contents \in [1 .. readAvailable -> Value \cup {NoValue}]
  BY <1>1, <1>2 DEF DequeInv, ListTypeOK
<1>4. readAvailable \in Nat
  BY CapacityType DEF DequeInv
<1>. QED
  BY <1>2, <1>3, <1>4

LEMMA ContentsBySlotNext ==
  ASSUME DequeInv'
  PROVE  /\ Contents' = [i \in 1 .. readAvailable' |-> list'[SlotFrom(headPosition', i)]]
         /\ Contents' \in Seq(Value \cup {NoValue})
         /\ Len(Contents') = readAvailable'
<1>1. \A i \in 1 .. readAvailable' :
        /\ (headPosition' + i - 1) % Capacity = SlotFrom(headPosition', i)
        /\ SlotFrom(headPosition', i) \in Slots
  <2>1. headPosition' \in Slots /\ readAvailable' \in 0 .. Capacity
    BY DEF DequeInv, ListTypeOK, Slots
  <2>2. \A i \in 1 .. readAvailable' : i \in 1 .. Capacity
    BY <2>1, CapacityType
  <2>. QED
    BY <2>1, <2>2, ContentsOf
<1>2. Contents' = [i \in 1 .. readAvailable' |-> list'[SlotFrom(headPosition', i)]]
  BY <1>1 DEF Contents
<1>3. Contents' \in [1 .. readAvailable' -> Value \cup {NoValue}]
  BY <1>1, <1>2 DEF DequeInv, ListTypeOK, Slots
<1>4. readAvailable' \in Nat
  BY CapacityType DEF DequeInv
<1>. QED
  BY <1>2, <1>3, <1>4

LEMMA DequeInitially ==
  ASSUME ListInit
  PROVE  DequeInv /\ IsDeque!Init
<1>1. DequeInv
  BY CapacityType DEF ListInit, DequeInv, ListTypeOK, Slots, Wrap
<1>2. Contents = <<>>
  BY <1>1, ContentsBySlot DEF ListInit
<1>. QED
  BY <1>1, <1>2 DEF IsDeque!Init

\* What the four operations do to the counter and the positions.
LEMMA ListMoves ==
  ASSUME DequeInv
  PROVE  /\ CanRead /\ consume =>
              /\ readAvailable > 0
              /\ headPosition' = Wrap(headPosition + 1)
              /\ readAvailable' = readAvailable - 1
              /\ UNCHANGED <<list, tailPosition>>
         /\ CanRead /\ dequeue =>
              /\ readAvailable > 0
              /\ tailPosition' = IF tailPosition >= 1 THEN tailPosition - 1 ELSE Capacity - 1
              /\ readAvailable' = readAvailable - 1
              /\ UNCHANGED <<list, headPosition>>
         /\ \A v \in Value : CanWrite /\ enqueue(v) =>
              /\ readAvailable < Capacity
              /\ list' = [list EXCEPT ![tailPosition] = v]
              /\ tailPosition' = Wrap(tailPosition + 1)
              /\ readAvailable' = readAvailable + 1
              /\ UNCHANGED headPosition
<1>0. /\ readAvailable \in 0 .. Capacity /\ headPosition \in Slots
      /\ tailPosition \in Slots
  BY DEF DequeInv, ListTypeOK
<1>1. ((headPosition + 1) % WordSize) % Capacity = Wrap(headPosition + 1)
  BY <1>0, Forward
<1>2. ((tailPosition + 1) % WordSize) % Capacity = Wrap(tailPosition + 1)
  BY <1>0, Forward
<1>3. ((tailPosition + (-1)) % WordSize) % Capacity
        = IF tailPosition >= 1 THEN tailPosition - 1 ELSE Capacity - 1
  <2>1. ((tailPosition - 1) % WordSize) % Capacity
          = IF tailPosition >= 1 THEN tailPosition - 1 ELSE tailPosition - 1 + Capacity
    BY <1>0, Back, CapacityType
  <2>2. tailPosition + (-1) = tailPosition - 1 /\ (~ (tailPosition >= 1) => tailPosition = 0)
    BY <1>0, CapacityType DEF Slots
  <2>. QED
    BY <2>1, <2>2, CapacityType
<1>4. readAvailable > 0 => (readAvailable - 1) % WordSize = readAvailable - 1
  BY <1>0, CapacityType, ModuloSmall
<1>5. readAvailable < Capacity => (readAvailable + 1) % WordSize = readAvailable + 1
  BY <1>0, CapacityType, ModuloSmall
<1>6. (Capacity - readAvailable) % WordSize = Capacity - readAvailable
  BY <1>0, CapacityType, ModuloSmall
<1>7. CanRead => readAvailable > 0
  BY <1>0, CapacityType DEF CanRead
<1>8. CanWrite => readAvailable < Capacity
  BY <1>0, <1>6, CapacityType DEF CanWrite, writeAvailable
<1>9. readAvailable + (-1) = readAvailable - 1
  BY <1>0, CapacityType
<1>10. CanRead /\ consume =>
              /\ readAvailable > 0
              /\ headPosition' = Wrap(headPosition + 1)
              /\ readAvailable' = readAvailable - 1
              /\ UNCHANGED <<list, tailPosition>>
  BY <1>1, <1>4, <1>7 DEF consume, headPosition__Inc
<1>11. CanRead /\ dequeue =>
              /\ readAvailable > 0
              /\ tailPosition' = IF tailPosition >= 1 THEN tailPosition - 1 ELSE Capacity - 1
              /\ readAvailable' = readAvailable - 1
              /\ UNCHANGED <<list, headPosition>>
  BY <1>3, <1>4, <1>7, <1>9 DEF dequeue, tailPosition__Inc
<1>12. ASSUME NEW v \in Value, CanWrite, enqueue(v)
       PROVE  /\ readAvailable < Capacity
              /\ list' = [list EXCEPT ![tailPosition] = v]
              /\ tailPosition' = Wrap(tailPosition + 1)
              /\ readAvailable' = readAvailable + 1
              /\ UNCHANGED headPosition
  BY <1>2, <1>5, <1>8, <1>12 DEF enqueue, tailPosition__Inc
<1>. QED
  BY <1>10, <1>11, <1>12

LEMMA ConsumeIsTail ==
  ASSUME DequeInv, CanRead, consume
  PROVE  DequeInv' /\ IsDeque!ConsumeItem
<1>1. /\ readAvailable > 0 /\ headPosition' = Wrap(headPosition + 1)
      /\ readAvailable' = readAvailable - 1
      /\ UNCHANGED <<list, tailPosition>>
  BY ListMoves
<1>2. DequeInv'
  BY <1>1, CapacityType DEF DequeInv, ListTypeOK, Slots, Wrap
<1>3. \A i \in 1 .. readAvailable - 1 :
        SlotFrom(headPosition', i) = SlotFrom(headPosition, i + 1)
  BY <1>1, CapacityType DEF DequeInv, ListTypeOK, Slots, Wrap, SlotFrom
<1>4. /\ Contents = [i \in 1 .. readAvailable |-> list[SlotFrom(headPosition, i)]]
      /\ Contents \in Seq(Value \cup {NoValue})
      /\ Len(Contents) = readAvailable
  BY ContentsBySlot
<1>5. /\ Contents' = [i \in 1 .. readAvailable' |-> list'[SlotFrom(headPosition', i)]]
      /\ Contents' \in Seq(Value \cup {NoValue})
      /\ Len(Contents') = readAvailable'
  BY <1>2, ContentsBySlotNext
<1>6. Contents # <<>>
  BY <1>1, <1>4 DEF DequeInv
<1>7. /\ Tail(Contents) \in Seq(Value \cup {NoValue})
      /\ Len(Tail(Contents)) = readAvailable - 1
      /\ \A i \in 1 .. readAvailable - 1 : Tail(Contents)[i] = Contents[i + 1]
  BY <1>1, <1>4, <1>6 DEF DequeInv
<1>8. \A i \in 1 .. readAvailable - 1 : Contents'[i] = Contents[i + 1]
  BY <1>1, <1>3, <1>4, <1>5, CapacityType DEF DequeInv
<1>9. Contents' = Tail(Contents)
  BY <1>1, <1>5, <1>7, <1>8, SeqEqual
<1>. QED
  BY <1>2, <1>6, <1>9 DEF IsDeque!ConsumeItem

LEMMA DequeueIsFront ==
  ASSUME DequeInv, CanRead, dequeue
  PROVE  DequeInv' /\ IsDeque!DequeueItem
<1>1. /\ readAvailable > 0
      /\ tailPosition' = IF tailPosition >= 1 THEN tailPosition - 1 ELSE Capacity - 1
      /\ readAvailable' = readAvailable - 1
      /\ UNCHANGED <<list, headPosition>>
  BY ListMoves
<1>2. DequeInv'
  BY <1>1, CapacityType DEF DequeInv, ListTypeOK, Slots, Wrap
<1>4. /\ Contents = [i \in 1 .. readAvailable |-> list[SlotFrom(headPosition, i)]]
      /\ Contents \in Seq(Value \cup {NoValue})
      /\ Len(Contents) = readAvailable
  BY ContentsBySlot
<1>5. /\ Contents' = [i \in 1 .. readAvailable' |-> list'[SlotFrom(headPosition', i)]]
      /\ Contents' \in Seq(Value \cup {NoValue})
      /\ Len(Contents') = readAvailable'
  BY <1>2, ContentsBySlotNext
<1>6. Contents # <<>>
  BY <1>1, <1>4 DEF DequeInv
<1>7. /\ IsDeque!Front(Contents) \in Seq(Value \cup {NoValue})
      /\ Len(IsDeque!Front(Contents)) = readAvailable - 1
      /\ \A i \in 1 .. readAvailable - 1 : IsDeque!Front(Contents)[i] = Contents[i]
  BY <1>1, <1>4, <1>6 DEF DequeInv, IsDeque!Front
<1>8. \A i \in 1 .. readAvailable - 1 : Contents'[i] = Contents[i]
  BY <1>1, <1>4, <1>5, CapacityType DEF DequeInv, SlotFrom
<1>9. Contents' = IsDeque!Front(Contents)
  BY <1>1, <1>5, <1>7, <1>8, SeqEqual
<1>. QED
  BY <1>2, <1>6, <1>9 DEF IsDeque!DequeueItem

LEMMA EnqueueIsAppend ==
  ASSUME DequeInv, CanWrite, NEW v \in Value, enqueue(v)
  PROVE  DequeInv' /\ IsDeque!EnqueueItem
<1>1. /\ readAvailable < Capacity
      /\ list' = [list EXCEPT ![tailPosition] = v]
      /\ tailPosition' = Wrap(tailPosition + 1)
      /\ readAvailable' = readAvailable + 1
      /\ UNCHANGED headPosition
  BY ListMoves
<1>2. DequeInv'
  <2>1. ListTypeOK'
    BY <1>1, CapacityType DEF DequeInv, ListTypeOK, Slots, Wrap
  <2>. QED
    BY <1>1, <2>1, CapacityType DEF DequeInv, ListTypeOK, Slots, Wrap
<1>3. /\ SlotFrom(headPosition, readAvailable + 1) = tailPosition
      /\ \A i \in 1 .. readAvailable :
           /\ SlotFrom(headPosition, i) \in Slots
           /\ SlotFrom(headPosition, i) # tailPosition
  BY <1>1, CapacityType DEF DequeInv, ListTypeOK, Slots, Wrap, SlotFrom
<1>4. /\ Contents = [i \in 1 .. readAvailable |-> list[SlotFrom(headPosition, i)]]
      /\ Contents \in Seq(Value \cup {NoValue})
      /\ Len(Contents) = readAvailable
  BY ContentsBySlot
<1>5. /\ Contents' = [i \in 1 .. readAvailable' |-> list'[SlotFrom(headPosition', i)]]
      /\ Contents' \in Seq(Value \cup {NoValue})
      /\ Len(Contents') = readAvailable'
  BY <1>2, ContentsBySlotNext
<1>6. /\ readAvailable \in Nat /\ list \in [Slots -> Value \cup {NoValue}]
      /\ tailPosition \in Slots
  BY CapacityType DEF DequeInv, ListTypeOK
<1>7. /\ Append(Contents, v) \in Seq(Value \cup {NoValue})
      /\ Len(Append(Contents, v)) = readAvailable + 1
      /\ \A i \in 1 .. readAvailable : Append(Contents, v)[i] = Contents[i]
      /\ Append(Contents, v)[readAvailable + 1] = v
  BY <1>4, <1>6
<1>8. \A i \in 1 .. readAvailable : Contents'[i] = Contents[i]
  BY <1>1, <1>3, <1>4, <1>5, <1>6
<1>9. Contents'[readAvailable + 1] = v
  BY <1>1, <1>3, <1>5, <1>6
<1>10. \A i \in 1 .. Len(Contents') : Contents'[i] = Append(Contents, v)[i]
  <2>1. Len(Contents') = readAvailable + 1
    BY <1>1, <1>5
  <2>2. \A i \in 1 .. readAvailable + 1 : i \in 1 .. readAvailable \/ i = readAvailable + 1
    BY <1>6
  <2>. QED
    BY <2>1, <2>2, <1>7, <1>8, <1>9
<1>11. Contents' = Append(Contents, v)
  BY <1>1, <1>5, <1>7, <1>10, SeqEqual
<1>12. Len(Contents) < Capacity
  BY <1>1, <1>4
<1>. QED
  BY <1>2, <1>11, <1>12 DEF IsDeque!EnqueueItem

LEMMA ClearIsClear ==
  ASSUME DequeInv, clear
  PROVE  DequeInv' /\ IsDeque!ClearItems
<1>1. DequeInv'
  BY CapacityType DEF DequeInv, ListTypeOK, Slots, Wrap, clear
<1>2. Contents' = <<>>
  BY <1>1, ContentsBySlotNext DEF clear
<1>. QED
  BY <1>1, <1>2 DEF IsDeque!ClearItems

LEMMA StutterIsStutter ==
  ASSUME DequeInv, UNCHANGED listVars
  PROVE  DequeInv' /\ Contents' = Contents
BY DEF DequeInv, ListTypeOK, Contents, listVars, Slots

(***************************************************************************)
(* The positions agree with the counter in every state of a list used      *)
(* within its assertions.                                                  *)
(***************************************************************************)
THEOREM PositionsAgree == ListSpec => []DequeInv
<1>1. ListInit => DequeInv
  BY DequeInitially
<1>2. DequeInv /\ [ListNext]_listVars => DequeInv'
  BY ConsumeIsTail, DequeueIsFront, EnqueueIsAppend, ClearIsClear, StutterIsStutter
     DEF ListNext
<1>. QED
  BY <1>1, <1>2, PTL DEF ListSpec

(***************************************************************************)
(* A list used within its assertions implements the bounded deque: every   *)
(* operation of CircularList.d (lines 37 to 76) is the operation of the    *)
(* deque on what the list holds, for every capacity that divides 2^32.     *)
(***************************************************************************)
THEOREM ListImplementsDeque == ListSpec => ImplementsDeque
<1>1. ListInit => IsDeque!Init
  BY DequeInitially
<1>2. DequeInv /\ [ListNext]_listVars => [IsDeque!Next]_Contents
  <2>. SUFFICES ASSUME DequeInv, [ListNext]_listVars
                PROVE  [IsDeque!Next]_Contents
    OBVIOUS
  <2>1. CASE CanRead /\ consume
    BY <2>1, ConsumeIsTail DEF IsDeque!Next
  <2>2. CASE CanWrite /\ \E v \in Value : enqueue(v)
    BY <2>2, EnqueueIsAppend DEF IsDeque!Next
  <2>3. CASE CanRead /\ dequeue
    BY <2>3, DequeueIsFront DEF IsDeque!Next
  <2>4. CASE clear
    BY <2>4, ClearIsClear DEF IsDeque!Next
  <2>5. CASE UNCHANGED listVars
    BY <2>5, StutterIsStutter
  <2>. QED
    BY <2>1, <2>2, <2>3, <2>4, <2>5 DEF ListNext
<1>. QED
  BY <1>1, <1>2, PositionsAgree, PTL DEF ListSpec, ImplementsDeque, IsDeque!Spec

-----------------------------------------------------------------------------
(* The controller's use of the list: it writes and never consumes. *)

\* The slot n values before the last one stored.
BackSlot(t, n) == IF t >= n + 1 THEN t - (n + 1) ELSE t - (n + 1) + Capacity

\* The last frames are where the tail says.
LastFrames ==
  \A n \in Slots : n < TimeStamp => list[BackSlot(tailPosition, n)] = TimeStamp - 1 - n

ControllerInv ==
  /\ ListTypeOK
  /\ TimeStamp \in 0 .. MaxPushes
  /\ calledAt \in Nat /\ count \in Nat
  /\ pad_data \in Seq(Value \cup {NoValue})
  /\ readAvailable = TimeStamp
  /\ count > 0 => calledAt <= TimeStamp
  /\ LastFrames
  /\ FramesNotStale

LEMMA ReadAtIsBackSlot ==
  ASSUME ListTypeOK, NEW n \in Slots
  PROVE  readAt(n) = list[BackSlot(tailPosition, n)]
<1>1. n + 1 \in 1 .. Capacity /\ tailPosition \in Slots
  BY CapacityType DEF Slots, ListTypeOK
<1>2. tailPosition + (-(n + 1)) = tailPosition - (n + 1)
  BY <1>1, CapacityType DEF Slots
<1>3. ((tailPosition - (n + 1)) % WordSize) % Capacity = BackSlot(tailPosition, n)
  BY <1>1, Back DEF BackSlot
<1>. QED
  BY <1>2, <1>3 DEF readAt, readFromTail, slotFromTail

\* A frame read from any distance is a content of the list.
LEMMA ReadAtType ==
  ASSUME ListTypeOK, NEW n \in Nat
  PROVE  readAt(n) \in Value \cup {NoValue}
<1>1. tailPosition + (-(n + 1)) \in Int
  BY CapacityType DEF ListTypeOK, Slots
<1>2. (tailPosition + (-(n + 1))) % WordSize \in Int
  BY <1>1, CapacityType
<1>3. ((tailPosition + (-(n + 1))) % WordSize) % Capacity \in Slots
  BY <1>2, CapacityType DEF Slots
<1>. QED
  BY <1>3 DEF ListTypeOK, readAt, readFromTail, slotFromTail

LEMMA ControllerInitially == ControllerInit => ControllerInv
<1>. SUFFICES ASSUME ControllerInit
              PROVE  ControllerInv
  OBVIOUS
<1>1. ListTypeOK
  BY CapacityType DEF ControllerInit, ListInit, ListTypeOK, Slots
<1>2. TimeStamp \in 0 .. MaxPushes
  BY ControllerAssumption DEF ControllerInit
<1>3. pad_data \in Seq(Value \cup {NoValue})
  BY DEF ControllerInit
<1>4. LastFrames /\ FramesNotStale
  BY CapacityType DEF ControllerInit, LastFrames, FramesNotStale, Slots
<1>. QED
  BY <1>1, <1>2, <1>3, <1>4 DEF ControllerInit, ListInit, ControllerInv

LEMMA PushKeepsInv ==
  ASSUME ControllerInv, push
  PROVE  ControllerInv'
<1>0. /\ TimeStamp \in 0 .. MaxPushes /\ TimeStamp < MaxPushes
      /\ MaxPushes \in Nat /\ MaxPushes < WordSize /\ Value = 0 .. MaxPushes
      /\ tailPosition \in Slots /\ headPosition \in Slots
      /\ list \in [Slots -> Value \cup {NoValue}]
      /\ readAvailable = TimeStamp
  BY ControllerAssumption DEF ControllerInv, ListTypeOK, push
<1>1. TimeStamp' = TimeStamp + 1
      /\ UNCHANGED <<headPosition, calledAt, count, pad_data>>
  BY DEF push, enqueue
<1>2. list' = [list EXCEPT ![tailPosition] = TimeStamp]
  BY DEF push, enqueue
<1>3. tailPosition' = Wrap(tailPosition + 1) /\ tailPosition' \in Slots
  BY <1>0, Forward DEF push, enqueue, tailPosition__Inc
<1>4. readAvailable' = TimeStamp + 1
  <2>1. TimeStamp + 1 \in 0 .. WordSize - 1
    BY <1>0, CapacityType
  <2>. QED
    BY <1>0, <2>1, CapacityType, ModuloSmall DEF push, enqueue, tailPosition__Inc
<1>5. ListTypeOK'
  <2>1. list' \in [Slots -> Value \cup {NoValue}]
    BY <1>0, <1>2
  <2>2. readAvailable' \in 0 .. WordSize - 1
    BY <1>0, <1>4, CapacityType
  <2>. QED
    BY <1>0, <1>1, <1>3, <2>1, <2>2 DEF ListTypeOK, Slots
<1>6. LastFrames'
  <2>. SUFFICES ASSUME NEW n \in Slots, n < TimeStamp'
                PROVE  list'[BackSlot(tailPosition', n)] = TimeStamp' - 1 - n
    BY DEF LastFrames, Slots
  <2>1. CASE n = 0
    <3>1. BackSlot(tailPosition', n) = tailPosition
      BY <2>1, <1>0, <1>3, CapacityType DEF BackSlot, Wrap, Slots
    <3>. QED
      BY <2>1, <3>1, <1>0, <1>1, <1>2
  <2>2. CASE n > 0
    <3>1. /\ BackSlot(tailPosition', n) = BackSlot(tailPosition, n - 1)
          /\ BackSlot(tailPosition, n - 1) \in Slots
          /\ BackSlot(tailPosition, n - 1) # tailPosition
          /\ n - 1 \in Slots /\ n - 1 < TimeStamp
      BY <2>2, <1>0, <1>1, <1>3, CapacityType DEF BackSlot, Wrap, Slots
    <3>2. list[BackSlot(tailPosition, n - 1)] = TimeStamp - 1 - (n - 1)
      BY <3>1 DEF ControllerInv, LastFrames
    <3>3. TimeStamp - 1 - (n - 1) = TimeStamp' - 1 - n
      BY <1>0, <1>1, CapacityType DEF Slots
    <3>. QED
      BY <3>1, <3>2, <3>3, <1>0, <1>2
  <2>. QED
    BY <2>1, <2>2, CapacityType DEF Slots
<1>7. FramesNotStale'
  BY <1>0, <1>1 DEF ControllerInv, FramesNotStale
<1>. QED
  BY <1>0, <1>1, <1>4, <1>5, <1>6, <1>7 DEF ControllerInv

LEMMA ResetKeepsInv ==
  ASSUME ControllerInv, controllerReset
  PROVE  ControllerInv'
<1>1. /\ count' = 0 /\ TimeStamp' = 0 /\ readAvailable' = 0
      /\ headPosition' = 0 /\ tailPosition' = 0
      /\ UNCHANGED <<list, calledAt, pad_data>>
  BY DEF controllerReset, clear
<1>2. ListTypeOK'
  BY <1>1, CapacityType DEF ControllerInv, ListTypeOK, Slots
<1>3. LastFrames' /\ FramesNotStale'
  BY <1>1, CapacityType DEF LastFrames, FramesNotStale, Slots
<1>. QED
  BY <1>1, <1>2, <1>3, ControllerAssumption DEF ControllerInv

\* The reader leaves the ring alone.
LEMMA RingUnchanged ==
  ASSUME ControllerInv,
         UNCHANGED <<list, headPosition, tailPosition, readAvailable, TimeStamp>>
  PROVE  ListTypeOK' /\ LastFrames' /\ TimeStamp' \in 0 .. MaxPushes /\ readAvailable' = TimeStamp'
BY DEF ControllerInv, ListTypeOK, LastFrames, Slots

LEMMA ReadFrameKeepsInv ==
  ASSUME ControllerInv, readFrame
  PROVE  ControllerInv'
<1>0. /\ TimeStamp \in Nat /\ calledAt \in Nat /\ count \in Nat
      /\ pad_data \in Seq(Value \cup {NoValue}) /\ Len(pad_data) \in Nat
  BY ControllerAssumption DEF ControllerInv
<1>1. /\ Len(pad_data) < count
      /\ pad_data' = Append(pad_data, readAt(Len(pad_data)))
      /\ UNCHANGED <<list, headPosition, tailPosition, readAvailable, TimeStamp, calledAt, count>>
  BY DEF readFrame
<1>2. ListTypeOK' /\ LastFrames' /\ TimeStamp' \in 0 .. MaxPushes /\ readAvailable' = TimeStamp'
  BY <1>1, RingUnchanged
<1>3. readAt(Len(pad_data)) \in Value \cup {NoValue}
  BY <1>0, ReadAtType DEF ControllerInv
<1>4. /\ pad_data' \in Seq(Value \cup {NoValue})
      /\ Len(pad_data') = Len(pad_data) + 1
      /\ \A i \in 1 .. Len(pad_data) : pad_data'[i] = pad_data[i]
      /\ pad_data'[Len(pad_data) + 1] = readAt(Len(pad_data))
  BY <1>0, <1>1, <1>3
<1>5. ASSUME Len(pad_data) + 1 <= Capacity, Len(pad_data) + 1 <= calledAt
      PROVE  readAt(Len(pad_data)) \in calledAt - (Len(pad_data) + 1) .. TimeStamp - 1
  <2>1. Len(pad_data) \in Slots /\ calledAt <= TimeStamp /\ Len(pad_data) < TimeStamp
    BY <1>0, <1>1, <1>5, CapacityType DEF ControllerInv, Slots
  <2>2. readAt(Len(pad_data)) = TimeStamp - 1 - Len(pad_data)
    BY <2>1, ReadAtIsBackSlot DEF ControllerInv, LastFrames
  <2>. QED
    BY <1>0, <1>5, <2>1, <2>2
<1>6. FramesNotStale'
  <2>. SUFFICES ASSUME NEW i \in 1 .. Len(pad_data'), i <= Capacity, i <= calledAt
                PROVE  pad_data'[i] \in calledAt - i .. TimeStamp - 1
    BY <1>1 DEF FramesNotStale
  <2>1. CASE i = Len(pad_data) + 1
    BY <2>1, <1>4, <1>5
  <2>2. CASE i \in 1 .. Len(pad_data)
    <3>1. pad_data[i] \in calledAt - i .. TimeStamp - 1
      BY <2>2, <1>0, <1>1 DEF ControllerInv, FramesNotStale
    <3>. QED
      BY <2>2, <3>1, <1>4
  <2>. QED
    BY <2>1, <2>2, <1>0, <1>4
<1>. QED
  BY <1>1, <1>2, <1>4, <1>6 DEF ControllerInv

LEMMA ControllerStep ==
  ControllerInv /\ [ControllerNext]_ctrlVars => ControllerInv'
<1>. SUFFICES ASSUME ControllerInv, [ControllerNext]_ctrlVars
              PROVE  ControllerInv'
  OBVIOUS
<1>1. CASE push
  BY <1>1, PushKeepsInv
<1>2. CASE controllerReset
  BY <1>2, ResetKeepsInv
<1>3. ASSUME NEW n \in 1 .. MaxFrames, readBufferedFrames(n)
      PROVE  ControllerInv'
  <2>1. /\ count' = n /\ pad_data' = <<>> /\ calledAt' = TimeStamp
        /\ UNCHANGED <<list, headPosition, tailPosition, readAvailable, TimeStamp>>
    BY <1>3 DEF readBufferedFrames
  <2>2. ListTypeOK' /\ LastFrames' /\ TimeStamp' \in 0 .. MaxPushes /\ readAvailable' = TimeStamp'
    BY <2>1, RingUnchanged
  <2>3. n \in Nat /\ TimeStamp \in Nat
    BY ControllerAssumption DEF ControllerInv
  <2>4. FramesNotStale' /\ pad_data' \in Seq(Value \cup {NoValue})
    BY <2>1 DEF FramesNotStale
  <2>. QED
    BY <2>1, <2>2, <2>3, <2>4 DEF ControllerInv
<1>4. CASE readFrame
  BY <1>4, ReadFrameKeepsInv
<1>5. CASE readReturns
  <2>1. /\ count' = 0 /\ UNCHANGED <<calledAt, pad_data>>
        /\ UNCHANGED <<list, headPosition, tailPosition, readAvailable, TimeStamp>>
    BY <1>5 DEF readReturns
  <2>2. ListTypeOK' /\ LastFrames' /\ TimeStamp' \in 0 .. MaxPushes /\ readAvailable' = TimeStamp'
    BY <2>1, RingUnchanged
  <2>. QED
    BY <2>1, <2>2 DEF ControllerInv, FramesNotStale
<1>6. CASE UNCHANGED ctrlVars
  <2>1. /\ UNCHANGED <<calledAt, count, pad_data>>
        /\ UNCHANGED <<list, headPosition, tailPosition, readAvailable, TimeStamp>>
    BY <1>6 DEF ctrlVars
  <2>2. ListTypeOK' /\ LastFrames' /\ TimeStamp' \in 0 .. MaxPushes /\ readAvailable' = TimeStamp'
    BY <2>1, RingUnchanged
  <2>. QED
    BY <2>1, <2>2 DEF ControllerInv, FramesNotStale
<1>. QED
  BY <1>1, <1>2, <1>3, <1>4, <1>5, <1>6 DEF ControllerNext

(***************************************************************************)
(* ControllerInv is an invariant of the ring of frames, which push writes  *)
(* and nobody consumes: each slot behind the tail holds the frame of its   *)
(* distance, and the reader's frames are no older than its call.           *)
(***************************************************************************)
THEOREM ControllerInvariant == ControllerSpec => []ControllerInv
<1>. QED
  BY ControllerInitially, ControllerStep, PTL DEF ControllerSpec

(***************************************************************************)
(* readAt(n) is the n-th last frame pushed, although the list is never     *)
(* consumed and runs past its capacity (Controller.d:30-40).               *)
(***************************************************************************)
THEOREM FramesAreNthLast == ControllerSpec => []ReadAtIsNthLast
<1>1. ControllerInv => ReadAtIsNthLast
  <2>. SUFFICES ASSUME ControllerInv, NEW n \in 0 .. Capacity - 1, n < TimeStamp
                PROVE  readAt(n) = TimeStamp - 1 - n
    BY DEF ReadAtIsNthLast
  <2>. QED
    BY ReadAtIsBackSlot DEF ControllerInv, LastFrames, Slots
<1>. QED
  BY <1>1, ControllerInvariant, PTL

(***************************************************************************)
(* The frames a guest reads one by one without a lock are never older than *)
(* if it had read them at once when it called (sceCtrl.d:38-39).           *)
(***************************************************************************)
THEOREM FramesAreNotStale == ControllerSpec => []FramesNotStale
<1>1. ControllerInv => FramesNotStale
  BY DEF ControllerInv
<1>. QED
  BY <1>1, ControllerInvariant, PTL

=============================================================================
