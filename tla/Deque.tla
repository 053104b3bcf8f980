-------------------------------- MODULE Deque --------------------------------
(***************************************************************************)
(* What CircularList promises while its caller respects its assertions: a  *)
(* bounded list that grows at its tail and shrinks at either end.          *)
(***************************************************************************)
EXTENDS Sequences, SequencesExt, Naturals

CONSTANTS Value, Bound

VARIABLE items

Init == items = <<>>

EnqueueItem == /\ Len(items) < Bound
               /\ \E v \in Value : items' = Append(items, v)

ConsumeItem == /\ items # <<>>
               /\ items' = Tail(items)

DequeueItem == /\ items # <<>>
               /\ items' = Front(items)

ClearItems == items' = <<>>

Next == EnqueueItem \/ ConsumeItem \/ DequeueItem \/ ClearItems

Spec == Init /\ [][Next]_items
=============================================================================
