----------------------------- MODULE Controller -----------------------------
(***************************************************************************)
(* src/src/pspemu/core/controller/Controller.d with its two users: the GUI *)
(* thread pushes a frame at every refresh, a guest thread reads the last   *)
(* frames with readBufferedFrames of hle/kd/ctrl/sceCtrl.d.  No lock is    *)
(* held between two readAt.                                                *)
(*                                                                         *)
(* A frame is the number of the push that stored it, the TimeStamp the     *)
(* controller counts (line 32).  Nothing consumes the list: readAvailable  *)
(* counts the pushes since the last reset.                                 *)
(***************************************************************************)
EXTENDS CircularList

CONSTANTS
  MaxPushes,   \* bound on the pushes of a run
  MaxFrames    \* bound on the count a guest asks for

ASSUME ControllerAssumption ==
  /\ MaxPushes \in Nat /\ MaxPushes < WordSize
  /\ MaxFrames \in Nat
  /\ Value = 0 .. MaxPushes

VARIABLES
  TimeStamp,   \* sceCtrlData.TimeStamp
  calledAt,    \* history: TimeStamp when the reader was called
  count,       \* how many frames the reader asked for; 0 outside
  pad_data     \* the frames read so far

ctrlVars == <<list, headPosition, tailPosition, readAvailable,
              TimeStamp, calledAt, count, pad_data>>

ControllerInit ==
  /\ ListInit
  /\ TimeStamp = 0
  /\ calledAt = 0
  /\ count = 0
  /\ pad_data = <<>>

push ==
  /\ TimeStamp < MaxPushes
  /\ enqueue(TimeStamp)
  /\ TimeStamp' = TimeStamp + 1
  /\ UNCHANGED <<calledAt, count, pad_data>>

\* Nobody is inside readBufferedFrames when the emulator is reset.
controllerReset ==
  /\ count = 0
  /\ clear
  /\ TimeStamp' = 0
  /\ UNCHANGED <<calledAt, count, pad_data>>

\* Mutant: off by one, the slot about to be pushed.
readAtTail(n) == readFromTail(-n)

readAt(n) == readFromTail(-(n + 1))

\* sceCtrlReadBufferPositive and the other readers: the call.
readBufferedFrames(n) ==
  /\ count = 0
  /\ count' = n
  /\ pad_data' = <<>>
  /\ calledAt' = TimeStamp
  /\ UNCHANGED <<list, headPosition, tailPosition, readAvailable,
                 TimeStamp>>

\* Mutant: the loop counts from 1.
readFrameFromOne ==
  /\ Len(pad_data) < count
  /\ pad_data' = Append(pad_data, readAt(Len(pad_data) + 1))
  /\ UNCHANGED <<list, headPosition, tailPosition, readAvailable,
                 TimeStamp, calledAt, count>>

\* One turn of its loop.
readFrame ==
  /\ Len(pad_data) < count
  /\ pad_data' = Append(pad_data, readAt(Len(pad_data)))
  /\ UNCHANGED <<list, headPosition, tailPosition, readAvailable,
                 TimeStamp, calledAt, count>>

readReturns ==
  /\ count > 0
  /\ Len(pad_data) = count
  /\ count' = 0
  /\ UNCHANGED <<list, headPosition, tailPosition, readAvailable,
                 TimeStamp, calledAt, pad_data>>

ControllerNext ==
  \/ push
  \/ controllerReset
  \/ \E n \in 1 .. MaxFrames : readBufferedFrames(n)
  \/ readFrame
  \/ readReturns

ControllerSpec == ControllerInit /\ [][ControllerNext]_ctrlVars

-----------------------------------------------------------------------------

(***************************************************************************)
(* The n-th frame from the tail is the n-th last pushed, for as many       *)
(* frames as the ring holds, although nothing ever consumes the list and   *)
(* readAvailable runs past its capacity (lines 30 to 40).                  *)
(***************************************************************************)
ReadAtIsNthLast ==
  \A n \in 0 .. Capacity - 1 : n < TimeStamp => readAt(n) = TimeStamp - 1 - n

(***************************************************************************)
(* The frames a guest gets are never older than if they had been read all  *)
(* at once when it called, however many pushes come between two readAt;    *)
(* those pushes may repeat a frame or step forward in time (sceCtrl.d:38   *)
(* to 39).                                                                 *)
(***************************************************************************)
FramesNotStale ==
  count > 0 =>
    \A i \in 1 .. Len(pad_data) :
      i <= Capacity /\ i <= calledAt =>
        pad_data[i] \in calledAt - i .. TimeStamp - 1

=============================================================================
