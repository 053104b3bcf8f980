-------------------------------- MODULE Audio --------------------------------
(***************************************************************************)
(* One channel of src/src/pspemu/core/audio/Audio.d: RingBuffer and        *)
(* Channel between the mixer thread (playThread, fillBuffer) and the       *)
(* threads that output samples.  sceAudioOutputPannedBlocking writes on    *)
(* the guest's thread, sceAudioOutputPanned starts a thread for each call, *)
(* so several writers may be inside writeWait at once.                     *)
(*                                                                         *)
(* A unit is a pair of samples, written in one region of writeLock.  The   *)
(* reader has a lock of its own, so `readLeft -= n' and `readLeft += n'    *)
(* run concurrently, and so do the updates of writeLeft: each is a read    *)
(* and a write.  The k-th pair stored is the number k.                     *)
(*                                                                         *)
(* Every channel names its event "Audio.endedPlayingWaitEvent": it is one  *)
(* auto-reset event, which the reads of the other channels signal and      *)
(* their writers take as well.                                             *)
(***************************************************************************)
EXTENDS Integers

CONSTANTS
  Writer,       \* the threads that output
  Nobody,
  Capacity,     \* pairs in the ring: two seconds
  BufferSize,   \* pairs the mixer takes at once
  Threshold,    \* isPlaying above that many pairs: five buffers
  Lengths,      \* the pairs a call may have
  MaxCalls,     \* bound on the calls of all writers together
  WordSize      \* 2^32, the range of uint

\* The sizes are constants of the code: 88 200 pairs, 441, and five times 441.
\* The length of a call is the guest's: sceAudioChReserve and
\* sceAudioSetChannelDataLen take any, and zero.
ASSUME AudioAssumption ==
  /\ Nobody \notin Writer
  /\ Capacity \in Nat \ {0} /\ BufferSize \in Nat \ {0}
  /\ Threshold \in Nat /\ Lengths \subseteq Nat /\ MaxCalls \in Nat
  /\ Threshold + BufferSize <= Capacity
  /\ WordSize \in Nat /\ WordSize > 2 * Capacity

VARIABLES
  buffer, readingPosition, writtingPosition, readLeft, writeLeft,
  writeLock,          \* who holds it
  endedPlayingWaitEvent,
  _running,
  mixer, mixerRead,   \* where playThread is, and its copy of a counter
  pairs,              \* the pairs the mixer is reading
  pc, left,           \* where each writer is, the pairs it still has to write
  writerRead,         \* the copy of a counter of the writer in the lock
  calls,
  stored,             \* history: the pairs stored
  played,             \* history: how many pairs were read
  disordered,         \* history: one was not the next in order
  torn,               \* history: an update of a counter was lost
  overcommitted,      \* history: a pair was stored without space for it
  shared,             \* history: two writers were inside writeWait at once
  long,               \* history: a call did not fit in what the mixer and
                      \*   isPlaying leave of the ring
  stolen              \* history: a writer of another channel was woken in the
                      \*   place of one that was asleep

ringVars == <<buffer, readingPosition, writtingPosition, readLeft, writeLeft>>
writerVars == <<writeLock, pc, left, writerRead, calls, stored, overcommitted,
                shared, long>>
mixerVars == <<mixer, mixerRead, pairs, played, disordered>>
audioVars == <<ringVars, endedPlayingWaitEvent, _running, writerVars, mixerVars,
               torn, stolen>>

Positions == 0 .. Capacity - 1

AudioInit ==
  /\ buffer = [p \in Positions |-> 0]
  /\ readingPosition = 0 /\ writtingPosition = 0
  /\ readLeft = 0 /\ writeLeft = Capacity
  /\ writeLock = Nobody
  /\ endedPlayingWaitEvent = FALSE
  /\ _running = TRUE
  /\ mixer = "loop" /\ mixerRead = 0 /\ pairs = 0
  /\ pc = [w \in Writer |-> "idle"] /\ left = [w \in Writer |-> 0]
  /\ writerRead = 0 /\ calls = 0
  /\ stored = 0 /\ played = 0 /\ disordered = FALSE
  /\ torn = FALSE /\ overcommitted = FALSE
  /\ shared = FALSE /\ long = FALSE /\ stolen = FALSE

\* Mutant: a channel plays as long as there is no space left.
isPlayingWhenFull == readLeft >= Capacity

isPlaying == readLeft > Threshold

-----------------------------------------------------------------------------
(* The writers. *)

goto(w, to) == pc' = [pc EXCEPT ![w] = to]

\* A call of no pairs only waits.
writeWait(w, n) ==
  /\ pc[w] = "idle" /\ calls < MaxCalls
  /\ goto(w, IF n > 0 THEN "check" ELSE "wait")
  /\ left' = [left EXCEPT ![w] = n]
  /\ calls' = calls + 1
  /\ shared' = (shared \/ \E v \in Writer : pc[v] # "idle")
  /\ long' = (long \/ n > Capacity - Threshold - BufferSize)
  /\ UNCHANGED <<ringVars, endedPlayingWaitEvent, _running, mixerVars, torn,
                 writeLock, writerRead, stored, overcommitted>>

\* The test for space, before the lock is taken.
hasSpace(w) ==
  /\ pc[w] = "check" /\ writeLeft >= 1
  /\ goto(w, "lock")
  /\ UNCHANGED <<ringVars, endedPlayingWaitEvent, _running, mixerVars, torn,
                 writeLock, left, writerRead, calls, stored, overcommitted, shared,
                 long>>

\* "Buffer overrun": the exception ends the call, what was written stays.
overrun(w) ==
  /\ pc[w] = "check" /\ writeLeft < 1
  /\ goto(w, "idle")
  /\ UNCHANGED <<ringVars, endedPlayingWaitEvent, _running, mixerVars, torn,
                 writeLock, left, writerRead, calls, stored, overcommitted, shared,
                 long>>

\* synchronized (writeLock), and the read of writeLeft.
lockWrite(w) ==
  /\ pc[w] = "lock" /\ writeLock = Nobody
  /\ goto(w, "store")
  /\ writeLock' = w
  /\ writerRead' = writeLeft
  /\ UNCHANGED <<ringVars, endedPlayingWaitEvent, _running, mixerVars, torn,
                 left, calls, stored, overcommitted, shared, long>>

\* Its write, the copy of the pair, and the read of readLeft.
storePair(w) ==
  /\ pc[w] = "store"
  /\ goto(w, "unlock")
  /\ writeLeft' = (writerRead - 1) % WordSize
  /\ torn' = (torn \/ writeLeft # writerRead)
  /\ overcommitted' = (overcommitted \/ writerRead = 0)
  /\ buffer' = [buffer EXCEPT ![writtingPosition] = stored + 1]
  /\ stored' = stored + 1
  /\ writtingPosition' = (writtingPosition + 1) % Capacity
  /\ writerRead' = readLeft
  /\ UNCHANGED <<readingPosition, readLeft, endedPlayingWaitEvent, _running,
                 mixerVars, writeLock, left, calls, shared, long>>

\* Its write, and the end of the region: the next pair, or the wait.
unlockWrite(w) ==
  /\ pc[w] = "unlock"
  /\ readLeft' = (writerRead + 1) % WordSize
  /\ torn' = (torn \/ readLeft # writerRead)
  /\ writeLock' = Nobody
  /\ left' = [left EXCEPT ![w] = @ - 1]
  /\ goto(w, IF left[w] > 1 THEN "check" ELSE "wait")
  /\ UNCHANGED <<buffer, readingPosition, writtingPosition, writeLeft,
                 endedPlayingWaitEvent, _running, mixerVars, writerRead, calls,
                 stored, overcommitted, shared, long>>

\* Channel.wait: the test, then the wait without a bound.
testPlaying(w) ==
  /\ pc[w] = "wait"
  /\ goto(w, IF isPlaying THEN "asleep" ELSE "idle")
  /\ UNCHANGED <<ringVars, endedPlayingWaitEvent, _running, mixerVars, torn,
                 writeLock, left, writerRead, calls, stored, overcommitted, shared,
                 long>>

\* The event resets itself: it wakes one writer.
wake(w) ==
  /\ pc[w] = "asleep" /\ endedPlayingWaitEvent
  /\ goto(w, "wait")
  /\ endedPlayingWaitEvent' = FALSE
  /\ UNCHANGED <<ringVars, _running, mixerVars, torn, writeLock, left,
                 writerRead, calls, stored, overcommitted, shared, long>>

-----------------------------------------------------------------------------
(* The mixer. *)

\* fillBuffer: how much of the channel is mixed.  RingBuffer.read finds that
\* much, nobody else reads, and reads readLeft to lower it.
fillBuffer ==
  /\ mixer = "loop" /\ _running
  /\ readLeft > 0
  /\ pairs' = IF readLeft < BufferSize THEN readLeft ELSE BufferSize
  /\ mixer' = "copy"
  /\ mixerRead' = readLeft
  /\ UNCHANGED <<ringVars, endedPlayingWaitEvent, _running, writerVars, torn,
                 played, disordered>>

\* Mutant: off by one.
unreadNext(k) == buffer[(readingPosition + k) % Capacity]

\* The k-th pair from the reading position.
unread(k) == buffer[(readingPosition + k - 1) % Capacity]

\* The write of readLeft, the copy, and the read of writeLeft.
readPairs ==
  /\ mixer = "copy"
  /\ mixer' = "give"
  /\ readLeft' = (mixerRead - pairs) % WordSize
  /\ torn' = (torn \/ readLeft # mixerRead)
  /\ played' = played + pairs
  /\ disordered' =
       (disordered \/ \E k \in 1 .. pairs : unread(k) # played + k)
  /\ readingPosition' = (readingPosition + pairs) % Capacity
  /\ mixerRead' = writeLeft
  /\ UNCHANGED <<buffer, writtingPosition, writeLeft, endedPlayingWaitEvent,
                 _running, writerVars, pairs>>

\* Mutant: the space is not given back.
giveNothing ==
  /\ mixer = "give"
  /\ mixer' = "signal"
  /\ UNCHANGED <<ringVars, endedPlayingWaitEvent, _running, writerVars,
                 mixerRead, pairs, played, disordered, torn>>

giveSpace ==
  /\ mixer = "give"
  /\ mixer' = "signal"
  /\ writeLeft' = (mixerRead + pairs) % WordSize
  /\ torn' = (torn \/ writeLeft # mixerRead)
  /\ UNCHANGED <<buffer, readingPosition, writtingPosition, readLeft,
                 endedPlayingWaitEvent, _running, writerVars, mixerRead, pairs,
                 played, disordered>>

\* Mutant: the test is inverted.
signalPlaying ==
  /\ mixer = "signal"
  /\ mixer' = "loop"
  /\ endedPlayingWaitEvent' = (endedPlayingWaitEvent \/ isPlaying)
  /\ UNCHANGED <<ringVars, _running, writerVars, mixerRead, pairs, played,
                 disordered, torn>>

\* Channel.read: the test after the read.
signalEnded ==
  /\ mixer = "signal"
  /\ mixer' = "loop"
  /\ endedPlayingWaitEvent' = (endedPlayingWaitEvent \/ ~ isPlaying)
  /\ UNCHANGED <<ringVars, _running, writerVars, mixerRead, pairs, played,
                 disordered, torn>>

\* waveOutWrite reports an error: playThread ends, and _running stays set.
deviceThrows ==
  /\ mixer = "loop"
  /\ mixer' = "ended"
  /\ UNCHANGED <<ringVars, endedPlayingWaitEvent, _running, writerVars,
                 mixerRead, pairs, played, disordered, torn>>

stop ==
  /\ _running
  /\ _running' = FALSE
  /\ UNCHANGED <<ringVars, endedPlayingWaitEvent, writerVars, mixerVars, torn>>

-----------------------------------------------------------------------------
(* The other channels, at any time. *)

otherSignals ==
  /\ ~ endedPlayingWaitEvent
  /\ endedPlayingWaitEvent' = TRUE
  /\ UNCHANGED <<ringVars, _running, writerVars, mixerVars, torn, stolen>>

otherWakes ==
  /\ endedPlayingWaitEvent
  /\ endedPlayingWaitEvent' = FALSE
  /\ stolen' = (stolen \/ \E w \in Writer : pc[w] = "asleep")
  /\ UNCHANGED <<ringVars, _running, writerVars, mixerVars, torn>>

-----------------------------------------------------------------------------

\* The steps of a writer inside writeWait.
writes(w) ==
  \/ hasSpace(w)
  \/ overrun(w)
  \/ lockWrite(w)
  \/ storePair(w)
  \/ unlockWrite(w)
  \/ testPlaying(w)
  \/ wake(w)

MixerNext == fillBuffer \/ readPairs \/ giveSpace \/ signalEnded

AudioNext ==
  \/ /\ \E w \in Writer : writes(w) \/ \E n \in Lengths : writeWait(w, n)
     /\ UNCHANGED stolen
  \/ (MixerNext \/ deviceThrows) /\ UNCHANGED stolen
  \/ stop /\ UNCHANGED stolen
  \/ otherSignals
  \/ otherWakes

AudioSpec == AudioInit /\ [][AudioNext]_audioVars

\* The threads are scheduled, and the output device plays what it is given.
FairAudioSpec ==
  /\ AudioSpec
  /\ WF_audioVars(MixerNext /\ UNCHANGED stolen)
  /\ \A w \in Writer : WF_audioVars(writes(w) /\ UNCHANGED stolen)

-----------------------------------------------------------------------------

intact == ~ torn /\ ~ overcommitted

\* The pairs of the steps in progress that only one counter knows of.
BeingWritten == IF \E w \in Writer : pc[w] = "unlock" THEN 1 ELSE 0
BeingRead == IF mixer = "give" THEN pairs ELSE 0

(***************************************************************************)
(* Every pair stored is mixed once, in the order of the stores, however    *)
(* the writers and the mixer interleave, unless the unlocked counters were *)
(* damaged (lines 210 to 232).                                             *)
(***************************************************************************)
PlayedInOrder == intact => ~ disordered /\ played + readLeft <= stored

(***************************************************************************)
(* No space of the ring is lost: the two counters and the pairs in transit *)
(* add up to the capacity, and the positions agree with readLeft.          *)
(***************************************************************************)
SpaceConserved ==
  intact =>
    /\ readLeft + writeLeft + BeingWritten + BeingRead = Capacity
    /\ (readingPosition + readLeft + BeingWritten) % Capacity = writtingPosition

(***************************************************************************)
(* A writer alone never overruns unless a call is longer than what the     *)
(* mixer and isPlaying leave of the ring: it waited for the ring to drain  *)
(* to the threshold before it returned, and the space the mixer has not    *)
(* given back yet is not needed (lines 223, 259 to 261, 427 to 432).       *)
(***************************************************************************)
OverrunOnlyWhenShared ==
  [][\A w \in Writer : overrun(w) /\ intact => shared \/ long]_audioVars

(***************************************************************************)
(* writeWait of a writer that is alone on its channel returns while the    *)
(* mixer runs, whatever it writes and also when an update of a counter was *)
(* lost: the mixer drains the ring and its signal is not missed, except by *)
(* a writer of another channel that takes it.  The mixer also stops when   *)
(* the device throws, and its caller is never told (lines 246, 254 to 273, *)
(* 397 to 424).                                                            *)
(***************************************************************************)
WriteWaitReturns ==
  \A w \in Writer : pc[w] # "idle" ~>
    pc[w] = "idle" \/ ~ _running \/ mixer = "ended" \/ shared \/ stolen

=============================================================================
