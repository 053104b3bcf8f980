------------------------------ MODULE Audio_proofs ------------------------------
(***************************************************************************)
(* Proofs about Audio, for any writers, any number of calls of any length, *)
(* and any sizes of the ring and the mixer's buffer that AudioAssumption   *)
(* allows: AudioInv is an inductive invariant, and with it the order of    *)
(* the pairs, the account of the space and which calls overrun.            *)
(***************************************************************************)
EXTENDS Audio, TLAPS

\* x modulo the capacity, for an x that is past the end by one turn at most.
Wrap(x) == IF x < Capacity THEN x ELSE x - Capacity

Place == {"idle", "check", "lock", "store", "unlock", "wait", "asleep"}

AudioTyped ==
  /\ buffer \in [Positions -> Nat]
  /\ readingPosition \in Positions /\ writtingPosition \in Positions
  /\ readLeft \in Nat /\ writeLeft \in Nat
  /\ writeLock \in Writer \cup {Nobody}
  /\ mixer \in {"loop", "copy", "give", "signal", "ended"}
  /\ mixerRead \in Nat /\ pairs \in 0 .. BufferSize
  /\ pc \in [Writer -> Place] /\ left \in [Writer -> Nat]
  /\ writerRead \in Nat
  /\ stored \in Nat /\ played \in Nat
  /\ disordered \in BOOLEAN /\ torn \in BOOLEAN
  /\ overcommitted \in BOOLEAN /\ shared \in BOOLEAN /\ long \in BOOLEAN

\* The region of writeLock.
LockHeld == \A w \in Writer : pc[w] \in {"store", "unlock"} <=> writeLock = w

\* The mixer takes what there is.
TakesWhatThereIs == mixer = "copy" => pairs <= mixerRead

\* Pairs of the ring, one more while its count is being updated.
InRing == readLeft + BeingWritten

\* The counters of an undamaged ring, and its contents: the pairs not played
\* yet, in order from the reading position.
RingIsWhole ==
  intact =>
    /\ InRing + writeLeft + BeingRead = Capacity
    /\ writtingPosition = Wrap(readingPosition + InRing)
    /\ played + InRing = stored
    /\ ~ disordered
    /\ \A k \in 1 .. InRing : buffer[Wrap(readingPosition + k - 1)] = played + k

InCall(w) == pc[w] \in {"check", "lock", "store", "unlock"}

\* What a call still has to write is there to be written.
HasPairs == \A w \in Writer : InCall(w) => left[w] >= 1

\* While no two writers were inside writeWait at once and no call was long: one
\* at most is, and its call fits, as the ring had drained before the call.
CallFits ==
  ~ shared /\ ~ long =>
    /\ \A v, w \in Writer : pc[v] # "idle" /\ pc[w] # "idle" => v = w
    /\ intact /\ (\A w \in Writer : pc[w] = "idle") => readLeft <= Threshold
    /\ intact => \A w \in Writer : InCall(w) => readLeft + left[w] <= Capacity - BufferSize

AudioInv ==
  /\ AudioTyped
  /\ LockHeld
  /\ TakesWhatThereIs
  /\ RingIsWhole
  /\ HasPairs
  /\ CallFits

-----------------------------------------------------------------------------
(* Arithmetic of the ring. *)

LEMMA Sizes ==
  /\ Capacity \in Nat \ {0} /\ BufferSize \in Nat \ {0} /\ Threshold \in Nat
  /\ Lengths \subseteq Nat /\ WordSize \in Nat /\ WordSize > 2 * Capacity
  /\ Threshold + BufferSize <= Capacity
  /\ Nobody \notin Writer
BY AudioAssumption

LEMMA ModuloSmall ==
  ASSUME NEW c \in Nat \ {0}, NEW x \in 0 .. c - 1
  PROVE  x % c = x
OBVIOUS

LEMMA ModuloType ==
  ASSUME NEW c \in Nat \ {0}, NEW x \in Int
  PROVE  x % c \in Nat /\ x % c \in 0 .. c - 1
OBVIOUS

LEMMA ModuloTurns ==
  ASSUME NEW c \in Nat \ {0}, NEW k \in Int, NEW r \in 0 .. c - 1
  PROVE  (c * k + r) % c = r
OBVIOUS

LEMMA Wrapped ==
  ASSUME NEW x \in 0 .. 2 * Capacity - 1
  PROVE  x % Capacity = Wrap(x) /\ Wrap(x) \in Positions
<1>1. CASE x < Capacity
  BY <1>1, Sizes, ModuloSmall DEF Wrap, Positions
<1>2. CASE x >= Capacity
  <2>1. x - Capacity \in 0 .. Capacity - 1 /\ 1 \in Int
    BY <1>2, Sizes
  <2>2. (Capacity * 1 + (x - Capacity)) % Capacity = x - Capacity
    BY <2>1, Sizes, ModuloTurns
  <2>. QED
    BY <1>2, <2>1, <2>2, Sizes DEF Wrap, Positions
<1>. QED
  BY <1>1, <1>2, Sizes

-----------------------------------------------------------------------------
(* The writers' places and the lock. *)

\* A writer goes from a place to another.
LEMMA Goto ==
  ASSUME AudioTyped, NEW w \in Writer, NEW to \in Place, goto(w, to)
  PROVE  /\ pc' \in [Writer -> Place] /\ pc'[w] = to
         /\ \A v \in Writer : v # w => pc'[v] = pc[v]
BY DEF AudioTyped, goto

LEMMA Places == {"idle", "check", "lock", "store", "unlock", "wait", "asleep"} \subseteq Place
BY DEF Place

\* Nobody updates readLeft while a writer is at the store.
LEMMA StoreIsAlone ==
  ASSUME LockHeld, NEW w \in Writer, pc[w] = "store"
  PROVE  BeingWritten = 0
BY DEF LockHeld, BeingWritten

LEMMA BeingWrittenType == BeingWritten \in {0, 1} /\ BeingWritten' \in {0, 1}
BY DEF BeingWritten

LEMMA BeingWrittenStays ==
  ASSUME \A v \in Writer : pc'[v] = "unlock" <=> pc[v] = "unlock"
  PROVE  BeingWritten' = BeingWritten
BY DEF BeingWritten

LEMMA MixerTypes ==
  /\ TakesWhatThereIs <=> (mixer = "copy" => pairs <= mixerRead)
  /\ BeingRead = IF mixer = "give" THEN pairs ELSE 0
BY DEF TakesWhatThereIs, BeingRead

-----------------------------------------------------------------------------
(* The moves of a writer that leave the ring and the mixer alone. *)

LEMMA RingKept ==
  ASSUME RingIsWhole, TakesWhatThereIs,
         UNCHANGED <<buffer, readingPosition, writtingPosition, readLeft, writeLeft>>,
         UNCHANGED <<mixer, mixerRead, pairs, played, disordered>>,
         UNCHANGED <<torn, overcommitted, stored>>,
         BeingWritten' = BeingWritten
  PROVE  RingIsWhole' /\ TakesWhatThereIs'
<1>1. BeingRead' = BeingRead /\ InRing' = InRing /\ intact' = intact
  BY DEF BeingRead, InRing, intact
<1>2. RingIsWhole'
  BY <1>1 DEF RingIsWhole, Wrap
<1>. QED
  BY <1>2 DEF TakesWhatThereIs

\* The writers' part of the type invariant, for a move of one of them.
LEMMA WritersTyped ==
  ASSUME AudioTyped, NEW w \in Writer, NEW to \in Place, goto(w, to),
         UNCHANGED <<buffer, readingPosition, writtingPosition, readLeft, writeLeft>>,
         UNCHANGED <<mixer, mixerRead, pairs, played, disordered>>,
         UNCHANGED <<torn, overcommitted, stored>>,
         left' \in [Writer -> Nat], writeLock' \in Writer \cup {Nobody},
         writerRead' \in Nat, shared' \in BOOLEAN, long' \in BOOLEAN
  PROVE  AudioTyped'
<1>1. pc' \in [Writer -> Place]
  BY Goto
<1>. QED
  BY <1>1 DEF AudioTyped, Positions

LEMMA WriteWaitKeepsInv ==
  ASSUME AudioInv, NEW w \in Writer, NEW n \in Lengths, writeWait(w, n)
  PROVE  AudioInv'
<1>. DEFINE to == IF n > 0 THEN "check" ELSE "wait"
<1>0. AudioTyped /\ LockHeld /\ TakesWhatThereIs /\ RingIsWhole /\ HasPairs /\ CallFits
  BY DEF AudioInv
<1>1. /\ pc[w] = "idle" /\ goto(w, to) /\ to \in Place
      /\ left' = [left EXCEPT ![w] = n]
      /\ shared' = (shared \/ \E v \in Writer : pc[v] # "idle")
      /\ long' = (long \/ n > Capacity - Threshold - BufferSize)
      /\ UNCHANGED <<buffer, readingPosition, writtingPosition, readLeft, writeLeft>>
      /\ UNCHANGED <<mixer, mixerRead, pairs, played, disordered>>
      /\ UNCHANGED <<torn, overcommitted, stored, writeLock, writerRead>>
  BY Places DEF writeWait, ringVars, mixerVars
<1>2. pc' \in [Writer -> Place] /\ pc'[w] = to /\ \A v \in Writer : v # w => pc'[v] = pc[v]
  BY <1>0, <1>1, Goto
<1>3. /\ n \in Nat /\ left' \in [Writer -> Nat] /\ left'[w] = n
      /\ \A v \in Writer : v # w => left'[v] = left[v]
  BY <1>0, <1>1, Sizes DEF AudioTyped
<1>4. AudioTyped'
  <2>1. shared' \in BOOLEAN /\ long' \in BOOLEAN
    BY <1>1
  <2>. QED
    BY <1>0, <1>1, <1>3, <2>1, WritersTyped DEF AudioTyped
<1>5. RingIsWhole' /\ TakesWhatThereIs'
  BY <1>0, <1>1, <1>2, BeingWrittenStays, RingKept
<1>6. LockHeld'
  BY <1>0, <1>1, <1>2 DEF LockHeld
<1>7. HasPairs'
  BY <1>0, <1>2, <1>3, Sizes DEF HasPairs, InCall
<1>8. CallFits'
  <2>. SUFFICES ASSUME ~ shared', ~ long'
                PROVE  /\ \A u, v \in Writer : pc'[u] # "idle" /\ pc'[v] # "idle" => u = v
                       /\ intact' /\ (\A v \in Writer : pc'[v] = "idle") => readLeft' <= Threshold
                       /\ intact' => \A v \in Writer :
                                       InCall(v)' => readLeft' + left'[v] <= Capacity - BufferSize
    BY DEF CallFits, InCall
  <2>1. ~ shared /\ ~ long /\ n <= Capacity - Threshold - BufferSize
        /\ \A v \in Writer : pc[v] = "idle"
    <3>1. ~ shared /\ (\A v \in Writer : pc[v] = "idle")
          /\ ~ long /\ ~ n > Capacity - Threshold - BufferSize
      BY <1>1, Zenon
    <3>. QED
      BY <3>1, <1>3, Sizes
  <2>2. intact' => intact
    BY <1>1 DEF intact
  <2>3. intact' => readLeft <= Threshold
    BY <1>0, <2>1, <2>2 DEF CallFits
  <2>4. readLeft \in Nat
    BY <1>0 DEF AudioTyped
  <2>5. intact' => readLeft' + left'[w] <= Capacity - BufferSize
    BY <1>1, <1>3, <2>1, <2>3, <2>4, Sizes
  <2>6. pc'[w] # "idle" /\ \A v \in Writer : v # w => pc'[v] = "idle"
    BY <1>2, <2>1
  <2>. QED
    BY <1>2, <2>5, <2>6 DEF InCall
<1>. QED
  BY <1>4, <1>5, <1>6, <1>7, <1>8 DEF AudioInv

\* A move inside a call, or out of it, that leaves the lock alone.
LEMMA CallMoves ==
  ASSUME AudioInv, NEW w \in Writer, NEW to \in Place, goto(w, to),
         pc[w] \in {"check", "wait", "asleep"},
         to \in {"lock", "idle", "wait", "asleep"},
         to = "lock" => pc[w] = "check",
         ~ shared /\ ~ long /\ intact /\ to = "idle" => readLeft <= Threshold,
         UNCHANGED <<buffer, readingPosition, writtingPosition, readLeft, writeLeft>>,
         UNCHANGED <<mixer, mixerRead, pairs, played, disordered>>,
         UNCHANGED <<torn, overcommitted, stored, writeLock, writerRead, left, shared, long>>
  PROVE  AudioInv'
<1>0. AudioTyped /\ LockHeld /\ TakesWhatThereIs /\ RingIsWhole /\ HasPairs /\ CallFits
  BY DEF AudioInv
<1>2. pc' \in [Writer -> Place] /\ pc'[w] = to /\ \A v \in Writer : v # w => pc'[v] = pc[v]
  BY <1>0, Goto
<1>4. AudioTyped'
  BY <1>0, WritersTyped DEF AudioTyped
<1>5. RingIsWhole' /\ TakesWhatThereIs'
  <2>1. BeingWritten' = BeingWritten
    BY <1>2, BeingWrittenStays
  <2>. QED
    BY <1>0, <2>1, RingKept
<1>6. LockHeld'
  BY <1>0, <1>2 DEF LockHeld
<1>7. HasPairs'
  BY <1>0, <1>2 DEF HasPairs, InCall
<1>8. CallFits'
  <2>1. \A v \in Writer : /\ InCall(v)' => InCall(v)
                          /\ pc'[v] # "idle" => pc[v] # "idle"
    BY <1>2 DEF InCall
  <2>2. intact' = intact
    BY DEF intact
  <2>3. ASSUME ~ shared, ~ long, intact, \A v \in Writer : pc'[v] = "idle"
        PROVE  readLeft <= Threshold
    BY <2>3, <1>2
  <2>. QED
    BY <1>0, <2>1, <2>2, <2>3 DEF CallFits
<1>. QED
  BY <1>4, <1>5, <1>6, <1>7, <1>8 DEF AudioInv

(***************************************************************************)
(* A writer that is alone in writeWait, with no long call before, finds    *)
(* space: this is what keeps "Buffer overrun" away, and where the sizes    *)
(* matter.                                                                 *)
(***************************************************************************)
LEMMA SpaceForTheCall ==
  ASSUME AudioInv, NEW w \in Writer, pc[w] = "check", intact, ~ shared, ~ long
  PROVE  writeLeft >= 1
<1>1. AudioTyped /\ RingIsWhole /\ HasPairs /\ CallFits
  BY DEF AudioInv
<1>2. \A v \in Writer : v # w => pc[v] = "idle"
  BY <1>1 DEF CallFits
<1>3. BeingWritten = 0
  BY <1>2 DEF BeingWritten
<1>4. readLeft + left[w] <= Capacity - BufferSize /\ left[w] >= 1 /\ left[w] \in Nat
  BY <1>1 DEF CallFits, HasPairs, InCall, AudioTyped
<1>5. BeingRead \in 0 .. BufferSize
  BY <1>1, Sizes DEF BeingRead, AudioTyped
<1>6. readLeft + writeLeft + BeingRead = Capacity /\ readLeft \in Nat /\ writeLeft \in Nat
  BY <1>1, <1>3 DEF RingIsWhole, InRing, AudioTyped
<1>. QED
  BY <1>4, <1>5, <1>6, Sizes

-----------------------------------------------------------------------------
(* The region of writeLock. *)

LEMMA LockWriteKeepsInv ==
  ASSUME AudioInv, NEW w \in Writer, lockWrite(w)
  PROVE  AudioInv'
<1>0. AudioTyped /\ LockHeld /\ TakesWhatThereIs /\ RingIsWhole /\ HasPairs /\ CallFits
  BY DEF AudioInv
<1>1. /\ pc[w] = "lock" /\ writeLock = Nobody /\ goto(w, "store") /\ "store" \in Place
      /\ writeLock' = w /\ writerRead' = writeLeft
      /\ UNCHANGED <<buffer, readingPosition, writtingPosition, readLeft, writeLeft>>
      /\ UNCHANGED <<mixer, mixerRead, pairs, played, disordered>>
      /\ UNCHANGED <<torn, overcommitted, stored, left, shared, long>>
  BY Places DEF lockWrite, ringVars, mixerVars
<1>2. pc' \in [Writer -> Place] /\ pc'[w] = "store" /\ \A v \in Writer : v # w => pc'[v] = pc[v]
  BY <1>0, <1>1, Goto
<1>3. AudioTyped'
  <2>1. /\ left' \in [Writer -> Nat] /\ writeLock' \in Writer \cup {Nobody}
        /\ writerRead' \in Nat /\ shared' \in BOOLEAN /\ long' \in BOOLEAN
    BY <1>0, <1>1 DEF AudioTyped
  <2>. QED
    BY <1>0, <1>1, <2>1, WritersTyped
<1>4. RingIsWhole' /\ TakesWhatThereIs'
  <2>1. BeingWritten' = BeingWritten
    BY <1>1, <1>2, BeingWrittenStays
  <2>. QED
    BY <1>0, <1>1, <2>1, RingKept
<1>5. LockHeld'
  <2>1. \A v \in Writer : pc[v] \notin {"store", "unlock"}
    BY <1>0, <1>1, Sizes DEF LockHeld
  <2>. QED
    BY <1>1, <1>2, <2>1 DEF LockHeld
<1>6. HasPairs'
  BY <1>0, <1>1, <1>2 DEF HasPairs, InCall
<1>7. CallFits'
  <2>1. \A v \in Writer : /\ InCall(v)' => InCall(v)
                          /\ pc'[v] # "idle" => pc[v] # "idle"
    BY <1>1, <1>2 DEF InCall
  <2>2. intact' = intact
    BY <1>1 DEF intact
  <2>. QED
    BY <1>0, <1>1, <1>2, <2>1, <2>2 DEF CallFits
<1>. QED
  BY <1>3, <1>4, <1>5, <1>6, <1>7 DEF AudioInv

\* In a ring that is whole, the pair stored is the next one, and it takes a
\* slot of none of those not played yet.
LEMMA StoreKeepsRing ==
  ASSUME AudioInv, NEW w \in Writer, storePair(w), BeingWritten' = 1
  PROVE  RingIsWhole'
<1>. SUFFICES ASSUME intact'
              PROVE  /\ InRing' + writeLeft' + BeingRead' = Capacity
                     /\ writtingPosition' = Wrap(readingPosition' + InRing')
                     /\ played' + InRing' = stored'
                     /\ ~ disordered'
                     /\ \A k \in 1 .. InRing' : buffer'[Wrap(readingPosition' + k - 1)] = played' + k
  BY DEF RingIsWhole, Wrap
<1>0. AudioTyped /\ LockHeld /\ RingIsWhole
  BY DEF AudioInv
<1>1. /\ pc[w] = "store"
      /\ writeLeft' = (writerRead - 1) % WordSize
      /\ torn' = (torn \/ writeLeft # writerRead)
      /\ overcommitted' = (overcommitted \/ writerRead = 0)
      /\ buffer' = [buffer EXCEPT ![writtingPosition] = stored + 1]
      /\ stored' = stored + 1
      /\ writtingPosition' = (writtingPosition + 1) % Capacity
      /\ UNCHANGED <<readingPosition, readLeft, mixer, pairs, played, disordered>>
  BY DEF storePair, mixerVars
<1>2. intact /\ writeLeft = writerRead /\ writerRead # 0
  BY <1>1 DEF intact
<1>3. BeingWritten = 0
  BY <1>0, <1>1, StoreIsAlone
<1>4. InRing = readLeft /\ InRing' = readLeft + 1 /\ readLeft \in Nat
  BY <1>0, <1>1, <1>3 DEF InRing, AudioTyped
<1>5. BeingRead' = BeingRead /\ BeingRead \in Nat
  BY <1>0, <1>1, Sizes DEF BeingRead, AudioTyped
<1>6. /\ readLeft + writeLeft + BeingRead = Capacity
      /\ writtingPosition = Wrap(readingPosition + readLeft)
      /\ played + readLeft = stored /\ ~ disordered
      /\ \A k \in 1 .. readLeft : buffer[Wrap(readingPosition + k - 1)] = played + k
  BY <1>0, <1>2, <1>4 DEF RingIsWhole
<1>7. writeLeft \in Nat /\ writeLeft >= 1 /\ readLeft < Capacity
  BY <1>0, <1>2, <1>4, <1>5, <1>6, Sizes DEF AudioTyped
<1>8. writeLeft' = writeLeft - 1
  <2>1. writeLeft - 1 \in 0 .. WordSize - 1 /\ WordSize \in Nat \ {0}
    BY <1>4, <1>5, <1>6, <1>7, Sizes
  <2>. QED
    BY <1>1, <1>2, <2>1, ModuloSmall
<1>9. InRing' + writeLeft' + BeingRead' = Capacity
  BY <1>4, <1>5, <1>6, <1>7, <1>8, Sizes
<1>10. readingPosition \in 0 .. Capacity - 1 /\ writtingPosition \in 0 .. Capacity - 1
       /\ stored \in Nat /\ played \in Nat /\ buffer \in [Positions -> Nat]
  BY <1>0 DEF AudioTyped, Positions
<1>11. writtingPosition' = Wrap(readingPosition' + InRing')
  <2>1. writtingPosition' = Wrap(writtingPosition + 1)
    <3>1. writtingPosition + 1 \in 0 .. 2 * Capacity - 1
      BY <1>10, Sizes
    <3>. QED
      BY <1>1, <3>1, Wrapped
  <2>. QED
    BY <2>1, <1>1, <1>4, <1>6, <1>7, <1>10, Sizes DEF Wrap
<1>12. \A k \in 1 .. readLeft : /\ Wrap(readingPosition + k - 1) # writtingPosition
                                /\ Wrap(readingPosition + k - 1) \in Positions
  BY <1>4, <1>6, <1>7, <1>10, Sizes DEF Wrap, Positions
<1>13. \A k \in 1 .. readLeft : buffer'[Wrap(readingPosition + k - 1)] = played + k
  BY <1>1, <1>6, <1>10, <1>12
<1>14. buffer'[Wrap(readingPosition + (readLeft + 1) - 1)] = played + (readLeft + 1)
  <2>1. readingPosition + (readLeft + 1) - 1 = readingPosition + readLeft
        /\ played + (readLeft + 1) = stored + 1
    BY <1>4, <1>6, <1>10, Sizes
  <2>2. buffer'[writtingPosition] = stored + 1
    BY <1>1, <1>10 DEF Positions
  <2>. QED
    BY <2>1, <2>2, <1>6
<1>15. \A k \in 1 .. readLeft + 1 : k \in 1 .. readLeft \/ k = readLeft + 1
  BY <1>4
<1>16. \A k \in 1 .. InRing' : buffer'[Wrap(readingPosition' + k - 1)] = played' + k
  <2>1. \A k \in 1 .. readLeft + 1 : buffer'[Wrap(readingPosition + k - 1)] = played + k
    BY <1>13, <1>14, <1>15
  <2>. QED
    BY <2>1, <1>1, <1>4
<1>17. played' + InRing' = stored'
  BY <1>1, <1>4, <1>6, <1>10
<1>18. ~ disordered'
  BY <1>1, <1>6
<1>. QED
  BY <1>9, <1>11, <1>16, <1>17, <1>18

LEMMA StorePairKeepsInv ==
  ASSUME AudioInv, NEW w \in Writer, storePair(w)
  PROVE  AudioInv'
<1>0. AudioTyped /\ LockHeld /\ TakesWhatThereIs /\ HasPairs /\ CallFits
  BY DEF AudioInv
<1>1. /\ pc[w] = "store" /\ goto(w, "unlock") /\ "unlock" \in Place
      /\ UNCHANGED <<readingPosition, readLeft, left, shared, long, writeLock>>
      /\ UNCHANGED <<mixer, mixerRead, pairs, played, disordered>>
  BY Places DEF storePair, mixerVars
<1>2. pc' \in [Writer -> Place] /\ pc'[w] = "unlock" /\ \A v \in Writer : v # w => pc'[v] = pc[v]
  BY <1>0, <1>1, Goto
<1>3. RingIsWhole'
  <2>1. BeingWritten' = 1
    BY <1>2 DEF BeingWritten
  <2>. QED
    BY <2>1, StoreKeepsRing
<1>4. AudioTyped'
  <2>1. writeLeft' \in Nat
    <3>1. writeLeft' = (writerRead - 1) % WordSize /\ WordSize \in Nat \ {0}
      BY Sizes DEF storePair
    <3>2. writerRead - 1 \in Int
      BY <1>0 DEF AudioTyped
    <3>. QED
      BY <3>1, <3>2, ModuloType
  <2>2. writtingPosition' \in Positions
    <3>1. writtingPosition' = (writtingPosition + 1) % Capacity
      BY DEF storePair
    <3>2. writtingPosition + 1 \in Int
      BY <1>0, Sizes DEF AudioTyped, Positions
    <3>. QED
      BY <3>1, <3>2, Sizes, ModuloType DEF Positions
  <2>3. stored' \in Nat /\ buffer' \in [Positions -> Nat]
    BY <1>0 DEF storePair, AudioTyped
  <2>4. writerRead' \in Nat
    BY <1>0 DEF storePair, AudioTyped
  <2>5. torn' \in BOOLEAN /\ overcommitted' \in BOOLEAN
    BY DEF storePair
  <2>. QED
    BY <1>0, <1>1, <1>2, <2>1, <2>2, <2>3, <2>4, <2>5 DEF AudioTyped, Positions
<1>5. LockHeld'
  BY <1>0, <1>1, <1>2 DEF LockHeld
<1>6. TakesWhatThereIs'
  BY <1>0, <1>1 DEF TakesWhatThereIs
<1>7. HasPairs'
  BY <1>0, <1>1, <1>2 DEF HasPairs, InCall
<1>8. CallFits'
  <2>1. \A v \in Writer : /\ InCall(v)' => InCall(v)
                          /\ pc'[v] # "idle" => pc[v] # "idle"
    BY <1>1, <1>2 DEF InCall
  <2>2. intact' => intact
    BY DEF storePair, intact
  <2>. QED
    BY <1>0, <1>1, <1>2, <2>1, <2>2 DEF CallFits
<1>. QED
  BY <1>3, <1>4, <1>5, <1>6, <1>7, <1>8 DEF AudioInv

LEMMA UnlockWriteKeepsInv ==
  ASSUME AudioInv, NEW w \in Writer, unlockWrite(w)
  PROVE  AudioInv'
<1>0. AudioTyped /\ LockHeld /\ TakesWhatThereIs /\ RingIsWhole /\ HasPairs /\ CallFits
  BY DEF AudioInv
<1>1. PICK to \in {"check", "wait"} : to = IF left[w] > 1 THEN "check" ELSE "wait"
  OBVIOUS
<1>2. /\ pc[w] = "unlock" /\ goto(w, to) /\ to \in Place
      /\ readLeft' = (writerRead + 1) % WordSize
      /\ torn' = (torn \/ readLeft # writerRead)
      /\ writeLock' = Nobody
      /\ left' = [left EXCEPT ![w] = left[w] - 1]
      /\ UNCHANGED <<buffer, readingPosition, writtingPosition, writeLeft>>
      /\ UNCHANGED <<mixer, mixerRead, pairs, played, disordered>>
      /\ UNCHANGED <<writerRead, stored, overcommitted, shared, long>>
  BY <1>1, Places DEF unlockWrite, mixerVars
<1>3. pc' \in [Writer -> Place] /\ pc'[w] = to /\ \A v \in Writer : v # w => pc'[v] = pc[v]
  BY <1>0, <1>2, Goto
<1>4. /\ left[w] \in Nat /\ left[w] >= 1
      /\ left' \in [Writer -> Nat] /\ left'[w] = left[w] - 1
      /\ \A v \in Writer : v # w => left'[v] = left[v]
  <2>1. left \in [Writer -> Nat] /\ left[w] \in Nat /\ left[w] >= 1
    BY <1>0, <1>2 DEF AudioTyped, HasPairs, InCall
  <2>. QED
    BY <2>1, <1>2
<1>5. \A v \in Writer : pc'[v] \notin {"store", "unlock"}
  BY <1>0, <1>1, <1>2, <1>3 DEF LockHeld
<1>6. BeingWritten = 1 /\ BeingWritten' = 0
  BY <1>2, <1>5 DEF BeingWritten
<1>7. readLeft \in Nat /\ writeLeft \in Nat /\ BeingRead \in Nat /\ BeingRead' = BeingRead
  BY <1>0, <1>2, Sizes DEF AudioTyped, BeingRead
<1>8. intact' => intact /\ readLeft' = readLeft + 1
  <2>. SUFFICES ASSUME intact'
                PROVE  intact /\ readLeft' = readLeft + 1
    OBVIOUS
  <2>1. intact /\ readLeft = writerRead
    BY <1>2 DEF intact
  <2>2. readLeft + 1 + writeLeft + BeingRead = Capacity
    BY <2>1, <1>0, <1>6 DEF RingIsWhole, InRing
  <2>3. readLeft + 1 \in 0 .. WordSize - 1 /\ WordSize \in Nat \ {0}
    BY <2>2, <1>7, Sizes
  <2>. QED
    BY <2>1, <2>3, <1>2, ModuloSmall
<1>9. RingIsWhole'
  <2>1. intact' => InRing' = InRing
    BY <1>6, <1>7, <1>8 DEF InRing
  <2>. QED
    BY <2>1, <1>0, <1>2, <1>7, <1>8 DEF RingIsWhole, Wrap
<1>10. AudioTyped'
  <2>1. readLeft' \in Nat
    <3>1. writerRead + 1 \in Int /\ WordSize \in Nat \ {0}
      BY <1>0, Sizes DEF AudioTyped
    <3>. QED
      BY <3>1, <1>2, ModuloType
  <2>2. torn' \in BOOLEAN
    BY <1>2
  <2>. QED
    BY <2>1, <2>2, <1>0, <1>2, <1>3, <1>4 DEF AudioTyped, Positions
<1>11. LockHeld'
  BY <1>2, <1>5, Sizes DEF LockHeld
<1>12. TakesWhatThereIs'
  BY <1>0, <1>2 DEF TakesWhatThereIs
<1>13. HasPairs'
  <2>1. to = "check" => left'[w] >= 1
    BY <1>1, <1>4
  <2>2. InCall(w)' => left'[w] >= 1
    BY <2>1, <1>1, <1>3 DEF InCall
  <2>. QED
    BY <2>2, <1>0, <1>3, <1>4 DEF HasPairs, InCall
<1>14. CallFits'
  <2>. SUFFICES ASSUME ~ shared, ~ long
                PROVE  /\ \A u, v \in Writer : pc'[u] # "idle" /\ pc'[v] # "idle" => u = v
                       /\ ~ \A v \in Writer : pc'[v] = "idle"
                       /\ intact' => \A v \in Writer :
                                       InCall(v)' => readLeft' + left'[v] <= Capacity - BufferSize
    BY <1>2 DEF CallFits, InCall
  <2>1. \A v \in Writer : v # w => pc[v] = "idle" /\ pc'[v] = "idle"
    BY <1>0, <1>2, <1>3 DEF CallFits
  <2>2. pc'[w] # "idle"
    BY <1>1, <1>3
  <2>3. intact => readLeft + left[w] <= Capacity - BufferSize
    BY <1>0, <1>2 DEF CallFits, InCall
  <2>4. intact' => readLeft' + left'[w] <= Capacity - BufferSize
    BY <2>3, <1>4, <1>7, <1>8, Sizes
  <2>. QED
    BY <2>1, <2>2, <2>4 DEF InCall
<1>. QED
  BY <1>9, <1>10, <1>11, <1>12, <1>13, <1>14 DEF AudioInv

\* The steps of a writer inside a call.
LEMMA WritesKeepsInv ==
  ASSUME AudioInv, NEW w \in Writer, writes(w)
  PROVE  AudioInv'
<1>1. CASE hasSpace(w)
  <2>1. /\ pc[w] = "check" /\ goto(w, "lock") /\ "lock" \in Place
        /\ UNCHANGED <<buffer, readingPosition, writtingPosition, readLeft, writeLeft>>
        /\ UNCHANGED <<mixer, mixerRead, pairs, played, disordered>>
        /\ UNCHANGED <<torn, overcommitted, stored, writeLock, writerRead, left, shared, long>>
    BY <1>1, Places DEF hasSpace, ringVars, mixerVars
  <2>. QED
    BY <2>1, CallMoves
<1>2. CASE overrun(w)
  <2>1. /\ pc[w] = "check" /\ goto(w, "idle") /\ "idle" \in Place /\ writeLeft < 1
        /\ UNCHANGED <<buffer, readingPosition, writtingPosition, readLeft, writeLeft>>
        /\ UNCHANGED <<mixer, mixerRead, pairs, played, disordered>>
        /\ UNCHANGED <<torn, overcommitted, stored, writeLock, writerRead, left, shared, long>>
    BY <1>2, Places DEF overrun, ringVars, mixerVars
  <2>2. ~ (~ shared /\ ~ long /\ intact)
    <3>1. writeLeft \in Nat
      BY DEF AudioInv, AudioTyped
    <3>. QED
      BY <2>1, <3>1, SpaceForTheCall
  <2>. QED
    BY <2>1, <2>2, CallMoves
<1>3. CASE lockWrite(w)
  BY <1>3, LockWriteKeepsInv
<1>4. CASE storePair(w)
  BY <1>4, StorePairKeepsInv
<1>5. CASE unlockWrite(w)
  BY <1>5, UnlockWriteKeepsInv
<1>6. CASE testPlaying(w)
  <2>1. PICK to \in {"asleep", "idle"} : to = IF isPlaying THEN "asleep" ELSE "idle"
    OBVIOUS
  <2>2. /\ pc[w] = "wait" /\ goto(w, to) /\ to \in Place
        /\ UNCHANGED <<buffer, readingPosition, writtingPosition, readLeft, writeLeft>>
        /\ UNCHANGED <<mixer, mixerRead, pairs, played, disordered>>
        /\ UNCHANGED <<torn, overcommitted, stored, writeLock, writerRead, left, shared, long>>
    BY <1>6, <2>1, Places DEF testPlaying, ringVars, mixerVars
  <2>3. to = "idle" => readLeft <= Threshold
    <3>1. readLeft \in Nat
      BY DEF AudioInv, AudioTyped
    <3>. QED
      BY <2>1, <3>1, Sizes DEF isPlaying
  <2>. QED
    BY <2>1, <2>2, <2>3, CallMoves
<1>7. CASE wake(w)
  <2>1. /\ pc[w] = "asleep" /\ goto(w, "wait") /\ "wait" \in Place
        /\ UNCHANGED <<buffer, readingPosition, writtingPosition, readLeft, writeLeft>>
        /\ UNCHANGED <<mixer, mixerRead, pairs, played, disordered>>
        /\ UNCHANGED <<torn, overcommitted, stored, writeLock, writerRead, left, shared, long>>
    BY <1>7, Places DEF wake, ringVars, mixerVars
  <2>. QED
    BY <2>1, CallMoves
<1>. QED
  BY <1>1, <1>2, <1>3, <1>4, <1>5, <1>6, <1>7 DEF writes

-----------------------------------------------------------------------------
(* The mixer. *)

\* The mixer leaves the writers alone, and never raises readLeft.
LEMMA WritersKept ==
  ASSUME AudioInv, UNCHANGED <<writeLock, pc, left, shared, long>>,
         intact' => intact /\ readLeft' <= readLeft, readLeft' \in Nat
  PROVE  LockHeld' /\ HasPairs' /\ CallFits' /\ BeingWritten' = BeingWritten
<1>0. AudioTyped /\ LockHeld /\ HasPairs /\ CallFits
  BY DEF AudioInv
<1>1. LockHeld' /\ HasPairs' /\ BeingWritten' = BeingWritten
  BY <1>0 DEF LockHeld, HasPairs, InCall, BeingWritten
<1>2. CallFits'
  BY <1>0, Sizes DEF AudioTyped, CallFits, InCall
<1>. QED
  BY <1>1, <1>2

LEMMA FillBufferKeepsInv ==
  ASSUME AudioInv, fillBuffer
  PROVE  AudioInv'
<1>0. AudioTyped /\ TakesWhatThereIs /\ RingIsWhole
  BY DEF AudioInv
<1>1. /\ mixer = "loop" /\ mixer' = "copy" /\ mixerRead' = readLeft
      /\ pairs' = IF readLeft < BufferSize THEN readLeft ELSE BufferSize
      /\ UNCHANGED <<buffer, readingPosition, writtingPosition, readLeft, writeLeft>>
      /\ UNCHANGED <<writeLock, pc, left, writerRead, stored, overcommitted, shared, long>>
      /\ UNCHANGED <<torn, played, disordered>>
  BY DEF fillBuffer, ringVars, writerVars
<1>2. intact' = intact
  BY <1>1 DEF intact
<1>3. LockHeld' /\ HasPairs' /\ CallFits' /\ BeingWritten' = BeingWritten
  <2>1. readLeft' <= readLeft /\ readLeft' \in Nat
    BY <1>0, <1>1 DEF AudioTyped
  <2>. QED
    BY <2>1, <1>1, <1>2, WritersKept
<1>4. RingIsWhole'
  <2>1. BeingRead' = BeingRead /\ InRing' = InRing
    BY <1>1, <1>3 DEF BeingRead, InRing
  <2>. QED
    BY <2>1, <1>0, <1>1, <1>2 DEF RingIsWhole, Wrap
<1>5. AudioTyped' /\ TakesWhatThereIs'
  BY <1>0, <1>1, Sizes DEF AudioTyped, TakesWhatThereIs, Positions
<1>. QED
  BY <1>3, <1>4, <1>5 DEF AudioInv

(***************************************************************************)
(* In a ring that is whole the pairs the mixer takes are the next ones in  *)
(* order, and the ring stays whole without them.                           *)
(***************************************************************************)
LEMMA ReadPairsKeepsInv ==
  ASSUME AudioInv, readPairs
  PROVE  AudioInv'
<1>0. AudioTyped /\ TakesWhatThereIs /\ RingIsWhole
  BY DEF AudioInv
<1>1. /\ mixer = "copy" /\ mixer' = "give"
      /\ readLeft' = (mixerRead - pairs) % WordSize
      /\ torn' = (torn \/ readLeft # mixerRead)
      /\ played' = played + pairs
      /\ disordered' = (disordered \/ \E k \in 1 .. pairs : unread(k) # played + k)
      /\ readingPosition' = (readingPosition + pairs) % Capacity
      /\ mixerRead' = writeLeft
      /\ UNCHANGED <<buffer, writtingPosition, writeLeft, pairs>>
      /\ UNCHANGED <<writeLock, pc, left, writerRead, stored, overcommitted, shared, long>>
  BY DEF readPairs, writerVars
<1>2. /\ readLeft \in Nat /\ mixerRead \in Nat /\ pairs \in Nat /\ pairs <= BufferSize
      /\ pairs <= mixerRead /\ writeLeft \in Nat /\ played \in Nat /\ stored \in Nat
      /\ readingPosition \in 0 .. Capacity - 1
  BY <1>0, <1>1, Sizes DEF AudioTyped, TakesWhatThereIs, Positions
<1>3. BeingRead = 0 /\ BeingRead' = pairs
  BY <1>1 DEF BeingRead
<1>4. intact' =>
        /\ intact /\ readLeft = mixerRead
        /\ InRing + writeLeft = Capacity
        /\ readLeft' = readLeft - pairs
  <2>. SUFFICES ASSUME intact'
                PROVE  /\ intact /\ readLeft = mixerRead
                       /\ InRing + writeLeft = Capacity
                       /\ readLeft' = readLeft - pairs
    OBVIOUS
  <2>1. intact /\ readLeft = mixerRead
    BY <1>1 DEF intact
  <2>2. InRing \in Nat /\ InRing >= readLeft
    BY <1>2, BeingWrittenType DEF InRing
  <2>3. InRing + writeLeft = Capacity
    BY <2>1, <2>2, <1>0, <1>2, <1>3 DEF RingIsWhole
  <2>4. readLeft - pairs \in 0 .. WordSize - 1 /\ WordSize \in Nat \ {0}
    BY <2>1, <2>2, <2>3, <1>2, Sizes
  <2>5. (readLeft - pairs) % WordSize = readLeft - pairs
    BY <2>4, ModuloSmall
  <2>. QED
    BY <2>1, <2>3, <2>5, <1>1
<1>5. readLeft' \in Nat
  <2>1. mixerRead - pairs \in Int /\ WordSize \in Nat \ {0}
    BY <1>2, Sizes
  <2>. QED
    BY <2>1, <1>1, ModuloType
<1>6. LockHeld' /\ HasPairs' /\ CallFits' /\ BeingWritten' = BeingWritten
  <2>1. intact' => intact /\ readLeft' <= readLeft
    BY <1>2, <1>4
  <2>. QED
    BY <2>1, <1>1, <1>5, WritersKept
<1>7. readingPosition' = Wrap(readingPosition + pairs) /\ readingPosition' \in Positions
  <2>1. readingPosition + pairs \in 0 .. 2 * Capacity - 1
    BY <1>2, Sizes
  <2>. QED
    BY <2>1, <1>1, Wrapped
<1>8. RingIsWhole'
  <2>. SUFFICES ASSUME intact'
                PROVE  /\ InRing' + writeLeft' + BeingRead' = Capacity
                       /\ writtingPosition' = Wrap(readingPosition' + InRing')
                       /\ played' + InRing' = stored'
                       /\ ~ disordered'
                       /\ \A k \in 1 .. InRing' :
                            buffer'[Wrap(readingPosition' + k - 1)] = played' + k
    BY DEF RingIsWhole, Wrap
  <2>1. /\ InRing \in Nat /\ InRing <= Capacity /\ InRing' = InRing - pairs
        /\ pairs <= readLeft /\ readLeft <= InRing /\ InRing' \in Nat
    <3>1. /\ InRing = readLeft + BeingWritten /\ InRing' = readLeft' + BeingWritten
          /\ BeingWritten \in {0, 1}
      BY <1>6, BeingWrittenType DEF InRing
    <3>. QED
      BY <3>1, <1>2, <1>4, Sizes
  <2>2. /\ InRing + writeLeft = Capacity
        /\ writtingPosition = Wrap(readingPosition + InRing)
        /\ played + InRing = stored
        /\ ~ disordered
        /\ \A k \in 1 .. InRing : buffer[Wrap(readingPosition + k - 1)] = played + k
    BY <1>0, <1>4 DEF RingIsWhole
  <2>3. InRing' + writeLeft' + BeingRead' = Capacity /\ played' + InRing' = stored'
    BY <2>1, <2>2, <1>1, <1>2, <1>3
  <2>4. writtingPosition' = Wrap(readingPosition' + InRing')
    BY <2>1, <2>2, <1>1, <1>2, <1>7, Sizes DEF Wrap
  <2>5. ~ disordered'
    <3>1. \A k \in 1 .. pairs :
            k \in 1 .. InRing /\ readingPosition + k - 1 \in 0 .. 2 * Capacity - 1
      BY <2>1, <1>2, Sizes
    <3>2. \A k \in 1 .. pairs : unread(k) = buffer[Wrap(readingPosition + k - 1)]
      BY <3>1, Wrapped DEF unread
    <3>. QED
      BY <3>1, <3>2, <2>2, <1>1
  <2>6. ASSUME NEW k \in 1 .. InRing'
        PROVE  buffer'[Wrap(readingPosition' + k - 1)] = played' + k
    <3>1. k + pairs \in 1 .. InRing /\ k \in Nat
      BY <2>1, <1>2
    <3>2. buffer[Wrap(readingPosition + (k + pairs) - 1)] = played + (k + pairs)
      BY <3>1, <2>2
    <3>3. Wrap(readingPosition' + k - 1) = Wrap(readingPosition + (k + pairs) - 1)
      BY <3>1, <2>1, <1>2, <1>7, Sizes DEF Wrap
    <3>4. played' + k = played + (k + pairs)
      BY <3>1, <1>1, <1>2
    <3>. QED
      BY <3>2, <3>3, <3>4, <1>1
  <2>. QED
    BY <2>3, <2>4, <2>5, <2>6
<1>9. AudioTyped'
  <2>1. disordered' \in BOOLEAN /\ torn' \in BOOLEAN
    BY <1>0, <1>1 DEF AudioTyped
  <2>2. played' \in Nat
    BY <1>1, <1>2
  <2>. QED
    BY <2>1, <2>2, <1>0, <1>1, <1>5, <1>7 DEF AudioTyped, Positions
<1>10. TakesWhatThereIs'
  BY <1>1 DEF TakesWhatThereIs
<1>. QED
  BY <1>6, <1>8, <1>9, <1>10 DEF AudioInv

LEMMA GiveSpaceKeepsInv ==
  ASSUME AudioInv, giveSpace
  PROVE  AudioInv'
<1>0. AudioTyped /\ TakesWhatThereIs /\ RingIsWhole
  BY DEF AudioInv
<1>1. /\ mixer = "give" /\ mixer' = "signal"
      /\ writeLeft' = (mixerRead + pairs) % WordSize
      /\ torn' = (torn \/ writeLeft # mixerRead)
      /\ UNCHANGED <<buffer, readingPosition, writtingPosition, readLeft>>
      /\ UNCHANGED <<writeLock, pc, left, writerRead, stored, overcommitted, shared, long>>
      /\ UNCHANGED <<mixerRead, pairs, played, disordered>>
  BY DEF giveSpace, writerVars
<1>2. /\ readLeft \in Nat /\ writeLeft \in Nat /\ mixerRead \in Nat /\ pairs \in Nat
  BY <1>0, Sizes DEF AudioTyped
<1>3. BeingRead = pairs /\ BeingRead' = 0
  BY <1>1 DEF BeingRead
<1>4. intact' => intact
  BY <1>1 DEF intact
<1>5. LockHeld' /\ HasPairs' /\ CallFits' /\ BeingWritten' = BeingWritten
  <2>1. readLeft' <= readLeft /\ readLeft' \in Nat
    BY <1>1, <1>2
  <2>. QED
    BY <2>1, <1>1, <1>4, WritersKept
<1>6. InRing' = InRing /\ InRing \in Nat
  BY <1>1, <1>2, <1>5, BeingWrittenType DEF InRing
<1>7. RingIsWhole'
  <2>. SUFFICES ASSUME intact'
                PROVE  /\ InRing' + writeLeft' + BeingRead' = Capacity
                       /\ writtingPosition' = Wrap(readingPosition' + InRing')
                       /\ played' + InRing' = stored'
                       /\ ~ disordered'
                       /\ \A k \in 1 .. InRing' :
                            buffer'[Wrap(readingPosition' + k - 1)] = played' + k
    BY DEF RingIsWhole, Wrap
  <2>1. intact /\ writeLeft = mixerRead
    BY <1>1 DEF intact
  <2>2. InRing + writeLeft + pairs = Capacity
    BY <2>1, <1>0, <1>3 DEF RingIsWhole
  <2>3. writeLeft' = writeLeft + pairs
    <3>1. writeLeft + pairs \in 0 .. WordSize - 1 /\ WordSize \in Nat \ {0}
      BY <2>2, <1>2, <1>6, Sizes
    <3>. QED
      BY <3>1, <2>1, <1>1, ModuloSmall
  <2>4. InRing' + writeLeft' + BeingRead' = Capacity
    BY <2>2, <2>3, <1>2, <1>3, <1>6
  <2>. QED
    BY <2>1, <2>4, <1>0, <1>1, <1>6 DEF RingIsWhole, Wrap
<1>8. AudioTyped' /\ TakesWhatThereIs'
  <2>1. writeLeft' \in Nat
    <3>1. mixerRead + pairs \in Int /\ WordSize \in Nat \ {0}
      BY <1>2, Sizes
    <3>. QED
      BY <3>1, <1>1, ModuloType
  <2>2. torn' \in BOOLEAN
    BY <1>0, <1>1 DEF AudioTyped
  <2>. QED
    BY <2>1, <2>2, <1>0, <1>1 DEF AudioTyped, TakesWhatThereIs, Positions
<1>. QED
  BY <1>5, <1>7, <1>8 DEF AudioInv

\* The steps that leave the ring, the writers and the mixer's copies alone.
LEMMA OthersKeepInv ==
  ASSUME AudioInv,
         UNCHANGED <<buffer, readingPosition, writtingPosition, readLeft, writeLeft>>,
         UNCHANGED <<writeLock, pc, left, writerRead, stored, overcommitted, shared, long>>,
         UNCHANGED <<mixerRead, pairs, played, disordered, torn>>,
         \/ mixer' = mixer
         \/ mixer = "signal" /\ mixer' = "loop"
         \/ mixer = "loop" /\ mixer' = "ended"
  PROVE  AudioInv'
<1>0. AudioTyped /\ LockHeld /\ TakesWhatThereIs /\ RingIsWhole /\ HasPairs /\ CallFits
  BY DEF AudioInv
<1>1. BeingRead' = BeingRead /\ InRing' = InRing /\ intact' = intact
  BY DEF BeingRead, InRing, BeingWritten, intact
<1>2. RingIsWhole'
  BY <1>0, <1>1 DEF RingIsWhole, Wrap
<1>3. LockHeld' /\ TakesWhatThereIs' /\ HasPairs'
  BY <1>0 DEF LockHeld, TakesWhatThereIs, HasPairs, InCall
<1>4. CallFits'
  BY <1>0, <1>1 DEF CallFits, InCall
<1>5. AudioTyped'
  BY <1>0 DEF AudioTyped, Positions
<1>. QED
  BY <1>2, <1>3, <1>4, <1>5 DEF AudioInv

-----------------------------------------------------------------------------
(* The theorems. *)

LEMMA AudioInitially == AudioInit => AudioInv
<1>. SUFFICES ASSUME AudioInit
              PROVE  AudioInv
  OBVIOUS
<1>1. AudioTyped
  <2>1. 0 \in Positions /\ 0 \in Nat /\ 0 \in 0 .. BufferSize /\ Capacity \in Nat
    BY Sizes DEF Positions
  <2>2. buffer \in [Positions -> Nat] /\ pc \in [Writer -> Place] /\ left \in [Writer -> Nat]
    BY Places DEF AudioInit
  <2>. QED
    BY <2>1, <2>2 DEF AudioInit, AudioTyped
<1>2. \A w \in Writer : pc[w] = "idle"
  BY DEF AudioInit
<1>3. LockHeld
  BY <1>2, Sizes DEF AudioInit, LockHeld
<1>4. TakesWhatThereIs /\ HasPairs
  BY <1>2 DEF AudioInit, TakesWhatThereIs, HasPairs, InCall
<1>5. InRing = 0 /\ BeingRead = 0
  BY <1>2 DEF AudioInit, InRing, BeingWritten, BeingRead
<1>6. RingIsWhole
  BY <1>5, Sizes DEF AudioInit, RingIsWhole, Wrap
<1>7. CallFits
  BY <1>2, Sizes DEF AudioInit, CallFits, InCall
<1>. QED
  BY <1>1, <1>3, <1>4, <1>6, <1>7 DEF AudioInv

LEMMA AudioStep == AudioInv /\ [AudioNext]_audioVars => AudioInv'
<1>. SUFFICES ASSUME AudioInv, [AudioNext]_audioVars
              PROVE  AudioInv'
  OBVIOUS
<1>1. ASSUME NEW w \in Writer, writes(w) \/ \E n \in Lengths : writeWait(w, n)
      PROVE  AudioInv'
  BY <1>1, WriteWaitKeepsInv, WritesKeepsInv
<1>2. CASE MixerNext \/ deviceThrows
  <2>1. CASE signalEnded
    BY <2>1, OthersKeepInv DEF signalEnded, ringVars, writerVars
  <2>2. CASE deviceThrows
    BY <2>2, OthersKeepInv DEF deviceThrows, ringVars, writerVars
  <2>. QED
    BY <1>2, <2>1, <2>2, FillBufferKeepsInv, ReadPairsKeepsInv, GiveSpaceKeepsInv DEF MixerNext
<1>3. CASE stop \/ otherSignals \/ otherWakes
  BY <1>3, OthersKeepInv DEF stop, otherSignals, otherWakes, ringVars, writerVars, mixerVars
<1>4. CASE UNCHANGED audioVars
  BY <1>4, OthersKeepInv DEF audioVars, ringVars, writerVars, mixerVars
<1>. QED
  BY <1>1, <1>2, <1>3, <1>4 DEF AudioNext

(***************************************************************************)
(* AudioInv is an invariant: as long as no two threads damaged a count,    *)
(* the pairs in the ring are those written and not yet played, in order,   *)
(* and a call that shares the ring with no other finds the space it needs. *)
(***************************************************************************)
THEOREM AudioInvariant == AudioSpec => []AudioInv
<1>. QED
  BY AudioInitially, AudioStep, PTL DEF AudioSpec

(***************************************************************************)
(* No space of an undamaged ring is lost, and its positions agree with its *)
(* counters (Audio.d:210-232).                                             *)
(***************************************************************************)
THEOREM SpaceIsConserved == AudioSpec => []SpaceConserved
<1>1. AudioInv => SpaceConserved
  <2>. SUFFICES ASSUME AudioInv, intact
                PROVE  /\ readLeft + writeLeft + BeingWritten + BeingRead = Capacity
                       /\ (readingPosition + readLeft + BeingWritten) % Capacity = writtingPosition
    BY DEF SpaceConserved
  <2>1. /\ InRing + writeLeft + BeingRead = Capacity
        /\ writtingPosition = Wrap(readingPosition + InRing)
        /\ readLeft \in Nat /\ writeLeft \in Nat /\ BeingRead \in Nat
        /\ readingPosition \in 0 .. Capacity - 1
    BY Sizes DEF AudioInv, AudioTyped, RingIsWhole, BeingRead, Positions
  <2>2. BeingWritten \in {0, 1} /\ InRing = readLeft + BeingWritten
    BY BeingWrittenType DEF InRing
  <2>3. readingPosition + InRing \in 0 .. 2 * Capacity - 1
    BY <2>1, <2>2, Sizes
  <2>4. readingPosition + InRing = readingPosition + readLeft + BeingWritten
        /\ readLeft + writeLeft + BeingWritten + BeingRead = Capacity
    BY <2>1, <2>2, Sizes
  <2>. QED
    BY <2>1, <2>3, <2>4, Wrapped
<1>. QED
  BY <1>1, AudioInvariant, PTL

(***************************************************************************)
(* Every pair stored in an undamaged ring is mixed once and in order       *)
(* (Audio.d:210-232).                                                      *)
(***************************************************************************)
THEOREM PairsArePlayedInOrder == AudioSpec => []PlayedInOrder
<1>1. AudioInv => PlayedInOrder
  <2>1. BeingWritten \in {0, 1} /\ InRing = readLeft + BeingWritten
    BY BeingWrittenType DEF InRing
  <2>. QED
    BY <2>1 DEF AudioInv, AudioTyped, RingIsWhole, PlayedInOrder
<1>. QED
  BY <1>1, AudioInvariant, PTL

(***************************************************************************)
(* A writer alone in writeWait never overruns the ring as long as no call  *)
(* was longer than what the threshold and the mixer's buffer leave of it   *)
(* (Audio.d:223, 259-261, 427-432): 85 554 pairs with the code's sizes.    *)
(***************************************************************************)
THEOREM OverrunsAreShared == AudioSpec => OverrunOnlyWhenShared
<1>1. AudioInv => \A w \in Writer : overrun(w) /\ intact => shared \/ long
  <2>. SUFFICES ASSUME AudioInv, NEW w \in Writer, overrun(w), intact, ~ shared, ~ long
                PROVE  FALSE
    BY DEF AudioInv, AudioTyped
  <2>1. pc[w] = "check" /\ writeLeft < 1 /\ writeLeft \in Nat
    BY DEF overrun, AudioInv, AudioTyped
  <2>2. writeLeft >= 1
    BY <2>1, SpaceForTheCall
  <2>. QED
    BY <2>1, <2>2
<1>. QED
  BY <1>1, AudioInvariant, PTL DEF OverrunOnlyWhenShared

=============================================================================
