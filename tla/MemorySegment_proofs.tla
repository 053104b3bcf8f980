------------------------ MODULE MemorySegment_proofs ------------------------
(***************************************************************************)
(* Proofs about MemorySegment, for every partition, number of segments,    *)
(* size, address and alignment: the segments in use do not overlap, a      *)
(* search finds the nearest room of memory taken address by address, and   *)
(* the free memory is what no segment covers.                              *)
(***************************************************************************)
EXTENDS MemorySegment, FiniteSetTheorems, WellFoundedInduction, TLAPS

\* A remainder is below its divisor, and a number below it is its own.
LEMMA Remainder ==
  ASSUME NEW v \in Nat, NEW a \in Nat \ {0}
  PROVE  /\ v % a \in 0 .. a - 1
         /\ v % a <= v
         /\ v < a => v % a = v
         /\ a % a = 0
OBVIOUS

\* A sum of two words wraps at most once.
LEMMA Wrap ==
  ASSUME NEW v \in 0 .. 2 * WordSize - 1, WordSize \in Nat
  PROVE  v % WordSize = IF v < WordSize THEN v ELSE v - WordSize
OBVIOUS

\* So does a difference.
LEMMA NegativeWrap ==
  ASSUME NEW v \in Int, -WordSize <= v, v < 0, WordSize \in Nat
  PROVE  v % WordSize = v + WordSize
OBVIOUS

(***************************************************************************)
(* Aligning an address of the partition upwards does not wrap (MathUtils.d *)
(* line 47).                                                               *)
(***************************************************************************)
LEMMA AlignedIncrement ==
  ASSUME NEW v \in 0 .. High, NEW a \in 1 .. WordSize - 1
  PROVE  /\ nextAlignedIncrement(v, a) \in 0 .. a - 1
         /\ v + nextAlignedIncrement(v, a) < WordSize
<1> DEFINE inc == nextAlignedIncrement(v, a)
<1>1. /\ WordSize \in Nat /\ High \in Nat /\ 2 * High <= WordSize
      /\ v \in Nat /\ a \in Nat \ {0} /\ v <= High
  BY MemoryAssumption
<1>2. v % a \in 0 .. a - 1 /\ a - (v % a) \in Nat
  BY <1>1, Remainder
<1>3. inc \in 0 .. a - 1
  BY <1>1, <1>2, Remainder DEF nextAlignedIncrement
<1>4. CASE v < a
  <2>1. v % a = v
    BY <1>1, <1>4, Remainder
  <2>2. inc = 0 \/ inc = a - v
    <3>1. CASE v = 0
      BY <1>1, <2>1, <3>1, Remainder DEF nextAlignedIncrement
    <3>2. CASE v # 0
      <4>1. a - v \in Nat /\ a - v < a
        BY <1>1, <1>4, <3>2
      <4> QED
        BY <1>1, <2>1, <4>1, Remainder DEF nextAlignedIncrement
    <3> QED
      BY <3>1, <3>2
  <2> QED
    BY <1>1, <1>3, <1>4, <2>2
<1>5. CASE ~ (v < a)
  BY <1>1, <1>3, <1>5
<1> QED
  BY <1>3, <1>4, <1>5

(***************************************************************************)
(* What a search takes of an available block b lies in b: when the sum of  *)
(* the size and the increment wraps, the constructor throws (line 48).     *)
(***************************************************************************)
LEMMA LowEndInside ==
  ASSUME NEW b \in Block, b.low <= b.high, b.high <= High,
         NEW n \in 0 .. WordSize - 1, NEW a \in 1 .. WordSize - 1,
         fitsLow(b, n, a),
         lowEnd(b, n, a).low <= lowEnd(b, n, a).high
  PROVE  /\ lowEnd(b, n, a) \in Block
         /\ b.low <= lowEnd(b, n, a).low
         /\ lowEnd(b, n, a).high <= b.high
<1> DEFINE inc == nextAlignedIncrement(b.low, a)
           low == b.low + inc
<1>1. /\ WordSize \in Nat /\ High \in Nat /\ 2 * High <= WordSize /\ 0 < High
      /\ b.low \in Nat /\ b.high \in Nat /\ b.low \in 0 .. High
  BY MemoryAssumption DEF Block, Address
<1>2. inc \in 0 .. a - 1 /\ low < WordSize
  BY <1>1, AlignedIncrement
<1> HIDE DEF inc
<1>3. size(b) = b.high - b.low
  BY <1>1 DEF size
<1>4. (n + inc) % WordSize <= b.high - b.low
  BY <1>3 DEF fitsLow, inc
<1>5. low % WordSize = low
  <2>1. low \in Nat /\ low < WordSize
    BY <1>1, <1>2
  <2> QED
    BY <1>1, <2>1
<1>6. lowEnd(b, n, a) = [low |-> low, high |-> (low + n) % WordSize]
  BY <1>5 DEF lowEnd, inc
<1>7. CASE n + inc < WordSize
  <2>1. (n + inc) % WordSize = n + inc
    BY <1>1, <1>2, <1>7
  <2>2. low + n <= b.high
    BY <1>1, <1>2, <1>4, <2>1
  <2>3. (low + n) % WordSize = low + n
    BY <1>1, <1>2, <2>2
  <2> QED
    BY <1>1, <1>2, <1>6, <2>2, <2>3 DEF Block, Address
<1>8. CASE ~ (n + inc < WordSize)
  <2>1. (n + inc) % WordSize = n + inc - WordSize
    <3> DEFINE v == n + inc
    <3>1. v \in 0 .. 2 * WordSize - 1 /\ WordSize <= v
      BY <1>1, <1>2, <1>8
    <3> HIDE DEF v
    <3>2. v % WordSize = v - WordSize
      BY <1>1, <3>1, Wrap
    <3> QED
      BY <1>1, <1>2, <3>2 DEF v
  <2>2. low + n - WordSize <= b.high /\ low + n >= WordSize
    BY <1>1, <1>2, <1>4, <1>8, <2>1
  <2>3. (low + n) % WordSize = low + n - WordSize
    <3> DEFINE v == low + n
    <3>1. v \in 0 .. 2 * WordSize - 1 /\ WordSize <= v
      BY <1>1, <1>2, <2>2
    <3> HIDE DEF v
    <3>2. v % WordSize = v - WordSize
      BY <1>1, <3>1, Wrap
    <3> QED
      BY <1>1, <1>2, <3>2 DEF v
  <2>4. lowEnd(b, n, a).high < lowEnd(b, n, a).low
    BY <1>1, <1>2, <1>6, <2>3
  <2> QED
    BY <1>1, <1>2, <1>6, <2>3, <2>4
<1> QED
  BY <1>7, <1>8

LEMMA HighEndInside ==
  ASSUME NEW b \in Block, b.low <= b.high, b.high <= High,
         NEW n \in 0 .. WordSize - 1, NEW a \in 1 .. WordSize - 1,
         fitsHigh(b, n, a),
         highEnd(b, n, a).low <= highEnd(b, n, a).high
  PROVE  /\ highEnd(b, n, a) \in Block
         /\ b.low <= highEnd(b, n, a).low
         /\ highEnd(b, n, a).high <= b.high
<1> DEFINE dec == previousAlignedDecrement(b.high, a)
           high == b.high - dec
<1>1. /\ WordSize \in Nat /\ High \in Nat /\ 2 * High <= WordSize /\ 0 < High
      /\ b.low \in Nat /\ b.high \in Nat
  BY MemoryAssumption DEF Block, Address
<1>2. dec \in 0 .. b.high /\ dec < a
  BY <1>1 DEF previousAlignedDecrement
<1> HIDE DEF dec
<1>3. size(b) = b.high - b.low
  BY <1>1 DEF size
<1>4. (n + dec) % WordSize <= b.high - b.low
  BY <1>3 DEF fitsHigh, dec
<1>5. highEnd(b, n, a) = [low |-> (high - n) % WordSize, high |-> high]
  BY DEF highEnd, dec
<1>6. CASE n + dec < WordSize
  <2>1. (n + dec) % WordSize = n + dec
    BY <1>1, <1>2, <1>6
  <2>2. b.low <= high - n /\ high - n \in Nat /\ high - n < WordSize
    BY <1>1, <1>2, <1>4, <2>1
  <2>3. (high - n) % WordSize = high - n
    BY <1>1, <2>2
  <2> QED
    BY <1>1, <1>2, <1>5, <2>2, <2>3 DEF Block, Address
<1>7. CASE ~ (n + dec < WordSize)
  <2>1. high - n < 0 /\ -WordSize <= high - n /\ high - n \in Int
    BY <1>1, <1>2, <1>7
  <2>2. (high - n) % WordSize = high - n + WordSize
    BY <1>1, <2>1
  <2>3. highEnd(b, n, a).high < highEnd(b, n, a).low
    BY <1>1, <1>2, <1>5, <2>2
  <2> QED
    BY <1>1, <1>2, <1>5, <2>2, <2>3
<1> QED
  BY <1>6, <1>7

-----------------------------------------------------------------------------

\* Whatever the order, the used blocks are those of all the childs.
LEMMA UsedBlocks ==
  ASSUME MemoryTypeOK, NEW used \in usedBlocks, childs # {}
  PROVE  /\ Cardinality(childs) \in Nat \ {0}
         /\ used \in [1 .. Cardinality(childs) -> childs]
         /\ \A i \in 1 .. Cardinality(childs) : block[used[i]] \in Block
         /\ \A s \in childs : \E i \in 1 .. Cardinality(childs) : used[i] = s
<1>1. IsFiniteSet(childs)
  BY FS_Subset, MemoryAssumption DEF MemoryTypeOK
<1>2. Cardinality(childs) \in Nat \ {0}
  BY <1>1, FS_CardinalityType, FS_EmptySet
<1>3. /\ used \in [1 .. Cardinality(childs) -> childs]
      /\ \A s \in childs : \E i \in 1 .. Cardinality(childs) : used[i] = s
  BY DEF usedBlocks
<1> QED
  BY <1>2, <1>3 DEF MemoryTypeOK

\* The available blocks are blocks, even after an empty one was handed out.
LEMMA AvailableAreBlocks ==
  ASSUME MemoryTypeOK, NEW used \in usedBlocks, NEW b \in availableBlocks(used)
  PROVE  b \in Block
<1>1. Low \in Address /\ High \in Address
  BY MemoryAssumption DEF Address
<1>2. CASE childs = {}
  BY <1>1, <1>2 DEF availableBlocks, Partition, Block
<1>3. CASE childs # {}
  <2> DEFINE n == Cardinality(childs)
  <2>1. /\ n \in Nat \ {0}
        /\ \A i \in 1 .. n : block[used[i]] \in Block
    BY <1>3, UsedBlocks
  <2>2. b \in gaps(used)
    BY <1>3 DEF availableBlocks
  <2> HIDE DEF n
  <2>3. \A i \in 1 .. n : /\ block[used[i]].low \in Address
                          /\ block[used[i]].high \in Address
    BY <2>1 DEF Block
  <2>4. \A i \in 1 .. n - 1 : i \in 1 .. n /\ i + 1 \in 1 .. n
    BY <2>1
  <2>5. 1 \in 1 .. n /\ n \in 1 .. n
    BY <2>1
  <2> QED
    BY <1>1, <2>2, <2>3, <2>4, <2>5 DEF gaps, Block, n
<1> QED
  BY <1>2, <1>3

(***************************************************************************)
(* The used blocks, sorted, follow each other: sorted by the low address,  *)
(* not empty and disjoint, each ends before the next begins.               *)
(***************************************************************************)
LEMMA UsedBlocksFollow ==
  ASSUME MemoryTypeOK, NoOverlap, ~ emptied, NEW used \in usedBlocks,
         NEW i \in 1 .. Cardinality(childs), NEW j \in 1 .. Cardinality(childs),
         i < j, childs # {}
  PROVE  block[used[i]].high <= block[used[j]].low
<1>1. /\ used[i] \in childs /\ used[j] \in childs
      /\ block[used[i]] \in Block /\ block[used[j]] \in Block
  BY UsedBlocks
<1>2. used[i] # used[j] /\ block[used[i]].low <= block[used[j]].low
  BY UsedBlocks DEF usedBlocks
<1>3. /\ block[used[j]].low < block[used[j]].high
      /\ ~ overlap(block[used[i]], block[used[j]])
  BY <1>1, <1>2 DEF NoOverlap
<1> QED
  BY <1>1, <1>2, <1>3 DEF overlap, Block, Address

(***************************************************************************)
(* The available blocks lie in the partition and are free (lines 61 to 87).*)
(***************************************************************************)
LEMMA AvailableAreFree ==
  ASSUME MemoryTypeOK, NoOverlap, ~ emptied,
         NEW used \in usedBlocks, NEW b \in availableBlocks(used)
  PROVE  /\ Low <= b.low /\ b.low <= b.high /\ b.high <= High
         /\ \A s \in childs : b.high <= block[s].low \/ block[s].high <= b.low
<1>1. Low \in Nat /\ High \in Nat /\ Low < High
  BY MemoryAssumption
<1>2. CASE childs = {}
  BY <1>1, <1>2 DEF availableBlocks, Partition
<1>3. CASE childs # {}
  <2> DEFINE n == Cardinality(childs)
             low(i) == block[used[i]].low
             high(i) == block[used[i]].high
  <2>1. /\ n \in Nat \ {0}
        /\ used \in [1 .. n -> childs]
        /\ \A i \in 1 .. n : block[used[i]] \in Block
        /\ \A s \in childs : \E i \in 1 .. n : used[i] = s
    BY <1>3, UsedBlocks
  <2>2. \A i, j \in 1 .. n : i < j => high(i) <= low(j)
    BY <1>3, UsedBlocksFollow
  <2>3. \A i \in 1 .. n : /\ low(i) \in Nat /\ high(i) \in Nat
                          /\ Low <= low(i) /\ low(i) < high(i) /\ high(i) <= High
    BY <2>1 DEF NoOverlap, inside, Partition, Block, Address
  <2>4. b \in gaps(used)
    BY <1>3 DEF availableBlocks
  <2>5. \/ b = [low |-> Low, high |-> low(1)]
        \/ b = [low |-> high(n), high |-> High]
        \/ \E i \in 1 .. n - 1 : b = [low |-> high(i), high |-> low(i + 1)]
    BY <2>4 DEF gaps
  <2>6. SUFFICES /\ Low <= b.low /\ b.low <= b.high /\ b.high <= High
                 /\ \A i \in 1 .. n : b.high <= low(i) \/ high(i) <= b.low
    BY <2>1
  <2> HIDE DEF n, low, high
  <2>7. CASE b = [low |-> Low, high |-> low(1)]
    <3>1. 1 \in 1 .. n /\ \A j \in 1 .. n : j = 1 \/ 1 < j
      BY <2>1
    <3>2. \A j \in 1 .. n : low(1) <= low(j)
      <4> TAKE j \in 1 .. n
      <4>1. j = 1 \/ high(1) <= low(j)
        BY <2>2, <3>1
      <4> QED
        BY <2>3, <3>1, <4>1
    <3> QED
      BY <1>1, <2>3, <2>7, <3>1, <3>2
  <2>8. CASE b = [low |-> high(n), high |-> High]
    <3>1. n \in 1 .. n /\ \A j \in 1 .. n : j = n \/ j < n
      BY <2>1
    <3>2. \A j \in 1 .. n : high(j) <= high(n)
      <4> TAKE j \in 1 .. n
      <4>1. j = n \/ high(j) <= low(n)
        BY <2>2, <3>1
      <4> QED
        BY <2>3, <3>1, <4>1
    <3> QED
      BY <1>1, <2>3, <2>8, <3>1, <3>2
  <2>9. CASE \E i \in 1 .. n - 1 : b = [low |-> high(i), high |-> low(i + 1)]
    <3>1. PICK i \in 1 .. n - 1 : b = [low |-> high(i), high |-> low(i + 1)]
      BY <2>9
    <3>2. i \in 1 .. n /\ i + 1 \in 1 .. n /\ i < i + 1
      BY <2>1
    <3>3. \A j \in 1 .. n : j < i \/ j = i \/ j = i + 1 \/ i + 1 < j
      BY <2>1
    <3>4. \A j \in 1 .. n : low(i + 1) <= low(j) \/ high(j) <= high(i)
      <4> TAKE j \in 1 .. n
      <4>1. CASE j = i \/ j < i
        <5>1. j = i \/ high(j) <= low(i)
          BY <2>2, <3>2, <4>1
        <5> QED
          BY <2>3, <3>2, <5>1
      <4>2. CASE j = i + 1 \/ i + 1 < j
        <5>1. j = i + 1 \/ high(i + 1) <= low(j)
          BY <2>2, <3>2, <4>2
        <5> QED
          BY <2>3, <3>2, <5>1
      <4> QED
        BY <3>3, <4>1, <4>2
    <3> QED
      BY <1>1, <2>2, <2>3, <3>1, <3>2, <3>4
  <2> QED
    BY <2>5, <2>7, <2>8, <2>9
<1> QED
  BY <1>2, <1>3

-----------------------------------------------------------------------------

\* A free block of the partition may be added.
LEMMA AddFreeBlock ==
  ASSUME MemoryTypeOK, NoOverlap, NEW s \in Segment, NEW e \in Block,
         addNewMemorySegment(s, e),
         ~ emptied => /\ Low <= e.low /\ e.high <= High
                      /\ \A c \in childs :
                           e.high <= block[c].low \/ block[c].high <= e.low
  PROVE  MemoryTypeOK' /\ NoOverlap'
<1>1. MemoryTypeOK'
  BY DEF MemoryTypeOK, addNewMemorySegment
<1>2. ASSUME ~ emptied' PROVE NoOverlap'
  <2>1. ~ emptied /\ e.low < e.high
    <3>1. ~ (emptied \/ e.low = e.high)
      BY <1>2, Zenon DEF addNewMemorySegment
    <3>2. e.low <= e.high
      BY DEF addNewMemorySegment
    <3>3. e.low \in Int /\ e.high \in Int
      BY DEF Block, Address
    <3>4. e.low # e.high
      BY <3>1, Zenon
    <3> QED
      BY <3>1, <3>2, <3>3, <3>4
  <2>2. \A c \in childs : block'[c] = block[c] /\ block[c] \in Block /\ c # s
    BY DEF MemoryTypeOK, addNewMemorySegment
  <2>3. block'[s] = e /\ childs' = childs \cup {s}
    BY DEF addNewMemorySegment
  <2>4. \A c \in childs : ~ overlap(e, block[c]) /\ ~ overlap(block[c], e)
    BY <2>1, <2>2 DEF overlap, Block, Address
  <2>5. inside(e, Partition)
    BY <2>1 DEF inside, Partition
  <2>6. \A c \in childs : /\ inside(block[c], Partition)
                          /\ block[c].low < block[c].high
                          /\ \A d \in childs \ {c} : ~ overlap(block[c], block[d])
    BY <2>1 DEF NoOverlap
  <2> QED
    BY <2>1, <2>2, <2>3, <2>4, <2>5, <2>6 DEF NoOverlap
<1>3. ASSUME emptied' PROVE NoOverlap'
  BY <1>3 DEF NoOverlap
<1> QED
  BY <1>1, <1>2, <1>3

\* allocByLow takes what it adds from a free block.
LEMMA AllocByLowStep ==
  ASSUME MemoryTypeOK, NoOverlap, NEW s \in Segment,
         NEW n \in 0 .. WordSize - 1, NEW address, NEW a \in 1 .. WordSize - 1,
         allocByLow(s, n, address, a)
  PROVE  MemoryTypeOK' /\ NoOverlap'
<1>1. PICK used \in usedBlocks : \E b \in searchLow(used, n, address, a) :
        addNewMemorySegment(s, lowEnd(b, n, a))
  BY DEF allocByLow
<1>2. PICK b \in searchLow(used, n, address, a) :
        addNewMemorySegment(s, lowEnd(b, n, a))
  BY <1>1
<1>3. b \in availableBlocks(used) /\ fitsLow(b, n, a)
  BY DEF searchLow, firstFrom, lowest
<1>4. b \in Block
  BY <1>3, AvailableAreBlocks
<1>5. lowEnd(b, n, a) \in Block
  <2> DEFINE low == b.low + nextAlignedIncrement(b.low, a)
  <2>1. nextAlignedIncrement(b.low, a) \in Int
    BY <1>4 DEF nextAlignedIncrement, Block, Address
  <2>2. low \in Int /\ low + n \in Int /\ WordSize \in Nat \ {0}
    BY <1>4, <2>1, MemoryAssumption DEF Block, Address
  <2>3. low % WordSize \in Address /\ (low + n) % WordSize \in Address
    <3> HIDE DEF low
    <3> QED
      BY <2>2 DEF Address
  <2> QED
    BY <2>3 DEF lowEnd, Block
<1>6. lowEnd(b, n, a).low <= lowEnd(b, n, a).high
  BY <1>2 DEF addNewMemorySegment
<1>7. ~ emptied => /\ Low <= lowEnd(b, n, a).low
                   /\ lowEnd(b, n, a).high <= High
                   /\ \A c \in childs :
                        \/ lowEnd(b, n, a).high <= block[c].low
                        \/ block[c].high <= lowEnd(b, n, a).low
  <2> SUFFICES ASSUME ~ emptied
               PROVE  /\ Low <= lowEnd(b, n, a).low
                      /\ lowEnd(b, n, a).high <= High
                      /\ \A c \in childs :
                           \/ lowEnd(b, n, a).high <= block[c].low
                           \/ block[c].high <= lowEnd(b, n, a).low
    OBVIOUS
  <2>1. /\ Low <= b.low /\ b.low <= b.high /\ b.high <= High
        /\ \A c \in childs : b.high <= block[c].low \/ block[c].high <= b.low
    BY <1>3, AvailableAreFree
  <2>2. b.low <= lowEnd(b, n, a).low /\ lowEnd(b, n, a).high <= b.high
    BY <1>3, <1>4, <1>6, <2>1, LowEndInside
  <2>3. \A c \in childs : block[c] \in Block
    BY DEF MemoryTypeOK
  <2> QED
    BY <1>4, <1>5, <2>1, <2>2, <2>3, MemoryAssumption DEF Block, Address
<1> QED
  BY <1>2, <1>5, <1>7, AddFreeBlock

\* And so does allocByHigh.
LEMMA AllocByHighStep ==
  ASSUME MemoryTypeOK, NoOverlap, NEW s \in Segment,
         NEW n \in 0 .. WordSize - 1, NEW a \in 1 .. WordSize - 1,
         allocByHigh(s, n, a)
  PROVE  MemoryTypeOK' /\ NoOverlap'
<1>1. PICK used \in usedBlocks : \E b \in searchHigh(used, n, a) :
        addNewMemorySegment(s, highEnd(b, n, a))
  BY DEF allocByHigh
<1>2. PICK b \in searchHigh(used, n, a) :
        addNewMemorySegment(s, highEnd(b, n, a))
  BY <1>1
<1>3. b \in availableBlocks(used) /\ fitsHigh(b, n, a)
  BY DEF searchHigh, highest
<1>4. b \in Block
  BY <1>3, AvailableAreBlocks
<1>5. highEnd(b, n, a) \in Block
  <2> DEFINE high == b.high - previousAlignedDecrement(b.high, a)
  <2>1. /\ b.high \in Nat /\ b.high < WordSize
        /\ WordSize \in Nat \ {0} /\ a \in Nat \ {0}
    BY <1>4, MemoryAssumption DEF Block, Address
  <2>2. b.high % a \in 0 .. b.high
    BY <2>1
  <2>3. high \in Address /\ high - n \in Int
    BY <2>1, <2>2 DEF previousAlignedDecrement, Address
  <2>4. (high - n) % WordSize \in Address
    <3> HIDE DEF high
    <3> QED
      BY <2>1, <2>3 DEF Address
  <2> QED
    BY <2>3, <2>4 DEF highEnd, Block
<1>6. highEnd(b, n, a).low <= highEnd(b, n, a).high
  BY <1>2 DEF addNewMemorySegment
<1>7. ~ emptied => /\ Low <= highEnd(b, n, a).low
                   /\ highEnd(b, n, a).high <= High
                   /\ \A c \in childs :
                        \/ highEnd(b, n, a).high <= block[c].low
                        \/ block[c].high <= highEnd(b, n, a).low
  <2> SUFFICES ASSUME ~ emptied
               PROVE  /\ Low <= highEnd(b, n, a).low
                      /\ highEnd(b, n, a).high <= High
                      /\ \A c \in childs :
                           \/ highEnd(b, n, a).high <= block[c].low
                           \/ block[c].high <= highEnd(b, n, a).low
    OBVIOUS
  <2>1. /\ Low <= b.low /\ b.low <= b.high /\ b.high <= High
        /\ \A c \in childs : b.high <= block[c].low \/ block[c].high <= b.low
    BY <1>3, AvailableAreFree
  <2>2. b.low <= highEnd(b, n, a).low /\ highEnd(b, n, a).high <= b.high
    BY <1>3, <1>4, <1>6, <2>1, HighEndInside
  <2>3. \A c \in childs : block[c] \in Block
    BY DEF MemoryTypeOK
  <2> QED
    BY <1>4, <1>5, <2>1, <2>2, <2>3, MemoryAssumption DEF Block, Address
<1> QED
  BY <1>2, <1>5, <1>7, AddFreeBlock

\* allocByAddr checks the block asked for, or searches.
LEMMA AllocByAddrStep ==
  ASSUME MemoryTypeOK, NoOverlap, NEW s \in Segment,
         NEW n \in 0 .. WordSize - 1, NEW base \in Address,
         allocByAddr(s, base, n)
  PROVE  MemoryTypeOK' /\ NoOverlap'
<1> DEFINE e == [low |-> base, high |-> (base + n) % WordSize]
<1>1. 1 \in 1 .. WordSize - 1 /\ WordSize \in Nat \ {0}
  BY MemoryAssumption
<1>2. CASE allocByLow(s, n, 0, 1) \/ allocByLow(s, n, base, 1)
  BY <1>1, <1>2, AllocByLowStep
<1>3. CASE /\ inside(e, Partition)
           /\ \A c \in childs : ~ overlap(e, block[c])
           /\ addNewMemorySegment(s, e)
  <2>1. e \in Block
    BY <1>1 DEF Block, Address
  <2>2. e.low <= e.high
    BY <1>3 DEF addNewMemorySegment
  <2> HIDE DEF e
  <2>3. \A c \in childs : block[c] \in Block
    BY DEF MemoryTypeOK
  <2>4. /\ Low <= e.low /\ e.high <= High
        /\ ~ emptied => \A c \in childs :
             e.high <= block[c].low \/ block[c].high <= e.low
    BY <1>3, <2>1, <2>3, MemoryAssumption
    DEF inside, overlap, Partition, Block, Address
  <2> QED
    BY <1>3, <2>1, <2>4, AddFreeBlock
<1> QED
  BY <1>2, <1>3 DEF allocByAddr

-----------------------------------------------------------------------------

(***************************************************************************)
(* MemoryTypeOK and NoOverlap are inductive together: every operation adds *)
(* a block that is free, or removes one (lines 54 to 167).                 *)
(***************************************************************************)
THEOREM SegmentsInvariant == MemorySpec => [](MemoryTypeOK /\ NoOverlap)
<1> DEFINE Inv == MemoryTypeOK /\ NoOverlap
<1>1. MemoryInit => Inv
  BY DEF MemoryInit, MemoryTypeOK, NoOverlap
<1>2. Inv /\ [MemoryNext]_memoryVars => Inv'
  <2> SUFFICES ASSUME MemoryTypeOK, NoOverlap, [MemoryNext]_memoryVars
               PROVE  MemoryTypeOK' /\ NoOverlap'
    OBVIOUS
  <2>1. ASSUME NEW s \in Segment, NEW n \in Sizes, NEW a \in Alignments,
               allocByLow(s, n, 0, a) \/ allocByHigh(s, n, a)
        PROVE  MemoryTypeOK' /\ NoOverlap'
    BY <2>1, MemoryAssumption, AllocByLowStep, AllocByHighStep
  <2>2. ASSUME NEW s \in Segment, NEW n \in Sizes, NEW base \in Address,
               allocByAddr(s, base, n)
        PROVE  MemoryTypeOK' /\ NoOverlap'
    BY <2>2, MemoryAssumption, AllocByAddrStep
  <2>3. ASSUME NEW s \in Segment, free(s)
        PROVE  MemoryTypeOK' /\ NoOverlap'
    BY <2>3 DEF free, MemoryTypeOK, NoOverlap
  <2>4. CASE UNCHANGED memoryVars
    BY <2>4 DEF memoryVars, MemoryTypeOK, NoOverlap
  <2> QED
    BY <2>1, <2>2, <2>3, <2>4 DEF MemoryNext
<1> QED
  BY <1>1, <1>2, PTL DEF MemorySpec

(***************************************************************************)
(* The segments in use never overlap and lie in the partition, for every   *)
(* number of segments and all sizes, addresses and alignments (the         *)
(* allocator of MemorySegment.d, lines 54 to 167).                         *)
(***************************************************************************)
THEOREM SegmentsDoNotOverlap == MemorySpec => []NoOverlap
BY SegmentsInvariant, PTL

-----------------------------------------------------------------------------
(* The nearest fit. *)

\* A nonempty set of natural numbers has a least element.
LEMMA LeastNatural ==
  ASSUME NEW T \in SUBSET Nat, T # {}
  PROVE  \E x \in T : \A y \in T : x <= y
<1>1. PICK x \in T : \A y \in T : <<y, x>> \notin OpToRel(<, Nat)
  BY NatLessThanWellFounded, WFMin
<1>2. \A y \in T : ~ (y < x)
  BY <1>1 DEF OpToRel
<1> QED
  BY <1>2

\* A finite nonempty set of segments has one that begins last.
LEMMA LastSegment ==
  ASSUME MemoryTypeOK, NEW S \in SUBSET childs, S # {}
  PROVE  \E s \in S : \A t \in S : block[t].low <= block[s].low
<1> DEFINE Below == {WordSize - block[s].low : s \in S}
<1>1. \A s \in S : block[s].low \in 0 .. WordSize - 1
  BY DEF MemoryTypeOK, Block, Address
<1>2. WordSize \in Nat
  BY MemoryAssumption
<1>3. Below \in SUBSET Nat /\ Below # {}
  BY <1>1, <1>2
<1>4. PICK x \in Below : \A y \in Below : x <= y
  <2> HIDE DEF Below
  <2> QED
    BY <1>3, LeastNatural
<1>5. PICK s \in S : x = WordSize - block[s].low
  BY <1>4
<1>6. \A t \in S : WordSize - block[s].low <= WordSize - block[t].low
  BY <1>4, <1>5
<1> QED
  BY <1>1, <1>2, <1>6

\* f lists the segments of S, each once, in the order of their low addresses.
Sorted(f, S) ==
  /\ f \in [1 .. Cardinality(S) -> S]
  /\ \A s \in S : \E i \in DOMAIN f : f[i] = s
  /\ \A i, j \in DOMAIN f :
       i < j => f[i] # f[j] /\ block[f[i]].low <= block[f[j]].low

LEMMA SortedWithLast ==
  ASSUME MemoryTypeOK, NEW S \in SUBSET childs, IsFiniteSet(S), NEW s \in S,
         \A t \in S : block[t].low <= block[s].low,
         NEW g, Sorted(g, S \ {s})
  PROVE  \E f : Sorted(f, S)
<1> DEFINE n == Cardinality(S)
           f == [i \in 1 .. n |-> IF i = n THEN s ELSE g[i]]
<1>1. n \in Nat \ {0} /\ Cardinality(S \ {s}) = n - 1
  BY FS_RemoveElement, FS_CardinalityType, FS_EmptySet
<1> HIDE DEF n
<1>2. g \in [1 .. n - 1 -> S \ {s}]
  BY <1>1 DEF Sorted
<1>3. \A i \in 1 .. n : i = n \/ i \in 1 .. n - 1
  BY <1>1
<1>4. f \in [1 .. n -> S]
  BY <1>2, <1>3
<1>5. \A t \in S : \E i \in 1 .. n : f[i] = t
  <2> TAKE t \in S
  <2>1. CASE t = s
    <3>1. n \in 1 .. n
      BY <1>1
    <3> QED
      BY <2>1, <3>1
  <2>2. CASE t # s
    <3>1. PICK i \in 1 .. n - 1 : g[i] = t
      BY <1>2, <2>2 DEF Sorted
    <3>2. i \in 1 .. n /\ i # n
      BY <1>1
    <3> QED
      BY <3>1, <3>2
  <2> QED
    BY <2>1, <2>2
<1>6. \A i, j \in 1 .. n :
        i < j => f[i] # f[j] /\ block[f[i]].low <= block[f[j]].low
  <2> SUFFICES ASSUME NEW i \in 1 .. n, NEW j \in 1 .. n, i < j
               PROVE  f[i] # f[j] /\ block[f[i]].low <= block[f[j]].low
    OBVIOUS
  <2>1. i \in 1 .. n - 1 /\ i # n
    BY <1>1
  <2>2. f[i] = g[i] /\ g[i] \in S \ {s}
    BY <1>2, <2>1
  <2>3. CASE j = n
    BY <2>2, <2>3
  <2>4. CASE j # n
    <3>1. j \in 1 .. n - 1 /\ f[j] = g[j]
      BY <1>3, <2>4
    <3> QED
      BY <1>2, <2>1, <2>2, <3>1 DEF Sorted
  <2> QED
    BY <2>3, <2>4
<1>7. Sorted(f, S)
  <2> HIDE DEF f
  <2>1. DOMAIN f = 1 .. n
    BY <1>4
  <2> QED
    BY <1>4, <1>5, <1>6, <2>1 DEF Sorted, n
<1> QED
  BY <1>7

(***************************************************************************)
(* The used blocks have an order to be sorted in (line 72).                *)
(***************************************************************************)
LEMMA OrderExists ==
  ASSUME MemoryTypeOK
  PROVE  usedBlocks # {}
<1>1. IsFiniteSet(childs)
  BY FS_Subset, MemoryAssumption DEF MemoryTypeOK
<1>2. \A S \in SUBSET childs : IsFiniteSet(S) /\ Cardinality(S) \in Nat
  BY <1>1, FS_Subset, FS_CardinalityType
<1>3. \A S \in SUBSET childs : \E f : Sorted(f, S)
  <2> DEFINE Bad == {S \in SUBSET childs : ~ \E f : Sorted(f, S)}
             Counts == {Cardinality(S) : S \in Bad}
  <2> SUFFICES ASSUME Bad # {}
               PROVE  FALSE
    OBVIOUS
  <2>1. Counts \in SUBSET Nat /\ Counts # {}
    BY <1>2
  <2>2. PICK k \in Counts : \A m \in Counts : k <= m
    <3> HIDE DEF Counts
    <3> QED
      BY <2>1, LeastNatural
  <2>3. PICK S \in Bad : k = Cardinality(S)
    OBVIOUS
  <2>4. S \in SUBSET childs /\ IsFiniteSet(S) /\ k \in Nat
    BY <1>2, <2>3
  <2>5. CASE S = {}
    <3>1. Cardinality(S) = 0 /\ 1 .. 0 = {}
      BY <2>5, FS_EmptySet
    <3>2. Sorted([i \in {} |-> i], S)
      BY <2>5, <3>1 DEF Sorted
    <3> QED
      BY <2>3, <3>2
  <2>6. CASE S # {}
    <3>1. PICK s \in S : \A t \in S : block[t].low <= block[s].low
      BY <2>4, <2>6, LastSegment
    <3>2. S \ {s} \in SUBSET childs /\ Cardinality(S \ {s}) = k - 1
      BY <2>3, <2>4, FS_RemoveElement
    <3>3. S \ {s} \notin Bad
      <4>1. k - 1 \notin Counts
        BY <2>2, <2>4
      <4> QED
        BY <3>2, <4>1
    <3>4. PICK g : Sorted(g, S \ {s})
      BY <3>2, <3>3
    <3>5. \E f : Sorted(f, S)
      BY <2>4, <3>1, <3>4, SortedWithLast
    <3> QED
      BY <2>3, <3>5
  <2> QED
    BY <2>5, <2>6
<1>4. PICK f : Sorted(f, childs)
  BY <1>3
<1> QED
  BY <1>4 DEF Sorted, usedBlocks

-----------------------------------------------------------------------------
(* Alignment. *)

LEMMA Division ==
  ASSUME NEW c \in Int, c > 0, NEW x \in Int, NEW q \in Int, NEW r \in Int,
         q = x \div c, r = x % c
  PROVE  x = c * q + r
BY SMTT(20)

LEMMA Turns ==
  ASSUME NEW c \in Nat \ {0}, NEW k \in Int
  PROVE  (c * k) % c = 0
OBVIOUS

\* Between two multiples of c lies at least c.
LEMMA MultiplesApart ==
  ASSUME NEW c \in Nat \ {0}, NEW p \in Int, NEW q \in Int, c * p < c * q
  PROVE  c * p + c <= c * q
<1>1. p < q
  <2>1. CASE p >= q
    <3>1. p - q \in Nat
      BY <2>1
    <3>2. c * (p - q) >= 0
      BY <3>1
    <3> QED
      BY <3>2
  <2> QED
    BY <2>1
<1>2. PICK d \in Nat : q = p + 1 + d
  <2>1. q - p - 1 \in Nat /\ q = p + 1 + (q - p - 1)
    BY <1>1
  <2> QED
    BY <2>1
<1>3. c * q = c * p + c + c * d
  BY <1>2
<1>4. c * d >= 0
  OBVIOUS
<1>5. c * d \in Int /\ c * p \in Int
  OBVIOUS
<1> QED
  BY <1>3, <1>4, <1>5

(***************************************************************************)
(* previousAlignedDecrement leads to the last multiple of the alignment    *)
(* that is not above an address (MathUtils.d).                             *)
(***************************************************************************)
LEMMA PreviousMultiple ==
  ASSUME NEW v \in Nat, NEW a \in Nat \ {0}
  PROVE  /\ previousAlignedDecrement(v, a) \in 0 .. a - 1
         /\ v - previousAlignedDecrement(v, a) \in Nat
         /\ (v - previousAlignedDecrement(v, a)) % a = 0
         /\ \A c \in Nat : c % a = 0 /\ c <= v => c <= v - previousAlignedDecrement(v, a)
<1> DEFINE r == v % a
           q == v \div a
<1>1. r \in 0 .. a - 1 /\ r <= v /\ q \in Int /\ r \in Int
  <2>1. r \in 0 .. a - 1 /\ r <= v
    BY Remainder
  <2>2. q \in Int
    OBVIOUS
  <2> QED
    BY <2>1, <2>2
<1>2. v = a * q + r
  <2>1. v \in Int /\ a \in Int /\ a > 0
    OBVIOUS
  <2> QED
    BY <1>1, <2>1, Division
<1> HIDE DEF r, q
<1>3. a * q \in Int /\ v - r = a * q
  BY <1>1, <1>2
<1>4. (v - r) % a = 0
  BY <1>1, <1>3, Turns
<1>5. \A c \in Nat : c % a = 0 /\ c <= v => c <= v - r
  <2> SUFFICES ASSUME NEW c \in Nat, c % a = 0, c <= v, c > v - r
               PROVE  FALSE
    BY <1>1
  <2> DEFINE p == c \div a
  <2>1. p \in Int /\ c = a * p
    <3>1. p \in Int /\ c \in Int /\ a \in Int /\ a > 0 /\ 0 \in Int
      OBVIOUS
    <3>2. c = a * p + 0
      BY <3>1, Division
    <3>3. a * p \in Int
      BY <3>1
    <3> QED
      BY <3>1, <3>2, <3>3
  <2> HIDE DEF p
  <2>2. a * q + a <= a * p
    BY <1>1, <1>3, <2>1, MultiplesApart
  <2> QED
    BY <1>1, <1>2, <1>3, <2>1, <2>2
<1> QED
  BY <1>1, <1>4, <1>5 DEF previousAlignedDecrement, r

(***************************************************************************)
(* nextAlignedIncrement leads to the first multiple that is not below it.  *)
(***************************************************************************)
LEMMA NextMultiple ==
  ASSUME NEW v \in Nat, NEW a \in Nat \ {0}
  PROVE  /\ nextAlignedIncrement(v, a) \in 0 .. a - 1
         /\ (v + nextAlignedIncrement(v, a)) % a = 0
         /\ \A c \in Nat : c % a = 0 /\ c >= v => c >= v + nextAlignedIncrement(v, a)
<1> DEFINE r == v % a
           q == v \div a
           inc == nextAlignedIncrement(v, a)
<1>1. r \in 0 .. a - 1 /\ r <= v /\ q \in Int /\ r \in Int
  <2>1. r \in 0 .. a - 1 /\ r <= v
    BY Remainder
  <2>2. q \in Int
    OBVIOUS
  <2> QED
    BY <2>1, <2>2
<1>2. v = a * q + r
  <2>1. v \in Int /\ a \in Int /\ a > 0
    OBVIOUS
  <2> QED
    BY <1>1, <2>1, Division
<1>3. inc = IF r = 0 THEN 0 ELSE a - r
  <2>1. inc = (a - r) % a
    BY DEF nextAlignedIncrement
  <2> HIDE DEF inc, r
  <2>2. CASE r = 0
    BY <1>1, <2>1, <2>2, Remainder
  <2>3. CASE r # 0
    <3>1. a - r \in Nat /\ a - r < a
      BY <1>1, <2>3
    <3> QED
      BY <2>1, <2>3, <3>1, Remainder
  <2> QED
    BY <2>2, <2>3
<1> HIDE DEF r, q, inc
<1>4. inc \in 0 .. a - 1
  BY <1>1, <1>3
<1>5. a * q \in Int /\ a * (q + 1) = a * q + a
  BY <1>1
<1>6. v + inc = a * q \/ v + inc = a * (q + 1)
  BY <1>1, <1>2, <1>3, <1>5
<1>7. (v + inc) % a = 0
  <2>1. q + 1 \in Int
    BY <1>1
  <2> QED
    BY <1>1, <1>6, <2>1, Turns
<1>8. \A c \in Nat : c % a = 0 /\ c >= v => c >= v + inc
  <2> SUFFICES ASSUME NEW c \in Nat, c % a = 0, c >= v, c < v + inc
               PROVE  FALSE
    BY <1>4
  <2> DEFINE p == c \div a
  <2>1. p \in Int /\ c = a * p
    <3>1. p \in Int /\ c \in Int /\ a \in Int /\ a > 0 /\ 0 \in Int
      OBVIOUS
    <3>2. c = a * p + 0
      BY <3>1, Division
    <3>3. a * p \in Int
      BY <3>1
    <3> QED
      BY <3>1, <3>2, <3>3
  <2> HIDE DEF p
  <2>2. r # 0
    BY <1>3, <1>4
  <2>3. a * q + a <= a * p
    BY <1>1, <1>2, <1>5, <2>1, <2>2, MultiplesApart
  <2> QED
    BY <1>1, <1>2, <1>3, <1>5, <2>1, <2>2, <2>3
<1> QED
  BY <1>4, <1>7, <1>8 DEF inc

-----------------------------------------------------------------------------
(* The available blocks and the rooms of the reference. *)

LEMMA AvailableIsNotEmpty ==
  ASSUME MemoryTypeOK, NoOverlap, ~ emptied,
         NEW used \in usedBlocks, NEW b \in availableBlocks(used)
  PROVE  b \in Block /\ b.low < b.high /\ b.high <= High /\ Low <= b.low
<1>1. b \in Block /\ Low <= b.low /\ b.low <= b.high /\ b.high <= High
  BY AvailableAreBlocks, AvailableAreFree
<1>2. WordSize \in Nat /\ Low < High /\ Low \in Nat /\ High \in Nat
  BY MemoryAssumption
<1>3. b = Partition \/ size(b) > 0
  BY DEF availableBlocks
<1>4. b.low # b.high
  <2>1. CASE b = Partition
    BY <1>2, <2>1 DEF Partition
  <2>2. CASE size(b) > 0
    <3> SUFFICES ASSUME b.low = b.high
                 PROVE  FALSE
      OBVIOUS
    <3>1. b.high - b.low = 0 /\ WordSize \in Nat \ {0}
      BY <1>1, <1>2 DEF Block, Address
    <3>2. 0 % WordSize = 0
      BY <3>1
    <3> QED
      BY <2>2, <3>1, <3>2 DEF size
  <2> QED
    BY <1>3, <2>1, <2>2
<1> QED
  BY <1>1, <1>4 DEF Block, Address

(***************************************************************************)
(* An available block ends where a used one begins, or with the partition, *)
(* so two of them do not overlap.                                          *)
(***************************************************************************)
LEMMA AvailableAreOrdered ==
  ASSUME MemoryTypeOK, NoOverlap, ~ emptied, NEW used \in usedBlocks,
         NEW b \in availableBlocks(used), NEW c \in availableBlocks(used),
         b.high < c.high \/ b.low < c.low
  PROVE  b.high <= c.low
<1>1. /\ b \in Block /\ b.low < b.high /\ b.high <= High /\ Low <= b.low
      /\ c \in Block /\ c.low < c.high /\ c.high <= High /\ Low <= c.low
  BY AvailableIsNotEmpty
<1>2. /\ \A s \in childs : b.high <= block[s].low \/ block[s].high <= b.low
      /\ \A s \in childs : c.high <= block[s].low \/ block[s].high <= c.low
  BY AvailableAreFree
<1>3. \A s \in childs : block[s] \in Block /\ block[s].low < block[s].high
  BY DEF MemoryTypeOK, NoOverlap
<1>4. Low \in Nat /\ High \in Nat
  BY MemoryAssumption
<1>5. /\ b.high = High \/ \E s \in childs : block[s].low = b.high
      /\ c.low = Low \/ \E s \in childs : block[s].high = c.low
  <2>1. CASE childs = {}
    BY <2>1 DEF availableBlocks, Partition
  <2>2. CASE childs # {}
    <3> DEFINE n == Cardinality(childs)
    <3>1. n \in Nat \ {0} /\ \A i \in 1 .. n : used[i] \in childs
      BY <2>2, UsedBlocks
    <3>2. b \in gaps(used) /\ c \in gaps(used)
      BY <2>2 DEF availableBlocks
    <3> HIDE DEF n
    <3>3. \A i \in 1 .. n - 1 : i \in 1 .. n /\ i + 1 \in 1 .. n
      BY <3>1
    <3>4. 1 \in 1 .. n /\ n \in 1 .. n
      BY <3>1
    <3> QED
      BY <3>1, <3>2, <3>3, <3>4 DEF gaps, n
  <2> QED
    BY <2>1, <2>2
<1>6. CASE b.high < c.high
  <2>1. PICK s \in childs : block[s].low = b.high
    BY <1>1, <1>4, <1>5, <1>6 DEF Block, Address
  <2> QED
    BY <1>1, <1>2, <1>3, <1>6, <2>1 DEF Block, Address
<1>7. CASE b.low < c.low
  <2>1. PICK s \in childs : block[s].high = c.low
    BY <1>1, <1>4, <1>5, <1>7 DEF Block, Address
  <2> QED
    BY <1>1, <1>2, <1>3, <1>7, <2>1 DEF Block, Address
<1> QED
  BY <1>6, <1>7

\* Whatever fits into an available block is a room.
LEMMA AvailableHasRoom ==
  ASSUME MemoryTypeOK, NoOverlap, ~ emptied,
         NEW used \in usedBlocks, NEW b \in availableBlocks(used),
         NEW low \in Int, NEW n \in Int, b.low <= low, low + n <= b.high
  PROVE  Room(low, n)
<1>1. b \in Block /\ b.high <= High /\ Low <= b.low
  BY AvailableIsNotEmpty
<1>2. \A s \in childs : b.high <= block[s].low \/ block[s].high <= b.low
  BY AvailableAreFree
<1>3. \A s \in childs : block[s] \in Block
  BY DEF MemoryTypeOK
<1>4. Low \in Nat /\ High \in Nat
  BY MemoryAssumption
<1> SUFFICES ASSUME NEW x \in low .. low + n - 1
             PROVE  FreeAt(x)
  BY DEF Room
<1>5. x \in Low .. High - 1 /\ b.low <= x /\ x < b.high
  BY <1>1, <1>4 DEF Block, Address
<1> QED
  BY <1>1, <1>2, <1>3, <1>5 DEF FreeAt, Block, Address

(***************************************************************************)
(* Every room lies in an available block: between the neighbours that      *)
(* usedBlocks puts next to each other there is nothing else (lines 57 to   *)
(* 78).                                                                    *)
(***************************************************************************)
LEMMA RoomIsAvailable ==
  ASSUME MemoryTypeOK, NoOverlap, ~ emptied, NEW used \in usedBlocks,
         NEW a \in Int, NEW n \in Nat \ {0}, Room(a, n)
  PROVE  /\ Low <= a /\ a + n <= High
         /\ \E b \in availableBlocks(used) : b.low <= a /\ a + n <= b.high
<1>1. Low \in Nat /\ High \in Nat /\ WordSize \in Nat /\ 2 * High <= WordSize
  BY MemoryAssumption
<1>2. FreeAt(a) /\ FreeAt(a + n - 1)
  <2>1. a \in a .. a + n - 1 /\ a + n - 1 \in a .. a + n - 1
    OBVIOUS
  <2> QED
    BY <2>1 DEF Room
<1>3. Low <= a /\ a + n <= High
  BY <1>1, <1>2 DEF FreeAt
\* An interval around the room is not empty, whatever it wraps to.
<1>4. ASSUME NEW low \in Nat, NEW high \in Nat, low <= a, a + n <= high, high <= High
      PROVE  size([low |-> low, high |-> high]) > 0
  <2>1. high - low \in 0 .. WordSize - 1 /\ high - low > 0
    BY <1>1, <1>3, <1>4
  <2>2. (high - low) % WordSize = high - low
    BY <1>1, <2>1
  <2> QED
    BY <2>1, <2>2 DEF size
<1>5. CASE childs = {}
  BY <1>3, <1>5 DEF availableBlocks, Partition
<1>6. CASE childs # {}
  <2> DEFINE m == Cardinality(childs)
             low(i) == block[used[i]].low
             high(i) == block[used[i]].high
             Above == {j \in 1 .. m : a < high(j)}
  <2>1. /\ m \in Nat \ {0}
        /\ \A i \in 1 .. m : used[i] \in childs /\ block[used[i]] \in Block
    BY <1>6, UsedBlocks
  <2>2. \A i \in 1 .. m : /\ low(i) \in Nat /\ high(i) \in Nat
                          /\ Low <= low(i) /\ low(i) < high(i) /\ high(i) <= High
    BY <2>1 DEF NoOverlap, inside, Partition, Block, Address
  <2>3. \A i \in 1 .. m : a < high(i) => a + n <= low(i)
    <3> SUFFICES ASSUME NEW i \in 1 .. m, a < high(i), low(i) < a + n
                 PROVE  FALSE
      BY <1>3, <2>2
    <3>1. a < low(i)
      BY <1>2, <2>1, <2>2 DEF FreeAt
    <3>2. low(i) \in a .. a + n - 1
      BY <2>2, <3>1
    <3>3. FreeAt(low(i))
      BY <3>2 DEF Room
    <3> QED
      BY <2>1, <2>2, <3>3 DEF FreeAt
  <2>4. SUFFICES \E b \in gaps(used) : b.low <= a /\ a + n <= b.high /\ size(b) > 0
    BY <1>3, <1>6 DEF availableBlocks
  <2>5. /\ [low |-> Low, high |-> low(1)] \in gaps(used)
        /\ [low |-> high(m), high |-> High] \in gaps(used)
        /\ \A i \in 1 .. m - 1 : [low |-> high(i), high |-> low(i + 1)] \in gaps(used)
    BY DEF gaps
  <2> HIDE DEF m, low, high
  <2>6. CASE Above = {}
    <3>1. m \in 1 .. m
      BY <2>1
    <3>2. high(m) <= a
      BY <2>2, <2>6, <3>1
    <3>3. size([low |-> high(m), high |-> High]) > 0
      BY <1>1, <1>3, <1>4, <2>2, <3>1, <3>2
    <3> QED
      BY <1>3, <2>5, <3>2, <3>3
  <2>7. CASE Above # {}
    <3>1. PICK j \in Above : \A k \in Above : j <= k
      <4>1. Above \in SUBSET Nat
        BY <2>1
      <4> HIDE DEF Above
      <4> QED
        BY <2>7, <4>1, LeastNatural
    <3>2. j \in 1 .. m /\ a + n <= low(j)
      BY <2>3
    <3>3. CASE j = 1
      <4>1. size([low |-> Low, high |-> low(1)]) > 0
        BY <1>1, <1>3, <1>4, <2>2, <3>2, <3>3
      <4> QED
        BY <1>3, <2>5, <3>2, <3>3, <4>1
    <3>4. CASE j # 1
      <4>1. j - 1 \in 1 .. m - 1 /\ j - 1 \in 1 .. m /\ (j - 1) + 1 = j
        BY <2>1, <3>2, <3>4
      <4>2. high(j - 1) <= a
        <5>1. j - 1 \notin Above
          BY <3>1, <3>2
        <5> QED
          BY <2>2, <4>1, <5>1
      <4>3. [low |-> high(j - 1), high |-> low(j)] \in gaps(used)
        BY <2>5, <4>1
      <4>4. size([low |-> high(j - 1), high |-> low(j)]) > 0
        BY <1>1, <1>4, <2>2, <3>2, <4>1, <4>2
      <4> QED
        BY <3>2, <4>2, <4>3, <4>4
    <3> QED
      BY <3>3, <3>4
  <2> QED
    BY <2>6, <2>7
<1> QED
  BY <1>3, <1>5, <1>6

-----------------------------------------------------------------------------
(* The searches. *)

(***************************************************************************)
(* The test of allocByLow, with its sum that wraps, is that the block has  *)
(* room from its first aligned address on; where it wraps, the segment is  *)
(* one that the constructor rejects (lines 133 to 137, 48).                *)
(***************************************************************************)
LEMMA LowEndExact ==
  ASSUME NEW b \in Block, b.low <= b.high, b.high <= High,
         NEW n \in 1 .. WordSize - 1, NEW a \in 1 .. WordSize - 1,
         NEW low, low = b.low + nextAlignedIncrement(b.low, a)
  PROVE  /\ low \in Nat /\ b.low <= low
         /\ low + n <= b.high =>
              fitsLow(b, n, a) /\ lowEnd(b, n, a) = [low |-> low, high |-> low + n]
         /\ fitsLow(b, n, a) /\ low + n > b.high =>
              /\ WordSize <= n + nextAlignedIncrement(b.low, a)
              /\ lowEnd(b, n, a).high < lowEnd(b, n, a).low
<1> DEFINE inc == nextAlignedIncrement(b.low, a)
<1>1. /\ WordSize \in Nat /\ High \in Nat /\ 2 * High <= WordSize /\ 0 < High
      /\ b.low \in Nat /\ b.high \in Nat /\ b.low \in 0 .. High
  BY MemoryAssumption DEF Block, Address
<1>2. inc \in 0 .. a - 1 /\ low < WordSize /\ low = b.low + inc
  BY <1>1, AlignedIncrement
<1>3. size(b) = b.high - b.low
  BY <1>1 DEF size
<1>4. fitsLow(b, n, a) <=> (n + inc) % WordSize <= b.high - b.low
  BY <1>3 DEF fitsLow
<1>5. lowEnd(b, n, a) = [low |-> low, high |-> (low + n) % WordSize]
  <2>1. lowEnd(b, n, a) = [low |-> low % WordSize, high |-> (low + n) % WordSize]
    BY DEF lowEnd
  <2>2. low \in 0 .. WordSize - 1
    BY <1>1, <1>2
  <2>3. low % WordSize = low
    BY <1>1, <2>2
  <2> QED
    BY <2>1, <2>3
<1> HIDE DEF inc
<1>6. CASE n + inc < WordSize
  <2>1. (n + inc) % WordSize = n + inc
    <3>1. n + inc \in 0 .. WordSize - 1
      BY <1>1, <1>2, <1>6
    <3> QED
      BY <1>1, <3>1
  <2>2. fitsLow(b, n, a) <=> low + n <= b.high
    BY <1>1, <1>2, <1>4, <2>1
  <2>3. low + n <= b.high => (low + n) % WordSize = low + n
    <3> SUFFICES ASSUME low + n <= b.high
                 PROVE  (low + n) % WordSize = low + n
      OBVIOUS
    <3>1. low + n \in 0 .. WordSize - 1
      BY <1>1, <1>2
    <3> QED
      BY <1>1, <3>1
  <2> QED
    BY <1>1, <1>2, <1>5, <2>2, <2>3
<1>7. CASE ~ (n + inc < WordSize)
  <2>1. low + n \in WordSize .. 2 * WordSize - 1 /\ low + n > b.high
    BY <1>1, <1>2, <1>7
  <2>2. (low + n) % WordSize = low + n - WordSize
    <3> DEFINE v == low + n
    <3>1. v \in 0 .. 2 * WordSize - 1 /\ WordSize <= v
      BY <1>1, <2>1
    <3> HIDE DEF v
    <3>2. v % WordSize = v - WordSize
      BY <1>1, <3>1, Wrap
    <3> QED
      BY <1>1, <1>2, <3>2 DEF v
  <2> QED
    BY <1>1, <1>2, <1>5, <1>7, <2>1, <2>2 DEF inc
<1> QED
  BY <1>6, <1>7

\* And that of allocByHigh, down from the last aligned address.
LEMMA HighEndExact ==
  ASSUME NEW b \in Block, b.low <= b.high, b.high <= High,
         NEW n \in 1 .. WordSize - 1, NEW a \in 1 .. WordSize - 1,
         NEW high, high = b.high - previousAlignedDecrement(b.high, a)
  PROVE  /\ high \in Nat /\ high <= b.high
         /\ b.low <= high - n =>
              fitsHigh(b, n, a) /\ highEnd(b, n, a) = [low |-> high - n, high |-> high]
         /\ fitsHigh(b, n, a) /\ high - n < b.low =>
              /\ WordSize <= n + previousAlignedDecrement(b.high, a)
              /\ highEnd(b, n, a).high < highEnd(b, n, a).low
<1> DEFINE dec == previousAlignedDecrement(b.high, a)
<1>1. /\ WordSize \in Nat /\ High \in Nat /\ 2 * High <= WordSize /\ 0 < High
      /\ b.low \in Nat /\ b.high \in Nat /\ a \in Nat \ {0}
  BY MemoryAssumption DEF Block, Address
<1>2. dec \in 0 .. b.high /\ high = b.high - dec
  <2>1. b.high % a \in 0 .. a - 1 /\ b.high % a <= b.high
    BY <1>1, Remainder
  <2> QED
    BY <1>1, <2>1 DEF previousAlignedDecrement
<1>3. size(b) = b.high - b.low
  BY <1>1 DEF size
<1>4. fitsHigh(b, n, a) <=> (n + dec) % WordSize <= b.high - b.low
  BY <1>3 DEF fitsHigh
<1>5. highEnd(b, n, a) = [low |-> (high - n) % WordSize, high |-> high]
  BY DEF highEnd
<1> HIDE DEF dec
<1>6. CASE n + dec < WordSize
  <2>1. (n + dec) % WordSize = n + dec
    <3>1. n + dec \in 0 .. WordSize - 1
      BY <1>1, <1>2, <1>6
    <3> QED
      BY <1>1, <3>1
  <2>2. fitsHigh(b, n, a) <=> b.low <= high - n
    BY <1>1, <1>2, <1>4, <2>1
  <2>3. b.low <= high - n => (high - n) % WordSize = high - n
    <3> SUFFICES ASSUME b.low <= high - n
                 PROVE  (high - n) % WordSize = high - n
      OBVIOUS
    <3>1. high - n \in 0 .. WordSize - 1
      BY <1>1, <1>2
    <3> QED
      BY <1>1, <3>1
  <2> QED
    BY <1>1, <1>2, <1>5, <2>2, <2>3
<1>7. CASE ~ (n + dec < WordSize)
  <2>1. high - n \in Int /\ high - n < 0 /\ -WordSize <= high - n
    BY <1>1, <1>2, <1>7
  <2>2. (high - n) % WordSize = high - n + WordSize
    BY <1>1, <2>1, NegativeWrap
  <2> QED
    BY <1>1, <1>2, <1>5, <1>7, <2>1, <2>2 DEF dec
<1> QED
  BY <1>6, <1>7

\* A search from address 0 searches all available blocks.
LEMMA SearchLowFromZero ==
  ASSUME MemoryTypeOK, NEW used \in usedBlocks, NEW n, NEW a
  PROVE  searchLow(used, n, 0, a)
           = lowest({b \in availableBlocks(used) : fitsLow(b, n, a)})
<1>1. \A b \in availableBlocks(used) : b.low >= 0
  BY AvailableAreBlocks DEF Block, Address
<1> QED
  BY <1>1 DEF searchLow, firstFrom

(***************************************************************************)
(* What allocByLow finds is the lowest room of the reference.              *)
(***************************************************************************)
LEMMA FoundLowIsLowest ==
  ASSUME MemoryTypeOK, NoOverlap, ~ emptied, NEW used \in usedBlocks,
         NEW n \in 1 .. WordSize - 1, NEW a \in 1 .. WordSize - 1,
         NEW b \in searchLow(used, n, 0, a),
         lowEnd(b, n, a).low <= lowEnd(b, n, a).high
  PROVE  \E x \in LowRooms(n, a) :
           /\ \A c \in LowRooms(n, a) : x <= c
           /\ lowEnd(b, n, a) = [low |-> x, high |-> x + n]
<1> DEFINE x == b.low + nextAlignedIncrement(b.low, a)
<1>1. /\ b \in availableBlocks(used) /\ fitsLow(b, n, a)
      /\ \A c \in availableBlocks(used) : fitsLow(c, n, a) => b.low <= c.low
  BY SearchLowFromZero DEF lowest
<1>2. b \in Block /\ b.low < b.high /\ b.high <= High /\ Low <= b.low
  BY <1>1, AvailableIsNotEmpty
<1>3. /\ Low \in Nat /\ High \in Nat /\ WordSize \in Nat
      /\ b.low \in Nat /\ b.high \in Nat /\ a \in Nat \ {0} /\ n \in Nat \ {0}
  BY <1>2, MemoryAssumption DEF Block, Address
<1>4. /\ x \in Nat /\ b.low <= x
      /\ x + n <= b.high => lowEnd(b, n, a) = [low |-> x, high |-> x + n]
      /\ x + n > b.high => lowEnd(b, n, a).high < lowEnd(b, n, a).low
  <2>1. b.low <= b.high
    BY <1>2, <1>3
  <2> HIDE DEF x
  <2>2. x = b.low + nextAlignedIncrement(b.low, a)
    BY DEF x
  <2> QED
    BY <1>1, <1>2, <2>1, <2>2, LowEndExact
<1>5. /\ x % a = 0
      /\ \A c \in Nat : c % a = 0 /\ c >= b.low => c >= x
  BY <1>3, NextMultiple
<1> HIDE DEF x
<1>6. x + n <= b.high
  <2> SUFFICES ASSUME x + n > b.high
               PROVE  FALSE
    BY <1>3, <1>4
  <2>1. lowEnd(b, n, a) = [low |-> lowEnd(b, n, a).low, high |-> lowEnd(b, n, a).high]
    BY DEF lowEnd
  <2>2. lowEnd(b, n, a).low \in Int /\ lowEnd(b, n, a).high \in Int
    <3>1. /\ lowEnd(b, n, a).low = x % WordSize
          /\ lowEnd(b, n, a).high = (x + n) % WordSize
      BY DEF lowEnd, x
    <3>2. x % WordSize \in Int /\ (x + n) % WordSize \in Int
      <4>1. x \in Int /\ x + n \in Int /\ WordSize \in Nat \ {0}
        BY <1>3, <1>4
      <4> QED
        BY <4>1
    <3> QED
      BY <3>1, <3>2
  <2> QED
    BY <1>4, <2>2
<1>7. x \in LowRooms(n, a)
  <2>1. Room(x, n)
    BY <1>1, <1>3, <1>4, <1>6, AvailableHasRoom
  <2>2. x \in Low .. High - 1
    BY <1>2, <1>3, <1>4, <1>6
  <2> QED
    BY <1>5, <2>1, <2>2 DEF LowRooms
<1>8. ASSUME NEW c \in LowRooms(n, a)
      PROVE  x <= c
  <2>1. c \in Nat /\ c % a = 0 /\ Room(c, n)
    BY <1>3 DEF LowRooms
  <2>2. PICK d \in availableBlocks(used) : d.low <= c /\ c + n <= d.high
    BY <1>3, <2>1, RoomIsAvailable
  <2>3. d \in Block /\ d.low < d.high /\ d.high <= High
    BY AvailableIsNotEmpty
  <2> DEFINE y == d.low + nextAlignedIncrement(d.low, a)
  <2>4. d.low \in Nat /\ d.high \in Nat /\ d.low <= d.high
    BY <2>3 DEF Block, Address
  <2>5. y <= c
    BY <1>3, <2>1, <2>2, <2>4, NextMultiple
  <2>6. y \in Nat /\ (y + n <= d.high => fitsLow(d, n, a))
    <3> HIDE DEF y
    <3>1. y = d.low + nextAlignedIncrement(d.low, a)
      BY DEF y
    <3> QED
      BY <2>3, <2>4, <3>1, LowEndExact
  <2> HIDE DEF y
  <2>7. fitsLow(d, n, a)
    BY <1>3, <2>1, <2>2, <2>4, <2>5, <2>6
  <2>8. b.low <= d.low
    BY <1>1, <2>7
  <2> QED
    BY <1>3, <1>5, <2>1, <2>2, <2>4, <2>8
<1> QED
  BY <1>4, <1>6, <1>7, <1>8

\* The lowest room is what allocByLow finds, whatever the order of the blocks.
LEMMA LowestIsFoundLow ==
  ASSUME MemoryTypeOK, NoOverlap, ~ emptied, NEW used \in usedBlocks,
         NEW n \in 1 .. WordSize - 1, NEW a \in 1 .. WordSize - 1,
         NEW x \in LowRooms(n, a), \A c \in LowRooms(n, a) : x <= c
  PROVE  \E b \in searchLow(used, n, 0, a) :
           lowEnd(b, n, a) = [low |-> x, high |-> x + n]
<1>1. /\ Low \in Nat /\ High \in Nat /\ WordSize \in Nat /\ 2 * High <= WordSize
      /\ a \in Nat \ {0} /\ n \in Nat \ {0}
  BY MemoryAssumption
<1>2. x \in Nat /\ x % a = 0 /\ Room(x, n) /\ x \in Int
  BY <1>1 DEF LowRooms
<1>3. PICK b \in availableBlocks(used) : b.low <= x /\ x + n <= b.high
  BY <1>1, <1>2, RoomIsAvailable
<1>4. Low <= x /\ x + n <= High
  BY <1>1, <1>2, RoomIsAvailable
<1> DEFINE first(c) == c.low + nextAlignedIncrement(c.low, a)
\* An available block that fits has a room, or wraps.
<1>5. ASSUME NEW c \in availableBlocks(used)
      PROVE  /\ c.low \in Nat /\ c.high \in Nat /\ c.low < c.high
             /\ first(c) \in Nat /\ c.low <= first(c)
             /\ \A d \in Nat : d % a = 0 /\ d >= c.low => d >= first(c)
             /\ first(c) + n <= c.high =>
                  /\ fitsLow(c, n, a) /\ x <= first(c)
                  /\ lowEnd(c, n, a) = [low |-> first(c), high |-> first(c) + n]
             /\ fitsLow(c, n, a) /\ first(c) + n > c.high => x = 0
  <2> DEFINE inc == nextAlignedIncrement(c.low, a)
             y == c.low + inc
  <2>1. c \in Block /\ c.low < c.high /\ c.high <= High /\ Low <= c.low
    BY AvailableIsNotEmpty
  <2>2. c.low \in Nat /\ c.high \in Nat /\ c.low <= c.high
    BY <2>1 DEF Block, Address
  <2>3. /\ inc \in 0 .. a - 1 /\ y % a = 0
        /\ \A d \in Nat : d % a = 0 /\ d >= c.low => d >= y
    BY <1>1, <2>2, NextMultiple
  <2> HIDE DEF inc
  <2>4. /\ y \in Nat /\ c.low <= y
        /\ y + n <= c.high =>
             fitsLow(c, n, a) /\ lowEnd(c, n, a) = [low |-> y, high |-> y + n]
        /\ fitsLow(c, n, a) /\ y + n > c.high => WordSize <= n + inc
    <3> HIDE DEF y
    <3>1. y = c.low + nextAlignedIncrement(c.low, a)
      BY DEF y, inc
    <3> QED
      BY <2>1, <2>2, <3>1, LowEndExact DEF inc
  <2>5. y + n <= c.high => x <= y
    <3> HIDE DEF y
    <3> SUFFICES ASSUME y + n <= c.high
                 PROVE  x <= y
      OBVIOUS
    <3>1. Room(y, n)
      BY <1>1, <2>4, AvailableHasRoom
    <3>2. y \in Low .. High - 1
      BY <1>1, <2>1, <2>2, <2>4
    <3> QED
      BY <2>3, <3>1, <3>2 DEF LowRooms
  <2>6. WordSize <= n + inc => x = 0
    <3> SUFFICES ASSUME WordSize <= n + inc
                 PROVE  x = 0
      OBVIOUS
    <3>1. x < a
      BY <1>1, <1>2, <1>4, <2>3
    <3> QED
      BY <1>1, <1>2, <3>1, Remainder
  <2>7. first(c) = y
    BY DEF inc
  <2> HIDE DEF y, first
  <2> QED
    BY <2>1, <2>2, <2>3, <2>4, <2>5, <2>6, <2>7
<1> HIDE DEF first
<1>6. first(b) = x /\ fitsLow(b, n, a) /\ lowEnd(b, n, a) = [low |-> x, high |-> x + n]
  <2>1. first(b) <= x
    BY <1>2, <1>3, <1>5
  <2>2. first(b) + n <= b.high
    BY <1>1, <1>2, <1>3, <1>5, <2>1
  <2>3. x <= first(b)
    BY <1>5, <2>2
  <2>4. first(b) = x
    BY <1>2, <1>5, <2>1, <2>3
  <2> QED
    BY <1>5, <2>2, <2>4
<1>7. ASSUME NEW c \in availableBlocks(used), fitsLow(c, n, a), c.low < b.low
      PROVE  FALSE
  <2>1. first(c) + n <= c.high
    BY <1>1, <1>2, <1>3, <1>5, <1>7
  <2>2. c.high <= b.low
    BY <1>7, AvailableAreOrdered
  <2>3. x <= first(c)
    BY <1>5, <2>1
  <2> QED
    BY <1>1, <1>2, <1>3, <1>5, <2>1, <2>2, <2>3
<1>8. \A c \in availableBlocks(used) : fitsLow(c, n, a) => b.low <= c.low
  BY <1>5, <1>7
<1>9. b \in searchLow(used, n, 0, a)
  BY <1>6, <1>8, SearchLowFromZero DEF lowest
<1> QED
  BY <1>6, <1>9

\* What allocByHigh finds is the highest room of the reference.
LEMMA FoundHighIsHighest ==
  ASSUME MemoryTypeOK, NoOverlap, ~ emptied, NEW used \in usedBlocks,
         NEW n \in 1 .. WordSize - 1, NEW a \in 1 .. WordSize - 1,
         NEW b \in searchHigh(used, n, a),
         highEnd(b, n, a).low <= highEnd(b, n, a).high
  PROVE  \E x \in HighRooms(n, a) :
           /\ \A c \in HighRooms(n, a) : x >= c
           /\ highEnd(b, n, a) = [low |-> x - n, high |-> x]
<1> DEFINE x == b.high - previousAlignedDecrement(b.high, a)
<1>1. /\ b \in availableBlocks(used) /\ fitsHigh(b, n, a)
      /\ \A c \in availableBlocks(used) : fitsHigh(c, n, a) => b.low >= c.low
  BY DEF searchHigh, highest
<1>2. b \in Block /\ b.low < b.high /\ b.high <= High /\ Low <= b.low
  BY <1>1, AvailableIsNotEmpty
<1>3. /\ Low \in Nat /\ High \in Nat /\ WordSize \in Nat
      /\ b.low \in Nat /\ b.high \in Nat /\ a \in Nat \ {0} /\ n \in Nat \ {0}
      /\ b.low <= b.high
  BY <1>2, MemoryAssumption DEF Block, Address
<1>4. /\ x \in Nat /\ x <= b.high
      /\ b.low <= x - n => highEnd(b, n, a) = [low |-> x - n, high |-> x]
      /\ x - n < b.low => highEnd(b, n, a).high < highEnd(b, n, a).low
  <2> HIDE DEF x
  <2>1. x = b.high - previousAlignedDecrement(b.high, a)
    BY DEF x
  <2> QED
    BY <1>1, <1>2, <1>3, <2>1, HighEndExact
<1>5. /\ x % a = 0
      /\ \A c \in Nat : c % a = 0 /\ c <= b.high => c <= x
  BY <1>3, PreviousMultiple
<1>6. /\ highEnd(b, n, a).low = (x - n) % WordSize
      /\ highEnd(b, n, a).high = x
  BY DEF highEnd
<1> HIDE DEF x
<1>7. b.low <= x - n
  <2> SUFFICES ASSUME x - n < b.low
               PROVE  FALSE
    BY <1>3, <1>4
  <2>1. x - n \in Int /\ WordSize \in Nat \ {0}
    BY <1>3, <1>4
  <2>2. (x - n) % WordSize \in Int
    BY <2>1
  <2> QED
    BY <1>4, <1>6, <2>2
<1>8. x \in HighRooms(n, a)
  <2>1. x - n \in Int /\ (x - n) + n <= b.high
    BY <1>3, <1>4
  <2>2. Room(x - n, n)
    BY <1>1, <1>3, <1>7, <2>1, AvailableHasRoom
  <2>3. x \in Low + 1 .. High
    BY <1>2, <1>3, <1>4, <1>7
  <2> QED
    BY <1>5, <2>2, <2>3 DEF HighRooms
<1>9. ASSUME NEW c \in HighRooms(n, a)
      PROVE  x >= c
  <2>1. c \in Nat /\ c % a = 0 /\ Room(c - n, n) /\ c - n \in Int /\ (c - n) + n = c
    BY <1>3 DEF HighRooms
  <2>2. PICK d \in availableBlocks(used) : d.low <= c - n /\ c <= d.high
    BY <1>3, <2>1, RoomIsAvailable
  <2>3. d \in Block /\ d.low < d.high /\ d.high <= High
    BY AvailableIsNotEmpty
  <2>4. d.low \in Nat /\ d.high \in Nat /\ d.low <= d.high
    BY <2>3 DEF Block, Address
  <2> DEFINE y == d.high - previousAlignedDecrement(d.high, a)
  <2>5. c <= y
    BY <1>3, <2>1, <2>2, <2>4, PreviousMultiple
  <2> HIDE DEF y
  <2>6. y \in Nat /\ (d.low <= y - n => fitsHigh(d, n, a))
    <3>1. y = d.high - previousAlignedDecrement(d.high, a)
      BY DEF y
    <3> QED
      BY <2>3, <2>4, <3>1, HighEndExact
  <2>7. b.low >= d.low
    BY <1>1, <1>3, <2>1, <2>2, <2>4, <2>5, <2>6
  <2>8. ~ (b.high < d.high)
    <3> SUFFICES ASSUME b.high < d.high
                 PROVE  FALSE
      OBVIOUS
    <3>1. b.high <= d.low
      BY <1>1, AvailableAreOrdered
    <3> QED
      BY <1>2, <1>3, <2>4, <2>7, <3>1
  <2> QED
    BY <1>3, <1>4, <1>5, <2>1, <2>2, <2>4, <2>8
<1> QED
  BY <1>4, <1>7, <1>8, <1>9

LEMMA HighestIsFoundHigh ==
  ASSUME MemoryTypeOK, NoOverlap, ~ emptied, NEW used \in usedBlocks,
         NEW n \in 1 .. WordSize - 1, NEW a \in 1 .. WordSize - 1,
         NEW x \in HighRooms(n, a), \A c \in HighRooms(n, a) : x >= c
  PROVE  \E b \in searchHigh(used, n, a) :
           highEnd(b, n, a) = [low |-> x - n, high |-> x]
<1>1. /\ Low \in Nat /\ High \in Nat /\ WordSize \in Nat /\ 2 * High <= WordSize
      /\ a \in Nat \ {0} /\ n \in Nat \ {0}
  BY MemoryAssumption
<1>2. /\ x \in Nat /\ x > 0 /\ x % a = 0 /\ Room(x - n, n)
      /\ x - n \in Int /\ (x - n) + n = x
  BY <1>1 DEF HighRooms
<1>3. PICK b \in availableBlocks(used) : b.low <= x - n /\ x <= b.high
  BY <1>1, <1>2, RoomIsAvailable
<1>4. Low <= x - n /\ x <= High
  BY <1>1, <1>2, RoomIsAvailable
<1> DEFINE last(c) == c.high - previousAlignedDecrement(c.high, a)
<1>5. ASSUME NEW c \in availableBlocks(used)
      PROVE  /\ c.low \in Nat /\ c.high \in Nat /\ c.low < c.high
             /\ last(c) \in Nat /\ last(c) <= c.high
             /\ \A d \in Nat : d % a = 0 /\ d <= c.high => d <= last(c)
             /\ c.low <= last(c) - n =>
                  /\ fitsHigh(c, n, a) /\ last(c) <= x
                  /\ highEnd(c, n, a) = [low |-> last(c) - n, high |-> last(c)]
             /\ fitsHigh(c, n, a) => c.low <= last(c) - n
  <2> DEFINE dec == previousAlignedDecrement(c.high, a)
             y == c.high - dec
  <2>1. c \in Block /\ c.low < c.high /\ c.high <= High /\ Low <= c.low
    BY AvailableIsNotEmpty
  <2>2. c.low \in Nat /\ c.high \in Nat /\ c.low <= c.high
    BY <2>1 DEF Block, Address
  <2>3. /\ dec \in 0 .. a - 1 /\ y \in Nat /\ y % a = 0
        /\ \A d \in Nat : d % a = 0 /\ d <= c.high => d <= y
    BY <1>1, <2>2, PreviousMultiple
  <2> HIDE DEF dec
  <2>4. /\ y \in Nat /\ y <= c.high
        /\ c.low <= y - n =>
             fitsHigh(c, n, a) /\ highEnd(c, n, a) = [low |-> y - n, high |-> y]
        /\ fitsHigh(c, n, a) /\ y - n < c.low => WordSize <= n + dec
    <3> HIDE DEF y
    <3>1. y = c.high - previousAlignedDecrement(c.high, a)
      BY DEF y, dec
    <3> QED
      BY <2>1, <2>2, <3>1, HighEndExact DEF dec
  <2>5. c.low <= y - n => y <= x
    <3> HIDE DEF y
    <3> SUFFICES ASSUME c.low <= y - n
                 PROVE  y <= x
      OBVIOUS
    <3>1. y - n \in Int /\ (y - n) + n <= c.high
      BY <1>1, <2>4
    <3>2. Room(y - n, n)
      BY <1>1, <3>1, AvailableHasRoom
    <3>3. y \in Low + 1 .. High
      BY <1>1, <2>1, <2>2, <2>4
    <3>4. y \in HighRooms(n, a)
      BY <2>3, <3>2, <3>3 DEF HighRooms, y
    <3> QED
      BY <1>2, <2>4, <3>4
\* The sum cannot wrap: the alignment would be beyond every room.
  <2>6. ~ (WordSize <= n + dec)
    <3> SUFFICES ASSUME WordSize <= n + dec
                 PROVE  FALSE
      OBVIOUS
    <3>1. x < a
      BY <1>1, <1>2, <1>4, <2>3
    <3>2. x % a = x
      BY <1>1, <1>2, <3>1, Remainder
    <3> QED
      BY <1>2, <3>2
  <2>7. last(c) = y
    BY DEF dec
  <2> HIDE DEF y, last
  <2>8. fitsHigh(c, n, a) => c.low <= y - n
    BY <1>1, <2>2, <2>4, <2>6
  <2> QED
    BY <2>1, <2>2, <2>3, <2>4, <2>5, <2>7, <2>8
<1> HIDE DEF last
<1>6. /\ last(b) = x /\ fitsHigh(b, n, a)
      /\ highEnd(b, n, a) = [low |-> x - n, high |-> x]
  <2>1. x <= last(b)
    BY <1>2, <1>3, <1>5
  <2>2. b.low <= last(b) - n
    BY <1>1, <1>2, <1>3, <1>5, <2>1
  <2>3. last(b) <= x
    BY <1>5, <2>2
  <2>4. last(b) = x
    BY <1>2, <1>5, <2>1, <2>3
  <2> QED
    BY <1>5, <2>2, <2>4
<1>7. ASSUME NEW c \in availableBlocks(used), fitsHigh(c, n, a), b.low < c.low
      PROVE  FALSE
  <2>1. c.low <= last(c) - n /\ last(c) <= x
    BY <1>5, <1>7
  <2>2. b.high <= c.low
    BY <1>7, AvailableAreOrdered
  <2> QED
    BY <1>1, <1>2, <1>3, <1>5, <2>1, <2>2
<1>8. \A c \in availableBlocks(used) : fitsHigh(c, n, a) => b.low >= c.low
  BY <1>5, <1>7
<1>9. b \in searchHigh(used, n, a)
  BY <1>6, <1>8 DEF searchHigh, highest
<1> QED
  BY <1>6, <1>9

LEMMA LowestFits == MemoryTypeOK /\ NoOverlap => LowestFit
<1> SUFFICES ASSUME MemoryTypeOK, NoOverlap, ~ emptied,
                    NEW n \in Sizes \ {0}, NEW a \in Alignments
             PROVE  {e \in {lowEnd(b, n, a) :
                              b \in UNION {searchLow(used, n, 0, a) : used \in usedBlocks}} :
                        e.low <= e.high}
                      = {[low |-> x, high |-> x + n] :
                           x \in {x \in LowRooms(n, a) : \A c \in LowRooms(n, a) : x <= c}}
  BY DEF LowestFit
<1>1. n \in 1 .. WordSize - 1 /\ a \in 1 .. WordSize - 1
  BY MemoryAssumption
<1>2. ASSUME NEW used \in usedBlocks, NEW b \in searchLow(used, n, 0, a),
             lowEnd(b, n, a).low <= lowEnd(b, n, a).high
      PROVE  \E x \in LowRooms(n, a) :
               /\ \A c \in LowRooms(n, a) : x <= c
               /\ lowEnd(b, n, a) = [low |-> x, high |-> x + n]
  BY <1>1, <1>2, FoundLowIsLowest
<1>3. ASSUME NEW x \in LowRooms(n, a), \A c \in LowRooms(n, a) : x <= c
      PROVE  /\ x <= x + n
             /\ \E used \in usedBlocks : \E b \in searchLow(used, n, 0, a) :
                  lowEnd(b, n, a) = [low |-> x, high |-> x + n]
  <2>1. x \in Int
    BY MemoryAssumption DEF LowRooms
  <2>2. PICK used \in usedBlocks : TRUE
    BY OrderExists
  <2> QED
    BY <1>1, <1>3, <2>1, <2>2, LowestIsFoundLow
<1> QED
  BY <1>2, <1>3

LEMMA HighestFits == MemoryTypeOK /\ NoOverlap => HighestFit
<1> SUFFICES ASSUME MemoryTypeOK, NoOverlap, ~ emptied,
                    NEW n \in Sizes \ {0}, NEW a \in Alignments
             PROVE  {e \in {highEnd(b, n, a) :
                              b \in UNION {searchHigh(used, n, a) : used \in usedBlocks}} :
                        e.low <= e.high}
                      = {[low |-> x - n, high |-> x] :
                           x \in {x \in HighRooms(n, a) : \A c \in HighRooms(n, a) : x >= c}}
  BY DEF HighestFit
<1>1. n \in 1 .. WordSize - 1 /\ a \in 1 .. WordSize - 1
  BY MemoryAssumption
<1>2. ASSUME NEW used \in usedBlocks, NEW b \in searchHigh(used, n, a),
             highEnd(b, n, a).low <= highEnd(b, n, a).high
      PROVE  \E x \in HighRooms(n, a) :
               /\ \A c \in HighRooms(n, a) : x >= c
               /\ highEnd(b, n, a) = [low |-> x - n, high |-> x]
  BY <1>1, <1>2, FoundHighIsHighest
<1>3. ASSUME NEW x \in HighRooms(n, a), \A c \in HighRooms(n, a) : x >= c
      PROVE  /\ x - n <= x
             /\ \E used \in usedBlocks : \E b \in searchHigh(used, n, a) :
                  highEnd(b, n, a) = [low |-> x - n, high |-> x]
  <2>1. x \in Int
    BY MemoryAssumption DEF HighRooms
  <2>2. PICK used \in usedBlocks : TRUE
    BY OrderExists
  <2> QED
    BY <1>1, <1>3, <2>1, <2>2, HighestIsFoundHigh
<1> QED
  BY <1>2, <1>3

(***************************************************************************)
(* The nearest fit, for every partition, size and alignment: whatever      *)
(* order the unstable sort leaves, a search takes the room nearest to the  *)
(* end of the partition it starts from, and throws only if there is none.  *)
(***************************************************************************)
THEOREM NearestIsFound == MemorySpec => []NearestFit
<1>1. MemoryTypeOK /\ NoOverlap => NearestFit
  BY LowestFits, HighestFits DEF NearestFit
<1> QED
  BY <1>1, SegmentsInvariant, PTL

-----------------------------------------------------------------------------
(* The free memory. *)

\* One step of the sum over the available blocks: f is the sum over the rest.
SumStep(f, s) ==
  IF s = {} THEN 0 ELSE LET b == CHOOSE b \in s : TRUE IN size(b) + f[s \ {b}]

IsSum(f, S) == f = [s \in SUBSET S |-> SumStep(f, s)]

\* f is the sum on the subsets of up to k blocks.
SumUpTo(f, S, k) ==
  /\ f = [s \in SUBSET S |-> f[s]]
  /\ \A s \in SUBSET S : Cardinality(s) <= k => f[s] = SumStep(f, s)

LEMMA SumGrows ==
  ASSUME NEW S, IsFiniteSet(S), NEW k \in Nat, NEW f, SumUpTo(f, S, k)
  PROVE  \E g : SumUpTo(g, S, k + 1)
<1> DEFINE g == [s \in SUBSET S |-> SumStep(f, s)]
<1>1. ASSUME NEW s \in SUBSET S, Cardinality(s) <= k + 1
      PROVE  g[s] = SumStep(g, s)
  <2>1. CASE s = {}
    BY <2>1 DEF SumStep
  <2>2. CASE s # {}
    <3> DEFINE b == CHOOSE b \in s : TRUE
    <3>1. b \in s
      BY <2>2
    <3> HIDE DEF b
    <3>2. IsFiniteSet(s) /\ Cardinality(s) \in Nat
      BY FS_Subset, FS_CardinalityType
    <3>3. s \ {b} \in SUBSET S /\ Cardinality(s \ {b}) <= k
      <4>1. Cardinality(s \ {b}) = Cardinality(s) - 1
        BY <3>1, <3>2, FS_RemoveElement
      <4> QED
        BY <1>1, <3>2, <4>1
    <3>4. g[s \ {b}] = f[s \ {b}]
      BY <3>3 DEF SumUpTo
    <3>5. /\ SumStep(g, s) = size(b) + g[s \ {b}]
          /\ SumStep(f, s) = size(b) + f[s \ {b}]
      <4> HIDE DEF g
      <4> QED
        BY <2>2 DEF SumStep, b
    <3> QED
      BY <3>4, <3>5
  <2> QED
    BY <2>1, <2>2
<1>2. g = [s \in SUBSET S |-> g[s]]
  OBVIOUS
<1>3. SumUpTo(g, S, k + 1)
  <2> HIDE DEF g
  <2> QED
    BY <1>1, <1>2 DEF SumUpTo
<1> QED
  BY <1>3

LEMMA SumExists ==
  ASSUME NEW S, IsFiniteSet(S)
  PROVE  \E f : IsSum(f, S)
<1>1. \A k \in Nat : \E f : SumUpTo(f, S, k)
  <2> DEFINE Bad == {k \in Nat : ~ \E f : SumUpTo(f, S, k)}
  <2> SUFFICES ASSUME Bad # {}
               PROVE  FALSE
    OBVIOUS
  <2>1. PICK k \in Bad : \A l \in Bad : k <= l
    <3>1. Bad \in SUBSET Nat
      OBVIOUS
    <3> HIDE DEF Bad
    <3> QED
      BY <3>1, LeastNatural
  <2>2. CASE k = 0
    <3> DEFINE f == [s \in SUBSET S |-> 0]
    <3>1. \A s \in SUBSET S : Cardinality(s) <= 0 => s = {}
      <4> TAKE s \in SUBSET S
      <4>1. IsFiniteSet(s) /\ Cardinality(s) \in Nat
        BY FS_Subset, FS_CardinalityType
      <4> QED
        BY <4>1, FS_EmptySet
    <3>2. SumUpTo(f, S, 0)
      BY <3>1 DEF SumUpTo, SumStep
    <3> QED
      BY <2>2, <3>2
  <2>3. CASE k # 0
    <3>1. k - 1 \in Nat /\ k - 1 \notin Bad /\ (k - 1) + 1 = k
      BY <2>1, <2>3
    <3>2. PICK f : SumUpTo(f, S, k - 1)
      BY <3>1
    <3>3. \E g : SumUpTo(g, S, k)
      BY <3>1, <3>2, SumGrows
    <3> QED
      BY <3>3
  <2> QED
    BY <2>2, <2>3
<1>2. Cardinality(S) \in Nat
  BY FS_CardinalityType
<1>3. PICK f : SumUpTo(f, S, Cardinality(S))
  BY <1>1, <1>2
<1>4. \A s \in SUBSET S : f[s] = SumStep(f, s)
  <2> TAKE s \in SUBSET S
  <2>1. Cardinality(s) <= Cardinality(S)
    BY FS_Subset
  <2> QED
    BY <1>3, <2>1 DEF SumUpTo
<1>5. f = [s \in SUBSET S |-> SumStep(f, s)]
  BY <1>3, <1>4 DEF SumUpTo
<1> QED
  BY <1>5 DEF IsSum

\* What getFreeMemory adds up (lines 196 to 209).
LEMMA SumEquation ==
  ASSUME NEW S, IsFiniteSet(S)
  PROVE  \E f : IsSum(f, S) /\ MapThenSumSet(size, S) = f[S]
<1> DEFINE f == CHOOSE f : IsSum(f, S)
<1>1. IsSum(f, S)
  BY SumExists
<1>2. MapThenSumSet(size, S) = f[S]
  BY DEF MapThenSumSet, MapThenFoldSet, IsSum, SumStep
<1> QED
  BY <1>1, <1>2

\* The addresses of some blocks.
AddressesOf(s) == {a \in Low .. High - 1 : \E b \in s : b.low <= a /\ a < b.high}

LEMMA AddressesAreFinite ==
  ASSUME NEW s
  PROVE  IsFiniteSet(AddressesOf(s)) /\ Cardinality(AddressesOf(s)) \in 0 .. High - Low
<1>1. Low \in Nat /\ High \in Nat /\ Low < High
  BY MemoryAssumption
<1>2. /\ IsFiniteSet(Low .. High - 1)
      /\ Cardinality(Low .. High - 1) = High - Low
  BY <1>1, FS_Interval
<1>3. AddressesOf(s) \in SUBSET (Low .. High - 1)
  BY DEF AddressesOf
<1>4. /\ IsFiniteSet(AddressesOf(s))
      /\ Cardinality(AddressesOf(s)) <= High - Low
  BY <1>2, <1>3, FS_Subset
<1> QED
  BY <1>1, <1>4, FS_CardinalityType

LEMMA SumIsCardinality ==
  ASSUME NEW S, IsFiniteSet(S), NEW f, IsSum(f, S),
         \A b \in S : b \in Block /\ Low <= b.low /\ b.low < b.high /\ b.high <= High,
         \A b, c \in S : b # c => b.high <= c.low \/ c.high <= b.low
  PROVE  f[S] = Cardinality(AddressesOf(S))
<1>1. Low \in Nat /\ High \in Nat /\ WordSize \in Nat /\ 2 * High <= WordSize
  BY MemoryAssumption
<1>2. \A s \in SUBSET S : IsFiniteSet(s) /\ Cardinality(s) \in Nat
  BY FS_Subset, FS_CardinalityType
<1>3. \A s \in SUBSET S : f[s] = SumStep(f, s)
  BY DEF IsSum
<1>4. \A s \in SUBSET S : f[s] = Cardinality(AddressesOf(s))
  <2> DEFINE Bad == {s \in SUBSET S : f[s] # Cardinality(AddressesOf(s))}
             Counts == {Cardinality(s) : s \in Bad}
  <2> SUFFICES ASSUME Bad # {}
               PROVE  FALSE
    OBVIOUS
  <2>1. Counts \in SUBSET Nat /\ Counts # {}
    BY <1>2
  <2>2. PICK k \in Counts : \A l \in Counts : k <= l
    <3> HIDE DEF Counts
    <3> QED
      BY <2>1, LeastNatural
  <2>3. PICK s \in Bad : k = Cardinality(s)
    OBVIOUS
  <2>4. s \in SUBSET S /\ IsFiniteSet(s) /\ k \in Nat
    BY <1>2, <2>3
  <2>5. CASE s = {}
    <3>1. AddressesOf(s) = {} /\ f[s] = 0
      BY <1>3, <2>4, <2>5 DEF AddressesOf, SumStep
    <3> QED
      BY <2>3, <3>1, FS_EmptySet
  <2>6. CASE s # {}
    <3> DEFINE b == CHOOSE b \in s : TRUE
               r == s \ {b}
    <3>1. b \in s
      BY <2>6
    <3>2. f[s] = size(b) + f[r]
      BY <1>3, <2>4, <2>6 DEF SumStep
    <3> HIDE DEF b
    <3>3. /\ b \in Block /\ Low <= b.low /\ b.low < b.high /\ b.high <= High
          /\ b.low \in Nat /\ b.high \in Nat
      BY <2>4, <3>1 DEF Block, Address
    <3>4. r \in SUBSET S /\ Cardinality(r) = k - 1
      BY <2>3, <2>4, <3>1, FS_RemoveElement
    <3>5. f[r] = Cardinality(AddressesOf(r))
      <4>1. k - 1 \notin Counts
        BY <2>2, <2>4
      <4> QED
        BY <3>4, <4>1
    <3> HIDE DEF r
    <3> DEFINE I == b.low .. b.high - 1
    <3>6. IsFiniteSet(I) /\ Cardinality(I) = b.high - b.low
      <4>1. b.low \in Int /\ b.high - 1 \in Int /\ ~ (b.low > b.high - 1)
        BY <3>3
      <4>2. /\ IsFiniteSet(I)
            /\ Cardinality(I) = IF b.low > b.high - 1 THEN 0
                                ELSE b.high - 1 - b.low + 1
        BY <4>1, FS_Interval
      <4> QED
        BY <3>3, <4>1, <4>2
    <3>7. size(b) = b.high - b.low
      <4>1. b.high - b.low \in 0 .. WordSize - 1
        BY <1>1, <3>3
      <4>2. (b.high - b.low) % WordSize = b.high - b.low
        BY <1>1, <4>1
      <4> QED
        BY <4>2 DEF size
    <3>8. AddressesOf(s) = I \cup AddressesOf(r)
      <4>1. s = r \cup {b}
        BY <3>1 DEF r
      <4>2. \A x : x \in I <=> x \in Low .. High - 1 /\ b.low <= x /\ x < b.high
        BY <1>1, <3>3
      <4> HIDE DEF I
      <4> QED
        BY <4>1, <4>2 DEF AddressesOf
    <3>9. I \cap AddressesOf(r) = {}
      <4>1. \A c \in r : /\ c \in Block /\ c.low \in Nat /\ c.high \in Nat
                         /\ b.high <= c.low \/ c.high <= b.low
        BY <2>4, <3>1, <3>4 DEF r, Block, Address
      <4> QED
        BY <3>3, <4>1 DEF AddressesOf
    <3>10. Cardinality(AddressesOf(s)) = (b.high - b.low) + Cardinality(AddressesOf(r))
      <4>1. IsFiniteSet(AddressesOf(r)) /\ Cardinality(AddressesOf(r)) \in Nat
        BY <1>1, AddressesAreFinite
      <4> HIDE DEF I
      <4>2. Cardinality(I \cup AddressesOf(r))
              = Cardinality(I) + Cardinality(AddressesOf(r)) - Cardinality({})
        BY <3>6, <3>9, <4>1, FS_Union
      <4> QED
        BY <3>3, <3>6, <3>8, <4>1, <4>2, FS_EmptySet
    <3> QED
      BY <2>3, <3>2, <3>5, <3>7, <3>10
  <2> QED
    BY <2>5, <2>6
<1> QED
  BY <1>4

\* There are no more available blocks than addresses they begin at.
LEMMA AvailableAreFinite ==
  ASSUME MemoryTypeOK, NoOverlap, ~ emptied, NEW used \in usedBlocks
  PROVE  IsFiniteSet(availableBlocks(used))
<1> DEFINE S == availableBlocks(used)
           begins == [b \in S |-> b.low]
<1>1. Low \in Nat /\ High \in Nat
  BY MemoryAssumption
<1>2. \A b \in S : /\ b \in Block /\ b.low < b.high /\ b.high <= High
                   /\ b.low \in Nat /\ b.high \in Nat
  BY AvailableIsNotEmpty DEF Block, Address
<1>3. begins \in [S -> 0 .. High]
  BY <1>1, <1>2
<1>4. ASSUME NEW b \in S, NEW c \in S, b.low = c.low
      PROVE  b = c
  <2>1. ~ (b.high < c.high) /\ ~ (c.high < b.high)
    BY <1>2, <1>4, AvailableAreOrdered
  <2>2. b.high = c.high
    BY <1>2, <2>1
  <2> QED
    BY <1>2, <1>4, <2>2 DEF Block
<1>5. begins \in Injection(S, 0 .. High)
  BY <1>3, <1>4 DEF Injection, IsInjective
<1>6. IsFiniteSet(0 .. High)
  BY <1>1, FS_Interval
<1> QED
  BY <1>5, <1>6, FS_Injection

LEMMA FreeIsAvailable == MemoryTypeOK /\ NoOverlap => FreeMemoryExact
<1> SUFFICES ASSUME MemoryTypeOK, NoOverlap, ~ emptied, NEW used \in usedBlocks
             PROVE  getFreeMemory(used) = Cardinality({a \in Low .. High - 1 : FreeAt(a)})
  BY DEF FreeMemoryExact
<1> DEFINE S == availableBlocks(used)
<1>1. Low \in Nat /\ High \in Nat /\ Low < High /\ WordSize \in Nat /\ 2 * High <= WordSize
  BY MemoryAssumption
<1>2. IsFiniteSet(S)
  BY AvailableAreFinite
<1>3. PICK f : IsSum(f, S) /\ MapThenSumSet(size, S) = f[S]
  <2> HIDE DEF S
  <2> QED
    BY <1>2, SumEquation
<1>4. \A b \in S : b \in Block /\ Low <= b.low /\ b.low < b.high /\ b.high <= High
  BY AvailableIsNotEmpty
<1>5. ASSUME NEW b \in S, NEW c \in S, b # c
      PROVE  b.high <= c.low \/ c.high <= b.low
  <2>1. /\ b.low \in Int /\ b.high \in Int /\ c.low \in Int /\ c.high \in Int
        /\ b.low # c.low \/ b.high # c.high
    BY <1>4, <1>5 DEF Block, Address
  <2>2. b.low < c.low \/ c.low < b.low \/ b.high < c.high \/ c.high < b.high
    BY <2>1
  <2> QED
    BY <2>2, AvailableAreOrdered
<1>6. f[S] = Cardinality(AddressesOf(S))
  <2> HIDE DEF S
  <2> QED
    BY <1>2, <1>3, <1>4, <1>5, SumIsCardinality
<1>7. AddressesOf(S) = {a \in Low .. High - 1 : FreeAt(a)}
  <2>1. ASSUME NEW a \in Low .. High - 1, NEW b \in S, b.low <= a, a < b.high
        PROVE  FreeAt(a)
    <3>1. a \in Int /\ 1 \in Int /\ a + 1 <= b.high
      BY <1>1, <1>4, <2>1 DEF Block, Address
    <3>2. Room(a, 1)
      BY <2>1, <3>1, AvailableHasRoom
    <3>3. a \in a .. a + 1 - 1
      BY <3>1
    <3> QED
      BY <3>2, <3>3 DEF Room
  <2>2. ASSUME NEW a \in Low .. High - 1, FreeAt(a)
        PROVE  \E b \in S : b.low <= a /\ a < b.high
    <3>1. a \in Int /\ a .. a + 1 - 1 = {a} /\ 1 \in Nat \ {0}
      BY <1>1
    <3>2. Room(a, 1)
      BY <2>2, <3>1 DEF Room
    <3>3. PICK b \in S : b.low <= a /\ a + 1 <= b.high
      BY <3>1, <3>2, RoomIsAvailable
    <3>4. a < b.high
      BY <1>4, <3>1, <3>3 DEF Block, Address
    <3> QED
      BY <3>3, <3>4
  <2> HIDE DEF S
  <2> QED
    BY <2>1, <2>2 DEF AddressesOf
<1>8. Cardinality(AddressesOf(S)) \in 0 .. WordSize - 1
  BY <1>1, AddressesAreFinite
<1>9. f[S] % WordSize = f[S]
  <2> HIDE DEF S
  <2> QED
    BY <1>1, <1>6, <1>8
<1> QED
  BY <1>3, <1>6, <1>7, <1>9 DEF getFreeMemory

(***************************************************************************)
(* The free memory, for every partition: the sizes of the available blocks *)
(* add up to the addresses that no segment in use covers, after any        *)
(* sequence of allocations and frees.                                      *)
(***************************************************************************)
THEOREM FreeMemoryIsExact == MemorySpec => []FreeMemoryExact
BY FreeIsAvailable, SegmentsInvariant, PTL

=============================================================================
