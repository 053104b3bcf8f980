---------------------------- MODULE MemorySegment ----------------------------
(***************************************************************************)
(* A partition of guest memory: the allocator of                           *)
(* src/src/pspemu/utils/memory/MemorySegment.d with the requests of        *)
(* hle/HleMemoryManager.d and hle/kd/sysmem/SysMem.d.                      *)
(*                                                                         *)
(* Every operation holds the lock of the partition and is one step; one    *)
(* that throws changes nothing and is no step.  Addresses and sizes are    *)
(* uint: sums and differences wrap.  The array childs is a set: usedBlocks *)
(* sorts it by the low address with an unstable sort, so any order of the  *)
(* blocks with equal low addresses may come out.                           *)
(***************************************************************************)
EXTENDS Integers, FiniteSets, FiniteSetsExt

CONSTANTS
  Segment,      \* the MemorySegment objects handed out
  Low, High,    \* the block of the partition
  WordSize,     \* 2^32, the range of uint
  Sizes,        \* the sizes guests ask for
  Alignments    \* and their alignments; 0 divides by zero and throws

\* The memory of the guest ends at 0A000000, below the half of the word.
ASSUME MemoryAssumption ==
  /\ IsFiniteSet(Segment)
  /\ WordSize \in Nat
  /\ Low \in Nat /\ High \in Nat /\ Low < High /\ 2 * High <= WordSize
  /\ Sizes \subseteq 0 .. WordSize - 1
  /\ Alignments \subseteq 1 .. WordSize - 1

Address == 0 .. WordSize - 1
Block == [low : Address, high : Address]
Partition == [low |-> Low, high |-> High]

VARIABLES
  childs,    \* the segments in use
  block,     \* their blocks
  emptied    \* history: a block of size 0 was handed out

memoryVars == <<childs, block, emptied>>

MemoryTypeOK ==
  /\ childs \subseteq Segment
  /\ block \in [childs -> Block]
  /\ emptied \in BOOLEAN

MemoryInit ==
  /\ childs = {}
  /\ block = [s \in {} |-> Partition]
  /\ emptied = FALSE

-----------------------------------------------------------------------------

size(b) == (b.high - b.low) % WordSize

overlap(a, b) == a.high > b.low /\ b.high > a.low

inside(a, b) == a.low >= b.low /\ a.high <= b.high

\* The orders the sort may leave the used blocks in.
usedBlocks ==
  {used \in [1 .. Cardinality(childs) -> childs] :
     /\ \A s \in childs : \E i \in DOMAIN used : used[i] = s
     /\ \A i, j \in DOMAIN used :
          i < j => /\ used[i] # used[j]
                   /\ block[used[i]].low <= block[used[j]].low}

\* Mutant: the gaps between the used blocks are left out.
outerGaps(used) ==
  {[low |-> Low, high |-> block[used[1]].low],
   [low |-> block[used[Cardinality(childs)]].high, high |-> High]}

\* Before, between and after the used blocks.
gaps(used) ==
  LET n == Cardinality(childs)
  IN  {[low |-> Low, high |-> block[used[1]].low],
       [low |-> block[used[n]].high, high |-> High]}
      \cup {[low |-> block[used[i]].high, high |-> block[used[i + 1]].low] :
              i \in 1 .. n - 1}

availableBlocks(used) ==
  IF childs = {} THEN {Partition} ELSE {b \in gaps(used) : size(b) > 0}

nextAlignedIncrement(value, alignment) ==
  (alignment - (value % alignment)) % alignment

previousAlignedDecrement(value, alignment) == value % alignment

-----------------------------------------------------------------------------
(* The searches: the blocks that may be found, none if the call throws. *)

\* Mutant: the available blocks are not sorted.
unsorted(blocks) == blocks

lowest(blocks) == {b \in blocks : \A c \in blocks : b.low <= c.low}
highest(blocks) == {b \in blocks : \A c \in blocks : b.low >= c.low}

\* Mutant: the increment is not counted.
fitsUnaligned(b, n, alignment) == n <= size(b)

fitsLow(b, n, alignment) ==
  (n + nextAlignedIncrement(b.low, alignment)) % WordSize <= size(b)

lowEnd(b, n, alignment) ==
  LET low == b.low + nextAlignedIncrement(b.low, alignment)
  IN  [low |-> low % WordSize, high |-> (low + n) % WordSize]

firstFrom(used, n, address, alignment) ==
  lowest({b \in availableBlocks(used) :
            b.low >= address /\ fitsLow(b, n, alignment)})

\* The search from maxDesiredAddress, and if it fails the one from 0.
searchLow(used, n, maxDesiredAddress, alignment) ==
  LET found == firstFrom(used, n, maxDesiredAddress, alignment)
  IN  IF found # {} THEN found ELSE firstFrom(used, n, 0, alignment)

fitsHigh(b, n, alignment) ==
  (n + previousAlignedDecrement(b.high, alignment)) % WordSize <= size(b)

highEnd(b, n, alignment) ==
  LET high == b.high - previousAlignedDecrement(b.high, alignment)
  IN  [low |-> (high - n) % WordSize, high |-> high]

searchHigh(used, n, alignment) ==
  highest({b \in availableBlocks(used) : fitsHigh(b, n, alignment)})

-----------------------------------------------------------------------------
(* The operations. *)

\* The constructor throws unless low <= high.
addNewMemorySegment(s, b) ==
  /\ s \notin childs
  /\ b.low <= b.high
  /\ childs' = childs \cup {s}
  /\ block' = [t \in childs' |-> IF t = s THEN b ELSE block[t]]
  /\ emptied' = (emptied \/ b.low = b.high)

allocByHigh(s, n, alignment) ==
  \E used \in usedBlocks : \E b \in searchHigh(used, n, alignment) :
    addNewMemorySegment(s, highEnd(b, n, alignment))

allocByLow(s, n, maxDesiredAddress, alignment) ==
  \E used \in usedBlocks :
    \E b \in searchLow(used, n, maxDesiredAddress, alignment) :
      addNewMemorySegment(s, lowEnd(b, n, alignment))

allocByAddr(s, base, n) ==
  LET idealBlock == [low |-> base, high |-> (base + n) % WordSize]
  IN  \/ /\ ~ inside(idealBlock, Partition)
         /\ allocByLow(s, n, 0, 1)
      \/ /\ inside(idealBlock, Partition)
         /\ \E c \in childs : overlap(idealBlock, block[c])
         /\ allocByLow(s, n, base, 1)
      \/ /\ inside(idealBlock, Partition)
         /\ \A c \in childs : ~ overlap(idealBlock, block[c])
         /\ addNewMemorySegment(s, idealBlock)

free(s) ==
  /\ s \in childs
  /\ childs' = childs \ {s}
  /\ block' = [t \in childs' |-> block[t]]
  /\ UNCHANGED emptied

getFreeMemory(used) ==
  MapThenSumSet(size, availableBlocks(used)) % WordSize

-----------------------------------------------------------------------------

MemoryNext ==
  \E s \in Segment :
    \/ \E n \in Sizes, alignment \in Alignments :
         allocByLow(s, n, 0, alignment) \/ allocByHigh(s, n, alignment)
    \/ \E n \in Sizes, base \in Address : allocByAddr(s, base, n)
    \/ free(s)

MemorySpec == MemoryInit /\ [][MemoryNext]_memoryVars

-----------------------------------------------------------------------------

(***************************************************************************)
(* The segments in use are blocks of the partition that do not overlap,    *)
(* whatever is asked for, also when a sum of a huge size wraps, as long as *)
(* nobody asked for an empty block: a block of size 0 ties in the sort     *)
(* with the one that begins where it does, and the gaps computed from that *)
(* order may cover used memory (lines 57 to 78, 110 to 167).               *)
(***************************************************************************)
NoOverlap ==
  ~ emptied =>
    \A s \in childs :
      /\ inside(block[s], Partition)
      /\ block[s].low < block[s].high
      /\ \A t \in childs \ {s} : ~ overlap(block[s], block[t])

\* The reference: memory address by address.
FreeAt(a) ==
  /\ a \in Low .. High - 1
  /\ \A s \in childs : ~ (block[s].low <= a /\ a < block[s].high)

Room(low, n) == \A a \in low .. low + n - 1 : FreeAt(a)

LowRooms(n, alignment) ==
  {a \in Low .. High - 1 : a % alignment = 0 /\ Room(a, n)}

HighRooms(n, alignment) ==
  {a \in Low + 1 .. High : a % alignment = 0 /\ Room(a - n, n)}

(***************************************************************************)
(* allocByLow finds the lowest aligned address with room for the size and  *)
(* throws only if there is none (lines 129 to 147).                        *)
(***************************************************************************)
LowestFit ==
  LET orders == usedBlocks IN
  ~ emptied =>
    \A n \in Sizes \ {0}, alignment \in Alignments :
      LET rooms == LowRooms(n, alignment)
          found == {lowEnd(b, n, alignment) :
                      b \in UNION {searchLow(used, n, 0, alignment) : used \in orders}}
      IN  {b \in found : b.low <= b.high}
            = {[low |-> a, high |-> a + n] : a \in {a \in rooms : \A c \in rooms : a <= c}}

(***************************************************************************)
(* allocByHigh finds the highest aligned end of such a room (lines 110 to  *)
(* 122).                                                                   *)
(***************************************************************************)
HighestFit ==
  LET orders == usedBlocks IN
  ~ emptied =>
    \A n \in Sizes \ {0}, alignment \in Alignments :
      LET rooms == HighRooms(n, alignment)
          found == {highEnd(b, n, alignment) :
                      b \in UNION {searchHigh(used, n, alignment) : used \in orders}}
      IN  {b \in found : b.low <= b.high}
            = {[low |-> a - n, high |-> a] : a \in {a \in rooms : \A c \in rooms : a >= c}}

(***************************************************************************)
(* An allocation is refused only when there is no room for it, and takes   *)
(* the one nearest to the end of the partition it was asked from (lines    *)
(* 110 to 147).                                                            *)
(***************************************************************************)
NearestFit == LowestFit /\ HighestFit

(***************************************************************************)
(* getFreeMemory is the memory that is not in use: nothing is lost by any  *)
(* sequence of allocations and frees (lines 169 to 178, 196 to 209).       *)
(***************************************************************************)
FreeMemoryExact ==
  ~ emptied =>
    \A used \in usedBlocks :
      getFreeMemory(used) = Cardinality({a \in Low .. High - 1 : FreeAt(a)})

=============================================================================
