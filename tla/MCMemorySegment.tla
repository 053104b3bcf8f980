--------------------------- MODULE MCMemorySegment ---------------------------
(***************************************************************************)
(* A partition of six addresses in a word of sixteen, three segments, and  *)
(* sizes and alignments up to the largest uint.                            *)
(***************************************************************************)
EXTENDS MemorySegment, TLC

MCSizes == {0, 1, 3, WordSize - 1}

SegmentSymmetry == Permutations(Segment)
=============================================================================
