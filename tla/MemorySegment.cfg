SPECIFICATION MemorySpec
CONSTANTS
  Segment = {s1, s2, s3}
  Low = 2
  High = 8
  WordSize = 16
  Sizes <- MCSizes
  Alignments = {1, 4, 15}
SYMMETRY SegmentSymmetry
INVARIANTS NoOverlap NearestFit FreeMemoryExact
