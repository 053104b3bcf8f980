SPECIFICATION FairGpuSpec
CONSTANTS
  Value <- MCDisplayLists
  NoValue = none
  Null = null
  Capacity = 2
  WordSize = 8
  ListLength = 2
  MaxLists = 3
CHECK_DEADLOCK FALSE
INVARIANTS ExecutedInOrder NeverReadsUnwritten QueueCountsLists
PROPERTIES
  OverwrittenOnlyWhenFull
  DrawSyncMissesAtMostOne
  ListSyncWaits
  WaitsReturn
  InterruptStopsGpu
