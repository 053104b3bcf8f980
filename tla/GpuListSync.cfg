SPECIFICATION GpuSpec
CONSTANTS
  Value <- MCDisplayLists
  NoValue = none
  Null = null
  Capacity = 2
  WordSize = 8
  ListLength = 2
  MaxLists = 3
CHECK_DEADLOCK FALSE
PROPERTY ListSyncWaitsForList
