SPECIFICATION FairAudioSpec
CONSTANTS
  Writer = {w1, w2}
  Nobody = nobody
  Capacity = 3
  BufferSize = 1
  Threshold = 0
  Lengths = {0, 1, 2, 3}
  MaxCalls = 2
  WordSize = 16
CHECK_DEADLOCK FALSE
INVARIANTS PlayedInOrder SpaceConserved
PROPERTIES OverrunOnlyWhenShared WriteWaitReturns
CONSTRAINT Undecided
