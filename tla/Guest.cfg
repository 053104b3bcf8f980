SPECIFICATION MCSpec
CONSTANTS
  Thread = {t1, t2, t3}
  NoThread = NoThread
  Priorities <- MCPriorities
  MaxPriority = 2
  Value <- MCValue
  NoValue = none
  Capacity = 2
  WordSize = 8
  MaxPushes = 6
  MaxFrames = 3
  Guest = {1, 2, 3}
  Nobody = 0
  initCount = 0
  maxCount = 1
  Amounts <- MCAmounts
  MaxSemaCalls = 1
  Flag = {f1, f2}
  Bit = {1, 2}
  Masks <- MCMasks
  Waits <- MCWaits
  MaxFlagCalls = 3
  MaxSleepCalls = 3
  Waiter = {1, 2}
  Target = 0
  MaxBlocks = 1
  MaxTerminations = 1
CHECK_DEADLOCK FALSE
CONSTRAINTS Undecided Roles
INVARIANTS
  CurrentTracksFiber
  ReadAtIsNthLast
  FramesNotStale
  PermitsConserved
  SemaMissedOnlyWhenTaken
  FlagMissedOnlyWhenRobbed
  OneWaitPerSet
  SleepsCovered
  NotEndedEarly
PROPERTIES
  DeleteReturns
  WakeupReturns
  WaitThreadEndReturns
