SPECIFICATION FiberSpec
CONSTANTS
  t1 = t1
  t2 = t2
  t3 = t3
  Thread = {t1, t2, t3}
  NoThread = NoThread
  Priorities <- MCPriorities
  MaxPriority = 2
SYMMETRY ThreadSymmetry
CHECK_DEADLOCK FALSE
INVARIANT LoopEndsOnlyWithoutThreads
