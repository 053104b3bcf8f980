SPECIFICATION FairBypassSpec
CONSTANTS
  Thread = {t1, t2, t3}
  NoThread = NoThread
  Priorities <- MCPriorities
  MaxPriority = 3
INVARIANTS SchedulerInv BoundedBypass
PROPERTIES ResumesOnlyLiveThreads NoStarvation
