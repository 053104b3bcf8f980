SPECIFICATION MutexSpec
CONSTANTS
  Guest = {g1, g2}
  Nobody = nobody
  initCount = 1
  maxCount = 1
  Amounts = {1}
  MaxSemaCalls = 4
CHECK_DEADLOCK FALSE
INVARIANT MutualExclusion
