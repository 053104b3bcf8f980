SPECIFICATION FlagSpec
CONSTANTS
  Guest = {g1, g2}
  Nobody = nobody
  Flag = {f1}
  Bit = {1, 2}
  Masks <- MCMasks
  Waits <- MCWaits
  MaxFlagCalls = 3
CHECK_DEADLOCK FALSE
INVARIANT OutBitsMatched
