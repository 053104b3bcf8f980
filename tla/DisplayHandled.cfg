SPECIFICATION DisplaySpec
CONSTANTS
  CountSize = 8
CHECK_DEADLOCK FALSE
INVARIANT HandledOncePerInterrupt
