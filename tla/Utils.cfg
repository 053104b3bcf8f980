SPECIFICATION MCSpec
CONSTANTS
  Value = {a, b}
  NoValue = none
  Capacity = 4
  WordSize = 8
  Client = {c1, c2}
  Own = {o1, o2}
  CountSize = 8
CHECK_DEADLOCK FALSE
INVARIANTS
  LostOnlyInTheWindow
  NoInterruptLost
  AtMostThreeReturnsPerVblank
PROPERTIES
  ImplementsDeque
  ExecutedAtMostOncePerAdd
  AddAndWaitReturns
  InterruptsExecuted
  WaitVblankReturns
  StopReturns
