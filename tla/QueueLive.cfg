SPECIFICATION SlowSpec
CONSTANTS
  Caller = {c1, c2, c3}
  Group = {g1}
  NoGroup = NoGroup
  Waiter = {w1}
  DefaultLimit = 1
  MaxLimit = 2
  Setting = {2}
  MaxCalls = 3
CHECK_DEADLOCK FALSE
INVARIANTS ReturnsAfterEarlier
PROPERTIES QueuedStarts WaiterReturns StopEndsTheWait
