SPECIFICATION Safe
CONSTANTS
  Caller = {c1, c2, c3}
  Group = {g1, g2}
  NoGroup = NoGroup
  Waiter = {}
  DefaultLimit = 1
  MaxLimit = 2
  Setting = {0, 9}
  MaxCalls = 3
SYMMETRY Symmetry
INVARIANTS TypeOK LoopAdmits
PROPERTIES RunsByTheRules OrderKept NothingFreeWaits
