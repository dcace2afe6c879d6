SPECIFICATION Spec
CONSTANTS
  File = {f1, f2}
  Saved = {s1}
  Mine = Mine
  None = None
  Policy = {"replace"}
  Roll = {r1, r2}
  Caller = {c1}
  Idle = Idle
  MaxMade = 0
  MaxCrashes = 0
SYMMETRY Symmetry
CHECK_DEADLOCK FALSE
PROPERTY NothingLostInAnyOrder
