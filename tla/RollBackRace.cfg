SPECIFICATION Spec
CONSTANTS
  File = {f1, f2}
  Saved = {s1}
  Mine = Mine
  None = None
  Policy = {"missing"}
  Roll = {r1}
  Caller = {c1}
  Idle = Idle
  MaxMade = 1
  MaxCrashes = 0
SYMMETRY Symmetry
CHECK_DEADLOCK FALSE
PROPERTY MadeIsKept
