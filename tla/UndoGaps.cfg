SPECIFICATION Spec
CONSTANTS
  File = {f1, f2}
  Saved = {s1}
  Mine = Mine
  None = None
  Policy = {"replace"}
  Roll = {r1}
  Caller = {c1}
  Idle = Idle
  MaxMade = 0
  MaxCrashes = 1
SYMMETRY Symmetry
CHECK_DEADLOCK FALSE
INVARIANTS UndoPutsBackFailed UndoPutsBackRestarted PutBackIsUndone
