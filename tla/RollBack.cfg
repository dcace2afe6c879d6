SPECIFICATION Spec
CONSTANTS
  File = {f1}
  Saved = {s1}
  Mine = Mine
  None = None
  Policy = {"replace", "missing", "exact"}
  Roll = {r1, r2}
  Caller = {c1, c2}
  Idle = Idle
  MaxMade = 1
  MaxCrashes = 1
SYMMETRY Symmetry
CHECK_DEADLOCK FALSE
INVARIANTS TypeOK KeptIsRecorded UndoPutsBack
PROPERTY NothingLost
