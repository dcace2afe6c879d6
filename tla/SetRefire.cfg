SPECIFICATION Spec
CONSTANTS
  Set = {s1}
  Startup = {}
  Mode = {"metadata"}
  Read = {""}
  FullReadEvery = 2
  Slot = {1, 3}
  Runner = {r1, r2}
  Idle = Idle
  MaxTime = 4
  MaxEdits = 0
  MaxCrashes = 0
SYMMETRY Symmetry
CHECK_DEADLOCK FALSE
INVARIANT NoRepeatedFiring
