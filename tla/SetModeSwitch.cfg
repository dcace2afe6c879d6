SPECIFICATION Spec
CONSTANTS
  Set = {s1}
  Startup = {}
  Mode = {"metadata", "data"}
  Read = {""}
  FullReadEvery = 2
  Slot = {1, 3}
  Runner = {r1, r2}
  Idle = Idle
  MaxTime = 4
  MaxEdits = 2
  MaxCrashes = 0
SYMMETRY Symmetry
CHECK_DEADLOCK FALSE
PROPERTY OnlyFullReadsReset
