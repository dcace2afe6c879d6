SPECIFICATION FairSpec
CONSTANTS
  Set = {s1}
  Startup = {s1}
  Mode = {"metadata"}
  Read = {"", "full", "quick"}
  FullReadEvery = 2
  Slot = {1, 2}
  Runner = {r1, r2}
  Idle = Idle
  MaxTime = 3
  MaxEdits = 1
  MaxCrashes = 1
CHECK_DEADLOCK FALSE
INVARIANTS TypeOK OneRunPerSet CountIsTrue
PROPERTIES DueIsKept DueRuns
