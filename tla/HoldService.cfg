SPECIFICATION HoldSpec
CONSTANTS
  Runner = {r1, r2}
  Roller = {q1}
  Delegated = TRUE
  Slack = 1
  MaxTime = 2
  MaxStarts = 3
SYMMETRY Symmetry
CHECK_DEADLOCK FALSE
INVARIANT BackupsWait
