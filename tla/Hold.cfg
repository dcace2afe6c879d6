SPECIFICATION FairHoldSpec
CONSTANTS
  Runner = {r1, r2}
  Roller = {q1}
  Delegated = FALSE
  Slack = 1
  MaxTime = 2
  MaxStarts = 3
CHECK_DEADLOCK FALSE
INVARIANTS HoldTypeOK HeldWhileRestoring BackupsWait
PROPERTY WaitIsOver
