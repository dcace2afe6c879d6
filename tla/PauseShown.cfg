SPECIFICATION Spec
CONSTANTS
  Run = {r}
  Caller = {window, tray}
  MaxPauses = 2
INVARIANT ShownIsPaused
CHECK_DEADLOCK FALSE
