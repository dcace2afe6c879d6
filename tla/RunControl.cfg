SPECIFICATION Spec
CONSTANTS
  Run = {r}
  Caller = {window, tray}
  MaxPauses = 3
INVARIANTS TypeOK PausedIsQuiet
PROPERTY ControlsArrive
CHECK_DEADLOCK FALSE
