SPECIFICATION Spec
CONSTANTS
  Folders = 2
  Attempts = 2
  Workers = 2
  Room = 1
  MaxSends = 2
  Chunk = {a, b}
  Old = {a}
  None = None
  MaxChunks = 2
  MaxFaults = 2
CHECK_DEADLOCK FALSE
INVARIANTS LastAttemptReported DoneOfLastAttempt FailedIsOmitted WorkersLetGo
