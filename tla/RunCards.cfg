SPECIFICATION CardsSpec
CONSTANTS
  Run = {p, s}
  Own = {p}
  NoRun = NoRun
  MaxReloads = 1
  MayLeave = TRUE
INVARIANTS CardsTypeOK CardMovesOn EndIsTold
