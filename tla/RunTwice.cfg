SPECIFICATION CardsSpec
CONSTANTS
  Run = {p, s}
  Own = {p}
  NoRun = NoRun
  MaxReloads = 0
  MayLeave = FALSE
INVARIANT OwnRunsAreLeftAlone
