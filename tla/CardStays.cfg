SPECIFICATION FairCardsSpec
CONSTANTS
  Run = {s}
  Own = {}
  NoRun = NoRun
  MaxReloads = 1
  MayLeave = FALSE
PROPERTY NoCardStays
