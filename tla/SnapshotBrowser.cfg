SPECIFICATION FairSpec
CONSTANTS
  Server = {a, b}
  Snap = {s1, s2}
  Legacy = {s2}
  Found = {s1}
  None = None
  MaxCalls = 3
INVARIANTS TypeOK ShownIsSelected
PROPERTY BusyEnds
