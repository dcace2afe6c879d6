SPECIFICATION Spec
CONSTANTS
  Server = {a, b}
  Snap = {s1, s2}
  Legacy = {s2}
  Found = {s1}
  None = None
  MaxCalls = 4
PROPERTY RestoresWhereItSays
