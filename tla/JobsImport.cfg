SPECIFICATION Spec
CONSTANTS
  Set = {s1, s2}
  Setting = {v1}
  Writer = {w1, w2}
  Importer = {i1}
  Nobody = Nobody
  Idle = Idle
  MaxChanges = 2
SYMMETRY Symmetry
CHECK_DEADLOCK FALSE
INVARIANT EveryChangeKept
