SPECIFICATION Spec
CONSTANTS
  Set = {s1, s2}
  Setting = {v1, v2}
  Writer = {w1, w2}
  Importer = {i1}
  Nobody = Nobody
  Idle = Idle
  MaxChanges = 3
SYMMETRY Symmetry
CHECK_DEADLOCK FALSE
INVARIANTS TypeOK
PROPERTIES EditsKept
