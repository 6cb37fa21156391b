SPECIFICATION Spec
CONSTANTS
  k1 = k1
  k2 = k2
  t1 = t1
  t2 = t2
  v1 = v1
  v2 = v2
  Seeds <- OneKey
  Keys = {k1, k2}
  Values = {v1, v2}
  Absent = Absent
  Txns = {t1, t2}
  None = None
  MaxDepth = 2
  CompactChanges = 2
  MaxHandles = 4
CHECK_DEADLOCK FALSE
SYMMETRY Symmetry
INVARIANTS
  TypeOK
  SizesCorrect
  IterationAgrees
  DepthBounded
PROPERTIES
  OnlyCopiesChange
  RefinesPlainMaps
