SPECIFICATION Spec
CONSTANTS
  NULL = NULL
  n1 = n1
  n2 = n2
  p1 = p1
  p2 = p2
  p3 = p3
  r1 = r1
  r2 = r2
  Node = {n1, n2}
  Place = {p1, p2, p3}
  MaxIndex = 1
  Resource = {r1, r2}
  Calls = {"populate", "copy", "copy_shared", "move", "delete", "revoke", "relocate"}
CHECK_DEADLOCK FALSE
SYMMETRY Symmetry
VIEW LiveState
INVARIANT TypeOK
INVARIANT MovesReachAll
INVARIANT FreedWithLast
INVARIANT DerivationsExact
PROPERTY RevokeLeavesOriginal
