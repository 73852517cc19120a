CONSTANTS
  Proc = {p1, p2}
  Lookers = {p1}
  Blockno = {n1, n2, n3, n4}
  NBUF = 3
  Writers = {}
  p1 = p1
  p2 = p2
  n1 = n1
  n2 = n2
  n3 = n3
  n4 = n4
SYMMETRY Symmetry
SPECIFICATION Spec
INVARIANT LockProcp
CHECK_DEADLOCK FALSE
