CONSTANTS
  Proc = {p1, p2}
  Lookers = {p1}
  Blockno = {n1, n2, n3, n4}
  NBUF = 3
  Writers = {p2}
  p1 = p1
  p2 = p2
  n1 = n1
  n2 = n2
  n3 = n3
  n4 = n4
SYMMETRY Symmetry
SPECIFICATION Spec
INVARIANTS TypeOK BlockUnique RefcntExact NoPanic LockExclusive IntrTarget SleeperHasWaker NoDeadlock FlagsSound
PROPERTIES NoRecycle
CHECK_DEADLOCK FALSE
