SPECIFICATION Spec
CONSTANTS
  NPROC = 2
  NFILE = 4
  NINODE = 4
  NOFILE = 3
  Inum = {init, shell}
  RefMod = 5
  MaxLeak = 2
  MaxFork = 2
SYMMETRY Symmetry
INVARIANTS TypeOK FileCounts InodeCounts InodeUnique Loading OnlyClosePanics
CHECK_DEADLOCK FALSE
