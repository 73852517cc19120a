SPECIFICATION Spec
CONSTANTS
  SECTSIZE = 2
  NADDR = 2
  NLIST = 2
  FIRSTDATA = 8
  NBLOCK = 20
  KernelSize = 3
  NDIRENT = 2
  Sizes <- MCSizes
  Proc = {p1, p2}
  File = {f1, f2}
  MaxSize = 3
SYMMETRY Symmetry
INVARIANTS TypeOK Layout ReadsOwn OffsetExact
CHECK_DEADLOCK FALSE
