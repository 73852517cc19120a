CONSTANTS
  NPROC = 3
  NPAGE = 15
  PAGESIZE = 2
  N = 4
  KTABS = 1
  KERNEND = 16
  USEREND = 28
  Image <- Images
  Argv <- Args
  NARGV = 1
SPECIFICATION Spec
INVARIANTS TypeOK OneUse Conserved ImageWhole GuardPage Cr3Live OnlyArgsPanic
PROPERTIES LedgerSpec
CHECK_DEADLOCK FALSE
