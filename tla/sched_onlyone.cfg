CONSTANTS
  NPROC = 4
  Chan = {100}
  Disk = {100}
  MaxStack = 5
SPECIFICATION FairSpec
INVARIANT OnlyOneRunning
CHECK_DEADLOCK FALSE
