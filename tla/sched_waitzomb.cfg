CONSTANTS
  NPROC = 3
  Chan = {100}
  Disk = {100}
  MaxStack = 5
SPECIFICATION FairSpec
PROPERTY WaitKillsZombies
CHECK_DEADLOCK FALSE
