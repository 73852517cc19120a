CONSTANTS
  NPROC = 4
  Chan = {100}
  Disk = {100}
  MaxStack = 4
SPECIFICATION FairSpec
INVARIANTS TypeOK CliDiscipline SleepConsistent ContextSound KstackLive ZombieNeverReturns
PROPERTIES ZombieReaped WorkConserving
CHECK_DEADLOCK FALSE
