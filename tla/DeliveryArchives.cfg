SPECIFICATION FairSpec
CONSTANTS
  Tasks = {t1, t2}
  Workers = {w1, w2}
  GlobalConcurrency = 1
  MaxAttempts = 2
  SlowDatabase = TRUE
  MaxDisturbances = 2
INVARIANTS
  ArchiveStands
  NothingLeftBehind
PROPERTIES
  KeepsRegister
  ArchivesEnd
CHECK_DEADLOCK FALSE
