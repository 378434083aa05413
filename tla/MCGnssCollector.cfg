SPECIFICATION FairSpec
CONSTANTS
  RECORD_INTERVAL = 2
  BACKDATE = 3
  StorageMayFail = TRUE
  MaxTime = 4
  MaxStarts = 2
  MaxRestarts = 1
INVARIANTS
  TypeOK
  FilesAreArrays
  RecordsSpaced
PROPERTIES
  RecordsKept
  StopEndsArray
CHECK_DEADLOCK FALSE
