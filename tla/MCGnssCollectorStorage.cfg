SPECIFICATION Spec
CONSTANTS
  RECORD_INTERVAL = 2
  BACKDATE = 3
  StorageMayFail = TRUE
  MaxTime = 5
  MaxStarts = 2
  MaxRestarts = 0
INVARIANT EndedFilesAreArrays
CHECK_DEADLOCK FALSE
