SPECIFICATION Spec
CONSTANTS
  BUFFER_SIZE = 2
  EMPTY_LIMIT = 2
  MSG_CAPACITY = 1
  QueueReader = TRUE
  Signalled = TRUE
  MaxSamples = 2
PROPERTY EmergencyFileTakesRows
CHECK_DEADLOCK FALSE
