SPECIFICATION FairSpec
CONSTANTS
  BUFFER_SIZE = 1
  EMPTY_LIMIT = 1
  MSG_CAPACITY = 1
  QueueReader = FALSE
  Signalled = FALSE
  MaxSamples = 3
PROPERTY SensorNotStarved
CHECK_DEADLOCK FALSE
