SPECIFICATION FairSpec
CONSTANTS
  BUFFER_SIZE = 1
  EMPTY_LIMIT = 1
  MSG_CAPACITY = 1
  QueueReader = TRUE
  Signalled = FALSE
  MaxSamples = 3
INVARIANT StaleRowsBounded
PROPERTIES
  SensorNotStarved
  SamplesReleased
CHECK_DEADLOCK FALSE
