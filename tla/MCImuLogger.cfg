SPECIFICATION Spec
CONSTANTS
  BUFFER_SIZE = 2
  EMPTY_LIMIT = 1
  MSG_CAPACITY = 1
  QueueReader = TRUE
  Signalled = TRUE
  MaxSamples = 3
INVARIANTS
  TypeOK
  RowsInOrder
  AtMostOneRowAfterStop
  CrashOnlyInShutdown
PROPERTIES
  DummyRowsInOrder
  ImplementsSampleQueue
CHECK_DEADLOCK FALSE
