SPECIFICATION FairSpec
CONSTANTS
  Senders = {s1, s2}
  NoSender = none
  Careful = TRUE
  MaxCommands = 2
  MaxRestarts = 0
PROPERTY SentIsReceived
CHECK_DEADLOCK FALSE
