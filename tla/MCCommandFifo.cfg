SPECIFICATION FairSpec
CONSTANTS
  Senders = {s1, s2}
  NoSender = none
  Careful = FALSE
  MaxCommands = 3
  MaxRestarts = 1
INVARIANTS
  TypeOK
  EachCommandOnce
PROPERTIES
  LoneCommandObeyed
  SenderReturns
CHECK_DEADLOCK FALSE
