SPECIFICATION FairSpec
CONSTANTS
  CardMayFail = FALSE
  MaxRequests = 2
  MaxRestarts = 0
PROPERTY FlagTellsState
CHECK_DEADLOCK FALSE
