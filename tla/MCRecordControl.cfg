SPECIFICATION FairSpec
CONSTANTS
  CardMayFail = TRUE
  MaxRequests = 2
  MaxRestarts = 1
INVARIANTS
  TypeOK
  ValvesMatch
  OneFilePerRequest
PROPERTIES
  FlagObeyed
  CleanupFinishes
CHECK_DEADLOCK FALSE
