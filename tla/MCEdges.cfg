SPECIFICATION FairSpec
CONSTANTS
  PI = 3
  Rates <- MCRates
  Headings <- MCHeadings
  DEFAULT_DT = 1
  MAX_DT = 3
  Gaps <- MCGaps
  MaxPasses = 3
  Cuts = {2, 5, 8}
  RECORD_INTERVAL = 2
  PIPE_BUF = 2
  MaxStarts = 2
  MaxSwitches = 3
  MaxOpens = 2
  Recordings = {v1, v2}
  Example = example
  Nobody = nobody
  MaxVisits = 3
INVARIANTS
  TypeOK
  SampleOfOnePass
  AllTimeIntegrated
  DataFromOwnField
  DetailAgrees
  MapKnown
PROPERTIES
  SendersReturn
  DisplayFed
CHECK_DEADLOCK FALSE
