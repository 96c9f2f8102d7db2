SPECIFICATION FairSpec
CONSTANTS
  Requests = {r1}
  Compact = {}
  NumUrls = 1
  NumKeys = 2
  Interventions = TRUE
  MaxConsecutive = 2
  WindowSize = 3
  FailureNum = 1
  FailureDen = 2
  ConsecutiveThreshold = 1
  HalfOpenTarget = 1
  BackoffBase = 1
  BackoffMax = 1
INVARIANTS EveryKeyTried
PROPERTIES RequestsReturn
