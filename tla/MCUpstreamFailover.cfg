SPECIFICATION Spec
CONSTANTS
  Requests = {r1, r2}
  Compact = {r2}
  NumUrls = 2
  NumKeys = 1
  Interventions = TRUE
  MaxConsecutive = 2
  WindowSize = 3
  FailureNum = 1
  FailureDen = 2
  ConsecutiveThreshold = 1
  HalfOpenTarget = 1
  BackoffBase = 1
  BackoffMax = 1
INVARIANT NoProbeLeak
