SPECIFICATION FairSpec
CONSTANTS
  Keys = {k1}
  WindowSize = 3
  FailureNum = 1
  FailureDen = 2
  ConsecutiveThreshold = 3
  HalfOpenTarget = 1
  BackoffBase = 1
  BackoffMax = 3
  StoreFaults = TRUE
  Deletions = TRUE
  MaxConsecutive = 4
  MaxRecords = 2
PROPERTIES OpenExpires
