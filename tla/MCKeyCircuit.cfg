SPECIFICATION Spec
CONSTANTS
  Keys = {k1}
  WindowSize = 3
  FailureNum = 1
  FailureDen = 2
  ConsecutiveThreshold = 3
  HalfOpenTarget = 1
  BackoffBase = 1
  BackoffMax = 3
  StoreFaults = FALSE
  Deletions = TRUE
  MaxConsecutive = 5
  MaxRecords = 4
INVARIANTS CircuitsShaped StoreAgrees
PROPERTIES BackoffKept RetryNotPostponed
