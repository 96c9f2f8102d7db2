SPECIFICATION FairSpec
CONSTANTS
  NumChannels = 2
  NumKeys = 1
  Priority <- DefaultPriority
  Requests = {r1}
  Users = {}
  EligibleSets = {{0, 1}}
  Pins = {}
  AdminChanges = {{}}
  MaxConsecutive = 3
  WindowSize = 3
  FailureNum = 1
  FailureDen = 2
  ConsecutiveThreshold = 3
  HalfOpenTarget = 1
  BackoffBase = 1
  BackoffMax = 1
PROPERTY HalfOpenProbed
