SPECIFICATION BoundedSpec
CONSTANTS
  NumChannels = 2
  NumKeys = 1
  Priority <- DefaultPriority
  Requests = {r1, r2}
  Users = {u1}
  EligibleSets = {{0, 1}}
  Pins = {1}
  AdminChanges = {{}, {"status"}, {"promotion", "keys"}}
  MaxConsecutive = 1
  WindowSize = 3
  FailureNum = 1
  FailureDen = 2
  ConsecutiveThreshold = 1
  HalfOpenTarget = 1
  BackoffBase = 1
  BackoffMax = 1
INVARIANT ChannelsTriedOnce
PROPERTIES NoChannelLeftOut OpenNeverSelected BestSelected
SYMMETRY AnyRequest
