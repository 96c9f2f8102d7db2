CONSTANTS
  Requests = {r1, r2, r3}
  Keep = 1
  StaleAfter = 0
  Drops = {"reset", "delete", "stale"}
  MaxTime = 2
  MaxTraversals = 1
SPECIFICATION Spec
SYMMETRY AnyRequestOrder
CHECK_DEADLOCK FALSE
INVARIANTS
  IndexPointsHome
  RecordedOnce
  OutcomesTrue
  RecordKept
  NoGhostActivity
  CountedOnceUncancelled
