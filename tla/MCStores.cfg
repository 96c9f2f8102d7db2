SPECIFICATION StoresSpec
CONSTANTS
  MaxChannels = 3
  Initial = 2
  Requests = {r1, r2}
  Deleters = {d1, d2}
  MaxLogs = 1
  SaveFaults = TRUE
  Keys = {k1}
  BatchSize = 2
  BufferMax = 2
  MaxRecords = 3
  Calls = {c1, c2, c3, c4}
  Unstored = {c4}
  PassThrough = {c3}
  MaxMessages = 4
  MaxTokens = 2
  Urls = {u1, u2, u3}
  MaxUrls = 2
  Askers = {s1}
  Cooldown = 2
  MaxFails = 2
  Period = 3
  Horizon = 10
  Asks = {a1, a2}
  Priority = {a2}
  Interval = 1
  IdleTTL = 2
  MaxMade = 2
  LastTick = 4
  Protocols = {p1}
  Models = {m1, m2}
  MaxJobs = 2
  Retries = {w1, w2}
CHECK_DEADLOCK FALSE
INVARIANTS
  RunningFound
  NothingLeftRunning
  QueriesSeeAll
  DeletedStayDeleted
  CloseFlushes
  HistoryWhole
  UrlsServed
  SlotRecovered
  NoneStranded
  NoModelLeftOpenUndisturbed
PROPERTIES
  ResultLogged
  StoresInOrder
  CancelledStays
