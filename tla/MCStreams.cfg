SPECIFICATION StreamsSpec
CONSTANTS
  Providers = {"claude", "openai", "gemini", "responses"}
  MaxChunks = 4
  Capacity = 1
  Sources = {"claude", "gemini", "chat", "responses"}
  MaxLines = 5
  MaxItems = 2
  Routes <- AllRoutes
  MaxFeed = 6
  Endpoints = {"messages", "responses", "chat", "gemini", "images", "compact"}
  Upstreams = {1, 2}
  MaxPairs = 2
  MaxWords = 3
INVARIANTS
  AnswersWhole
  AnsweredOnce
  LeavingCostsOneKey
  JudgementsFit
PROPERTIES
  ProtocolsKept StreamsEnd
CHECK_DEADLOCK FALSE
