SPECIFICATION RelaySpec
CONSTANTS
  Providers = {"claude", "openai", "gemini", "responses"}
  MaxChunks = 2
  Capacity = 1
INVARIANT HandledWasAnswered
CHECK_DEADLOCK FALSE
