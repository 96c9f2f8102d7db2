SPECIFICATION ConfigSpec
CONSTANTS
  a = a
  b = b
  k1 = k1
  k2 = k2
  p1 = p1
  None = None
  Interfaces = {"Messages", "Responses", "Gemini", "Chat", "Images"}
  ChannelIds = {a, b}
  APIKeys = {k1, k2}
  OwnKeys <- MCOwnKeys
  StartChannels <- MCStart
  Updates <- MCUpdates
  EditedPositions = {2}
  Proxies = {p1}
  MaxEdits = 1
  MaxFailedSaves = 1
  MaxRejections = 1
INVARIANTS KeysStayHome
PROPERTIES KeysKept QuotaKeyReturns
CHECK_DEADLOCK FALSE
