CONSTANTS
  Tvs = {living}
  NoTv = no_tv
  NoToken = no_token
  Torn = torn
  MaxTokens = 2
  Parts = {"store"}
  Ids = {"a", "b"}
  NoId = "none"
  Work = "work"
  Bodies <- MCBodies
  Stores <- MCStores
  MAX_CALL_DEPTH = 8
SPECIFICATION PartsSpec
PROPERTY BrokenNeverRuns
