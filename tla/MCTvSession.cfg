CONSTANTS
  Tvs = {living, bedroom}
  NoTv = no_tv
  NoToken = no_token
  Torn = torn
  MaxTokens = 2
  Parts = {"tv", "store"}
  Ids = {"a", "b"}
  NoId = "none"
  Work = "work"
  Bodies <- MCBodies
  Stores <- MCStores
  MAX_CALL_DEPTH = 8
SPECIFICATION PartsSpec
INVARIANTS PartsTypeOK KeyGoesToItsTv LastTokenIsSaved FramesLive
PROPERTIES TokenIsReused RunEnds
