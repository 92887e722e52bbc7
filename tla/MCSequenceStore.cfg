CONSTANTS
  example = example
  first = first
  second = second
  none = none
  NoId = none
  Ids = {example, first, second}
  Bodies <- MCBodies
  Uploads <- MCUploads
  Stream <- MCStream
  Defaults <- MCDefaults
  Capacity = 2
  MaxLen = 2
  Versions <- MCVersions
  Callee <- MCCallee
  Queries <- MCQueries
  Edits <- MCEdits
  Arguments <- MCArguments
  Tokens <- MCTokens
  IntOf <- MCIntOf
  Yes = {"1", "true", "on"}
  No = {"0", "false", "off"}
  Parts = {"store", "params"}
SPECIFICATION MCSpec
INVARIANTS PartsTypeOK BrokenIsSound AnsweredIsSaved Precedence PassedOnWhole
PROPERTIES LoadIsExact KeepsPromise
