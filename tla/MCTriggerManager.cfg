CONSTANTS
  x = x
  y = y
  p = p
  q = q
  none = none
  BindingIds = {x, y}
  Targets = {p, q}
  NoTarget = none
  Lists <- MCLists
  MaxRoutes = 5
  SeqIds = {"example", "s1"}
  Default = "example"
  Paths = {"/trigger", "/p", "/long"}
  LongPaths = {"/long"}
  DefaultPath = "/trigger"
  NoId = "none"
  DefaultId = "d"
  Stream <- MCStream
  Uploads <- MCUploads
  Ssids = {"s1", "s2"}
  Passes = {"p1", "p2"}
  Tokens = {"t1"}
  Empty = ""
  Torn = "torn"
  Parts = {"manager", "bindings", "config"}
SPECIFICATION MCSpec
INVARIANTS PartsTypeOK OnlyListedAreBound ScanSurvivesRuns FreshDeviceWorks BoundIsSaved CredsBelongTogether
