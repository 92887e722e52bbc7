CONSTANTS
  m1 = m1
  m2 = m2
  Macs = {m1, m2}
  NoMac = no_mac
  N = 3
  MacOf <- MCMacOf
  W = 5
  Cooldown = 2
  WsW = 12
  WsTurn = 2
  Timeouts = {3, 11}
  Waits = {0, 4}
  FlushMs = 2
  LoopW = 24
  LoopTurn = 3
  SUCCESS_MS = 8
  ERROR_MS = 6
  WIFI_RETRY_BACKOFF_MS = 9
  LOSS_MS = 5
  Parts = {"ble", "ws", "loop"}
SPECIFICATION MCSpec
INVARIANTS PartsTypeOK HitReachesAll WaitsAreBounded
PROPERTIES FiresAreSpaced OnlyCooldownSilences OkMeansSent PatternLasts RetryWaits
