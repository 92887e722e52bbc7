CONSTANTS
  Producers = {async_tcp, nimble}
  Loop = loop_task
  Torn = torn
  MaxCalls = 2
  Preemptive = TRUE
  OneCalls = 5
  IdleSsid = home
  HopSsids = {away}
  NoSsid = no_ssid
  WIFI_FAILURES_BEFORE_SETUP = 3
  MaxDrops = 2
  Parts = {"tasks", "thread", "wifi"}
SPECIFICATION MCSpec
INVARIANTS NoPhantomRun ArgsServeOneRun IntactUnlessOverlapped ReadyOnIdleNetwork FallbackIsDeserved
PROPERTIES QuietRequestIsServed PendingIsTaken OneThreadKeepsPromise
