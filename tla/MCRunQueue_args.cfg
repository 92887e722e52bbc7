CONSTANTS
  Producers = {async_tcp, nimble}
  Loop = loop_task
  Torn = torn
  MaxCalls = 2
  Preemptive = TRUE
SPECIFICATION MCSpec
INVARIANT ArgsTravelWithId
