SPECIFICATION SleepFairSpec
CONSTANTS
  Timers = {t1, t2}
  Watchdogs = {t1}
  Processors = {p1}
  BatchSize = 1
  Window = 1
  Heartbeating = TRUE
  Faults = {"redis", "pubsub", "database", "crash", "restart"}
  MaxTime = 1
  MaxFireTime = 1
  MaxMessages = 1
  MaxIncidents = 2
PROPERTIES EventuallyServed
CHECK_DEADLOCK FALSE
