SPECIFICATION SleepFairSpec
CONSTANTS
  Timers = {t1, t2}
  Watchdogs = {}
  Processors = {p1}
  BatchSize = 1
  Window = 1
  Heartbeating = FALSE
  Faults = {}
  MaxTime = 1
  MaxFireTime = 2
  MaxMessages = 1
  MaxIncidents = 0
PROPERTIES EventuallyUndisturbed
CHECK_DEADLOCK FALSE
