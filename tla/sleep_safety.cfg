SPECIFICATION SleepSpec
CONSTANTS
  Timers = {t1, t2}
  Watchdogs = {t1}
  Processors = {p1, p2}
  BatchSize = 1
  Window = 1
  Heartbeating = FALSE
  Faults = {}
  MaxTime = 1
  MaxFireTime = 1
  MaxMessages = 1
  MaxIncidents = 0
SYMMETRY ProcessorSymmetry
INVARIANTS SleepTypeOK EarlierTimerWakes NoTimerLost
CHECK_DEADLOCK FALSE
