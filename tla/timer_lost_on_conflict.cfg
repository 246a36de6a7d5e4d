SPECIFICATION TimerSpec
CONSTANTS
  WorkflowIds = {w1}
  RunIds = {r1}
  a1 = a1
  Activities = {a1}
  NoActivity = NoActivity
  Callers = {c1}
  RPCs <- SignalRPCs
  Batches <- UserTimers
  Faults = {}
  MaxVersion = 3
  Processors = {p1}
  BatchSize = 2
  Scavenging = FALSE
  MaxIncidents = 0
INVARIANTS FiredTimerIsRecorded
CHECK_DEADLOCK FALSE
