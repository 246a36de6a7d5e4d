SPECIFICATION TimerSpec
CONSTANTS
  WorkflowIds = {w1}
  RunIds = {r1}
  a1 = a1
  Activities = {a1}
  NoActivity = NoActivity
  Callers = {c1}
  RPCs <- ArmingRPCs
  Batches <- TimerBatches
  Faults = {"database", "redis", "matching"}
  MaxVersion = 3
  Processors = {p1}
  BatchSize = 2
  Scavenging = TRUE
  MaxIncidents = 1
INVARIANTS TimerInv
PROPERTIES ClosedOnlyFires
CHECK_DEADLOCK FALSE
