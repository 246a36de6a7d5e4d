SPECIFICATION Spec
CONSTANTS
  WorkflowIds = {w1}
  RunIds = {r1, r2}
  a1 = a1
  Activities = {a1}
  NoActivity = NoActivity
  Callers = {c1, c2}
  RPCs <- ActivityReports
  Batches <- ScheduleOnly
  Faults = {}
  MaxVersion = 2
INVARIANTS AtMostOneRunning
CHECK_DEADLOCK FALSE
