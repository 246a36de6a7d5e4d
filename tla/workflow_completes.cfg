SPECIFICATION FrontendFairSpec
CONSTANTS
  WorkflowIds = {w1}
  RunIds = {r1}
  a1 = a1
  Activities = {a1}
  NoActivity = NoActivity
  Callers = {ww1, aw1, cl1}
  WorkflowWorkers = {ww1}
  ActivityWorkers = {aw1}
  Decide <- RunActivity
  Timers = TRUE
  WorkerRPCs = {}
  Persistent = TRUE
  MaxSignals = 1
  RPCs <- AllRPCs
  Batches <- Decisions
  Faults = {}
  MaxVersion = 20
  Processors = {p1}
  BatchSize = 1
  Scavenging = FALSE
  MaxIncidents = 0
INVARIANTS ScheduledOnce NoWakeupForgotten
PROPERTIES EventuallyCompletes
CHECK_DEADLOCK FALSE
