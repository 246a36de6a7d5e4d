SPECIFICATION FrontendSpec
CONSTANTS
  WorkflowIds = {w1}
  RunIds = {r1}
  a1 = a1
  Activities = {a1}
  NoActivity = NoActivity
  Callers = {ww1, aw1, aw2, cl1}
  WorkflowWorkers = {ww1}
  ActivityWorkers = {aw1, aw2}
  Decide <- RunActivity
  Timers = FALSE
  WorkerRPCs = {"RespondWorkflowTaskFailed", "RespondActivityTaskFailed", "RecordActivityTaskHeartbeat"}
  Persistent = FALSE
  MaxSignals = 0
  RPCs <- AllRPCs
  Batches <- Decisions
  Faults = {"database", "matching"}
  MaxVersion = 20
  Processors = {p1}
  BatchSize = 1
  Scavenging = FALSE
  MaxIncidents = 1
INVARIANTS
  FrontendTypeOK
  ReportsReachTheirTask
  
  
CHECK_DEADLOCK FALSE
