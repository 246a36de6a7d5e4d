SPECIFICATION ReadersSpec
CONSTANTS
  WorkflowIds = {w1}
  RunIds = {r1}
  a1 = a1
  Activities = {a1}
  NoActivity = NoActivity
  Callers = {c1}
  RPCs <- WithoutHeartbeats
  Batches <- TimerBatches
  Faults = {"database"}
  MaxVersion = 3
  Processors = {p1, p2}
  BatchSize = 2
  Readers = {u1}
  Scavenging = FALSE
  MaxIncidents = 1
SYMMETRY ProcessSymmetry
INVARIANTS FiredOnce FiringInv TasksJustified RequeueInv ViewsArePrefixes
CHECK_DEADLOCK FALSE
