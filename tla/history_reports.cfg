SPECIFICATION FairSpec
CONSTANTS
  WorkflowIds = {w1}
  RunIds = {r1}
  a1 = a1
  Activities = {a1}
  NoActivity = NoActivity
  Callers = {c1, c2}
  RPCs <- ActivityReports
  Batches <- ScheduleOnly
  Faults = {}
  MaxVersion = 5
INVARIANTS EveryEventAnnounced RetriesBounded
PROPERTIES EventuallyAnnounced
CHECK_DEADLOCK FALSE
