SPECIFICATION Spec
CONSTANTS
  WorkflowIds = {w1}
  RunIds = {r1}
  a1 = a1
  Activities = {a1}
  NoActivity = NoActivity
  Callers = {c1, c2}
  RPCs <- AllRPCs
  Batches <- MCBatches
  Faults = {"database", "redis", "matching", "crash"}
  MaxVersion = 4
SYMMETRY CallerSymmetry
INVARIANTS TypeOK HistoryInv EventIDsContiguous SnapshotCurrent StatusMatchesHistory
  ActivityMatchesHistory TimersMatchHistory NoPhantomTask ActivityInv EffectInv
PROPERTIES ClosedIsFrozen ImplementsLog
CHECK_DEADLOCK FALSE
