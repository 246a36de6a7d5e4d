SPECIFICATION MatchingFairSpec
CONSTANTS
  Tasks = {t1, t2, t3}
  TaskQueues = {q1}
  NoQueue = NoQueue
  Polls = {p1, p2}
  Faults = {"deadline", "crash", "redis"}
  MaxCutOff = 2
INVARIANTS
  MatchingInv
  NobodyWaits
  
  TasksMatchPolls
  InOnePlace
PROPERTIES
  ImplementsBroker
  EventuallyReceived
