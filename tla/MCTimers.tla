-------------------------------- MODULE MCTimers --------------------------------
(* Values for checking the timer processors on small instances. *)
EXTENDS TimerProperties, TLC

CONSTANTS a1

Schedule(a, tq) == [type |-> "ScheduleActivityTask", act |-> a, taskQueue |-> tq]
UserTimer == [type |-> "StartTimer", act |-> NoActivity, taskQueue |-> "empty"]
Complete == [type |-> "CompleteWorkflowExecution", act |-> NoActivity, taskQueue |-> "empty"]

\* Requests that arm each kind of timer, and reports that race with the processors.
ArmingRPCs ==
  {"RecordWorkflowExecutionStarted", "RecordWorkflowTaskStarted", "RecordActivityTaskStarted",
   "SignalWorkflowExecution", "RecordActivityTaskHeartbeat"}
WithoutHeartbeats == ArmingRPCs \ {"RecordActivityTaskHeartbeat"}
SignalRPCs == {"RecordWorkflowExecutionStarted", "SignalWorkflowExecution"}

\* A timer beside an activity, a timer alone, and the end.
TimerBatches == {<<Schedule(a1, "named"), UserTimer>>, <<Complete>>}
UserTimers == {<<UserTimer>>}

ProcessSymmetry == Permutations(Callers) \cup Permutations(Processors)
================================================================================
