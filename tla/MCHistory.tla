------------------------------- MODULE MCHistory -------------------------------
(* Values for checking the History service on small instances. *)
EXTENDS HistoryProperties, TLC

CONSTANTS a1

Schedule(a, tq) == [type |-> "ScheduleActivityTask", act |-> a, taskQueue |-> tq]
UserTimer == [type |-> "StartTimer", act |-> NoActivity, taskQueue |-> "empty"]
Complete == [type |-> "CompleteWorkflowExecution", act |-> NoActivity, taskQueue |-> "empty"]

AllRPCs == ActivityRPCs \cup OtherRPCs

\* Wait for what is pending, run an activity beside a timer, or finish.
MCBatches == {<<>>, <<Schedule(a1, "empty"), UserTimer>>, <<Complete>>}

\* One activity, scheduled on a queue of its own.
ScheduleOnly == {<<Schedule(a1, "named")>>}

\* Reports about one activity, late and repeated ones too, and signals beside them.
ActivityReports ==
  {"RecordWorkflowExecutionStarted", "RecordActivityTaskStarted", "RecordActivityTaskCompleted",
   "RecordActivityTaskFailed", "SignalWorkflowExecution"}

CallerSymmetry == Permutations(Callers)
================================================================================
