------------------------------- MODULE MCFrontend -------------------------------
(* Values for checking the composed system on small instances. *)
EXTENDS FrontendProperties, TLC

CONSTANTS a1, Timers

Schedule(a) == [type |-> "ScheduleActivityTask", act |-> a, taskQueue |-> "named"]
UserTimer == [type |-> "StartTimer", act |-> NoActivity, taskQueue |-> "empty"]
Complete == [type |-> "CompleteWorkflowExecution", act |-> NoActivity, taskQueue |-> "empty"]

\* The workflow: run an activity, perhaps beside a timer, and complete with its outcome.
RunActivity(seen) ==
  LET has(types) == \E e \in seen : e.type \in types
  IN  CASE ~has({"ActivityTaskScheduled"}) ->
             IF Timers THEN <<Schedule(a1), UserTimer>> ELSE <<Schedule(a1)>>
        [] has({"ActivityTaskCompleted", "ActivityTaskFailedFinally"}) -> <<Complete>>
        [] OTHER -> <<>>

\* What the History service has to be open to.
AllRPCs == ActivityRPCs \cup OtherRPCs
Decisions == {<<>>, <<Schedule(a1)>>, <<Schedule(a1), UserTimer>>, <<Complete>>}
================================================================================
