-------------------------- MODULE ExecutionRepository --------------------------
(***************************************************************************)
(* The event store of the History service: the four Postgres tables and    *)
(* the statements history/internal/adapters/postgres/repository.go runs on *)
(* them.  A row absent from a table is a row whose status is "Absent".     *)
(*                                                                         *)
(* Payloads, timestamps and fire times are abstracted away; the columns    *)
(* kept are those some guard of the service reads back.                    *)
(***************************************************************************)
EXTENDS Naturals, Sequences

CONSTANTS
  WorkflowIds,   \* workflow_id chosen by the client
  RunIds,        \* run_id, a UUID drawn by the service
  Activities,    \* activity_id chosen by the workflow code
  NoActivity     \* the activity of an event that concerns none

ASSUME RepositoryAssumption == NoActivity \notin Activities

VARIABLES
  executions,    \* workflow_executions: [Keys -> Execution]
  history,       \* history_events: [Keys -> SUBSET Event]
  activities,    \* activity_states: [Keys -> [Activities -> Activity]]
  timers,        \* timers: the set of rows, without is_fired
  fired          \* timers: the rows whose is_fired is true

dbVars == <<executions, history, activities, timers, fired>>

--------------------------------------------------------------------------------
(* Tables *)

\* PRIMARY KEY (namespace, workflow_id, run_id); the namespace is always "default".
Keys == WorkflowIds \X RunIds

ClosedStatuses == {"Completed", "Failed", "TimedOut"}
Statuses == {"Absent", "Running"} \cup ClosedStatuses

\* A task queue name: given, or left empty by whoever should have given it.
TaskQueueNames == {"empty", "named"}

Execution == [status : Statuses, version : Nat, next : Nat, taskQueue : TaskQueueNames]

\* event_type; the payload's "final" flag of a failed activity is part of the type.
EventTypes ==
  {"WorkflowExecutionStarted", "WorkflowTaskStarted", "WorkflowTaskCompleted",
   "WorkflowTaskFailed", "WorkflowExecutionFailed", "WorkflowExecutionCompleted",
   "WorkflowExecutionTimedOut", "WorkflowExecutionSignaled", "TimerStarted",
   "TimerFired", "ActivityTaskScheduled", "ActivityTaskStarted",
   "ActivityTaskCompleted", "ActivityTaskFailed", "ActivityTaskFailedFinally"}

Event == [id : Nat, type : EventTypes, act : Activities \cup {NoActivity}]

ActivityStatuses == {"Absent", "Scheduled", "Started", "Completed", "Failed"}

Activity == [status : ActivityStatuses, attempt : Nat,
             taskQueue : TaskQueueNames, lastHeartbeat : {"nil", "set"}]

TimerTypes == {"UserTimer", "ActivityTimeout", "WorkflowTimeout", "WorkflowTaskTimeout"}

\* Every timer is inserted together with one event, whose id stands for the
\* timer's UUID; it is also the event_id in a WorkflowTaskTimeout's token.
Timer == [key : Keys, event : Nat, type : TimerTypes, act : Activities \cup {NoActivity}]

NoExecution == [status |-> "Absent", version |-> 0, next |-> 1, taskQueue |-> "empty"]
NoActivityState ==
  [status |-> "Absent", attempt |-> 0, taskQueue |-> "empty", lastHeartbeat |-> "nil"]

RepositoryTypeOK ==
  /\ executions \in [Keys -> Execution]
  /\ history \in [Keys -> SUBSET Event]
  /\ activities \in [Keys -> [Activities -> Activity]]
  /\ timers \in SUBSET Timer
  /\ fired \in SUBSET Timer

RepositoryInit ==
  /\ executions = [k \in Keys |-> NoExecution]
  /\ history = [k \in Keys |-> {}]
  /\ activities = [k \in Keys |-> [a \in Activities |-> NoActivityState]]
  /\ timers = {}
  /\ fired = {}

--------------------------------------------------------------------------------
(* Statements *)

NewEvent(id, type, a) == [id |-> id, type |-> type, act |-> a]

\* FindRunningWorkflow: the runs of w a SELECT ... status = 'Running' finds.
FindRunningWorkflow(w) ==
  {k \in Keys : k[1] = w /\ executions[k].status = "Running"}

\* CreateWorkflowExecution: one transaction inserts the run and its first event.
CreateWorkflowExecution(k, tq) ==
  /\ executions[k].status = "Absent"                 \* PRIMARY KEY
  /\ executions' = [executions EXCEPT ![k] =
       [status |-> "Running", version |-> 1, next |-> 2, taskQueue |-> tq]]
  /\ history' = [history EXCEPT ![k] =
       @ \cup {NewEvent(1, "WorkflowExecutionStarted", NoActivity)}]
  /\ UNCHANGED <<activities, timers, fired>>

\* The columns UpdateWorkflowExecution sets, and its inserts and upserts.
WriteRow(k, txn, version) ==
  [status |-> txn.status, version |-> version, next |-> txn.next,
   taskQueue |-> executions[k].taskQueue]

WriteTables(k, txn) ==
  /\ history' = [history EXCEPT ![k] = @ \cup txn.events]
  /\ activities' = [activities EXCEPT ![k] =
       [a \in Activities |-> IF txn.upserts[a].status = "Absent" THEN activities[k][a]
                                                                ELSE txn.upserts[a]]]
  /\ timers' = timers \cup txn.timers
  /\ UNCHANGED fired

\* Mutants of UpdateWorkflowExecution, each with one mistake in its UPDATE:
\* no "AND current_version = $7";
UpdateUnversioned(k, expectedVersion, txn) ==
  /\ \A e \in txn.events, h \in history[k] : e.id # h.id
  /\ executions' = [executions EXCEPT ![k] = WriteRow(k, txn, @.version + 1)]
  /\ WriteTables(k, txn)

\* no "current_version = current_version + 1";
UpdateKeepsVersion(k, expectedVersion, txn) ==
  /\ executions[k].version = expectedVersion
  /\ \A e \in txn.events, h \in history[k] : e.id # h.id
  /\ executions' = [executions EXCEPT ![k] = WriteRow(k, txn, @.version)]
  /\ WriteTables(k, txn)

\* UpdateWorkflowExecution: one transaction.  "WHERE current_version = $7" is
\* the optimistic concurrency check, UNIQUE (..., event_id) the second guard;
\* if either refuses, nothing is written.
UpdateWorkflowExecution(k, expectedVersion, txn) ==
  /\ executions[k].version = expectedVersion
  /\ \A e \in txn.events, h \in history[k] : e.id # h.id
  /\ executions' = [executions EXCEPT ![k] = WriteRow(k, txn, @.version + 1)]
  /\ WriteTables(k, txn)

\* GetActivityTimeoutTimer: an unfired ActivityTimeout row of the run whose token
\* text contains the activity id.  "task_token::text" is the token's bytes in
\* hexadecimal, so which rows an id matches has nothing to do with the activity
\* the token names: any of them may come out, or none.
GetActivityTimeoutTimer(k) ==
  {t \in timers \ fired : t.key = k /\ t.type = "ActivityTimeout"}

\* GetWorkflowExecution: the row of a run; "Absent" stands for the error that none is found.
GetWorkflowExecution(k) == executions[k]

\* GetHistoryEvents: all events of a run.  They come in the order of their ids, which
\* stand for it here; a run that does not exist has none.
GetHistoryEvents(k) == history[k]

\* GetNonFiredTimers.  Its horizon, timers due within an hour, is left out: a timer that
\* is added to Redis earlier than that only waits there longer.
GetNonFiredTimers == timers \ fired
================================================================================
