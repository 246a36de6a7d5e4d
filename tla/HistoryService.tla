----------------------------- MODULE HistoryService -----------------------------
(***************************************************************************)
(* The RPC handlers of the History service (history/internal/service).     *)
(*                                                                         *)
(* Every mutating handler has the same skeleton: read the execution row,   *)
(* refuse unless it is Running, perhaps read an activity row, build one    *)
(* transaction from what was read, commit it against the version that was  *)
(* read, and only then publish its effects: timers to Redis, tasks to the  *)
(* Matching service.  Handlers run concurrently, one per gRPC call, and    *)
(* every read, commit and publication is a step of its own.                *)
(*                                                                         *)
(* Requests come from an open environment: any request at any time, so     *)
(* late, repeated and reordered reports by workers are all included.       *)
(***************************************************************************)
EXTENDS ExecutionRepository, FiniteSets

CONSTANTS
  Callers,       \* concurrent gRPC calls
  RPCs,          \* the requests the environment makes
  Batches,       \* the command lists a workflow worker may answer with
  Faults,        \* what may go wrong, see FaultKinds
  MaxVersion     \* bound: no call is admitted to a row that reached this version

\* database: a statement fails, or a commit succeeds but its reply is lost.
\* redis, matching: a publication fails, for instance because the caller's
\* deadline has passed.  crash: the process dies and restarts.
FaultKinds == {"database", "redis", "matching", "crash"}

CommandTypes == {"ScheduleActivityTask", "StartTimer", "CompleteWorkflowExecution"}

\* A command the handler knows; it skips the others.  taskQueue is the queue
\* named by ScheduleActivityTask's attributes, if any.
Command == [type : CommandTypes, act : Activities \cup {NoActivity},
            taskQueue : TaskQueueNames]

\* The RPCs that read an activity's row before they write it, and the others;
\* RecordWorkflowTaskCompleted is enabled by Batches.
ActivityRPCs ==
  {"RecordActivityTaskCompleted", "RecordActivityTaskFailed", "RecordActivityTaskHeartbeat"}

OtherRPCs ==
  {"RecordWorkflowExecutionStarted", "RecordWorkflowTaskStarted", "RecordWorkflowTaskFailed",
   "RecordActivityTaskStarted", "SignalWorkflowExecution"}

ASSUME ServiceAssumption ==
  /\ RPCs \subseteq ActivityRPCs \cup OtherRPCs
  /\ Batches \subseteq Seq(Command)
  /\ \A cmds \in Batches : \A i \in DOMAIN cmds :
       cmds[i].type = "ScheduleActivityTask" <=> cmds[i].act \in Activities
  /\ Faults \subseteq FaultKinds
  /\ MaxVersion \in Nat

VARIABLES
  active,         \* Redis timers:active_set, the timers the processor will see
  workflowQueue,  \* Redis list of the workflow tasks pushed by Matching
  activityQueue,  \* Redis list of the activity tasks pushed by Matching
  calls           \* [Callers -> Call]: the live local variables of each handler

redisVars == <<active, workflowQueue, activityQueue>>
vars == <<dbVars, redisVars, calls>>

--------------------------------------------------------------------------------
(* The local state of a call *)

MaxActivityAttempts == 3

\* A task to be pushed; "event" is the event it announces, not part of the payload.
Task == [kind : {"workflow", "activity"}, key : Keys, event : Nat,
         act : Activities \cup {NoActivity}, taskQueue : TaskQueueNames]

\* What a handler computes: the transaction, and the tasks to push after it.
Transaction == [status : Statuses, next : Nat, events : SUBSET Event,
                upserts : [Activities -> Activity],
                timers : SUBSET Timer, tasks : SUBSET Task]

Idle == [pc |-> "idle"]
Inserting == [pc : {"insert"}, key : Keys, taskQueue : TaskQueueNames]
Reading == [pc : {"read"}, rpc : ActivityRPCs, key : Keys, act : Activities, row : Execution]
Updating == [pc : {"update"}, key : Keys, row : Execution, txn : Transaction,
             then : {"publish", "peek"}]
Peeking == [pc : {"peek"}, key : Keys]
Publishing == [pc : {"publish"}, timers : SUBSET Timer, tasks : SUBSET Task]

Call == {Idle} \cup Inserting \cup Reading \cup Updating \cup Peeking \cup Publishing

QueuedTask == [key : Keys, act : Activities \cup {NoActivity}]

TypeOK ==
  /\ RepositoryTypeOK
  /\ active \in SUBSET Timer
  /\ workflowQueue \in Seq(QueuedTask)
  /\ activityQueue \in Seq(QueuedTask)
  /\ calls \in [Callers -> Call]

Init ==
  /\ RepositoryInit
  /\ active = {}
  /\ workflowQueue = <<>>
  /\ activityQueue = <<>>
  /\ calls = [c \in Callers |-> Idle]

--------------------------------------------------------------------------------
(* The transaction each handler builds from the rows it has read *)

\* One row per activity; the rows the transaction does not touch are "Absent".
NoUpserts == [a \in Activities |-> NoActivityState]

WorkflowTask(k, id, tq) ==
  [kind |-> "workflow", key |-> k, event |-> id, act |-> NoActivity, taskQueue |-> tq]

\* One event appended to the row, and nothing else.
AppendEvent(row, type, a) ==
  [status |-> row.status, next |-> row.next + 1,
   events |-> {NewEvent(row.next, type, a)},
   upserts |-> NoUpserts, timers |-> {}, tasks |-> {}]

WorkflowTaskStartedTxn(k, row) ==
  [AppendEvent(row, "WorkflowTaskStarted", NoActivity) EXCEPT
     !.timers = {[key |-> k, event |-> row.next, type |-> "WorkflowTaskTimeout",
                  act |-> NoActivity]}]

\* RecordWorkflowTaskCompleted: the event of the i-th command is row.next + i.
Scheduled(cmds) == {i \in DOMAIN cmds : cmds[i].type = "ScheduleActivityTask"}

ActivityQueue(cmd, row) ==
  IF cmd.taskQueue = "empty" THEN row.taskQueue ELSE cmd.taskQueue

CommandEvent ==
  [ScheduleActivityTask      |-> "ActivityTaskScheduled",
   StartTimer                |-> "TimerStarted",
   CompleteWorkflowExecution |-> "WorkflowExecutionCompleted"]

\* The row of a scheduled activity; the last command that names it wins.
ScheduledActivity(cmds, row, a) ==
  LET last(i) == cmds[i].act = a /\ \A j \in Scheduled(cmds) : cmds[j].act = a => j <= i
  IN  [status |-> "Scheduled", attempt |-> 1, lastHeartbeat |-> "nil",
       taskQueue |-> IF \E i \in Scheduled(cmds) :
                           last(i) /\ ActivityQueue(cmds[i], row) = "named"
                     THEN "named" ELSE "empty"]

WorkflowTaskCompletedTxn(k, row, cmds) ==
  [status |-> IF \E i \in DOMAIN cmds : cmds[i].type = "CompleteWorkflowExecution"
              THEN "Completed" ELSE row.status,
   next |-> row.next + 1 + Len(cmds),
   events |-> {NewEvent(row.next, "WorkflowTaskCompleted", NoActivity)}
      \cup {NewEvent(row.next + i, CommandEvent[cmds[i].type], cmds[i].act) : i \in DOMAIN cmds},
   upserts |-> [a \in Activities |->
      IF \E i \in Scheduled(cmds) : cmds[i].act = a THEN ScheduledActivity(cmds, row, a)
                                                    ELSE NoActivityState],
   timers |->
      {[key |-> k, event |-> row.next + i, type |-> "ActivityTimeout", act |-> cmds[i].act] :
         i \in Scheduled(cmds)}
      \cup
      {[key |-> k, event |-> row.next + i, type |-> "UserTimer", act |-> NoActivity] :
         i \in {j \in DOMAIN cmds : cmds[j].type = "StartTimer"}},
   tasks |->
      {[kind |-> "activity", key |-> k, event |-> row.next + i, act |-> cmds[i].act,
        taskQueue |-> ActivityQueue(cmds[i], row)] : i \in Scheduled(cmds)}]

\* Mutants: a status nothing else knows; NextEventID advanced by one event only.
WorkflowTaskCancelledTxn(row) ==
  [AppendEvent(row, "WorkflowTaskFailed", NoActivity) EXCEPT
     !.status = "Cancelled",
     !.next = row.next + 2,
     !.events = @ \cup {NewEvent(row.next + 1, "WorkflowExecutionFailed", NoActivity)}]

WorkflowTaskFailedOneEventTxn(row) ==
  [AppendEvent(row, "WorkflowTaskFailed", NoActivity) EXCEPT
     !.status = "Failed",
     !.events = @ \cup {NewEvent(row.next + 1, "WorkflowExecutionFailed", NoActivity)}]

WorkflowTaskFailedTxn(row) ==
  [AppendEvent(row, "WorkflowTaskFailed", NoActivity) EXCEPT
     !.status = "Failed",
     !.next = row.next + 2,
     !.events = @ \cup {NewEvent(row.next + 1, "WorkflowExecutionFailed", NoActivity)}]

\* The activity row is replaced whole: attempt 1, and no task queue.
ActivityTaskStartedTxn(row, a) ==
  [AppendEvent(row, "ActivityTaskStarted", a) EXCEPT
     !.upserts[a] = [status |-> "Started", attempt |-> 1,
                     taskQueue |-> "empty", lastHeartbeat |-> "set"]]

\* Mutant: the workflow is not woken.
ActivityTaskCompletedQuietlyTxn(k, row, a, arow) ==
  [AppendEvent(row, "ActivityTaskCompleted", a) EXCEPT
     !.upserts[a] = [arow EXCEPT !.status = "Completed", !.attempt = 1]]

ActivityTaskCompletedTxn(k, row, a, arow) ==
  [AppendEvent(row, "ActivityTaskCompleted", a) EXCEPT
     !.upserts[a] = [arow EXCEPT !.status = "Completed", !.attempt = 1],
     !.tasks = {WorkflowTask(k, row.next, row.taskQueue)}]

RetryActivityTxn(k, row, a, arow) ==
  [AppendEvent(row, "ActivityTaskFailed", a) EXCEPT
     !.upserts[a] = [arow EXCEPT !.status = "Failed", !.attempt = @ + 1],
     !.timers = {[key |-> k, event |-> row.next, type |-> "ActivityTimeout", act |-> a]}]

FailActivityTxn(k, row, a, arow) ==
  [AppendEvent(row, "ActivityTaskFailedFinally", a) EXCEPT
     !.upserts[a] = [arow EXCEPT !.status = "Failed"],
     !.tasks = {WorkflowTask(k, row.next, row.taskQueue)}]

\* Mutant: one attempt too many.
ActivityTaskFailedLateTxn(k, row, a, arow) ==
  IF arow.attempt <= MaxActivityAttempts THEN RetryActivityTxn(k, row, a, arow)
                                         ELSE FailActivityTxn(k, row, a, arow)

ActivityTaskFailedTxn(k, row, a, arow) ==
  IF arow.attempt < MaxActivityAttempts THEN RetryActivityTxn(k, row, a, arow)
                                        ELSE FailActivityTxn(k, row, a, arow)

HeartbeatTxn(row, a, arow) ==
  [status |-> row.status, next |-> row.next, events |-> {},
   upserts |-> [NoUpserts EXCEPT ![a] = [arow EXCEPT !.lastHeartbeat = "set"]],
   timers |-> {}, tasks |-> {}]

SignalTxn(k, row) ==
  [AppendEvent(row, "WorkflowExecutionSignaled", NoActivity) EXCEPT
     !.tasks = {WorkflowTask(k, row.next, row.taskQueue)}]

--------------------------------------------------------------------------------
(* Reading: the first step of each handler *)

\* A handler that returns before it writes (the row is not Running, a duplicate
\* start, a malformed command) changes nothing: such a call is not a step.
Enter(c, call) ==
  /\ calls[c] = Idle
  /\ calls' = [calls EXCEPT ![c] = call]
  /\ UNCHANGED <<dbVars, redisVars>>

\* The row of a run GetWorkflowExecution finds and the handler does not refuse.
RunningExecution(k) ==
  /\ executions[k].status = "Running"
  /\ executions[k].version < MaxVersion                        \* bound

Update(k, txn, then) ==
  [pc |-> "update", key |-> k, row |-> executions[k], txn |-> txn, then |-> then]

\* uuid.New: a run_id no row has and no other call has drawn.
FreshRun(k) ==
  /\ executions[k].status = "Absent"
  /\ \A d \in Callers : calls[d].pc = "insert" => calls[d].key # k

RecordWorkflowExecutionStarted(c, k, tq) ==
  /\ FindRunningWorkflow(k[1]) = {}
  /\ FreshRun(k)
  /\ Enter(c, [pc |-> "insert", key |-> k, taskQueue |-> tq])

RecordWorkflowTaskStarted(c, k) ==
  /\ RunningExecution(k)
  /\ Enter(c, Update(k, WorkflowTaskStartedTxn(k, executions[k]), "publish"))

RecordWorkflowTaskCompleted(c, k, cmds) ==
  /\ RunningExecution(k)
  /\ Enter(c, Update(k, WorkflowTaskCompletedTxn(k, executions[k], cmds), "publish"))

RecordWorkflowTaskFailed(c, k) ==
  /\ RunningExecution(k)
  /\ Enter(c, Update(k, WorkflowTaskFailedTxn(executions[k]), "publish"))

RecordActivityTaskStarted(c, k, a) ==
  /\ RunningExecution(k)
  /\ Enter(c, Update(k, ActivityTaskStartedTxn(executions[k], a), "publish"))

SignalWorkflowExecution(c, k) ==
  /\ RunningExecution(k)
  /\ Enter(c, Update(k, SignalTxn(k, executions[k]), "publish"))

\* RecordActivityTaskCompleted, RecordActivityTaskFailed and
\* RecordActivityTaskHeartbeat read the activity's row in a second statement.
RecordActivityTask(c, rpc, k, a) ==
  /\ RunningExecution(k)
  /\ Enter(c, [pc |-> "read", rpc |-> rpc, key |-> k, act |-> a, row |-> executions[k]])

ActivityTxn(rpc, k, row, a, arow) ==
  CASE rpc = "RecordActivityTaskCompleted" -> ActivityTaskCompletedTxn(k, row, a, arow)
    [] rpc = "RecordActivityTaskFailed"    -> ActivityTaskFailedTxn(k, row, a, arow)
    [] rpc = "RecordActivityTaskHeartbeat" -> HeartbeatTxn(row, a, arow)

GetActivityState(c) ==
  /\ calls[c].pc = "read"
  /\ LET cl == calls[c]
         arow == activities[cl.key][cl.act]
     IN  calls' = [calls EXCEPT ![c] =
           IF arow.status = "Absent" THEN Idle
           ELSE [pc   |-> "update", key |-> cl.key, row |-> cl.row,
                 txn  |-> ActivityTxn(cl.rpc, cl.key, cl.row, cl.act, arow),
                 then |-> IF cl.rpc = "RecordActivityTaskHeartbeat" THEN "peek" ELSE "publish"]]
  /\ UNCHANGED <<dbVars, redisVars>>

--------------------------------------------------------------------------------
(* Committing *)

\* Mutant: returns once the timers are scheduled.
PublishTimersOnly(timersLeft, tasksLeft) ==
  IF timersLeft = {} THEN Idle
  ELSE [pc |-> "publish", timers |-> timersLeft, tasks |-> tasksLeft]

\* What a call still has to publish; nothing left means it has returned.
Publish(timersLeft, tasksLeft) ==
  IF timersLeft = {} /\ tasksLeft = {} THEN Idle
  ELSE [pc |-> "publish", timers |-> timersLeft, tasks |-> tasksLeft]

\* The reply to a successful commit may be lost: the handler then returns an
\* error and publishes nothing.
AfterCommit(c, call) ==
  \/ calls' = [calls EXCEPT ![c] = call]
  \/ /\ "database" \in Faults
     /\ calls' = [calls EXCEPT ![c] = Idle]

InsertExecution(c) ==
  /\ calls[c].pc = "insert"
  /\ CreateWorkflowExecution(calls[c].key, calls[c].taskQueue)
  /\ AfterCommit(c, Publish({}, {WorkflowTask(calls[c].key, 1, calls[c].taskQueue)}))
  /\ UNCHANGED redisVars

CommitUpdate(c) ==
  /\ calls[c].pc = "update"
  /\ LET cl == calls[c]
     IN  /\ UpdateWorkflowExecution(cl.key, cl.row.version, cl.txn)
         /\ AfterCommit(c, IF cl.then = "peek" THEN [pc |-> "peek", key |-> cl.key]
                           ELSE Publish(cl.txn.timers, cl.txn.tasks))
  /\ UNCHANGED redisVars

\* Mutant: the error of the update is not returned, and its effects are published.
ConflictIgnored(c) ==
  /\ calls[c].pc = "update"
  /\ executions[calls[c].key].version # calls[c].row.version
  /\ calls' = [calls EXCEPT ![c] = Publish(calls[c].txn.timers, calls[c].txn.tasks)]
  /\ UNCHANGED <<dbVars, redisVars>>

\* ErrConcurrencyConflict, or a violated UNIQUE: the transaction rolls back and
\* the handler returns an error.
RollbackUpdate(c) ==
  /\ calls[c].pc = "update"
  /\ \/ executions[calls[c].key].version # calls[c].row.version
     \/ \E e \in calls[c].txn.events, h \in history[calls[c].key] : e.id = h.id
  /\ calls' = [calls EXCEPT ![c] = Idle]
  /\ UNCHANGED <<dbVars, redisVars>>

\* Any statement may fail; the handler returns and nothing is written.
StatementFails(c) ==
  /\ "database" \in Faults
  /\ calls[c].pc \in {"insert", "read", "update", "peek"}
  /\ calls' = [calls EXCEPT ![c] = Idle]
  /\ UNCHANGED <<dbVars, redisVars>>

\* The heartbeat looks for a timer to push forward.
PeekTimeoutTimer(c) ==
  /\ calls[c].pc = "peek"
  /\ \/ \E t \in GetActivityTimeoutTimer(calls[c].key) :
          calls' = [calls EXCEPT ![c] = Publish({t}, {})]
     \/ calls' = [calls EXCEPT ![c] = Idle]
  /\ UNCHANGED <<dbVars, redisVars>>

--------------------------------------------------------------------------------
(* Publishing: all timers, then all tasks, each in the order of their events; *)
(* a failure is logged and the handler goes on.                               *)

FirstOf(S) == {x \in S : \A y \in S : x.event <= y.event}

ScheduleTimer(c, t) ==
  /\ calls[c].pc = "publish"
  /\ t \in FirstOf(calls[c].timers)
  /\ \/ active' = active \cup {t}
     \/ "redis" \in Faults /\ UNCHANGED active
  /\ calls' = [calls EXCEPT ![c] = Publish(calls[c].timers \ {t}, calls[c].tasks)]
  /\ UNCHANGED <<dbVars, workflowQueue, activityQueue>>

\* Mutant: a push whose reply is lost is tried again.
AddTaskRetried(c, t) ==
  /\ calls[c].pc = "publish"
  /\ calls[c].timers = {}
  /\ t \in FirstOf(calls[c].tasks)
  /\ \/ /\ t.kind = "workflow"
        /\ workflowQueue' = Append(workflowQueue, [key |-> t.key, act |-> t.act])
        /\ UNCHANGED activityQueue
     \/ /\ t.kind = "activity"
        /\ activityQueue' = Append(activityQueue, [key |-> t.key, act |-> t.act])
        /\ UNCHANGED workflowQueue
  /\ \/ calls' = [calls EXCEPT ![c] = Publish({}, calls[c].tasks \ {t})]
     \/ "matching" \in Faults /\ UNCHANGED calls
  /\ UNCHANGED <<dbVars, active>>

\* AddWorkflowTask and AddActivityTask refuse an empty task queue.
AddTask(c, t) ==
  /\ calls[c].pc = "publish"
  /\ calls[c].timers = {}
  /\ t \in FirstOf(calls[c].tasks)
  /\ \/ /\ t.taskQueue = "named" /\ t.kind = "workflow"
        /\ workflowQueue' = Append(workflowQueue, [key |-> t.key, act |-> t.act])
        /\ UNCHANGED activityQueue
     \/ /\ t.taskQueue = "named" /\ t.kind = "activity"
        /\ activityQueue' = Append(activityQueue, [key |-> t.key, act |-> t.act])
        /\ UNCHANGED workflowQueue
     \/ /\ t.taskQueue = "empty" \/ "matching" \in Faults
        /\ UNCHANGED <<workflowQueue, activityQueue>>
  /\ calls' = [calls EXCEPT ![c] = Publish({}, calls[c].tasks \ {t})]
  /\ UNCHANGED <<dbVars, active>>

--------------------------------------------------------------------------------
\* The process dies and restarts: every call in flight is forgotten.
Crash ==
  /\ "crash" \in Faults
  /\ calls' = [c \in Callers |-> Idle]
  /\ UNCHANGED <<dbVars, redisVars>>

Request(c) ==
  \E k \in Keys :
    \/ /\ "RecordWorkflowExecutionStarted" \in RPCs
       /\ \E tq \in TaskQueueNames : RecordWorkflowExecutionStarted(c, k, tq)
    \/ "RecordWorkflowTaskStarted" \in RPCs /\ RecordWorkflowTaskStarted(c, k)
    \/ \E cmds \in Batches : RecordWorkflowTaskCompleted(c, k, cmds)
    \/ "RecordWorkflowTaskFailed" \in RPCs /\ RecordWorkflowTaskFailed(c, k)
    \/ "SignalWorkflowExecution" \in RPCs /\ SignalWorkflowExecution(c, k)
    \/ \E a \in Activities :
         \/ "RecordActivityTaskStarted" \in RPCs /\ RecordActivityTaskStarted(c, k, a)
         \/ \E rpc \in ActivityRPCs \cap RPCs : RecordActivityTask(c, rpc, k, a)

\* The steps of a call that has been admitted, other than failing.
Proceed(c) ==
  \/ GetActivityState(c)
  \/ InsertExecution(c)
  \/ CommitUpdate(c)
  \/ RollbackUpdate(c)
  \/ PeekTimeoutTimer(c)
  \/ calls[c].pc = "publish" /\ \E t \in calls[c].timers : ScheduleTimer(c, t)
  \/ calls[c].pc = "publish" /\ \E t \in calls[c].tasks : AddTask(c, t)

Next ==
  \/ \E c \in Callers : Request(c) \/ Proceed(c) \/ StatementFails(c)
  \/ Crash

Spec == Init /\ [][Next]_vars

\* A goroutine of the gRPC server that can take a step eventually takes it.
FairSpec == Spec /\ \A c \in Callers : WF_vars(Proceed(c))
================================================================================
