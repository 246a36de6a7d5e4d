------------------------- MODULE HistoryInvariantProofs -------------------------
(***************************************************************************)
(* The History service, for every value of the constants: its states are   *)
(* well typed, the history of a run is exact under every interleaving      *)
(* (HistoryInv is inductive), a closed run is frozen, and the event store  *)
(* implements the abstract log.                                            *)
(***************************************************************************)
EXTENDS HistoryProperties, TLAPS

USE DEF Statuses, ClosedStatuses, TaskQueueNames

LEMMA NewEventType ==
  ASSUME NEW id \in Nat, NEW type \in EventTypes, NEW a \in Activities \cup {NoActivity}
  PROVE  NewEvent(id, type, a) \in Event
  BY DEF NewEvent, Event

LEMMA WorkflowTaskType ==
  ASSUME NEW k \in Keys, NEW id \in Nat, NEW tq \in TaskQueueNames
  PROVE  WorkflowTask(k, id, tq) \in Task
  BY DEF WorkflowTask, Task

LEMMA NoActivityStateType == NoActivityState \in Activity
  BY DEF NoActivityState, Activity, ActivityStatuses

LEMMA AppendEventType ==
  ASSUME NEW row \in Execution, NEW type \in EventTypes,
         NEW a \in Activities \cup {NoActivity}
  PROVE  AppendEvent(row, type, a) \in Transaction
  BY NewEventType, NoActivityStateType DEF AppendEvent, NoUpserts, Transaction, Execution

\* Each handler builds a well-typed transaction from well-typed rows.
LEMMA WorkflowTaskStartedType ==
  ASSUME NEW k \in Keys, NEW row \in Execution
  PROVE  WorkflowTaskStartedTxn(k, row) \in Transaction
  <1>1. AppendEvent(row, "WorkflowTaskStarted", NoActivity) \in Transaction
    BY AppendEventType DEF EventTypes
  <1>2. [key |-> k, event |-> row.next, type |-> "WorkflowTaskTimeout", act |-> NoActivity]
          \in Timer
    BY DEF Timer, TimerTypes, Execution
  <1> QED BY <1>1, <1>2 DEF WorkflowTaskStartedTxn, Transaction

LEMMA WorkflowTaskFailedType ==
  ASSUME NEW row \in Execution
  PROVE  WorkflowTaskFailedTxn(row) \in Transaction
  <1>1. AppendEvent(row, "WorkflowTaskFailed", NoActivity) \in Transaction
    BY AppendEventType DEF EventTypes
  <1>2. NewEvent(row.next + 1, "WorkflowExecutionFailed", NoActivity) \in Event
    BY NewEventType DEF EventTypes, Execution
  <1>3. row.next + 2 \in Nat
    BY DEF Execution
  <1> QED BY <1>1, <1>2, <1>3 DEF WorkflowTaskFailedTxn, Transaction

LEMMA ActivityTaskStartedType ==
  ASSUME NEW row \in Execution, NEW a \in Activities
  PROVE  ActivityTaskStartedTxn(row, a) \in Transaction
  <1>1. AppendEvent(row, "ActivityTaskStarted", a) \in Transaction
    BY AppendEventType DEF EventTypes
  <1> QED BY <1>1 DEF ActivityTaskStartedTxn, Transaction, Activity, ActivityStatuses

LEMMA SignalType ==
  ASSUME NEW k \in Keys, NEW row \in Execution
  PROVE  SignalTxn(k, row) \in Transaction
  <1>1. AppendEvent(row, "WorkflowExecutionSignaled", NoActivity) \in Transaction
    BY AppendEventType DEF EventTypes
  <1>2. WorkflowTask(k, row.next, row.taskQueue) \in Task
    BY WorkflowTaskType DEF Execution
  <1> QED BY <1>1, <1>2 DEF SignalTxn, Transaction

LEMMA ActivityType ==
  ASSUME NEW k \in Keys, NEW row \in Execution, NEW a \in Activities,
         NEW arow \in Activity, NEW rpc \in ActivityRPCs
  PROVE  ActivityTxn(rpc, k, row, a, arow) \in Transaction
  <1>1. ActivityTaskCompletedTxn(k, row, a, arow) \in Transaction
    <2>1. AppendEvent(row, "ActivityTaskCompleted", a) \in Transaction
      BY AppendEventType DEF EventTypes
    <2>2. WorkflowTask(k, row.next, row.taskQueue) \in Task
      BY WorkflowTaskType DEF Execution
    <2>3. [arow EXCEPT !.status = "Completed", !.attempt = 1] \in Activity
      BY DEF Activity, ActivityStatuses
    <2> QED BY <2>1, <2>2, <2>3 DEF ActivityTaskCompletedTxn, Transaction
  <1>2. RetryActivityTxn(k, row, a, arow) \in Transaction
    <2>1. AppendEvent(row, "ActivityTaskFailed", a) \in Transaction
      BY AppendEventType DEF EventTypes
    <2>2. [key |-> k, event |-> row.next, type |-> "ActivityTimeout", act |-> a] \in Timer
      BY DEF Timer, TimerTypes, Execution
    <2>3. arow.attempt + 1 \in Nat
      BY DEF Activity
    <2>4. [arow EXCEPT !.status = "Failed", !.attempt = @ + 1] \in Activity
      BY <2>3 DEF Activity, ActivityStatuses
    <2> QED BY <2>1, <2>2, <2>4 DEF RetryActivityTxn, Transaction
  <1>3. FailActivityTxn(k, row, a, arow) \in Transaction
    <2>1. AppendEvent(row, "ActivityTaskFailedFinally", a) \in Transaction
      BY AppendEventType DEF EventTypes
    <2>2. WorkflowTask(k, row.next, row.taskQueue) \in Task
      BY WorkflowTaskType DEF Execution
    <2>3. [arow EXCEPT !.status = "Failed"] \in Activity
      BY DEF Activity, ActivityStatuses
    <2> QED BY <2>1, <2>2, <2>3 DEF FailActivityTxn, Transaction
  <1>4. HeartbeatTxn(row, a, arow) \in Transaction
    <2>1. [arow EXCEPT !.lastHeartbeat = "set"] \in Activity
      BY DEF Activity
    <2> QED BY <2>1, NoActivityStateType DEF HeartbeatTxn, NoUpserts, Transaction, Execution
  <1> QED BY <1>1, <1>2, <1>3, <1>4 DEF ActivityTxn, ActivityTaskFailedTxn, ActivityRPCs

LEMMA WorkflowTaskCompletedType ==
  ASSUME NEW k \in Keys, NEW row \in Execution, NEW cmds \in Batches
  PROVE  WorkflowTaskCompletedTxn(k, row, cmds) \in Transaction
  <1> DEFINE txn == WorkflowTaskCompletedTxn(k, row, cmds)
  <1>1. /\ cmds \in Seq(Command)
        /\ Scheduled(cmds) \subseteq DOMAIN cmds
        /\ \A i \in Scheduled(cmds) : cmds[i].act \in Activities
        /\ \A i \in DOMAIN cmds : i \in Nat /\ cmds[i] \in Command
    BY ServiceAssumption DEF Scheduled
  <1>2. row.next \in Nat /\ row.status \in Statuses /\ row.taskQueue \in TaskQueueNames
    BY DEF Execution
  <1>3. txn.status \in Statuses
    BY <1>2 DEF WorkflowTaskCompletedTxn
  <1>4. txn.next \in Nat
    BY <1>1, <1>2 DEF WorkflowTaskCompletedTxn
  <1>5. txn.events \in SUBSET Event
    <2>1. NewEvent(row.next, "WorkflowTaskCompleted", NoActivity) \in Event
      BY <1>2, NewEventType DEF EventTypes
    <2>2. ASSUME NEW i \in DOMAIN cmds
          PROVE  NewEvent(row.next + i, CommandEvent[cmds[i].type], cmds[i].act) \in Event
      <3>1. cmds[i].type \in CommandTypes /\ cmds[i].act \in Activities \cup {NoActivity}
        BY <1>1 DEF Command
      <3>2. CommandEvent[cmds[i].type] \in EventTypes
        BY <3>1 DEF CommandEvent, CommandTypes, EventTypes
      <3> QED BY <1>1, <1>2, <3>1, <3>2, NewEventType
    <2> QED BY <2>1, <2>2 DEF WorkflowTaskCompletedTxn
  <1>6. txn.upserts \in [Activities -> Activity]
    <2>1. ASSUME NEW a \in Activities PROVE ScheduledActivity(cmds, row, a) \in Activity
      BY DEF ScheduledActivity, Activity, ActivityStatuses
    <2> QED BY <2>1, NoActivityStateType DEF WorkflowTaskCompletedTxn
  <1>7. txn.timers \in SUBSET Timer
    BY <1>1, <1>2 DEF WorkflowTaskCompletedTxn, Timer, TimerTypes
  <1>8. txn.tasks \in SUBSET Task
    <2>1. ASSUME NEW i \in Scheduled(cmds)
          PROVE  ActivityQueue(cmds[i], row) \in TaskQueueNames
      BY <1>1, <1>2 DEF ActivityQueue, Command
    <2> QED BY <1>1, <1>2, <2>1 DEF WorkflowTaskCompletedTxn, Task
  <1> QED BY <1>3, <1>4, <1>5, <1>6, <1>7, <1>8 DEF WorkflowTaskCompletedTxn, Transaction

--------------------------------------------------------------------------------
(* Type correctness *)

\* What a live call holds, by its program counter.
LEMMA CallShape ==
  ASSUME TypeOK, NEW c \in Callers
  PROVE  /\ calls[c] \in Call
         /\ calls[c].pc = "insert" => calls[c] \in Inserting
         /\ calls[c].pc = "read" => calls[c] \in Reading
         /\ calls[c].pc = "update" => calls[c] \in Updating
         /\ calls[c].pc = "peek" => calls[c] \in Peeking
         /\ calls[c].pc = "publish" => calls[c] \in Publishing
  BY DEF TypeOK, Call, Idle, Inserting, Reading, Updating, Peeking, Publishing

LEMMA PublishType ==
  ASSUME NEW T \in SUBSET Timer, NEW W \in SUBSET Task
  PROVE  Publish(T, W) \in Call
  BY DEF Publish, Call, Publishing

LEMMA EnterType ==
  ASSUME TypeOK, NEW c \in Callers, NEW call \in Call, Enter(c, call)
  PROVE  TypeOK'
  BY DEF TypeOK, RepositoryTypeOK, Enter, dbVars, redisVars

LEMMA CallsOnlyType ==
  ASSUME TypeOK, NEW c \in Callers, NEW call \in Call,
         calls' = [calls EXCEPT ![c] = call], UNCHANGED <<dbVars, redisVars>>
  PROVE  TypeOK'
  BY DEF TypeOK, RepositoryTypeOK, dbVars, redisVars

LEMMA UpdateCallType ==
  ASSUME TypeOK, NEW k \in Keys, NEW txn \in Transaction
  PROVE  Update(k, txn, "publish") \in Call
  BY DEF TypeOK, RepositoryTypeOK, Update, Call, Updating

LEMMA RequestType ==
  ASSUME TypeOK, NEW c \in Callers, Request(c)
  PROVE  TypeOK'
  <1>1. PICK k \in Keys :
          \/ \E tq \in TaskQueueNames : RecordWorkflowExecutionStarted(c, k, tq)
          \/ RecordWorkflowTaskStarted(c, k)
          \/ \E cmds \in Batches : RecordWorkflowTaskCompleted(c, k, cmds)
          \/ RecordWorkflowTaskFailed(c, k)
          \/ SignalWorkflowExecution(c, k)
          \/ \E a \in Activities : RecordActivityTaskStarted(c, k, a)
          \/ \E a \in Activities : \E rpc \in ActivityRPCs : RecordActivityTask(c, rpc, k, a)
    BY DEF Request
  <1>2. executions[k] \in Execution
    BY DEF TypeOK, RepositoryTypeOK
  <1>3. CASE \E tq \in TaskQueueNames : RecordWorkflowExecutionStarted(c, k, tq)
    <2>1. PICK tq \in TaskQueueNames : RecordWorkflowExecutionStarted(c, k, tq)
      BY <1>3
    <2>2. [pc |-> "insert", key |-> k, taskQueue |-> tq] \in Call
      BY DEF Call, Inserting
    <2> QED BY <2>1, <2>2, EnterType DEF RecordWorkflowExecutionStarted
  <1>4. CASE RecordWorkflowTaskStarted(c, k)
    BY <1>2, <1>4, WorkflowTaskStartedType, UpdateCallType, EnterType
    DEF RecordWorkflowTaskStarted
  <1>5. CASE \E cmds \in Batches : RecordWorkflowTaskCompleted(c, k, cmds)
    BY <1>2, <1>5, WorkflowTaskCompletedType, UpdateCallType, EnterType
    DEF RecordWorkflowTaskCompleted
  <1>6. CASE RecordWorkflowTaskFailed(c, k)
    BY <1>2, <1>6, WorkflowTaskFailedType, UpdateCallType, EnterType
    DEF RecordWorkflowTaskFailed
  <1>7. CASE SignalWorkflowExecution(c, k)
    BY <1>2, <1>7, SignalType, UpdateCallType, EnterType DEF SignalWorkflowExecution
  <1>8. CASE \E a \in Activities : RecordActivityTaskStarted(c, k, a)
    BY <1>2, <1>8, ActivityTaskStartedType, UpdateCallType, EnterType
    DEF RecordActivityTaskStarted
  <1>9. CASE \E a \in Activities : \E rpc \in ActivityRPCs : RecordActivityTask(c, rpc, k, a)
    <2>1. PICK a \in Activities, rpc \in ActivityRPCs : RecordActivityTask(c, rpc, k, a)
      BY <1>9
    <2>2. [pc |-> "read", rpc |-> rpc, key |-> k, act |-> a, row |-> executions[k]] \in Call
      BY <1>2 DEF Call, Reading
    <2> QED BY <2>1, <2>2, EnterType DEF RecordActivityTask
  <1> QED BY <1>1, <1>3, <1>4, <1>5, <1>6, <1>7, <1>8, <1>9

LEMMA GetActivityStateType ==
  ASSUME TypeOK, NEW c \in Callers, GetActivityState(c)
  PROVE  TypeOK'
  <1> DEFINE cl == calls[c]
             arow == activities[cl.key][cl.act]
             txn == ActivityTxn(cl.rpc, cl.key, cl.row, cl.act, arow)
  <1>1. cl \in Reading
    BY CallShape DEF GetActivityState
  <1>2. arow \in Activity
    BY <1>1 DEF TypeOK, RepositoryTypeOK, Reading
  <1>3. txn \in Transaction
    BY <1>1, <1>2, ActivityType DEF Reading
  <1>4. ASSUME NEW then \in {"publish", "peek"}
        PROVE  [pc |-> "update", key |-> cl.key, row |-> cl.row, txn |-> txn, then |-> then]
                 \in Call
    <2> HIDE DEF txn
    <2> QED BY <1>1, <1>3 DEF Call, Reading, Updating
  <1>5. Idle \in Call
    BY DEF Call
  <1>6. PICK call \in Call : calls' = [calls EXCEPT ![c] = call]
    BY <1>4, <1>5 DEF GetActivityState
  <1> QED BY <1>6, CallsOnlyType DEF GetActivityState

LEMMA InsertExecutionType ==
  ASSUME TypeOK, NEW c \in Callers, InsertExecution(c)
  PROVE  TypeOK'
  <1> DEFINE k == calls[c].key
             tq == calls[c].taskQueue
  <1>1. k \in Keys /\ tq \in TaskQueueNames
    BY CallShape DEF InsertExecution, Inserting
  <1>2. executions' \in [Keys -> Execution]
    BY <1>1 DEF TypeOK, RepositoryTypeOK, InsertExecution, CreateWorkflowExecution, Execution
  <1>3. NewEvent(1, "WorkflowExecutionStarted", NoActivity) \in Event
    BY NewEventType DEF EventTypes
  <1>4. history' \in [Keys -> SUBSET Event]
    BY <1>1, <1>3 DEF TypeOK, RepositoryTypeOK, InsertExecution, CreateWorkflowExecution
  <1>5. Publish({}, {WorkflowTask(k, 1, tq)}) \in Call /\ Idle \in Call
    BY <1>1, WorkflowTaskType, PublishType DEF Call
  <1>6. calls' \in [Callers -> Call]
    BY <1>5 DEF TypeOK, InsertExecution, AfterCommit
  <1> QED BY <1>2, <1>4, <1>6
          DEF TypeOK, RepositoryTypeOK, InsertExecution, CreateWorkflowExecution, redisVars

LEMMA CommitUpdateType ==
  ASSUME TypeOK, NEW c \in Callers, CommitUpdate(c)
  PROVE  TypeOK'
  <1> DEFINE cl == calls[c]
  <1>1. cl.key \in Keys /\ cl.row \in Execution /\ cl.txn \in Transaction
    BY CallShape DEF CommitUpdate, Updating
  <1>2. UpdateWorkflowExecution(cl.key, cl.row.version, cl.txn)
    BY DEF CommitUpdate
  <1>3. executions' \in [Keys -> Execution]
    BY <1>1, <1>2
    DEF TypeOK, RepositoryTypeOK, UpdateWorkflowExecution, WriteRow, Execution, Transaction
  <1>4. /\ history' \in [Keys -> SUBSET Event]
        /\ activities' \in [Keys -> [Activities -> Activity]]
        /\ timers' \in SUBSET Timer
        /\ fired' \in SUBSET Timer
    BY <1>1, <1>2
    DEF TypeOK, RepositoryTypeOK, UpdateWorkflowExecution, WriteTables, Transaction
  <1>5. calls' \in [Callers -> Call]
    <2>1. Publish(cl.txn.timers, cl.txn.tasks) \in Call
      BY <1>1, PublishType DEF Transaction
    <2>2. [pc |-> "peek", key |-> cl.key] \in Call /\ Idle \in Call
      BY <1>1 DEF Call, Peeking
    <2> QED BY <2>1, <2>2 DEF TypeOK, CommitUpdate, AfterCommit
  <1> QED BY <1>3, <1>4, <1>5 DEF TypeOK, RepositoryTypeOK, CommitUpdate, redisVars

LEMMA AppendType ==
  ASSUME NEW queue \in Seq(QueuedTask), NEW task \in QueuedTask
  PROVE  Append(queue, task) \in Seq(QueuedTask)
  OBVIOUS

LEMMA PublishStepType ==
  ASSUME TypeOK, NEW c \in Callers,
         \/ PeekTimeoutTimer(c)
         \/ \E t \in calls[c].timers : ScheduleTimer(c, t)
         \/ \E t \in calls[c].tasks : AddTask(c, t)
  PROVE  TypeOK'
  <1>1. CASE PeekTimeoutTimer(c)
    <2>1. ASSUME NEW t \in GetActivityTimeoutTimer(calls[c].key)
          PROVE  Publish({t}, {}) \in Call
      BY PublishType DEF GetActivityTimeoutTimer, TypeOK, RepositoryTypeOK
    <2>2. Idle \in Call
      BY DEF Call
    <2> QED BY <1>1, <2>1, <2>2, CallsOnlyType DEF PeekTimeoutTimer
  <1>2. CASE \E t \in calls[c].timers : ScheduleTimer(c, t)
    <2>1. PICK t \in calls[c].timers : ScheduleTimer(c, t)
      BY <1>2
    <2>2. calls[c].timers \subseteq Timer /\ calls[c].tasks \subseteq Task
      BY <2>1, CallShape DEF ScheduleTimer, Publishing
    <2>3. Publish(calls[c].timers \ {t}, calls[c].tasks) \in Call
      BY <2>2, PublishType
    <2> QED BY <2>1, <2>2, <2>3 DEF TypeOK, RepositoryTypeOK, ScheduleTimer, dbVars
  <1>3. CASE \E t \in calls[c].tasks : AddTask(c, t)
    <2>1. PICK t \in calls[c].tasks : AddTask(c, t)
      BY <1>3
    <2>2. calls[c].tasks \subseteq Task
      BY <2>1, CallShape DEF AddTask, Publishing
    <2>3. Publish({}, calls[c].tasks \ {t}) \in Call
      BY <2>2, PublishType
    <2>4. [key |-> t.key, act |-> t.act] \in QueuedTask
      BY <2>2 DEF Task, QueuedTask
    <2>5. /\ Append(workflowQueue, [key |-> t.key, act |-> t.act]) \in Seq(QueuedTask)
          /\ Append(activityQueue, [key |-> t.key, act |-> t.act]) \in Seq(QueuedTask)
      BY <2>4, AppendType DEF TypeOK
    <2>6. workflowQueue' \in Seq(QueuedTask) /\ activityQueue' \in Seq(QueuedTask)
      BY <2>1, <2>5 DEF TypeOK, AddTask
    <2> QED BY <2>1, <2>3, <2>6 DEF TypeOK, RepositoryTypeOK, AddTask, dbVars
  <1> QED BY <1>1, <1>2, <1>3

LEMMA TypeStep == TypeOK /\ [Next]_vars => TypeOK'
  <1> SUFFICES ASSUME TypeOK, [Next]_vars PROVE TypeOK'
    OBVIOUS
  <1>1. Idle \in Call
    BY DEF Call
  <1>2. ASSUME NEW c \in Callers, Request(c) PROVE TypeOK'
    BY <1>2, RequestType
  <1>3. ASSUME NEW c \in Callers, Proceed(c) PROVE TypeOK'
    <2>1. CASE GetActivityState(c)
      BY <2>1, GetActivityStateType
    <2>2. CASE InsertExecution(c)
      BY <2>2, InsertExecutionType
    <2>3. CASE CommitUpdate(c)
      BY <2>3, CommitUpdateType
    <2>4. CASE RollbackUpdate(c)
      BY <1>1, <2>4, CallsOnlyType DEF RollbackUpdate
    <2> QED BY <1>3, <2>1, <2>2, <2>3, <2>4, PublishStepType DEF Proceed
  <1>4. ASSUME NEW c \in Callers, StatementFails(c) PROVE TypeOK'
    BY <1>1, <1>4, CallsOnlyType DEF StatementFails
  <1>5. CASE Crash
    BY <1>1, <1>5 DEF TypeOK, RepositoryTypeOK, Crash, dbVars, redisVars
  <1>6. CASE UNCHANGED vars
    BY <1>6 DEF TypeOK, RepositoryTypeOK, vars, dbVars, redisVars
  <1> QED BY <1>2, <1>3, <1>4, <1>5, <1>6 DEF Next

LEMMA InitType == Init => TypeOK
  <1> SUFFICES ASSUME Init PROVE TypeOK
    OBVIOUS
  <1>1. NoExecution \in Execution
    BY DEF NoExecution, Execution
  <1>2. RepositoryTypeOK
    BY <1>1, NoActivityStateType DEF Init, RepositoryInit, RepositoryTypeOK
  <1>3. calls \in [Callers -> Call] /\ active = {} /\ workflowQueue = <<>> /\ activityQueue = <<>>
    BY DEF Init, Call
  <1> QED BY <1>2, <1>3 DEF TypeOK

\* Every reachable state is well typed, whatever the sets of runs, activities and
\* callers, the command batches, the faults and the bound.
THEOREM TypeCorrect == Spec => []TypeOK
  BY InitType, TypeStep, PTL DEF Spec

--------------------------------------------------------------------------------
(* Every handler's transaction fits the Running row it was built from *)

LEMMA OneEventFits ==
  ASSUME NEW row \in Execution, row.status = "Running", NEW txn, NEW type, NEW a,
         txn.status = row.status, txn.next = row.next + 1,
         txn.events = {NewEvent(row.next, type, a)}, type \notin DOMAIN Outcome
  PROVE  FitsRow(row, txn)
  <1>1. row.next \in Nat
    BY DEF Execution
  <1>2. {e.id : e \in txn.events} = {row.next}
    BY DEF NewEvent
  <1>3. row.next .. txn.next - 1 = {row.next}
    BY <1>1
  <1>4. {f \in txn.events : f.type \in DOMAIN Outcome} = {}
    BY DEF NewEvent
  <1>5. {Outcome[e.type] : e \in {f \in txn.events : f.type \in DOMAIN Outcome}} = {}
    BY <1>4, Zenon
  <1> QED BY <1>1, <1>2, <1>3, <1>5 DEF FitsRow

LEMMA WorkflowTaskFailedFits ==
  ASSUME NEW row \in Execution, row.status = "Running"
  PROVE  FitsRow(row, WorkflowTaskFailedTxn(row))
  <1> DEFINE txn == WorkflowTaskFailedTxn(row)
             first == NewEvent(row.next, "WorkflowTaskFailed", NoActivity)
             second == NewEvent(row.next + 1, "WorkflowExecutionFailed", NoActivity)
  <1>1. row.next \in Nat
    BY DEF Execution
  <1>2. txn.status = "Failed" /\ txn.next = row.next + 2 /\ txn.events = {first, second}
    BY DEF WorkflowTaskFailedTxn, AppendEvent
  <1>3. first.id = row.next /\ second.id = row.next + 1
    BY DEF NewEvent
  <1>4. {e.id : e \in txn.events} = row.next .. txn.next - 1
    BY <1>1, <1>2, <1>3
  <1>5. {f \in txn.events : f.type \in DOMAIN Outcome} = {second}
    BY <1>2 DEF NewEvent, Outcome
  <1>6. {Outcome[e.type] : e \in {f \in txn.events : f.type \in DOMAIN Outcome}} = {"Failed"}
    <2>1. Outcome[second.type] = "Failed"
      BY DEF NewEvent, Outcome
    <2> HIDE DEF txn, second
    <2> QED BY <1>5, <2>1
  <1> QED BY <1>1, <1>2, <1>3, <1>4, <1>6 DEF FitsRow

LEMMA WorkflowTaskCompletedFits ==
  ASSUME NEW k \in Keys, NEW row \in Execution, row.status = "Running", NEW cmds \in Batches
  PROVE  FitsRow(row, WorkflowTaskCompletedTxn(k, row, cmds))
  <1> DEFINE txn == WorkflowTaskCompletedTxn(k, row, cmds)
             n == Len(cmds)
             first == NewEvent(row.next, "WorkflowTaskCompleted", NoActivity)
             event(i) == NewEvent(row.next + i, CommandEvent[cmds[i].type], cmds[i].act)
  <1>1. /\ row.next \in Nat /\ n \in Nat /\ DOMAIN cmds = 1 .. n
        /\ \A i \in 1 .. n : cmds[i].type \in CommandTypes
    <2>1. row.next \in Nat
      BY DEF Execution
    <2>2. cmds \in Seq(Command)
      BY ServiceAssumption
    <2>3. n \in Nat /\ DOMAIN cmds = 1 .. n /\ \A i \in 1 .. n : cmds[i] \in Command
      BY <2>2
    <2> QED BY <2>1, <2>3 DEF Command
  <1>2. /\ txn.next = row.next + 1 + n
        /\ txn.events = {first} \cup {event(i) : i \in 1 .. n}
        /\ txn.status = IF \E i \in 1 .. n : cmds[i].type = "CompleteWorkflowExecution"
                        THEN "Completed" ELSE "Running"
    BY <1>1 DEF WorkflowTaskCompletedTxn
  <1>3. first.id = row.next /\ first.type = "WorkflowTaskCompleted"
    BY DEF NewEvent
  <1>4. \A i \in 1 .. n : event(i).id = row.next + i /\ event(i).type = CommandEvent[cmds[i].type]
    BY DEF NewEvent
  <1> HIDE DEF txn, n, first, event
  <1>5. {e.id : e \in txn.events} = row.next .. txn.next - 1
    <2>1. \A e \in txn.events : e.id \in row.next .. txn.next - 1
      BY <1>1, <1>2, <1>3, <1>4
    <2>2. ASSUME NEW m \in row.next .. txn.next - 1
          PROVE  \E e \in txn.events : e.id = m
      <3>1. CASE m = row.next
        BY <3>1, <1>2, <1>3
      <3>2. CASE m # row.next
        <4>1. m - row.next \in 1 .. n /\ row.next + (m - row.next) = m
          BY <3>2, <1>1, <1>2
        <4> QED BY <4>1, <1>2, <1>4
      <3> QED BY <3>1, <3>2
    <2> QED BY <2>1, <2>2
  <1>6. \A e, f \in txn.events : e.id = f.id => e = f
    <2>1. \A i, j \in 1 .. n : event(i).id = event(j).id => i = j
      BY <1>1, <1>4
    <2>2. \A i \in 1 .. n : event(i).id # first.id
      BY <1>1, <1>3, <1>4
    <2> QED BY <1>2, <2>1, <2>2
  <1>7. {Outcome[e.type] : e \in {f \in txn.events : f.type \in DOMAIN Outcome}}
          = IF txn.status = "Running" THEN {} ELSE {txn.status}
    <2>1. first.type \notin DOMAIN Outcome
      BY <1>3 DEF Outcome
    <2>2. \A i \in 1 .. n : event(i).type \in DOMAIN Outcome
                              <=> cmds[i].type = "CompleteWorkflowExecution"
      BY <1>1, <1>4 DEF Outcome, CommandEvent, CommandTypes
    <2>3. \A i \in 1 .. n : cmds[i].type = "CompleteWorkflowExecution"
                              => Outcome[event(i).type] = "Completed"
      BY <1>4 DEF Outcome, CommandEvent
    <2>4. CASE \E i \in 1 .. n : cmds[i].type = "CompleteWorkflowExecution"
      BY <1>2, <2>1, <2>2, <2>3, <2>4
    <2>5. CASE \A i \in 1 .. n : cmds[i].type # "CompleteWorkflowExecution"
      BY <1>2, <2>1, <2>2, <2>5
    <2> QED BY <2>4, <2>5
  <1>8. row.next <= txn.next /\ txn.status # "Absent"
    BY <1>1, <1>2
  <1> QED BY <1>5, <1>6, <1>7, <1>8 DEF FitsRow, txn

LEMMA ActivityFits ==
  ASSUME NEW k \in Keys, NEW row \in Execution, row.status = "Running", NEW a \in Activities,
         NEW arow \in Activity, NEW rpc \in ActivityRPCs
  PROVE  FitsRow(row, ActivityTxn(rpc, k, row, a, arow))
  <1>1. FitsRow(row, ActivityTaskCompletedTxn(k, row, a, arow))
    <2> DEFINE txn == ActivityTaskCompletedTxn(k, row, a, arow)
    <2>1. "ActivityTaskCompleted" \notin DOMAIN Outcome
      BY DEF Outcome
    <2>2. /\ txn.status = row.status /\ txn.next = row.next + 1
          /\ txn.events = {NewEvent(row.next, "ActivityTaskCompleted", a)}
      BY DEF ActivityTaskCompletedTxn, AppendEvent
    <2> HIDE DEF txn
    <2>3. FitsRow(row, txn)
      BY <2>1, <2>2, OneEventFits
    <2> QED BY <2>3 DEF txn
  <1>2. FitsRow(row, RetryActivityTxn(k, row, a, arow))
    <2> DEFINE txn == RetryActivityTxn(k, row, a, arow)
    <2>1. "ActivityTaskFailed" \notin DOMAIN Outcome
      BY DEF Outcome
    <2>2. /\ txn.status = row.status /\ txn.next = row.next + 1
          /\ txn.events = {NewEvent(row.next, "ActivityTaskFailed", a)}
      BY DEF RetryActivityTxn, AppendEvent
    <2> HIDE DEF txn
    <2>3. FitsRow(row, txn)
      BY <2>1, <2>2, OneEventFits
    <2> QED BY <2>3 DEF txn
  <1>3. FitsRow(row, FailActivityTxn(k, row, a, arow))
    <2> DEFINE txn == FailActivityTxn(k, row, a, arow)
    <2>1. "ActivityTaskFailedFinally" \notin DOMAIN Outcome
      BY DEF Outcome
    <2>2. /\ txn.status = row.status /\ txn.next = row.next + 1
          /\ txn.events = {NewEvent(row.next, "ActivityTaskFailedFinally", a)}
      BY DEF FailActivityTxn, AppendEvent
    <2> HIDE DEF txn
    <2>3. FitsRow(row, txn)
      BY <2>1, <2>2, OneEventFits
    <2> QED BY <2>3 DEF txn
  <1>4. FitsRow(row, HeartbeatTxn(row, a, arow))
    <2>1. /\ HeartbeatTxn(row, a, arow).status = "Running"
          /\ HeartbeatTxn(row, a, arow).next = row.next
          /\ HeartbeatTxn(row, a, arow).events = {}
      BY DEF HeartbeatTxn
    <2>2. row.next \in Nat
      BY DEF Execution
    <2> QED BY <2>1, <2>2 DEF FitsRow
  <1> QED BY <1>1, <1>2, <1>3, <1>4 DEF ActivityTxn, ActivityTaskFailedTxn, ActivityRPCs

--------------------------------------------------------------------------------
(* The steps that leave the database alone *)

\* What HistoryInv says of one call.
SoundCall(call) ==
  /\ call.pc \in {"read", "update"} =>
       /\ call.row.status = "Running"
       /\ call.row.version <= executions[call.key].version
       /\ call.row.version = executions[call.key].version => call.row = executions[call.key]
  /\ call.pc = "update" => /\ FitsRow(call.row, call.txn)
                           /\ \A t \in call.txn.timers : t.key = call.key

LEMMA CallsChange ==
  ASSUME HistoryInv, TypeOK', UNCHANGED <<executions, history>>,
         \A d \in Callers : calls'[d] = calls[d] \/ SoundCall(calls'[d])
  PROVE  HistoryInv'
  <1>1. AbsentIsEmpty' /\ NextPositive' /\ EventIDsContiguous' /\ StatusMatchesHistory'
    BY DEF HistoryInv, AbsentIsEmpty, NextPositive, EventIDsContiguous, StatusMatchesHistory, Started,
       EventsOf
  <1>2. TransactionsFit'
    BY DEF HistoryInv, TransactionsFit, SoundCall
  <1>3. SnapshotCurrent'
    BY DEF HistoryInv, SnapshotCurrent, SoundCall
  <1> QED BY <1>1, <1>2, <1>3 DEF HistoryInv

LEMMA RequestInv ==
  ASSUME HistoryInv, TypeOK', NEW c \in Callers, Request(c)
  PROVE  HistoryInv'
  <1>1. PICK k \in Keys :
          \/ \E tq \in TaskQueueNames : RecordWorkflowExecutionStarted(c, k, tq)
          \/ RecordWorkflowTaskStarted(c, k)
          \/ \E cmds \in Batches : RecordWorkflowTaskCompleted(c, k, cmds)
          \/ RecordWorkflowTaskFailed(c, k)
          \/ SignalWorkflowExecution(c, k)
          \/ \E a \in Activities : RecordActivityTaskStarted(c, k, a)
          \/ \E a \in Activities : \E rpc \in ActivityRPCs : RecordActivityTask(c, rpc, k, a)
    BY DEF Request
  <1>2. executions[k] \in Execution /\ calls \in [Callers -> Call]
    BY DEF HistoryInv, TypeOK, RepositoryTypeOK
  <1> DEFINE row == executions[k]
  <1>3. ASSUME NEW call, SoundCall(call), Enter(c, call)
        PROVE  HistoryInv'
    <2>1. UNCHANGED dbVars /\ calls' = [calls EXCEPT ![c] = call]
      BY <1>3 DEF Enter
    <2> QED BY <1>2, <1>3, <2>1, CallsChange DEF dbVars
  <1>4. ASSUME NEW txn, row.status = "Running", FitsRow(row, txn),
               \A t \in txn.timers : t.key = k
        PROVE  SoundCall(Update(k, txn, "publish"))
    BY <1>2, <1>4 DEF SoundCall, Update, Execution
  <1>5. CASE \E tq \in TaskQueueNames : RecordWorkflowExecutionStarted(c, k, tq)
    <2>1. PICK tq \in TaskQueueNames :
            Enter(c, [pc |-> "insert", key |-> k, taskQueue |-> tq])
      BY <1>5 DEF RecordWorkflowExecutionStarted
    <2>2. SoundCall([pc |-> "insert", key |-> k, taskQueue |-> tq])
      BY DEF SoundCall
    <2> QED BY <1>3, <2>1, <2>2
  <1>6. CASE RecordWorkflowTaskStarted(c, k)
    <2> DEFINE txn == WorkflowTaskStartedTxn(k, row)
    <2>1. row.status = "Running" /\ Enter(c, Update(k, txn, "publish"))
      BY <1>6 DEF RecordWorkflowTaskStarted, RunningExecution
    <2>2. /\ txn.status = row.status /\ txn.next = row.next + 1
          /\ txn.events = {NewEvent(row.next, "WorkflowTaskStarted", NoActivity)}
          /\ "WorkflowTaskStarted" \notin DOMAIN Outcome
          /\ \A t \in txn.timers : t.key = k
      BY DEF WorkflowTaskStartedTxn, AppendEvent, Outcome
    <2> HIDE DEF txn
    <2>3. FitsRow(row, txn)
      BY <1>2, <2>1, <2>2, OneEventFits
    <2> QED BY <1>3, <1>4, <2>1, <2>2, <2>3
  <1>7. CASE \E cmds \in Batches : RecordWorkflowTaskCompleted(c, k, cmds)
    <2>1. PICK cmds \in Batches : RecordWorkflowTaskCompleted(c, k, cmds)
      BY <1>7
    <2> DEFINE txn == WorkflowTaskCompletedTxn(k, row, cmds)
    <2>2. row.status = "Running" /\ Enter(c, Update(k, txn, "publish"))
      BY <2>1 DEF RecordWorkflowTaskCompleted, RunningExecution
    <2>3. \A t \in txn.timers : t.key = k
      BY DEF WorkflowTaskCompletedTxn
    <2>4. FitsRow(row, txn)
      BY <1>2, <2>2, WorkflowTaskCompletedFits
    <2> HIDE DEF txn
    <2> QED BY <1>3, <1>4, <2>2, <2>3, <2>4
  <1>8. CASE RecordWorkflowTaskFailed(c, k)
    <2> DEFINE txn == WorkflowTaskFailedTxn(row)
    <2>1. row.status = "Running" /\ Enter(c, Update(k, txn, "publish"))
      BY <1>8 DEF RecordWorkflowTaskFailed, RunningExecution
    <2>2. txn.timers = {}
      BY DEF WorkflowTaskFailedTxn, AppendEvent
    <2>3. FitsRow(row, txn)
      BY <1>2, <2>1, WorkflowTaskFailedFits
    <2> HIDE DEF txn
    <2> QED BY <1>3, <1>4, <2>1, <2>2, <2>3
  <1>9. CASE SignalWorkflowExecution(c, k)
    <2> DEFINE txn == SignalTxn(k, row)
    <2>1. row.status = "Running" /\ Enter(c, Update(k, txn, "publish"))
      BY <1>9 DEF SignalWorkflowExecution, RunningExecution
    <2>2. /\ txn.status = row.status /\ txn.next = row.next + 1
          /\ txn.events = {NewEvent(row.next, "WorkflowExecutionSignaled", NoActivity)}
          /\ "WorkflowExecutionSignaled" \notin DOMAIN Outcome
          /\ \A t \in txn.timers : t.key = k
      BY DEF SignalTxn, AppendEvent, Outcome
    <2> HIDE DEF txn
    <2>3. FitsRow(row, txn)
      BY <1>2, <2>1, <2>2, OneEventFits
    <2> QED BY <1>3, <1>4, <2>1, <2>2, <2>3
  <1>10. CASE \E a \in Activities : RecordActivityTaskStarted(c, k, a)
    <2>0. PICK a \in Activities : RecordActivityTaskStarted(c, k, a)
      BY <1>10
    <2> DEFINE txn == ActivityTaskStartedTxn(row, a)
    <2>1. row.status = "Running" /\ Enter(c, Update(k, txn, "publish"))
      BY <2>0 DEF RecordActivityTaskStarted, RunningExecution
    <2>2. /\ txn.status = row.status /\ txn.next = row.next + 1
          /\ txn.events = {NewEvent(row.next, "ActivityTaskStarted", a)}
          /\ "ActivityTaskStarted" \notin DOMAIN Outcome
          /\ \A t \in txn.timers : t.key = k
      BY DEF ActivityTaskStartedTxn, AppendEvent, Outcome
    <2> HIDE DEF txn
    <2>3. FitsRow(row, txn)
      BY <1>2, <2>1, <2>2, OneEventFits
    <2> QED BY <1>3, <1>4, <2>1, <2>2, <2>3
  <1>11. CASE \E a \in Activities : \E rpc \in ActivityRPCs : RecordActivityTask(c, rpc, k, a)
    <2>1. PICK a \in Activities, rpc \in ActivityRPCs : RecordActivityTask(c, rpc, k, a)
      BY <1>11
    <2>2. SoundCall([pc |-> "read", rpc |-> rpc, key |-> k, act |-> a, row |-> row])
      BY <1>2, <2>1 DEF RecordActivityTask, RunningExecution, SoundCall, Execution
    <2> QED BY <1>3, <2>1, <2>2 DEF RecordActivityTask
  <1> QED BY <1>1, <1>5, <1>6, <1>7, <1>8, <1>9, <1>10, <1>11

LEMMA GetActivityStateInv ==
  ASSUME HistoryInv, TypeOK', NEW c \in Callers, GetActivityState(c)
  PROVE  HistoryInv'
  <1> DEFINE cl == calls[c]
             arow == activities[cl.key][cl.act]
             txn == ActivityTxn(cl.rpc, cl.key, cl.row, cl.act, arow)
  <1>1. cl.pc = "read" /\ cl \in Reading /\ calls \in [Callers -> Call]
    BY CallShape DEF HistoryInv, TypeOK, GetActivityState
  <1>2. arow \in Activity
    BY <1>1 DEF HistoryInv, TypeOK, RepositoryTypeOK, Reading
  <1>3. /\ cl.row.status = "Running"
        /\ cl.row.version <= executions[cl.key].version
        /\ cl.row.version = executions[cl.key].version => cl.row = executions[cl.key]
    BY <1>1 DEF HistoryInv, TransactionsFit, SnapshotCurrent
  <1>4. FitsRow(cl.row, txn)
    BY <1>1, <1>2, <1>3, ActivityFits DEF Reading
  <1>9. \A t \in txn.timers : t.key = cl.key
    <2>1. cl.rpc \in ActivityRPCs
      BY <1>1 DEF Reading
    <2> QED BY <2>1 DEF ActivityTxn, ActivityRPCs, ActivityTaskCompletedTxn, ActivityTaskFailedTxn,
               RetryActivityTxn, FailActivityTxn, HeartbeatTxn, AppendEvent
  <1> HIDE DEF txn
  <1>5. ASSUME NEW then
        PROVE  SoundCall([pc |-> "update", key |-> cl.key, row |-> cl.row, txn |-> txn,
                          then |-> then])
    BY <1>3, <1>4, <1>9 DEF SoundCall
  <1>6. SoundCall(Idle)
    BY DEF SoundCall, Idle
  <1>7. PICK call : SoundCall(call) /\ calls' = [calls EXCEPT ![c] = call]
    BY <1>5, <1>6 DEF GetActivityState, txn
  <1>8. UNCHANGED dbVars
    BY DEF GetActivityState
  <1> QED BY <1>1, <1>7, <1>8, CallsChange DEF dbVars

LEMMA OtherStepsInv ==
  ASSUME HistoryInv, TypeOK',
         \/ UNCHANGED vars
         \/ Crash
         \/ \E c \in Callers : \/ RollbackUpdate(c) \/ StatementFails(c) \/ PeekTimeoutTimer(c)
                               \/ \E t \in calls[c].timers : ScheduleTimer(c, t)
                               \/ \E t \in calls[c].tasks : AddTask(c, t)
  PROVE  HistoryInv'
  <1>1. calls \in [Callers -> Call]
    BY DEF HistoryInv, TypeOK
  <1>2. UNCHANGED dbVars
    BY DEF vars, Crash, RollbackUpdate, StatementFails, PeekTimeoutTimer, ScheduleTimer, AddTask
  <1>3. \A T, W : SoundCall(Publish(T, W))
    BY DEF SoundCall, Publish, Idle
  <1>4. SoundCall(Idle)
    BY DEF SoundCall, Idle
  <1>5. \A d \in Callers : calls'[d] = calls[d] \/ SoundCall(calls'[d])
    <2>1. CASE UNCHANGED vars
      BY <2>1 DEF vars
    <2>2. CASE Crash
      BY <1>4, <2>2 DEF Crash
    <2>3. ASSUME NEW c \in Callers, NEW call, SoundCall(call), calls' = [calls EXCEPT ![c] = call]
          PROVE  \A d \in Callers : calls'[d] = calls[d] \/ SoundCall(calls'[d])
      BY <1>1, <2>3
    <2>4. ASSUME NEW c \in Callers, RollbackUpdate(c) \/ StatementFails(c)
          PROVE  \A d \in Callers : calls'[d] = calls[d] \/ SoundCall(calls'[d])
      BY <1>4, <2>3, <2>4 DEF RollbackUpdate, StatementFails
    <2>5. ASSUME NEW c \in Callers, PeekTimeoutTimer(c)
          PROVE  \A d \in Callers : calls'[d] = calls[d] \/ SoundCall(calls'[d])
      BY <1>3, <1>4, <2>3, <2>5 DEF PeekTimeoutTimer
    <2>6. ASSUME NEW c \in Callers, NEW t, ScheduleTimer(c, t) \/ AddTask(c, t)
          PROVE  \A d \in Callers : calls'[d] = calls[d] \/ SoundCall(calls'[d])
      BY <1>3, <2>3, <2>6 DEF ScheduleTimer, AddTask
    <2> QED BY <2>1, <2>2, <2>4, <2>5, <2>6
  <1> QED BY <1>2, <1>5, CallsChange DEF dbVars

--------------------------------------------------------------------------------
(* The steps that write *)

\* A call that has just committed holds no snapshot any more.
LEMMA CommittedCalls ==
  ASSUME HistoryInv, NEW c \in Callers, InsertExecution(c) \/ CommitUpdate(c)
  PROVE  \A d \in Callers : calls'[d].pc \in {"read", "update"} =>
           d # c /\ calls'[d] = calls[d]
  <1>1. calls \in [Callers -> Call]
    BY DEF HistoryInv, TypeOK
  <1>2. \A T, W : Publish(T, W).pc \in {"idle", "publish"}
    BY DEF Publish, Idle
  <1>3. PICK call : call.pc \in {"idle", "peek", "publish"} /\ calls' = [calls EXCEPT ![c] = call]
    BY <1>2 DEF InsertExecution, CommitUpdate, AfterCommit, Idle
  <1> QED BY <1>1, <1>3

\* The row and the history of a run, before and after it is written.
LEMMA InsertEffect ==
  ASSUME HistoryInv, NEW c \in Callers, InsertExecution(c)
  PROVE  \E k \in Keys :
           /\ executions[k] = NoExecution /\ history[k] = {}
           /\ executions'[k].status = "Running"
           /\ executions'[k].version = 1 /\ executions'[k].next = 2
           /\ history'[k] = {NewEvent(1, "WorkflowExecutionStarted", NoActivity)}
           /\ \A l \in Keys \ {k} : executions'[l] = executions[l] /\ history'[l] = history[l]
           /\ executions' = [executions EXCEPT ![k] = executions'[k]]
           /\ activities' = activities /\ timers' = timers
  <1> DEFINE k == calls[c].key
  <1>1. k \in Keys
    BY CallShape DEF HistoryInv, InsertExecution, Inserting
  <1>2. CreateWorkflowExecution(k, calls[c].taskQueue)
    BY DEF InsertExecution
  <1>3. executions \in [Keys -> Execution] /\ history \in [Keys -> SUBSET Event]
    BY DEF HistoryInv, TypeOK, RepositoryTypeOK
  <1>4. executions[k] = NoExecution
    BY <1>1, <1>2 DEF HistoryInv, AbsentIsEmpty, CreateWorkflowExecution
  <1>5. history[k] = {}
    <2>1. {e.id : e \in history[k]} = 1 .. 0
      BY <1>1, <1>4 DEF HistoryInv, EventIDsContiguous, NoExecution
    <2>2. 1 .. 0 = {}
      OBVIOUS
    <2> QED BY <2>1, <2>2
  <1> HIDE DEF k
  <1> QED BY <1>1, <1>2, <1>3, <1>4, <1>5 DEF CreateWorkflowExecution

LEMMA CommitEffect ==
  ASSUME HistoryInv, NEW c \in Callers, CommitUpdate(c)
  PROVE  \E k \in Keys, txn \in Transaction :
           /\ executions[k].status = "Running" /\ FitsRow(executions[k], txn)
           /\ executions'[k].status = txn.status
           /\ executions'[k].version = executions[k].version + 1
           /\ executions'[k].next = txn.next
           /\ history'[k] = history[k] \cup txn.events
           /\ \A l \in Keys \ {k} : /\ executions'[l] = executions[l]
                                    /\ history'[l] = history[l]
                                    /\ activities'[l] = activities[l]
           /\ executions' = [executions EXCEPT ![k] = executions'[k]]
           /\ timers' = timers \cup txn.timers /\ \A t \in txn.timers : t.key = k
  <1> DEFINE k == calls[c].key
             txn == calls[c].txn
  <1>1. k \in Keys /\ txn \in Transaction /\ calls[c].pc = "update"
    BY CallShape DEF HistoryInv, CommitUpdate, Updating
  <1>2. UpdateWorkflowExecution(k, calls[c].row.version, txn)
    BY DEF CommitUpdate
  <1>3. calls[c].row = executions[k]
    BY <1>1, <1>2 DEF HistoryInv, SnapshotCurrent, UpdateWorkflowExecution
  <1>4. /\ executions[k].status = "Running" /\ FitsRow(executions[k], txn)
        /\ \A t \in txn.timers : t.key = k
    BY <1>1, <1>3 DEF HistoryInv, TransactionsFit
  <1>5. /\ executions \in [Keys -> Execution] /\ history \in [Keys -> SUBSET Event]
        /\ activities \in [Keys -> [Activities -> Activity]]
    BY DEF HistoryInv, TypeOK, RepositoryTypeOK
  <1> HIDE DEF k, txn
  <1>6. /\ executions'[k].status = txn.status
        /\ executions'[k].version = executions[k].version + 1
        /\ executions'[k].next = txn.next
        /\ executions' = [executions EXCEPT ![k] = executions'[k]]
    BY <1>1, <1>2, <1>5 DEF UpdateWorkflowExecution, WriteRow
  <1>7. history'[k] = history[k] \cup txn.events
    BY <1>1, <1>2, <1>5 DEF UpdateWorkflowExecution, WriteTables
  <1>8. \A l \in Keys \ {k} : /\ executions'[l] = executions[l]
                             /\ history'[l] = history[l]
                             /\ activities'[l] = activities[l]
    BY <1>1, <1>2, <1>5 DEF UpdateWorkflowExecution, WriteTables
  <1>9. timers' = timers \cup txn.timers
    BY <1>2 DEF UpdateWorkflowExecution, WriteTables
  <1> QED BY <1>1, <1>4, <1>6, <1>7, <1>8, <1>9

LEMMA InsertInv ==
  ASSUME HistoryInv, TypeOK', NEW c \in Callers, InsertExecution(c)
  PROVE  HistoryInv'
  <1>1. PICK k \in Keys :
           /\ executions[k] = NoExecution /\ history[k] = {}
           /\ executions'[k].status = "Running"
           /\ executions'[k].version = 1 /\ executions'[k].next = 2
           /\ history'[k] = {NewEvent(1, "WorkflowExecutionStarted", NoActivity)}
           /\ \A l \in Keys \ {k} : executions'[l] = executions[l] /\ history'[l] = history[l]
    BY InsertEffect
  <1>2. AbsentIsEmpty'
    BY <1>1 DEF HistoryInv, AbsentIsEmpty
  <1>3. TransactionsFit'
    BY CommittedCalls DEF HistoryInv, TransactionsFit
  <1>4. SnapshotCurrent'
    <2> SUFFICES ASSUME NEW d \in Callers, calls'[d].pc \in {"read", "update"}
                 PROVE  /\ calls'[d].row.version <= executions'[calls'[d].key].version
                        /\ calls'[d].row.version = executions'[calls'[d].key].version
                             => calls'[d].row = executions'[calls'[d].key]
      BY DEF SnapshotCurrent
    <2>1. calls'[d] = calls[d] /\ calls[d] \in Reading \cup Updating
      BY CommittedCalls, CallShape DEF HistoryInv
    <2>2. calls[d].key \in Keys /\ calls[d].row \in Execution
      BY <2>1 DEF Reading, Updating
    <2>3. /\ calls[d].row.version <= executions[calls[d].key].version
          /\ calls[d].row.version = executions[calls[d].key].version
               => calls[d].row = executions[calls[d].key]
      BY <2>1 DEF HistoryInv, SnapshotCurrent
    <2>4. CASE calls[d].key = k
      BY <1>1, <2>1, <2>2, <2>3, <2>4 DEF NoExecution, Execution
    <2>5. CASE calls[d].key # k
      BY <1>1, <2>1, <2>2, <2>3, <2>5
    <2> QED BY <2>4, <2>5
  <1>5. EventIDsContiguous'
    <2>1. {e.id : e \in history'[k]} = 1 .. executions'[k].next - 1
      BY <1>1 DEF NewEvent
    <2>2. \A e, f \in history'[k] : e.id = f.id => e = f
      BY <1>1
    <2> QED BY <1>1, <2>1, <2>2 DEF HistoryInv, EventIDsContiguous
  <1>6. StatusMatchesHistory'
    <2>1. {e \in history'[k] : e.type \in DOMAIN Outcome} = {}
      BY <1>1 DEF NewEvent, Outcome
    <2>2. {Outcome[e.type] : e \in {f \in history'[k] : f.type \in DOMAIN Outcome}} = {}
      BY <2>1, Zenon
    <2> QED BY <1>1, <2>2 DEF HistoryInv, StatusMatchesHistory, EventsOf, Started
  <1>7. NextPositive'
    BY <1>1 DEF HistoryInv, NextPositive
  <1> QED BY <1>2, <1>3, <1>4, <1>5, <1>6, <1>7 DEF HistoryInv

LEMMA CommitInv ==
  ASSUME HistoryInv, TypeOK', NEW c \in Callers, CommitUpdate(c)
  PROVE  HistoryInv'
  <1>1. PICK k \in Keys, txn \in Transaction :
           /\ executions[k].status = "Running" /\ FitsRow(executions[k], txn)
           /\ executions'[k].status = txn.status
           /\ executions'[k].version = executions[k].version + 1
           /\ executions'[k].next = txn.next
           /\ history'[k] = history[k] \cup txn.events
           /\ \A l \in Keys \ {k} : executions'[l] = executions[l] /\ history'[l] = history[l]
    BY CommitEffect
  <1>2. AbsentIsEmpty'
    BY <1>1 DEF HistoryInv, AbsentIsEmpty, FitsRow
  <1>8. NextPositive'
    <2>1. executions[k].next \in Nat /\ txn.next \in Nat /\ executions[k].next <= txn.next
      BY <1>1 DEF HistoryInv, TypeOK, RepositoryTypeOK, Execution, Transaction, FitsRow
    <2> QED BY <1>1, <2>1 DEF HistoryInv, NextPositive
  <1>3. TransactionsFit'
    BY CommittedCalls DEF HistoryInv, TransactionsFit
  <1>4. executions[k] \in Execution /\ executions[k].version \in Nat /\ executions[k].next \in Nat
    BY DEF HistoryInv, TypeOK, RepositoryTypeOK, Execution
  <1>5. SnapshotCurrent'
    <2> SUFFICES ASSUME NEW d \in Callers, calls'[d].pc \in {"read", "update"}
                 PROVE  /\ calls'[d].row.version <= executions'[calls'[d].key].version
                        /\ calls'[d].row.version = executions'[calls'[d].key].version
                             => calls'[d].row = executions'[calls'[d].key]
      BY DEF SnapshotCurrent
    <2>1. calls'[d] = calls[d] /\ calls[d] \in Reading \cup Updating
      BY CommittedCalls, CallShape DEF HistoryInv
    <2>2. calls[d].key \in Keys /\ calls[d].row.version \in Nat
      BY <2>1 DEF Reading, Updating, Execution
    <2>3. /\ calls[d].row.version <= executions[calls[d].key].version
          /\ calls[d].row.version = executions[calls[d].key].version
               => calls[d].row = executions[calls[d].key]
      BY <2>1 DEF HistoryInv, SnapshotCurrent
    <2>4. CASE calls[d].key = k
      BY <1>1, <1>4, <2>1, <2>2, <2>3, <2>4
    <2>5. CASE calls[d].key # k
      BY <1>1, <2>1, <2>2, <2>3, <2>5
    <2> QED BY <2>4, <2>5
  <1>6. EventIDsContiguous'
    <2>1. /\ {e.id : e \in history[k]} = 1 .. executions[k].next - 1
          /\ \A e, f \in history[k] : e.id = f.id => e = f
      BY DEF HistoryInv, EventIDsContiguous
    <2>2. /\ {e.id : e \in txn.events} = executions[k].next .. txn.next - 1
          /\ \A e, f \in txn.events : e.id = f.id => e = f
          /\ executions[k].next <= txn.next /\ txn.next \in Nat
      BY <1>1 DEF FitsRow, Transaction
    <2>3. executions[k].next >= 1
      BY <1>1 DEF HistoryInv, NextPositive
    <2>4. {e.id : e \in history'[k]} = 1 .. executions'[k].next - 1
      <3>1. {e.id : e \in history'[k]} = {e.id : e \in history[k]} \cup {e.id : e \in txn.events}
        BY <1>1
      <3>2. 1 .. txn.next - 1 = (1 .. executions[k].next - 1) \cup (executions[k].next .. txn.next - 1)
        BY <1>4, <2>2, <2>3
      <3> QED BY <1>1, <2>1, <2>2, <3>1, <3>2
    <2>5. ASSUME NEW e \in history'[k], NEW f \in history'[k], e.id = f.id
          PROVE  e = f
      <3>1. \A g \in history[k] : g.id \in 1 .. executions[k].next - 1
        BY <2>1
      <3>2. \A g \in txn.events : g.id \in executions[k].next .. txn.next - 1
        BY <2>2
      <3>3. \A g \in history[k], h \in txn.events : g.id # h.id
        BY <1>4, <2>2, <3>1, <3>2
      <3> QED BY <1>1, <2>1, <2>2, <2>5, <3>3
    <2> QED BY <1>1, <2>4, <2>5 DEF HistoryInv, EventIDsContiguous
  <1>7. StatusMatchesHistory'
    <2> DEFINE outcomes(S) == {Outcome[e.type] : e \in {f \in S : f.type \in DOMAIN Outcome}}
    <2>1. outcomes(history[k]) = {}
      BY <1>1 DEF HistoryInv, StatusMatchesHistory, EventsOf, Started
    <2>2. outcomes(txn.events) = IF txn.status = "Running" THEN {} ELSE {txn.status}
      BY <1>1 DEF FitsRow
    <2>3. outcomes(history'[k]) = outcomes(history[k]) \cup outcomes(txn.events)
      BY <1>1
    <2>4. outcomes(history'[k]) = IF executions'[k].status = "Running" THEN {}
                                  ELSE {executions'[k].status}
      BY <1>1, <2>1, <2>2, <2>3
    <2> QED BY <1>1, <2>4 DEF HistoryInv, StatusMatchesHistory, EventsOf, Started
  <1> QED BY <1>2, <1>3, <1>5, <1>6, <1>7, <1>8 DEF HistoryInv

LEMMA InitInv == Init => HistoryInv
  <1> SUFFICES ASSUME Init PROVE HistoryInv
    OBVIOUS
  <1>1. /\ executions = [k \in Keys |-> NoExecution] /\ history = [k \in Keys |-> {}]
        /\ calls = [c \in Callers |-> Idle]
    BY DEF Init, RepositoryInit
  <1>2. TypeOK
    BY InitType
  <1>3. AbsentIsEmpty /\ NextPositive /\ StatusMatchesHistory
    BY <1>1 DEF AbsentIsEmpty, NextPositive, StatusMatchesHistory, Started, NoExecution
  <1>4. TransactionsFit /\ SnapshotCurrent
    BY <1>1 DEF TransactionsFit, SnapshotCurrent, Idle
  <1>5. EventIDsContiguous
    <2>1. 1 .. 1 - 1 = {}
      OBVIOUS
    <2> QED BY <1>1, <2>1 DEF EventIDsContiguous, NoExecution
  <1> QED BY <1>2, <1>3, <1>4, <1>5 DEF HistoryInv

\* What a step does to the database.
LEMMA StepKinds ==
  ASSUME HistoryInv, [Next]_vars
  PROVE  \/ UNCHANGED dbVars /\ HistoryInv'
         \/ \E c \in Callers : InsertExecution(c) /\ HistoryInv'
         \/ \E c \in Callers : CommitUpdate(c) /\ HistoryInv'
  <1>1. TypeOK'
    BY TypeStep DEF HistoryInv
  <1>2. ASSUME NEW c \in Callers, Request(c)
        PROVE  UNCHANGED dbVars /\ HistoryInv'
    <2>1. UNCHANGED dbVars
      BY <1>2 DEF Request, Enter, RecordWorkflowExecutionStarted, RecordWorkflowTaskStarted,
         RecordWorkflowTaskCompleted, RecordWorkflowTaskFailed, SignalWorkflowExecution,
         RecordActivityTaskStarted, RecordActivityTask
    <2> QED BY <1>1, <1>2, <2>1, RequestInv
  <1>3. ASSUME NEW c \in Callers, GetActivityState(c)
        PROVE  UNCHANGED dbVars /\ HistoryInv'
    BY <1>1, <1>3, GetActivityStateInv DEF GetActivityState
  <1>4. ASSUME \/ UNCHANGED vars
               \/ Crash
               \/ \E c \in Callers : \/ RollbackUpdate(c) \/ StatementFails(c) \/ PeekTimeoutTimer(c)
                                     \/ \E t \in calls[c].timers : ScheduleTimer(c, t)
                                     \/ \E t \in calls[c].tasks : AddTask(c, t)
        PROVE  UNCHANGED dbVars /\ HistoryInv'
    <2>1. UNCHANGED dbVars
      BY <1>4 DEF vars, Crash, RollbackUpdate, StatementFails, PeekTimeoutTimer, ScheduleTimer,
         AddTask
    <2> QED BY <1>1, <1>4, <2>1, OtherStepsInv
  <1>5. ASSUME NEW c \in Callers, InsertExecution(c) PROVE HistoryInv'
    BY <1>1, <1>5, InsertInv
  <1>6. ASSUME NEW c \in Callers, CommitUpdate(c) PROVE HistoryInv'
    BY <1>1, <1>6, CommitInv
  <1>7. CASE \E c \in Callers : Request(c)
    BY <1>2, <1>7
  <1>8. CASE \E c \in Callers : Proceed(c)
    <2>1. PICK c \in Callers : Proceed(c)
      BY <1>8
    <2>2. CASE InsertExecution(c)
      BY <1>5, <2>1, <2>2
    <2>3. CASE CommitUpdate(c)
      BY <1>6, <2>1, <2>3
    <2>4. CASE GetActivityState(c)
      BY <1>3, <2>1, <2>4
    <2>5. CASE \/ RollbackUpdate(c) \/ PeekTimeoutTimer(c)
               \/ \E t \in calls[c].timers : ScheduleTimer(c, t)
               \/ \E t \in calls[c].tasks : AddTask(c, t)
      <3>1. c \in Callers
        BY <2>1
      <3>2. \E d \in Callers : \/ RollbackUpdate(d) \/ StatementFails(d) \/ PeekTimeoutTimer(d)
                               \/ \E t \in calls[d].timers : ScheduleTimer(d, t)
                               \/ \E t \in calls[d].tasks : AddTask(d, t)
        BY <2>5, <3>1
      <3> QED BY <1>4, <3>2
    <2>6. \/ GetActivityState(c) \/ InsertExecution(c) \/ CommitUpdate(c)
          \/ RollbackUpdate(c) \/ PeekTimeoutTimer(c)
          \/ \E t \in calls[c].timers : ScheduleTimer(c, t)
          \/ \E t \in calls[c].tasks : AddTask(c, t)
      BY <2>1 DEF Proceed
    <2> QED BY <2>2, <2>3, <2>4, <2>5, <2>6
  <1>9. CASE (\E c \in Callers : StatementFails(c)) \/ Crash \/ UNCHANGED vars
    BY <1>4, <1>9
  <1> QED BY <1>7, <1>8, <1>9 DEF Next

\* A step leaves every closed run as it is.
LEMMA FrozenStep ==
  ASSUME HistoryInv, [Next]_vars
  PROVE  FrozenIfClosed
  <1> SUFFICES ASSUME NEW k \in Keys, executions[k].status \in ClosedStatuses
               PROVE  /\ executions'[k] = executions[k]
                      /\ history'[k] = history[k]
                      /\ activities'[k] = activities[k]
                      /\ {t \in timers' : t.key = k} = {t \in timers : t.key = k}
    BY DEF FrozenIfClosed
  <1>1. CASE UNCHANGED dbVars
    BY <1>1 DEF dbVars
  <1>2. ASSUME NEW c \in Callers, InsertExecution(c)
        PROVE  /\ executions'[k] = executions[k] /\ history'[k] = history[k]
               /\ activities' = activities /\ timers' = timers
    <2>1. PICK l \in Keys :
            /\ executions[l] = NoExecution
            /\ \A m \in Keys \ {l} : executions'[m] = executions[m] /\ history'[m] = history[m]
            /\ activities' = activities /\ timers' = timers
      BY <1>2, InsertEffect
    <2>2. k # l
      BY <2>1 DEF NoExecution, ClosedStatuses
    <2> QED BY <2>1, <2>2
  <1>3. ASSUME NEW c \in Callers, CommitUpdate(c)
        PROVE  /\ executions'[k] = executions[k] /\ history'[k] = history[k]
               /\ activities'[k] = activities[k]
               /\ {t \in timers' : t.key = k} = {t \in timers : t.key = k}
    <2>1. PICK l \in Keys, txn \in Transaction :
            /\ executions[l].status = "Running"
            /\ \A m \in Keys \ {l} : /\ executions'[m] = executions[m]
                                     /\ history'[m] = history[m]
                                     /\ activities'[m] = activities[m]
            /\ timers' = timers \cup txn.timers /\ \A t \in txn.timers : t.key = l
      BY <1>3, CommitEffect
    <2>2. k # l
      BY <2>1 DEF ClosedStatuses
    <2> QED BY <2>1, <2>2
  <1> QED BY <1>1, <1>2, <1>3, StepKinds

--------------------------------------------------------------------------------
(* Theorems *)

\* What the handlers have read, prepared and written fits together in every reachable
\* state, in spite of failed statements, lost replies and crashes.
THEOREM HistoryInvariant == Spec => []HistoryInv
  <1>1. HistoryInv /\ [Next]_vars => HistoryInv'
    BY StepKinds
  <1> QED BY InitInv, <1>1, PTL DEF Spec

\* The event ids of every run are exactly 1 .. next_event_id - 1, whatever the
\* callers interleave, however many runs and activities there are, and in spite of
\* failed statements, lost replies and crashes.
THEOREM HistoryExact == Spec => []EventIDsContiguous
  <1>1. HistoryInv => EventIDsContiguous
    BY DEF HistoryInv
  <1> QED BY HistoryInvariant, <1>1, PTL

\* The status of every run is the one outcome its history records.
THEOREM StatusExact == Spec => []StatusMatchesHistory
  <1>1. HistoryInv => StatusMatchesHistory
    BY DEF HistoryInv
  <1> QED BY HistoryInvariant, <1>1, PTL

\* A version a handler has read stands for one row only.
THEOREM SnapshotsExact == Spec => []SnapshotCurrent
  <1>1. HistoryInv => SnapshotCurrent
    BY DEF HistoryInv
  <1> QED BY HistoryInvariant, <1>1, PTL

\* Once a run is closed no handler writes it, not even one that read it earlier.
THEOREM ClosedFrozen == Spec => ClosedIsFrozen
  <1>1. HistoryInv /\ [Next]_vars => HistoryInv'
    BY StepKinds
  <1>2. HistoryInv /\ [Next]_vars => [FrozenIfClosed]_vars
    BY FrozenStep
  <1> QED BY InitInv, <1>1, <1>2, PTL DEF Spec, ClosedIsFrozen


--------------------------------------------------------------------------------
(* The event store implements the abstract log: the first write of a run   *)
(* opens its log, each later commit appends one batch or closes the log,   *)
(* and everything else (reads, rollbacks, heartbeats, publications,        *)
(* crashes) leaves it as it was.                                           *)

LEMMA InitOpensNoLog == Init => Log!Init
  <1>1. NoExecution.status = "Absent" /\ NoExecution.next - 1 = 0
    BY DEF NoExecution
  <1> QED BY <1>1 DEF Init, RepositoryInit, Log!Init

\* The first write of a run starts its log.
LEMMA InsertStartsLog ==
  ASSUME HistoryInv, NEW c \in Callers, InsertExecution(c)
  PROVE  \E k \in Keys : Log!Start(k)
  <1>1. PICK k \in Keys :
           /\ executions[k] = NoExecution /\ history[k] = {}
           /\ executions'[k].status = "Running"
           /\ executions'[k].version = 1 /\ executions'[k].next = 2
           /\ history'[k] = {NewEvent(1, "WorkflowExecutionStarted", NoActivity)}
           /\ \A l \in Keys \ {k} : executions'[l] = executions[l] /\ history'[l] = history[l]
    BY InsertEffect
  <1>2. executions[k].status = "Absent" /\ executions[k].next = 1
    BY <1>1 DEF NoExecution
  <1>3. [l \in Keys |-> executions'[l].status]
          = [[l \in Keys |-> executions[l].status] EXCEPT ![k] = "Running"]
    BY <1>1
  <1>4. Log!Added(k) = {NewEvent(1, "WorkflowExecutionStarted", NoActivity)}
    BY <1>1 DEF Log!Added
  <1>5. Log!Extend(k)
    <2>1. {e.id : e \in Log!Added(k)} = 1 .. 1
      BY <1>4 DEF NewEvent
    <2>2. \A e, f \in Log!Added(k) : e.id = f.id => e = f
      BY <1>4
    <2> QED BY <1>1, <1>2, <2>1, <2>2 DEF Log!Extend
  <1>6. \A e \in Log!Added(k) : e.type = "WorkflowExecutionStarted"
    BY <1>4 DEF NewEvent
  <1>7. Log!Start(k)
    BY <1>2, <1>3, <1>5, <1>6 DEF Log!Start
  <1> QED BY <1>7

\* A commit that writes no event leaves the log as it was; one that does appends a
\* batch, which closes the log if it records an outcome.
LEMMA CommitExtendsLog ==
  ASSUME HistoryInv, NEW c \in Callers, CommitUpdate(c), TypeOK'
  PROVE  (\E k \in Keys : Log!Append(k) \/ Log!Close(k)) \/ UNCHANGED Log!logVars
  <1>1. PICK k \in Keys, txn \in Transaction :
           /\ executions[k].status = "Running" /\ FitsRow(executions[k], txn)
           /\ executions'[k].status = txn.status
           /\ executions'[k].next = txn.next
           /\ history'[k] = history[k] \cup txn.events
           /\ \A l \in Keys \ {k} : executions'[l] = executions[l] /\ history'[l] = history[l]
    BY CommitEffect
  <1>2. /\ executions[k].next \in Nat /\ txn.next \in Nat
        /\ history \in [Keys -> SUBSET Event] /\ history' \in [Keys -> SUBSET Event]
    BY <1>1 DEF HistoryInv, TypeOK, RepositoryTypeOK, Execution, Transaction
  <1>3. /\ executions[k].next <= txn.next
        /\ {e.id : e \in txn.events} = executions[k].next .. txn.next - 1
        /\ \A e, f \in txn.events : e.id = f.id => e = f
        /\ {Outcome[e.type] : e \in {f \in txn.events : f.type \in DOMAIN Outcome}}
             = IF txn.status = "Running" THEN {} ELSE {txn.status}
    BY <1>1 DEF FitsRow
  <1>4. [l \in Keys |-> executions'[l].status]
          = [[l \in Keys |-> executions[l].status] EXCEPT ![k] = txn.status]
    BY <1>1
  <1>5. Log!Added(k) = txn.events
    <2>1. \A e \in history[k] : e.id \in 1 .. executions[k].next - 1
      BY DEF HistoryInv, EventIDsContiguous
    <2>2. \A e \in txn.events : e.id \in executions[k].next .. txn.next - 1
      BY <1>3
    <2>3. \A e \in txn.events : e \notin history[k]
      BY <1>2, <2>1, <2>2
    <2> QED BY <1>1, <2>3 DEF Log!Added
  <1>6. CASE executions[k].next = txn.next
    <2>1. txn.events = {}
      <3>1. executions[k].next .. txn.next - 1 = {}
        BY <1>2, <1>6
      <3> QED BY <1>3, <3>1
    <2>2. txn.status = "Running"
      BY <1>3, <2>1
    <2>3. history' = history
      BY <1>1, <1>2, <2>1
    <2>4. [l \in Keys |-> executions'[l].status] = [l \in Keys |-> executions[l].status]
      BY <1>1, <2>2
    <2>5. [l \in Keys |-> executions'[l].next - 1] = [l \in Keys |-> executions[l].next - 1]
      BY <1>1, <1>6
    <2> QED BY <2>3, <2>4, <2>5 DEF Log!logVars
  <1>7. CASE executions[k].next < txn.next
    <2>1. Log!Extend(k)
      <3>1. {e.id : e \in Log!Added(k)}
              = (executions[k].next - 1) + 1 .. executions'[k].next - 1
        BY <1>1, <1>2, <1>3, <1>5
      <3> QED BY <1>1, <1>2, <1>3, <1>5, <1>7, <3>1 DEF Log!Extend
    <2>2. Log!Outcomes(k) = IF txn.status = "Running" THEN {} ELSE {txn.status}
      BY <1>3, <1>5 DEF Log!Outcomes
    <2>3. CASE txn.status = "Running"
      <3>1. [l \in Keys |-> executions'[l].status] = [l \in Keys |-> executions[l].status]
        BY <1>1, <2>3
      <3> QED BY <1>1, <2>1, <2>2, <2>3, <3>1 DEF Log!Append
    <2>4. CASE txn.status # "Running"
      BY <1>1, <1>4, <2>1, <2>2, <2>4 DEF Log!Close
    <2> QED BY <2>3, <2>4
  <1> QED BY <1>2, <1>3, <1>6, <1>7

\* The History service implements the append-only log, for any number of runs,
\* activities and concurrent callers, and in spite of failed statements, lost
\* replies and crashes.
THEOREM ServiceImplementsLog == Spec => ImplementsLog
  <1>1. HistoryInv /\ [Next]_vars => HistoryInv'
    BY StepKinds
  <1>2. HistoryInv /\ [Next]_vars => [Log!Next]_(Log!logVars)
    <2> SUFFICES ASSUME HistoryInv, [Next]_vars
                 PROVE  Log!Next \/ UNCHANGED Log!logVars
      OBVIOUS
    <2>1. CASE UNCHANGED dbVars
      BY <2>1 DEF dbVars, Log!logVars
    <2>2. CASE \E c \in Callers : InsertExecution(c)
      BY <2>2, InsertStartsLog DEF Log!Next
    <2>3. CASE \E c \in Callers : CommitUpdate(c) /\ HistoryInv'
      BY <2>3, CommitExtendsLog DEF Log!Next, HistoryInv
    <2> QED BY <2>1, <2>2, <2>3, StepKinds
  <1> QED BY InitInv, InitOpensNoLog, <1>1, <1>2, PTL DEF Spec, ImplementsLog, Log!Spec
================================================================================
