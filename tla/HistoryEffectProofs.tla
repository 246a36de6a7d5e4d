--------------------------- MODULE HistoryEffectProofs ---------------------------
(***************************************************************************)
(* What the handlers announce: the timers of a run are those its history   *)
(* armed, and tasks never outnumber the events that call for them.         *)
(***************************************************************************)
EXTENDS HistoryInvariantProofs, FiniteSetTheorems

--------------------------------------------------------------------------------
(* The transactions of the handlers *)

\* The transactions a handler may build from the row of run k, at once and after it has
\* read an activity's row as well.
RequestTxn(k, row, txn) ==
  \/ txn = WorkflowTaskStartedTxn(k, row)
  \/ \E cmds \in Batches : txn = WorkflowTaskCompletedTxn(k, row, cmds)
  \/ txn = WorkflowTaskFailedTxn(row)
  \/ \E a \in Activities : txn = ActivityTaskStartedTxn(row, a)
  \/ txn = SignalTxn(k, row)

HandlerTxn(k, row, txn) ==
  \/ RequestTxn(k, row, txn)
  \/ \E a \in Activities, arow \in Activity, rpc \in ActivityRPCs :
       txn = ActivityTxn(rpc, k, row, a, arow)

\* It arms the timers and prepares the tasks that its events call for.
TxnFit(k, txn) ==
  /\ txn.timers = Armed(k, txn.events)
  /\ TimeoutsNamed(txn.timers)
  /\ TasksFit(k, txn.events, txn.tasks)

LEMMA QuietEventFits ==
  ASSUME NEW k, NEW id, NEW type, NEW a, NEW txn,
         txn.events = {NewEvent(id, type, a)}, txn.tasks = {},
         type \notin WakingTypes, type # "ActivityTaskScheduled"
  PROVE  TasksFit(k, txn.events, txn.tasks)
  BY DEF NewEvent, TasksFit, CallsFor, Kinds

LEMMA WakingEventFits ==
  ASSUME NEW k, NEW id, NEW type, NEW a, NEW tq, NEW txn,
         txn.events = {NewEvent(id, type, a)}, txn.tasks = {WorkflowTask(k, id, tq)},
         type \in WakingTypes
  PROVE  TasksFit(k, txn.events, txn.tasks)
  <1>1. type # "ActivityTaskScheduled"
    BY DEF WakingTypes
  <1> QED BY <1>1 DEF NewEvent, TasksFit, CallsFor, Kinds, WorkflowTask

LEMMA UnarmedEvent ==
  ASSUME NEW k, NEW id, NEW type, NEW a, type \notin DOMAIN TimerArmedBy
  PROVE  Armed(k, {NewEvent(id, type, a)}) = {}
  BY DEF NewEvent, Armed

LEMMA ArmedEvent ==
  ASSUME NEW k, NEW id, NEW type, NEW a, type \in DOMAIN TimerArmedBy
  PROVE  Armed(k, {NewEvent(id, type, a)})
           = {[key |-> k, event |-> id, type |-> TimerArmedBy[type], act |-> a]}
  <1> DEFINE e == NewEvent(id, type, a)
  <1>1. e.id = id /\ e.type = type /\ e.act = a
    BY DEF NewEvent
  <1> HIDE DEF e
  <1>2. {f \in {e} : f.type \in DOMAIN TimerArmedBy} = {e}
    BY <1>1
  <1> QED BY <1>1, <1>2 DEF Armed, e

\* The three shapes of a transaction with one event.
LEMMA QuietTxnFit ==
  ASSUME NEW k, NEW txn, NEW id, NEW type, NEW a, txn.events = {NewEvent(id, type, a)},
         txn.timers = {}, txn.tasks = {},
         type \notin WakingTypes, type # "ActivityTaskScheduled", type \notin DOMAIN TimerArmedBy
  PROVE  TxnFit(k, txn)
  <1>1. TasksFit(k, txn.events, txn.tasks)
    BY QuietEventFits
  <1>2. Armed(k, {NewEvent(id, type, a)}) = {}
    BY UnarmedEvent
  <1> QED BY <1>1, <1>2 DEF TxnFit, TimeoutsNamed

LEMMA WakingTxnFit ==
  ASSUME NEW k, NEW txn, NEW id, NEW type, NEW a, NEW tq, txn.events = {NewEvent(id, type, a)},
         txn.timers = {}, txn.tasks = {WorkflowTask(k, id, tq)},
         type \in WakingTypes, type \notin DOMAIN TimerArmedBy
  PROVE  TxnFit(k, txn)
  <1>1. TasksFit(k, txn.events, txn.tasks)
    BY WakingEventFits
  <1>2. Armed(k, {NewEvent(id, type, a)}) = {}
    BY UnarmedEvent
  <1> QED BY <1>1, <1>2 DEF TxnFit, TimeoutsNamed

LEMMA ArmingTxnFit ==
  ASSUME NEW k, NEW txn, NEW id, NEW type, NEW a, txn.events = {NewEvent(id, type, a)},
         txn.timers = {[key |-> k, event |-> id, type |-> TimerArmedBy[type], act |-> a]},
         txn.tasks = {},
         type \notin WakingTypes, type # "ActivityTaskScheduled", type \in DOMAIN TimerArmedBy,
         TimerArmedBy[type] = "ActivityTimeout" => a \in Activities
  PROVE  TxnFit(k, txn)
  <1>1. TasksFit(k, txn.events, txn.tasks)
    BY QuietEventFits
  <1>2. Armed(k, {NewEvent(id, type, a)}) = txn.timers
    BY ArmedEvent
  <1> QED BY <1>1, <1>2 DEF TxnFit, TimeoutsNamed

LEMMA WorkflowTaskFailedFit ==
  ASSUME NEW k, NEW row
  PROVE  TxnFit(k, WorkflowTaskFailedTxn(row))
  BY DEF WorkflowTaskFailedTxn, AppendEvent, NewEvent, TxnFit, TasksFit, Armed, TimerArmedBy,
     TimeoutsNamed, CallsFor, Kinds, WakingTypes

LEMMA WorkflowTaskCompletedFit ==
  ASSUME NEW k \in Keys, NEW row \in Execution, NEW cmds \in Batches
  PROVE  TxnFit(k, WorkflowTaskCompletedTxn(k, row, cmds))
  <1> DEFINE txn == WorkflowTaskCompletedTxn(k, row, cmds)
             n == Len(cmds)
             first == NewEvent(row.next, "WorkflowTaskCompleted", NoActivity)
             event(i) == NewEvent(row.next + i, CommandEvent[cmds[i].type], cmds[i].act)
             timer(i, type) == [key |-> k, event |-> row.next + i, type |-> type, act |-> cmds[i].act]
             task(i) == [kind |-> "activity", key |-> k, event |-> row.next + i,
                         act |-> cmds[i].act, taskQueue |-> ActivityQueue(cmds[i], row)]
  <1>1. row.next \in Nat /\ n \in Nat /\ DOMAIN cmds = 1 .. n
    <2>1. cmds \in Seq(Command)
      BY ServiceAssumption
    <2> QED BY <2>1 DEF Execution
  <1>2. \A i \in 1 .. n : /\ cmds[i].type \in CommandTypes
                          /\ cmds[i].type # "ScheduleActivityTask" => cmds[i].act = NoActivity
                          /\ cmds[i].type = "ScheduleActivityTask" => cmds[i].act \in Activities
    <2>1. cmds \in Seq(Command)
      BY ServiceAssumption
    <2>2. \A i \in 1 .. n : cmds[i] \in Command
      BY <2>1
    <2> QED BY <1>1, <2>2, ServiceAssumption DEF Command
  <1>3. Scheduled(cmds) = {i \in 1 .. n : cmds[i].type = "ScheduleActivityTask"}
    BY <1>1 DEF Scheduled
  <1>4. /\ txn.events = {first} \cup {event(i) : i \in 1 .. n}
        /\ txn.tasks = {task(i) : i \in Scheduled(cmds)}
    BY <1>1 DEF WorkflowTaskCompletedTxn
  <1>5. txn.timers = {timer(i, "ActivityTimeout") : i \in Scheduled(cmds)}
          \cup {timer(i, "UserTimer") : i \in {j \in 1 .. n : cmds[j].type = "StartTimer"}}
    <2>1. txn.timers = {timer(i, "ActivityTimeout") : i \in Scheduled(cmds)}
          \cup {[key |-> k, event |-> row.next + i, type |-> "UserTimer", act |-> NoActivity] :
                  i \in {j \in 1 .. n : cmds[j].type = "StartTimer"}}
      BY <1>1 DEF WorkflowTaskCompletedTxn
    <2> QED BY <1>2, <2>1
  <1>6. first.id = row.next /\ first.type = "WorkflowTaskCompleted"
    BY DEF NewEvent
  <1>7. \A i \in 1 .. n : /\ event(i).id = row.next + i
                          /\ event(i).type = CommandEvent[cmds[i].type]
                          /\ event(i).act = cmds[i].act
    BY DEF NewEvent
  <1>8. \A i, j \in 1 .. n : row.next + i = row.next + j => i = j
    BY <1>1
  <1> HIDE DEF txn, n, first, event
  <1>9. /\ first.type \notin DOMAIN TimerArmedBy
        /\ \A kind \in Kinds : first.type \notin CallsFor[kind]
    BY <1>6 DEF TimerArmedBy, CallsFor, Kinds, WakingTypes
  <1>10. \A i \in 1 .. n :
           /\ event(i).type \in DOMAIN TimerArmedBy
                <=> cmds[i].type \in {"ScheduleActivityTask", "StartTimer"}
           /\ cmds[i].type = "ScheduleActivityTask" => TimerArmedBy[event(i).type] = "ActivityTimeout"
           /\ cmds[i].type = "StartTimer" => TimerArmedBy[event(i).type] = "UserTimer"
           /\ event(i).type \notin WakingTypes
           /\ event(i).type = "ActivityTaskScheduled" <=> cmds[i].type = "ScheduleActivityTask"
    BY <1>2, <1>7 DEF TimerArmedBy, CommandEvent, CommandTypes, WakingTypes
  <1>11. txn.timers = Armed(k, txn.events)
    <2> DEFINE armed(e) == [key |-> k, event |-> e.id, type |-> TimerArmedBy[e.type], act |-> e.act]
    <2>1. \A i \in 1 .. n :
            /\ cmds[i].type = "ScheduleActivityTask" => armed(event(i)) = timer(i, "ActivityTimeout")
            /\ cmds[i].type = "StartTimer" => armed(event(i)) = timer(i, "UserTimer")
      BY <1>7, <1>10
    <2>2. {f \in txn.events : f.type \in DOMAIN TimerArmedBy}
            = {event(i) : i \in {j \in 1 .. n : cmds[j].type \in {"ScheduleActivityTask", "StartTimer"}}}
      BY <1>4, <1>9, <1>10
    <2>3. Armed(k, txn.events)
            = {armed(event(i)) : i \in {j \in 1 .. n : cmds[j].type \in {"ScheduleActivityTask", "StartTimer"}}}
      BY <2>2 DEF Armed
    <2> HIDE DEF armed, timer
    <2> QED BY <1>3, <1>5, <2>1, <2>3
  <1>12. TasksFit(k, txn.events, txn.tasks)
    <2>1. ASSUME NEW t \in txn.tasks
          PROVE  t.key = k /\ \E e \in txn.events : e.id = t.event /\ e.type \in CallsFor[t.kind]
      <3>1. PICK i \in 1 .. n : cmds[i].type = "ScheduleActivityTask" /\ t = task(i)
        BY <1>3, <1>4
      <3>2. event(i) \in txn.events /\ event(i).id = t.event /\ event(i).type \in CallsFor[t.kind]
        BY <1>4, <1>7, <1>10, <3>1 DEF CallsFor
      <3> QED BY <3>1, <3>2
    <2>2. ASSUME NEW kind \in Kinds, NEW e \in txn.events, e.type \in CallsFor[kind]
          PROVE  \E t \in txn.tasks : t.kind = kind /\ t.event = e.id
      <3>1. PICK i \in 1 .. n : e = event(i)
        BY <1>4, <1>9, <2>2
      <3>2. kind = "activity" /\ cmds[i].type = "ScheduleActivityTask"
        BY <1>10, <2>2, <3>1 DEF CallsFor, Kinds
      <3>3. task(i) \in txn.tasks /\ task(i).kind = kind /\ task(i).event = e.id
        BY <1>3, <1>4, <1>7, <3>1, <3>2
      <3> QED BY <3>3
    <2>3. ASSUME NEW t \in txn.tasks, NEW u \in txn.tasks, t.kind = u.kind, t.event = u.event
          PROVE  t = u
      BY <1>3, <1>4, <1>8, <2>3
    <2> QED BY <2>1, <2>2, <2>3 DEF TasksFit
  <1>13. TimeoutsNamed(txn.timers)
    BY <1>2, <1>3, <1>5 DEF TimeoutsNamed
  <1> QED BY <1>11, <1>12, <1>13 DEF TxnFit, txn

LEMMA ActivityTxnFit ==
  ASSUME NEW k, NEW row, NEW a \in Activities, NEW arow, NEW rpc \in ActivityRPCs
  PROVE  TxnFit(k, ActivityTxn(rpc, k, row, a, arow))
  <1>1. TxnFit(k, ActivityTaskCompletedTxn(k, row, a, arow))
    <2> DEFINE txn == ActivityTaskCompletedTxn(k, row, a, arow)
    <2>1. /\ txn.events = {NewEvent(row.next, "ActivityTaskCompleted", a)} /\ txn.timers = {}
          /\ txn.tasks = {WorkflowTask(k, row.next, row.taskQueue)}
      BY DEF ActivityTaskCompletedTxn, AppendEvent
    <2> HIDE DEF txn
    <2>2. "ActivityTaskCompleted" \in WakingTypes \ DOMAIN TimerArmedBy
      BY DEF WakingTypes, TimerArmedBy
    <2>3. TxnFit(k, txn)
      BY <2>1, <2>2, WakingTxnFit
    <2> QED BY <2>3 DEF txn
  <1>2. TxnFit(k, RetryActivityTxn(k, row, a, arow))
    <2> DEFINE txn == RetryActivityTxn(k, row, a, arow)
    <2>1. /\ txn.events = {NewEvent(row.next, "ActivityTaskFailed", a)}
          /\ txn.timers = {[key |-> k, event |-> row.next, type |-> "ActivityTimeout", act |-> a]}
          /\ txn.tasks = {}
      BY DEF RetryActivityTxn, AppendEvent
    <2> HIDE DEF txn
    <2>2. /\ "ActivityTaskFailed" \in DOMAIN TimerArmedBy
          /\ TimerArmedBy["ActivityTaskFailed"] = "ActivityTimeout"
          /\ "ActivityTaskFailed" \notin WakingTypes
      BY DEF WakingTypes, TimerArmedBy
    <2>3. TxnFit(k, txn)
      BY <2>1, <2>2, ArmingTxnFit
    <2> QED BY <2>3 DEF txn
  <1>3. TxnFit(k, FailActivityTxn(k, row, a, arow))
    <2> DEFINE txn == FailActivityTxn(k, row, a, arow)
    <2>1. /\ txn.events = {NewEvent(row.next, "ActivityTaskFailedFinally", a)} /\ txn.timers = {}
          /\ txn.tasks = {WorkflowTask(k, row.next, row.taskQueue)}
      BY DEF FailActivityTxn, AppendEvent
    <2> HIDE DEF txn
    <2>2. "ActivityTaskFailedFinally" \in WakingTypes \ DOMAIN TimerArmedBy
      BY DEF WakingTypes, TimerArmedBy
    <2>3. TxnFit(k, txn)
      BY <2>1, <2>2, WakingTxnFit
    <2> QED BY <2>3 DEF txn
  <1>4. TxnFit(k, HeartbeatTxn(row, a, arow))
    BY DEF HeartbeatTxn, TxnFit, Armed, TasksFit, TimeoutsNamed
  <1> QED BY <1>1, <1>2, <1>3, <1>4 DEF ActivityTxn, ActivityTaskFailedTxn, ActivityRPCs

LEMMA HandlerTxnFit ==
  ASSUME NEW k \in Keys, NEW row \in Execution, NEW txn, HandlerTxn(k, row, txn)
  PROVE  TxnFit(k, txn)
  <1>1. CASE txn = WorkflowTaskStartedTxn(k, row)
    <2>1. /\ txn.events = {NewEvent(row.next, "WorkflowTaskStarted", NoActivity)}
          /\ txn.timers = {[key |-> k, event |-> row.next, type |-> "WorkflowTaskTimeout",
                            act |-> NoActivity]}
          /\ txn.tasks = {}
      BY <1>1 DEF WorkflowTaskStartedTxn, AppendEvent
    <2>2. /\ "WorkflowTaskStarted" \in DOMAIN TimerArmedBy
          /\ TimerArmedBy["WorkflowTaskStarted"] = "WorkflowTaskTimeout"
          /\ "WorkflowTaskStarted" \notin WakingTypes
      BY DEF WakingTypes, TimerArmedBy
    <2> QED BY <2>1, <2>2, ArmingTxnFit
  <1>2. CASE \E cmds \in Batches : txn = WorkflowTaskCompletedTxn(k, row, cmds)
    BY <1>2, WorkflowTaskCompletedFit
  <1>3. CASE txn = WorkflowTaskFailedTxn(row)
    BY <1>3, WorkflowTaskFailedFit
  <1>4. CASE \E a \in Activities : txn = ActivityTaskStartedTxn(row, a)
    <2>1. PICK a \in Activities : txn = ActivityTaskStartedTxn(row, a)
      BY <1>4
    <2>2. /\ txn.events = {NewEvent(row.next, "ActivityTaskStarted", a)}
          /\ txn.timers = {} /\ txn.tasks = {}
      BY <2>1 DEF ActivityTaskStartedTxn, AppendEvent
    <2>3. "ActivityTaskStarted" \notin WakingTypes \cup DOMAIN TimerArmedBy
      BY DEF WakingTypes, TimerArmedBy
    <2> QED BY <2>2, <2>3, QuietTxnFit
  <1>5. CASE txn = SignalTxn(k, row)
    <2>1. /\ txn.events = {NewEvent(row.next, "WorkflowExecutionSignaled", NoActivity)}
          /\ txn.timers = {} /\ txn.tasks = {WorkflowTask(k, row.next, row.taskQueue)}
      BY <1>5 DEF SignalTxn, AppendEvent
    <2>2. "WorkflowExecutionSignaled" \in WakingTypes \ DOMAIN TimerArmedBy
      BY DEF WakingTypes, TimerArmedBy
    <2> QED BY <2>1, <2>2, WakingTxnFit
  <1>6. CASE \E a \in Activities, arow \in Activity, rpc \in ActivityRPCs :
               txn = ActivityTxn(rpc, k, row, a, arow)
    BY <1>6, ActivityTxnFit
  <1> QED BY <1>1, <1>2, <1>3, <1>4, <1>5, <1>6 DEF HandlerTxn, RequestTxn

--------------------------------------------------------------------------------
(* What the steps of the calls have in common *)

\* A call that a request to run k becomes: one that inserts, one that reads on, or one that
\* has its transaction already.
Admitted(k, call) ==
  \/ \E tq \in TaskQueueNames : call = [pc |-> "insert", key |-> k, taskQueue |-> tq]
  \/ \E a \in Activities, rpc \in ActivityRPCs \cap RPCs :
       call = [pc |-> "read", rpc |-> rpc, key |-> k, act |-> a, row |-> executions[k]]
  \/ \E txn : call = Update(k, txn, "publish") /\ RequestTxn(k, executions[k], txn)

LEMMA RequestShape ==
  ASSUME NEW c \in Callers, Request(c)
  PROVE  \E k \in Keys : \E call : Enter(c, call) /\ Admitted(k, call)
  <1>1. PICK k \in Keys :
          \/ \E tq \in TaskQueueNames : RecordWorkflowExecutionStarted(c, k, tq)
          \/ RecordWorkflowTaskStarted(c, k)
          \/ \E cmds \in Batches : RecordWorkflowTaskCompleted(c, k, cmds)
          \/ RecordWorkflowTaskFailed(c, k)
          \/ SignalWorkflowExecution(c, k)
          \/ \E a \in Activities : RecordActivityTaskStarted(c, k, a)
          \/ \E a \in Activities : \E rpc \in ActivityRPCs \cap RPCs : RecordActivityTask(c, rpc, k, a)
    BY DEF Request
  <1>2. ASSUME NEW txn, RequestTxn(k, executions[k], txn), Enter(c, Update(k, txn, "publish"))
        PROVE  \E call : Enter(c, call) /\ Admitted(k, call)
    BY <1>2 DEF Admitted
  <1>3. CASE \E tq \in TaskQueueNames : RecordWorkflowExecutionStarted(c, k, tq)
    BY <1>3 DEF RecordWorkflowExecutionStarted, Admitted
  <1>4. CASE \E a \in Activities : \E rpc \in ActivityRPCs \cap RPCs : RecordActivityTask(c, rpc, k, a)
    BY <1>4 DEF RecordActivityTask, Admitted
  <1>5. CASE \/ RecordWorkflowTaskStarted(c, k)
             \/ \E cmds \in Batches : RecordWorkflowTaskCompleted(c, k, cmds)
             \/ RecordWorkflowTaskFailed(c, k)
             \/ SignalWorkflowExecution(c, k)
             \/ \E a \in Activities : RecordActivityTaskStarted(c, k, a)
    <2>1. PICK txn : RequestTxn(k, executions[k], txn) /\ Enter(c, Update(k, txn, "publish"))
      BY <1>5 DEF RequestTxn, RecordWorkflowTaskStarted, RecordWorkflowTaskCompleted,
         RecordWorkflowTaskFailed, SignalWorkflowExecution, RecordActivityTaskStarted
    <2> QED BY <1>2, <2>1
  <1> QED BY <1>1, <1>3, <1>4, <1>5

--------------------------------------------------------------------------------
(* Counting *)

LEMMA FiniteNumbered ==
  ASSUME NEW S, NEW a \in Int, NEW b \in Int, NEW f \in [S -> a .. b],
         \A x, y \in S : f[x] = f[y] => x = y
  PROVE  IsFiniteSet(S)
  <1>1. f \in Injection(S, a .. b)
    BY DEF Injection, IsInjective
  <1>2. IsFiniteSet(a .. b)
    BY FS_Interval
  <1> QED BY <1>1, <1>2, FS_Injection

LEMMA FiniteEvents ==
  ASSUME NEW S, NEW a \in Int, NEW b \in Int, \A e \in S : e.id \in a .. b,
         \A e, f \in S : e.id = f.id => e = f
  PROVE  IsFiniteSet(S)
  <1> DEFINE f == [e \in S |-> e.id]
  <1>1. f \in [S -> a .. b] /\ \A x, y \in S : f[x] = f[y] => x = y
    OBVIOUS
  <1> HIDE DEF f
  <1> QED BY <1>1, FiniteNumbered

LEMMA FiniteHistory ==
  ASSUME HistoryInv, NEW k \in Keys
  PROVE  IsFiniteSet(history[k])
  <1>1. /\ \A e \in history[k] : e.id \in 1 .. executions[k].next - 1
        /\ \A e, f \in history[k] : e.id = f.id => e = f
    BY DEF HistoryInv, EventIDsContiguous
  <1>2. executions[k].next - 1 \in Int
    BY DEF HistoryInv, TypeOK, RepositoryTypeOK, Execution
  <1> QED BY <1>1, <1>2, FiniteEvents

LEMMA FiniteFit ==
  ASSUME NEW row \in Execution, NEW txn \in Transaction, FitsRow(row, txn)
  PROVE  IsFiniteSet(txn.events)
  <1>1. row.next \in Int /\ txn.next - 1 \in Int
    BY DEF Execution, Transaction
  <1>2. /\ \A e \in txn.events : e.id \in row.next .. txn.next - 1
        /\ \A e, f \in txn.events : e.id = f.id => e = f
    BY DEF FitsRow
  <1> QED BY <1>1, <1>2, FiniteEvents

\* As many tasks of a kind as there are events that call for one.
LEMMA TasksCount ==
  ASSUME NEW k, NEW N, NEW W, TasksFit(k, N, W), IsFiniteSet(N),
         \A e, f \in N : e.id = f.id => e = f, NEW kind \in Kinds
  PROVE  /\ IsFiniteSet({t \in W : t.kind = kind})
         /\ Cardinality({t \in W : t.kind = kind}) = Cardinality({e \in N : e.type \in CallsFor[kind]})
  <1> DEFINE T == {t \in W : t.kind = kind}
             E == {e \in N : e.type \in CallsFor[kind]}
             g == [e \in E |-> CHOOSE t \in T : t.event = e.id]
  <1>1. IsFiniteSet(E)
    BY FS_Subset
  <1>2. \A e \in E : \E t \in T : t.event = e.id
    BY DEF TasksFit
  <1>3. \A e \in E : g[e] \in T /\ g[e].event = e.id
    BY <1>2
  <1>4. \A e, f \in E : g[e] = g[f] => e = f
    BY <1>3
  <1>5. \A t \in T : \E e \in E : e.id = t.event
    BY DEF TasksFit
  <1>6. \A t, u \in T : t.event = u.event => t = u
    BY DEF TasksFit
  <1>7. g \in [E -> T]
    BY <1>3
  <1> HIDE DEF g, T, E
  <1>8. \A t \in T : \E e \in E : g[e] = t
    BY <1>3, <1>5, <1>6
  <1>9. g \in Bijection(E, T)
    BY <1>4, <1>7, <1>8 DEF Bijection, Injection, Surjection, IsInjective
  <1>10. IsFiniteSet(T) /\ Cardinality(T) = Cardinality(E)
    BY <1>1, <1>9, FS_Bijection DEF ExistsBijection
  <1> QED BY <1>10 DEF T, E

LEMMA QueuedNat ==
  ASSUME NEW S, NEW queue \in Seq(S), NEW k
  PROVE  /\ IsFiniteSet({i \in DOMAIN queue : queue[i].key = k})
         /\ Queued(queue, k) \in Nat
  <1>1. IsFiniteSet(DOMAIN queue)
    <2>1. DOMAIN queue = 1 .. Len(queue) /\ Len(queue) \in Int
      OBVIOUS
    <2> QED BY <2>1, FS_Interval
  <1> QED BY <1>1, FS_Subset, FS_CardinalityType DEF Queued

LEMMA QueuedAppend ==
  ASSUME NEW S, NEW queue \in Seq(S), NEW x \in S, NEW k
  PROVE  Queued(Append(queue, x), k) = Queued(queue, k) + (IF x.key = k THEN 1 ELSE 0)
  <1> DEFINE n == Len(queue)
             new == Append(queue, x)
             old == {i \in DOMAIN queue : queue[i].key = k}
             grown == {i \in DOMAIN new : new[i].key = k}
  <1>1. /\ DOMAIN queue = 1 .. n /\ n \in Nat
        /\ DOMAIN new = 1 .. (n + 1) /\ new[n + 1] = x
        /\ \A i \in 1 .. n : new[i] = queue[i]
    OBVIOUS
  <1>2. grown = IF x.key = k THEN old \cup {n + 1} ELSE old
    <2> HIDE DEF n, new
    <2>1. 1 .. (n + 1) = (1 .. n) \cup {n + 1}
      BY <1>1
    <2>2. {i \in DOMAIN new : new[i].key = k}
            = {i \in 1 .. n : new[i].key = k} \cup {i \in {n + 1} : new[i].key = k}
      BY <1>1, <2>1
    <2>3. {i \in 1 .. n : new[i].key = k} = old
      BY <1>1
    <2>4. {i \in {n + 1} : new[i].key = k} = IF x.key = k THEN {n + 1} ELSE {}
      BY <1>1
    <2> QED BY <2>2, <2>3, <2>4
  <1>3. n + 1 \notin old
    BY <1>1
  <1>4. IsFiniteSet(old) /\ Cardinality(old) \in Nat
    BY QueuedNat DEF Queued
  <1>5. Cardinality(old \cup {n + 1}) = Cardinality(old) + 1
    BY <1>3, <1>4, FS_AddElement
  <1>6. Queued(queue, k) = Cardinality(old) /\ Queued(new, k) = Cardinality(grown)
    BY DEF Queued
  <1> HIDE DEF old, grown
  <1>7. CASE x.key = k
    BY <1>2, <1>5, <1>6, <1>7
  <1>8. CASE x.key # k
    BY <1>2, <1>4, <1>6, <1>8
  <1> QED BY <1>7, <1>8

--------------------------------------------------------------------------------
(* The tasks in hand, and the tasks and events of a run *)

\* The tasks a call has yet to push.
Hand(call) == IF call.pc = "publish" THEN call.tasks ELSE {}

SameEvent(t, u) == t.kind = u.kind /\ t.key = u.key /\ t.event = u.event

FitCall(call) ==
  /\ call.pc = "update" => TxnFit(call.key, call.txn)
  /\ call.pc = "publish" => call.timers \subseteq timers

\* The tasks of a run, pushed or not, and the events that call for them.
Answers(kind, k) == Queued(Queue(kind), k) + Cardinality(Unpushed(kind, k))

Demand(kind, k) == Cardinality(EventsOf(k, CallsFor[kind]))

LEMMA HandOfPublish ==
  ASSUME NEW T, NEW W
  PROVE  Hand(Publish(T, W)) = W
  BY DEF Hand, Publish, Idle

LEMMA UnpushedIs ==
  ASSUME NEW kind, NEW k
  PROVE  /\ \A t : t \in Unpushed(kind, k)
                     <=> t.kind = kind /\ t.key = k /\ \E c \in Callers : t \in Hand(calls[c])
         /\ \A t : t \in Unpushed(kind, k)'
                     <=> t.kind = kind /\ t.key = k /\ \E c \in Callers : t \in Hand(calls'[c])
  BY DEF Unpushed, Hand

LEMMA EffectsFitIs ==
  EffectsFit <=>
    /\ \A c \in Callers : FitCall(calls[c])
    /\ \A c \in Callers : \A t \in Hand(calls[c]) :
         \E e \in EventsOf(t.key, CallsFor[t.kind]) : e.id = t.event
    /\ \A c, d \in Callers : \A t \in Hand(calls[c]), u \in Hand(calls[d]) :
         SameEvent(t, u) => c = d /\ t = u
  BY DEF EffectsFit, FitCall, TxnFit, Hand, SameEvent

LEMMA EffectsFitNext ==
  EffectsFit' <=>
    /\ \A c \in Callers : FitCall(calls[c])'
    /\ \A c \in Callers : \A t \in Hand(calls'[c]) :
         \E e \in EventsOf(t.key, CallsFor[t.kind])' : e.id = t.event
    /\ \A c, d \in Callers : \A t \in Hand(calls'[c]), u \in Hand(calls'[d]) :
         SameEvent(t, u) => c = d /\ t = u
  BY DEF EffectsFit, FitCall, TxnFit, Hand, SameEvent

LEMMA FiniteUnpushed ==
  ASSUME HistoryInv, EffectsFit, NEW k \in Keys, NEW kind
  PROVE  IsFiniteSet(Unpushed(kind, k))
  <1> DEFINE U == Unpushed(kind, k)
             f == [t \in U |-> t.event]
  <1>1. \A t \in U : \E c \in Callers : t \in Hand(calls[c]) /\ t.kind = kind /\ t.key = k
    BY UnpushedIs
  <1>2. \A t, u \in U : t.event = u.event => t = u
    BY <1>1, EffectsFitIs DEF SameEvent
  <1>3. \A t \in U : \E e \in history[k] : e.id = t.event
    BY <1>1, EffectsFitIs DEF EventsOf
  <1>4. \A e \in history[k] : e.id \in 1 .. executions[k].next - 1
    BY DEF HistoryInv, EventIDsContiguous
  <1>5. executions[k].next - 1 \in Int
    BY DEF HistoryInv, TypeOK, RepositoryTypeOK, Execution
  <1> HIDE DEF U
  <1>6. f \in [U -> 1 .. executions[k].next - 1] /\ \A t, u \in U : f[t] = f[u] => t = u
    BY <1>2, <1>3, <1>4
  <1> HIDE DEF f
  <1>7. IsFiniteSet(U)
    BY <1>5, <1>6, FiniteNumbered
  <1> QED BY <1>7 DEF U

LEMMA CountsNat ==
  ASSUME HistoryInv, EffectsFit, NEW k \in Keys, NEW kind \in Kinds
  PROVE  /\ Queued(Queue(kind), k) \in Nat
         /\ Cardinality(Unpushed(kind, k)) \in Nat
         /\ Answers(kind, k) \in Nat
         /\ Demand(kind, k) \in Nat
         /\ IsFiniteSet(EventsOf(k, CallsFor[kind]))
  <1>1. Queue(kind) \in Seq(QueuedTask)
    BY DEF HistoryInv, TypeOK, Queue
  <1>2. IsFiniteSet(EventsOf(k, CallsFor[kind]))
    BY FiniteHistory, FS_Subset DEF EventsOf
  <1>3. /\ Queued(Queue(kind), k) \in Nat
        /\ Cardinality(Unpushed(kind, k)) \in Nat
        /\ Cardinality(EventsOf(k, CallsFor[kind])) \in Nat
    BY <1>1, <1>2, QueuedNat, FiniteUnpushed, FS_CardinalityType
  <1> QED BY <1>2, <1>3 DEF Answers, Demand

\* No step makes more tasks than it makes events that call for them.
Balanced ==
  \A k \in Keys, kind \in Kinds :
    /\ Answers(kind, k)' \in Nat /\ Demand(kind, k)' \in Nat
    /\ Answers(kind, k)' + Demand(kind, k) <= Answers(kind, k) + Demand(kind, k)'

LEMMA NoPhantomTaskIs ==
  /\ NoPhantomTask <=> \A k \in Keys, kind \in Kinds : Answers(kind, k) <= Demand(kind, k)
  /\ NoPhantomTask' <=> \A k \in Keys, kind \in Kinds : Answers(kind, k)' <= Demand(kind, k)'
  BY DEF NoPhantomTask, Answers, Demand

--------------------------------------------------------------------------------
(* The steps that push no task and write no row *)

LEMMA SameHands ==
  ASSUME UNCHANGED <<history, workflowQueue, activityQueue>>,
         \A d \in Callers : Hand(calls'[d]) = Hand(calls[d])
  PROVE  \A k, kind : Answers(kind, k)' = Answers(kind, k) /\ Demand(kind, k)' = Demand(kind, k)
  <1> SUFFICES ASSUME NEW k, NEW kind
               PROVE  Answers(kind, k)' = Answers(kind, k) /\ Demand(kind, k)' = Demand(kind, k)
    OBVIOUS
  <1>1. \A t : t \in Unpushed(kind, k)' <=> t \in Unpushed(kind, k)
    BY UnpushedIs
  <1>2. Unpushed(kind, k)' = Unpushed(kind, k)
    BY <1>1
  <1>3. Queued(Queue(kind), k)' = Queued(Queue(kind), k)
    BY DEF Queued, Queue
  <1> QED BY <1>2, <1>3 DEF Answers, Demand, EventsOf

LEMMA FitKept ==
  ASSUME HistoryInv, FitInv, UNCHANGED <<history, timers>>, active' \subseteq timers,
         \A d \in Callers : \/ calls'[d] = calls[d]
                            \/ FitCall(calls'[d]) /\ Hand(calls'[d]) \in {{}, Hand(calls[d])}
  PROVE  FitInv'
  <1>1. \A d \in Callers : Hand(calls'[d]) \subseteq Hand(calls[d])
    OBVIOUS
  <1>2. EffectsFit'
    <2>1. \A c \in Callers : FitCall(calls[c])'
      <3> TAKE c \in Callers
      <3>1. FitCall(calls'[c])
        BY EffectsFitIs DEF FitInv
      <3> QED BY <3>1 DEF FitCall
    <2>2. \A c \in Callers : \A t \in Hand(calls'[c]) :
            \E e \in EventsOf(t.key, CallsFor[t.kind])' : e.id = t.event
      BY <1>1, EffectsFitIs DEF FitInv, EventsOf
    <2>3. \A c, d \in Callers : \A t \in Hand(calls'[c]), u \in Hand(calls'[d]) :
            SameEvent(t, u) => c = d /\ t = u
      BY <1>1, EffectsFitIs DEF FitInv
    <2> QED BY <2>1, <2>2, <2>3, EffectsFitNext
  <1>3. TimersMatchHistory'
    BY DEF FitInv, TimersMatchHistory, TimeoutsNamed
  <1> QED BY <1>2, <1>3 DEF FitInv

LEMMA HandsBalanced ==
  ASSUME HistoryInv, FitInv, UNCHANGED <<history, workflowQueue, activityQueue>>,
         \A d \in Callers : Hand(calls'[d]) \subseteq Hand(calls[d])
  PROVE  Balanced
  <1> SUFFICES ASSUME NEW k \in Keys, NEW kind \in Kinds
               PROVE  /\ Answers(kind, k)' \in Nat /\ Demand(kind, k)' \in Nat
                      /\ Answers(kind, k)' + Demand(kind, k) <= Answers(kind, k) + Demand(kind, k)'
    BY DEF Balanced
  <1>1. Unpushed(kind, k)' \subseteq Unpushed(kind, k)
    BY UnpushedIs
  <1>2. /\ IsFiniteSet(Unpushed(kind, k))
        /\ Cardinality(Unpushed(kind, k)') \in Nat
        /\ Cardinality(Unpushed(kind, k)') <= Cardinality(Unpushed(kind, k))
    BY <1>1, FiniteUnpushed, FS_Subset, FS_CardinalityType DEF FitInv
  <1>3. Queued(Queue(kind), k)' = Queued(Queue(kind), k)
    BY DEF Queued, Queue
  <1>4. Answers(kind, k)' <= Answers(kind, k) /\ Answers(kind, k)' \in Nat
    BY <1>2, <1>3, CountsNat DEF FitInv, Answers
  <1>5. Demand(kind, k)' = Demand(kind, k)
    BY DEF Demand, EventsOf
  <1> QED BY <1>4, <1>5, CountsNat DEF FitInv

--------------------------------------------------------------------------------
(* The step that pushes a task *)

\* The task is counted in a queue instead of the hand it came from, or it is dropped.
LEMMA AddTaskCounts ==
  ASSUME HistoryInv, EffectsFit, NEW c \in Callers, NEW t \in calls[c].tasks, AddTask(c, t),
         NEW k \in Keys, NEW kind \in Kinds
  PROVE  /\ Demand(kind, k)' = Demand(kind, k)
         /\ Answers(kind, k)' <= Answers(kind, k)
         /\ "matching" \notin Faults /\ (t.key = k => t.taskQueue = "named")
              => Answers(kind, k)' = Answers(kind, k)
         /\ Answers(kind, k)' \in Nat
  <1>1. calls \in [Callers -> Call] /\ calls[c].pc = "publish" /\ calls[c] \in Publishing
    BY CallShape DEF HistoryInv, TypeOK, AddTask
  <1>2. t \in Task /\ t \in Hand(calls[c])
    BY <1>1 DEF Publishing, Hand
  <1>3. \A d \in Callers : Hand(calls'[d]) = IF d = c THEN Hand(calls[c]) \ {t} ELSE Hand(calls[d])
    BY <1>1, HandOfPublish DEF AddTask, Hand
  <1>4. \A d \in Callers \ {c} : t \notin Hand(calls[d])
    BY <1>2, EffectsFitIs DEF SameEvent
  <1>5. \A u : u \in Unpushed(kind, k)' <=> u \in Unpushed(kind, k) /\ u # t
    BY <1>3, <1>4, UnpushedIs
  <1>6. Unpushed(kind, k)' = Unpushed(kind, k) \ {t}
    BY <1>5
  <1>7. t \in Unpushed(kind, k) <=> t.kind = kind /\ t.key = k
    BY <1>2, UnpushedIs
  <1> DEFINE mine == t.kind = kind /\ t.key = k
  <1>8. /\ Cardinality(Unpushed(kind, k)) \in Nat
        /\ Cardinality(Unpushed(kind, k)') \in Nat
        /\ Cardinality(Unpushed(kind, k)')
             = Cardinality(Unpushed(kind, k)) - (IF mine THEN 1 ELSE 0)
    BY <1>6, <1>7, FiniteUnpushed, FS_RemoveElement, FS_CardinalityType
  <1>9. /\ Queued(Queue(kind), k) \in Nat
        /\ \/ Queued(Queue(kind), k)' = Queued(Queue(kind), k) + (IF mine THEN 1 ELSE 0)
           \/ /\ Queued(Queue(kind), k)' = Queued(Queue(kind), k)
              /\ t.taskQueue = "empty" \/ "matching" \in Faults
    <2> DEFINE x == [key |-> t.key, act |-> t.act]
    <2>1. x \in QueuedTask /\ x.key = t.key
      BY <1>2 DEF QueuedTask, Task
    <2>2. workflowQueue \in Seq(QueuedTask) /\ activityQueue \in Seq(QueuedTask)
      BY DEF HistoryInv, TypeOK
    <2> HIDE DEF x
    <2>3. /\ Queued(Append(workflowQueue, x), k) = Queued(workflowQueue, k) + (IF t.key = k THEN 1 ELSE 0)
          /\ Queued(Append(activityQueue, x), k) = Queued(activityQueue, k) + (IF t.key = k THEN 1 ELSE 0)
      BY <2>1, <2>2, QueuedAppend
    <2>4. /\ Queued(workflowQueue, k) \in Nat
          /\ Queued(activityQueue, k) \in Nat
      BY <2>2, QueuedNat
    <2>5. kind \in {"workflow", "activity"}
      BY DEF Kinds, CallsFor
    <2>6. Queued(Queue(kind), k) = Queued(Queue(kind), k) /\ Queued(Queue(kind), k)' = Queued(Queue(kind)', k)
      BY DEF Queued
    <2>7. CASE t.kind = "workflow" /\ workflowQueue' = Append(workflowQueue, x) /\ UNCHANGED activityQueue
      BY <2>3, <2>4, <2>5, <2>6, <2>7 DEF Queue
    <2>8. CASE t.kind = "activity" /\ activityQueue' = Append(activityQueue, x) /\ UNCHANGED workflowQueue
      BY <2>3, <2>4, <2>5, <2>6, <2>8 DEF Queue
    <2>9. CASE /\ t.taskQueue = "empty" \/ "matching" \in Faults
               /\ UNCHANGED <<workflowQueue, activityQueue>>
      BY <2>4, <2>5, <2>6, <2>9 DEF Queue
    <2> QED BY <2>7, <2>8, <2>9 DEF AddTask, x
  <1>10. Demand(kind, k)' = Demand(kind, k)
    BY DEF AddTask, Demand, EventsOf, dbVars
  <1> QED BY <1>8, <1>9, <1>10 DEF Answers

LEMMA AddTaskEffect ==
  ASSUME HistoryInv, FitInv, NEW c \in Callers, NEW t \in calls[c].tasks, AddTask(c, t)
  PROVE  FitInv' /\ Balanced
  <1>1. calls \in [Callers -> Call] /\ calls[c].pc = "publish" /\ UNCHANGED <<dbVars, active>>
    BY DEF HistoryInv, TypeOK, AddTask
  <1>2. \A d \in Callers : Hand(calls'[d]) \subseteq Hand(calls[d])
    BY <1>1, HandOfPublish DEF AddTask, Hand
  <1>3. \A d \in Callers : calls'[d] = calls[d] \/ FitCall(calls'[d])
    BY <1>1 DEF AddTask, FitCall, Publish, Idle
  <1>4. EffectsFit'
    <2>1. \A d \in Callers : FitCall(calls[d])'
      <3> TAKE d \in Callers
      <3>1. FitCall(calls'[d])
        BY <1>3, EffectsFitIs DEF FitInv
      <3> QED BY <1>1, <3>1 DEF FitCall, dbVars
    <2>2. \A d \in Callers : \A u \in Hand(calls'[d]) :
            \E e \in EventsOf(u.key, CallsFor[u.kind])' : e.id = u.event
      BY <1>1, <1>2, EffectsFitIs DEF FitInv, EventsOf, dbVars
    <2>3. \A d, e \in Callers : \A u \in Hand(calls'[d]), v \in Hand(calls'[e]) :
            SameEvent(u, v) => d = e /\ u = v
      BY <1>2, EffectsFitIs DEF FitInv
    <2> QED BY <2>1, <2>2, <2>3, EffectsFitNext
  <1>5. TimersMatchHistory'
    BY <1>1 DEF FitInv, TimersMatchHistory, dbVars
  <1>6. Balanced
    <2> SUFFICES ASSUME NEW k \in Keys, NEW kind \in Kinds
                 PROVE  /\ Answers(kind, k)' \in Nat /\ Demand(kind, k)' \in Nat
                        /\ Answers(kind, k)' + Demand(kind, k) <= Answers(kind, k) + Demand(kind, k)'
      BY DEF Balanced
    <2> QED BY AddTaskCounts, CountsNat DEF FitInv
  <1> QED BY <1>4, <1>5, <1>6 DEF FitInv

--------------------------------------------------------------------------------
(* The steps that write a run *)

\* Call c appends the events N to run k, arms their timers, and becomes a call that has
\* their tasks W in hand, or none when the reply is lost.
Writes(c, k, N, W, call) ==
  /\ TasksFit(k, N, W)
  /\ IsFiniteSet(N)
  /\ \A e, f \in N : e.id = f.id => e = f
  /\ \A e \in N, h \in history[k] : e.id # h.id
  /\ history' \in [Keys -> SUBSET Event]
  /\ history'[k] = history[k] \cup N
  /\ \A l \in Keys \ {k} : history'[l] = history[l]
  /\ timers' = timers \cup Armed(k, N)
  /\ TimeoutsNamed(Armed(k, N))
  /\ UNCHANGED redisVars
  /\ Hand(calls[c]) = {}
  /\ Hand(call) \in {{}, W}
  /\ call.pc # "update" /\ (call.pc = "publish" => call.timers \subseteq timers')
  /\ calls' = [calls EXCEPT ![c] = call]

LEMMA WritesHands ==
  ASSUME HistoryInv, NEW c \in Callers, NEW k \in Keys, NEW N, NEW W, NEW call,
         Writes(c, k, N, W, call)
  PROVE  \A d \in Callers : Hand(calls'[d]) = IF d = c THEN Hand(call) ELSE Hand(calls[d])
  <1>1. calls \in [Callers -> Call] /\ calls' = [calls EXCEPT ![c] = call]
    BY DEF HistoryInv, TypeOK, Writes
  <1> QED BY <1>1

LEMMA WritesCounts ==
  ASSUME HistoryInv, EffectsFit, NEW c \in Callers, NEW k \in Keys, NEW N, NEW W, NEW call,
         Writes(c, k, N, W, call), NEW kind \in Kinds
  PROVE  /\ \A l \in Keys \ {k} : /\ Demand(kind, l)' = Demand(kind, l)
                                  /\ Answers(kind, l)' = Answers(kind, l)
         /\ \E n \in Nat : /\ Demand(kind, k)' = Demand(kind, k) + n
                           /\ Hand(call) = W => Answers(kind, k)' = Answers(kind, k) + n
                           /\ Hand(call) = {} => Answers(kind, k)' = Answers(kind, k)
  <1> DEFINE E == {e \in N : e.type \in CallsFor[kind]}
             T == {t \in W : t.kind = kind}
             n == Cardinality(E)
  <1>1. /\ TasksFit(k, N, W) /\ IsFiniteSet(N)
        /\ \A e, f \in N : e.id = f.id => e = f
        /\ \A e \in N, h \in history[k] : e.id # h.id
        /\ history'[k] = history[k] \cup N
        /\ \A l \in Keys \ {k} : history'[l] = history[l]
        /\ UNCHANGED <<workflowQueue, activityQueue>>
        /\ Hand(calls[c]) = {} /\ Hand(call) \in {{}, W}
    BY DEF Writes, redisVars
  <1>2. \A d \in Callers : Hand(calls'[d]) = IF d = c THEN Hand(call) ELSE Hand(calls[d])
    BY WritesHands
  <1>3. IsFiniteSet(E) /\ n \in Nat
    BY <1>1, FS_Subset, FS_CardinalityType
  <1>4. IsFiniteSet(T) /\ Cardinality(T) = n
    BY <1>1, TasksCount
  <1>5. \A l \in Keys : /\ Queued(Queue(kind), l) \in Nat
                        /\ Queued(Queue(kind), l)' = Queued(Queue(kind), l)
    BY <1>1, CountsNat DEF Queued, Queue
  <1>6. ASSUME NEW l \in Keys \ {k}
        PROVE  Demand(kind, l)' = Demand(kind, l) /\ Answers(kind, l)' = Answers(kind, l)
    <2>1. \A t \in W : t.key = k
      BY <1>1 DEF TasksFit
    <2>2. \A t : t \in Unpushed(kind, l)' <=> t \in Unpushed(kind, l)
      BY <1>1, <1>2, <2>1, UnpushedIs
    <2>3. Unpushed(kind, l)' = Unpushed(kind, l)
      BY <2>2
    <2> QED BY <1>1, <1>5, <2>3 DEF Answers, Demand, EventsOf
  <1>7. Demand(kind, k)' = Demand(kind, k) + n
    <2> DEFINE old == EventsOf(k, CallsFor[kind])
    <2>1. EventsOf(k, CallsFor[kind])' = old \cup E
      BY <1>1 DEF EventsOf
    <2>2. old \cap E = {}
      BY <1>1 DEF EventsOf
    <2>3. IsFiniteSet(old) /\ Cardinality(old) \in Nat
      BY CountsNat, FS_CardinalityType
    <2> HIDE DEF old, E
    <2>4. Cardinality(old \cup E) = Cardinality(old) + Cardinality(E) - Cardinality({})
      BY <1>3, <2>2, <2>3, FS_Union
    <2>5. Cardinality(old \cup E) = Cardinality(old) + n
      BY <1>3, <2>3, <2>4, FS_EmptySet
    <2> QED BY <2>1, <2>5 DEF Demand, old
  <1>8. ASSUME Hand(call) = {}
        PROVE  Answers(kind, k)' = Answers(kind, k)
    <2>1. \A t : t \in Unpushed(kind, k)' <=> t \in Unpushed(kind, k)
      BY <1>1, <1>2, <1>8, UnpushedIs
    <2>2. Unpushed(kind, k)' = Unpushed(kind, k)
      BY <2>1
    <2> QED BY <1>5, <2>2 DEF Answers
  <1>9. ASSUME Hand(call) = W
        PROVE  Answers(kind, k)' = Answers(kind, k) + n
    <2> DEFINE old == Unpushed(kind, k)
    <2>1. \A t \in W : t.key = k /\ \E e \in N : e.id = t.event
      BY <1>1 DEF TasksFit
    <2>2. \A t : t \in Unpushed(kind, k)' <=> t \in old \/ t \in T
      BY <1>1, <1>2, <1>9, <2>1, UnpushedIs
    <2>3. Unpushed(kind, k)' = old \cup T
      BY <2>2
    <2>4. \A t \in old : \E h \in history[k] : h.id = t.event
      BY UnpushedIs, EffectsFitIs DEF EventsOf
    <2>5. old \cap T = {}
      BY <1>1, <2>1, <2>4
    <2>6. IsFiniteSet(old) /\ Cardinality(old) \in Nat
      BY FiniteUnpushed, CountsNat
    <2> HIDE DEF old, T
    <2>7. Cardinality(old \cup T) = Cardinality(old) + Cardinality(T) - Cardinality({})
      BY <1>4, <2>5, <2>6, FS_Union
    <2>8. Cardinality(old \cup T) = Cardinality(old) + n
      BY <1>3, <1>4, <2>6, <2>7, FS_EmptySet
    <2> HIDE DEF n
    <2> QED BY <1>3, <1>5, <2>3, <2>6, <2>8 DEF Answers, old
  <1> QED BY <1>3, <1>6, <1>7, <1>8, <1>9

LEMMA WritesEffect ==
  ASSUME HistoryInv, FitInv, NEW c \in Callers, NEW k \in Keys, NEW N, NEW W, NEW call,
         Writes(c, k, N, W, call)
  PROVE  FitInv' /\ Balanced
  <1>1. /\ TasksFit(k, N, W)
        /\ \A e \in N, h \in history[k] : e.id # h.id
        /\ history'[k] = history[k] \cup N
        /\ \A l \in Keys \ {k} : history'[l] = history[l]
        /\ timers' = timers \cup Armed(k, N)
        /\ TimeoutsNamed(Armed(k, N))
        /\ UNCHANGED active
        /\ Hand(calls[c]) = {} /\ Hand(call) \in {{}, W}
    BY DEF Writes, redisVars
  <1>2. \A d \in Callers : Hand(calls'[d]) = IF d = c THEN Hand(call) ELSE Hand(calls[d])
    BY WritesHands
  <1>3. /\ \A t \in W : t.key = k /\ \E e \in N : e.id = t.event /\ e.type \in CallsFor[t.kind]
        /\ \A t, u \in W : t.kind = u.kind /\ t.event = u.event => t = u
    BY <1>1 DEF TasksFit
  <1>4. /\ \A d \in Callers : FitCall(calls[d])
        /\ \A d \in Callers : \A t \in Hand(calls[d]) :
             \E e \in EventsOf(t.key, CallsFor[t.kind]) : e.id = t.event
        /\ \A d, e \in Callers : \A t \in Hand(calls[d]), u \in Hand(calls[e]) :
             SameEvent(t, u) => d = e /\ t = u
    BY EffectsFitIs DEF FitInv
  <1>5. EffectsFit'
    <2>1. \A d \in Callers : FitCall(calls[d])'
      <3> SUFFICES ASSUME NEW d \in Callers PROVE FitCall(calls[d])'
        OBVIOUS
      <3>1. calls \in [Callers -> Call] /\ calls' = [calls EXCEPT ![c] = call]
        BY DEF HistoryInv, TypeOK, Writes
      <3>2. CASE d = c
        BY <3>1, <3>2 DEF FitCall, Writes
      <3>3. CASE d # c
        BY <1>1, <1>4, <3>1, <3>3 DEF FitCall
      <3> QED BY <3>2, <3>3
    <2>2. ASSUME NEW d \in Callers, NEW t \in Hand(calls'[d])
          PROVE  \E e \in EventsOf(t.key, CallsFor[t.kind])' : e.id = t.event
      <3>1. CASE t \in W
        BY <1>1, <1>3, <3>1 DEF EventsOf
      <3>2. CASE t \in Hand(calls[d])
        <4>1. PICK e \in history[t.key] : e.type \in CallsFor[t.kind] /\ e.id = t.event
          BY <1>4, <3>2 DEF EventsOf
        <4>2. t.key \in Keys
          BY <3>2, CallShape DEF HistoryInv, Hand, Publishing, Task
        <4> QED BY <1>1, <4>1, <4>2 DEF EventsOf
      <3> QED BY <1>1, <1>2, <3>1, <3>2
    <2>3. ASSUME NEW d \in Callers, NEW t \in Hand(calls'[d]), NEW u \in W, SameEvent(t, u), d # c
          PROVE  FALSE
      <3>1. t \in Hand(calls[d])
        BY <1>2, <2>3
      <3>2. \E h \in history[k] : h.id = u.event
        BY <1>3, <1>4, <2>3, <3>1 DEF SameEvent, EventsOf
      <3> QED BY <1>1, <1>3, <3>2
    <2>4. ASSUME NEW d \in Callers, NEW e \in Callers,
                 NEW t \in Hand(calls'[d]), NEW u \in Hand(calls'[e]), SameEvent(t, u)
          PROVE  d = e /\ t = u
      <3>1. CASE d # c /\ e # c
        BY <1>2, <1>4, <2>4, <3>1
      <3>2. CASE d = c /\ e = c
        BY <1>1, <1>2, <1>3, <2>4, <3>2 DEF SameEvent
      <3>3. CASE d # c /\ e = c
        BY <1>1, <1>2, <2>3, <2>4, <3>3
      <3>4. CASE d = c /\ e # c
        BY <1>1, <1>2, <2>3, <2>4, <3>4 DEF SameEvent
      <3> QED BY <3>1, <3>2, <3>3, <3>4
    <2> QED BY <2>1, <2>2, <2>4, EffectsFitNext
  <1>6. TimersMatchHistory'
    <2>1. Armed(k, history[k] \cup N) = Armed(k, history[k]) \cup Armed(k, N)
      BY DEF Armed
    <2> DEFINE before == UNION {Armed(l, history[l]) : l \in Keys}
               after == UNION {Armed(l, history'[l]) : l \in Keys}
    <2>2. \A l \in Keys : Armed(l, history'[l]) = IF l = k THEN Armed(l, history[l]) \cup Armed(k, N)
                                                          ELSE Armed(l, history[l])
      BY <1>1, <2>1
    <2>3. after = before \cup Armed(k, N)
      <3>1. \A t : t \in after <=> \E l \in Keys : t \in Armed(l, history'[l])
        OBVIOUS
      <3>2. \A t : t \in before <=> \E l \in Keys : t \in Armed(l, history[l])
        OBVIOUS
      <3> HIDE DEF after, before
      <3>3. \A t : t \in after <=> t \in before \/ t \in Armed(k, N)
        BY <2>2, <3>1, <3>2
      <3> QED BY <3>3
    <2>4. timers = before /\ active \subseteq timers /\ TimeoutsNamed(timers)
      BY DEF FitInv, TimersMatchHistory
    <2> HIDE DEF before, after
    <2>5. timers' = after /\ active' \subseteq timers' /\ TimeoutsNamed(timers')
      BY <1>1, <2>3, <2>4 DEF TimeoutsNamed
    <2> QED BY <2>5 DEF TimersMatchHistory, TimeoutsNamed, Armed, after
  <1>7. Balanced
    <2> SUFFICES ASSUME NEW l \in Keys, NEW kind \in Kinds
                 PROVE  /\ Answers(kind, l)' \in Nat /\ Demand(kind, l)' \in Nat
                        /\ Answers(kind, l)' + Demand(kind, l) <= Answers(kind, l) + Demand(kind, l)'
      BY DEF Balanced
    <2>2. Answers(kind, l) \in Nat /\ Demand(kind, l) \in Nat
      BY CountsNat DEF FitInv
    <2>3. CASE l # k
      BY <2>2, <2>3, WritesCounts DEF FitInv
    <2>4. CASE l = k
      <3>1. PICK n \in Nat : /\ Demand(kind, k)' = Demand(kind, k) + n
                             /\ Hand(call) = W => Answers(kind, k)' = Answers(kind, k) + n
                             /\ Hand(call) = {} => Answers(kind, k)' = Answers(kind, k)
        BY WritesCounts DEF FitInv
      <3> QED BY <1>1, <2>2, <2>4, <3>1
    <2> QED BY <2>3, <2>4
  <1> QED BY <1>5, <1>6, <1>7 DEF FitInv

LEMMA InsertWrites ==
  ASSUME HistoryInv, NEW c \in Callers, InsertExecution(c)
  PROVE  LET k == calls[c].key
             W == {WorkflowTask(k, 1, calls[c].taskQueue)}
         IN  /\ k \in Keys
             /\ executions' = [executions EXCEPT ![k] = [status |-> "Running", version |-> 1, next |-> 2,
                                                         taskQueue |-> calls[c].taskQueue]]
             /\ history[k] = {}
             /\ \E call : /\ Writes(c, k, {NewEvent(1, "WorkflowExecutionStarted", NoActivity)}, W, call)
                          /\ "database" \notin Faults => call = Publish({}, W)
  <1> DEFINE k == calls[c].key
             tq == calls[c].taskQueue
             N == {NewEvent(1, "WorkflowExecutionStarted", NoActivity)}
             W == {WorkflowTask(k, 1, tq)}
  <1>1. calls[c].pc = "insert" /\ k \in Keys
    BY CallShape DEF HistoryInv, InsertExecution, Inserting
  <1>2. CreateWorkflowExecution(k, tq) /\ UNCHANGED redisVars
    BY DEF InsertExecution
  <1>3. history \in [Keys -> SUBSET Event] /\ executions[k] = NoExecution
    BY <1>1, <1>2 DEF HistoryInv, TypeOK, RepositoryTypeOK, AbsentIsEmpty, CreateWorkflowExecution
  <1>4. history[k] = {}
    <2>1. {e.id : e \in history[k]} = 1 .. 0
      BY <1>1, <1>3 DEF HistoryInv, EventIDsContiguous, NoExecution
    <2>2. 1 .. 0 = {}
      OBVIOUS
    <2> QED BY <2>1, <2>2
  <1>5. /\ history' = [history EXCEPT ![k] = @ \cup N] /\ timers' = timers
        /\ executions' = [executions EXCEPT ![k] = [status |-> "Running", version |-> 1, next |-> 2,
                                                    taskQueue |-> tq]]
    BY <1>2 DEF CreateWorkflowExecution
  <1>6. TasksFit(k, N, W)
    <2> DEFINE txn == [events |-> N, tasks |-> W]
    <2>1. "WorkflowExecutionStarted" \in WakingTypes /\ txn.events = N /\ txn.tasks = W
      BY DEF WakingTypes
    <2> HIDE DEF txn
    <2> QED BY <2>1, WakingEventFits
  <1>7. Armed(k, N) = {}
    <2>1. "WorkflowExecutionStarted" \notin DOMAIN TimerArmedBy
      BY DEF TimerArmedBy
    <2> QED BY <2>1, UnarmedEvent
  <1>8. NewEvent(1, "WorkflowExecutionStarted", NoActivity) \in Event
    BY NewEventType DEF EventTypes
  <1>9. IsFiniteSet(N)
    BY FS_Singleton
  <1>10. Hand(calls[c]) = {}
    BY <1>1 DEF Hand
  <1> HIDE DEF k, N, W, tq
  <1>11. PICK call : /\ call \in {Publish({}, W), Idle}
                     /\ "database" \notin Faults => call = Publish({}, W)
                     /\ calls' = [calls EXCEPT ![c] = call]
    BY DEF InsertExecution, AfterCommit, k, W, tq
  <1>12. /\ call.pc # "update" /\ Hand(call) \in {{}, W}
         /\ call.pc = "publish" => call.timers = {}
    BY <1>11, HandOfPublish DEF Publish, Idle, Hand
  <1>13. Writes(c, k, N, W, call)
    BY <1>1, <1>2, <1>3, <1>4, <1>5, <1>6, <1>7, <1>8, <1>9, <1>10, <1>11, <1>12
       DEF Writes, TimeoutsNamed, N
  <1> QED BY <1>1, <1>4, <1>5, <1>11, <1>13 DEF k, N, W, tq

LEMMA CommitWrites ==
  ASSUME HistoryInv, EffectsFit, NEW c \in Callers, CommitUpdate(c)
  PROVE  LET k == calls[c].key
             txn == calls[c].txn
         IN  /\ k \in Keys /\ calls[c].pc = "update" /\ calls[c].row = executions[k]
             /\ executions' = [executions EXCEPT ![k] = WriteRow(k, txn, executions[k].version + 1)]
             /\ \E call : /\ Writes(c, k, txn.events, txn.tasks, call)
                          /\ "database" \notin Faults =>
                               call = IF calls[c].then = "peek" THEN [pc |-> "peek", key |-> k]
                                      ELSE Publish(txn.timers, txn.tasks)
  <1> DEFINE k == calls[c].key
             txn == calls[c].txn
             then == IF calls[c].then = "peek" THEN [pc |-> "peek", key |-> k]
                     ELSE Publish(txn.timers, txn.tasks)
  <1>1. k \in Keys /\ txn \in Transaction /\ calls[c].pc = "update"
    BY CallShape DEF HistoryInv, CommitUpdate, Updating
  <1>2. UpdateWorkflowExecution(k, calls[c].row.version, txn) /\ UNCHANGED redisVars
    BY DEF CommitUpdate
  <1>3. calls[c].row = executions[k]
    BY <1>1, <1>2 DEF HistoryInv, SnapshotCurrent, UpdateWorkflowExecution
  <1>4. /\ FitsRow(executions[k], txn)
        /\ txn.timers = Armed(k, txn.events) /\ TimeoutsNamed(txn.timers)
        /\ TasksFit(k, txn.events, txn.tasks)
    BY <1>1, <1>3 DEF HistoryInv, TransactionsFit, EffectsFit
  <1>5. executions \in [Keys -> Execution] /\ history \in [Keys -> SUBSET Event]
    BY DEF HistoryInv, TypeOK, RepositoryTypeOK
  <1>6. /\ \A e \in txn.events, h \in history[k] : e.id # h.id
        /\ executions' = [executions EXCEPT ![k] = WriteRow(k, txn, executions[k].version + 1)]
        /\ history' = [history EXCEPT ![k] = @ \cup txn.events]
        /\ timers' = timers \cup txn.timers
    BY <1>1, <1>2, <1>5 DEF UpdateWorkflowExecution, WriteTables
  <1>7. IsFiniteSet(txn.events) /\ \A e, f \in txn.events : e.id = f.id => e = f
    BY <1>1, <1>4, <1>5, FiniteFit DEF FitsRow
  <1>8. txn.events \subseteq Event
    BY <1>1 DEF Transaction
  <1>9. Hand(calls[c]) = {}
    BY <1>1 DEF Hand
  <1> HIDE DEF k, txn
  <1>10. PICK call : /\ call \in {then, Idle}
                     /\ "database" \notin Faults => call = then
                     /\ calls' = [calls EXCEPT ![c] = call]
    BY DEF CommitUpdate, AfterCommit, k, txn
  <1>11. /\ call.pc # "update" /\ Hand(call) \in {{}, txn.tasks}
         /\ call.pc = "publish" => call.timers = txn.timers
    <2>1. Hand(Publish(txn.timers, txn.tasks)) = txn.tasks
      BY HandOfPublish
    <2> QED BY <1>10, <2>1 DEF Publish, Idle, Hand
  <1>12. Writes(c, k, txn.events, txn.tasks, call)
    BY <1>1, <1>2, <1>4, <1>5, <1>6, <1>7, <1>8, <1>9, <1>10, <1>11 DEF Writes
  <1> QED BY <1>1, <1>3, <1>6, <1>10, <1>12 DEF k, txn

--------------------------------------------------------------------------------
(* The other steps are quiet *)

TimersInHand(call) == IF call.pc = "publish" THEN call.timers ELSE {}

\* What AnnounceInv says of a call that is about to commit.
QueueFit(call) ==
  call.pc = "update" =>
    /\ call.then = "peek" => call.txn.events = {}
    /\ call.row.taskQueue = "named" => \A t \in call.txn.tasks : t.taskQueue = "named"

\* Nothing is written or pushed, and the calls that change are fit; without faults they
\* keep the tasks they had in hand, and hand on their timers.
Quiet ==
  /\ UNCHANGED <<dbVars, workflowQueue, activityQueue>>
  /\ active' \subseteq timers
  /\ \A d \in Callers : \/ calls'[d] = calls[d]
                        \/ /\ FitCall(calls'[d]) /\ QueueFit(calls'[d])
                           /\ Hand(calls'[d]) \in {{}, Hand(calls[d])}
  /\ Faults = {} => /\ active \subseteq active'
                    /\ \A d \in Callers : /\ Hand(calls'[d]) = Hand(calls[d])
                                          /\ TimersInHand(calls[d]) \subseteq active' \cup TimersInHand(calls'[d])

\* A call with nothing in hand changes into another.
LEMMA QuietCall ==
  ASSUME HistoryInv, FitInv, UNCHANGED <<dbVars, redisVars>>, NEW c \in Callers, NEW call,
         calls' = [calls EXCEPT ![c] = call], calls[c].pc # "publish",
         FitCall(call), QueueFit(call), Hand(call) = {}
  PROVE  Quiet
  <1>1. calls \in [Callers -> Call]
    BY DEF HistoryInv, TypeOK
  <1>2. Hand(calls[c]) = {} /\ TimersInHand(calls[c]) = {}
    BY DEF Hand, TimersInHand
  <1>3. active' \subseteq timers /\ active' = active
    BY DEF FitInv, TimersMatchHistory, redisVars
  <1>4. \A d \in Callers : calls'[d] = IF d = c THEN call ELSE calls[d]
    BY <1>1
  <1> QED BY <1>2, <1>3, <1>4 DEF Quiet, redisVars

\* A run that has a task queue gives it to its tasks.
LEMMA HandlerQueue ==
  ASSUME NEW k, NEW row, row.taskQueue = "named", NEW txn, HandlerTxn(k, row, txn)
  PROVE  \A t \in txn.tasks : t.taskQueue = "named"
  <1>1. ASSUME NEW cmds \in Batches
        PROVE  \A t \in WorkflowTaskCompletedTxn(k, row, cmds).tasks : t.taskQueue = "named"
    <2>1. \A i \in Scheduled(cmds) : ActivityQueue(cmds[i], row) = "named"
      <3>1. cmds \in Seq(Command)
        BY ServiceAssumption
      <3>2. \A i \in Scheduled(cmds) : cmds[i] \in Command
        BY <3>1 DEF Scheduled
      <3> QED BY <3>2 DEF ActivityQueue, Command, TaskQueueNames
    <2> QED BY <2>1 DEF WorkflowTaskCompletedTxn
  <1>2. ASSUME NEW a, NEW arow, NEW rpc \in ActivityRPCs
        PROVE  \A t \in ActivityTxn(rpc, k, row, a, arow).tasks : t.taskQueue = "named"
    BY DEF ActivityTxn, ActivityRPCs, ActivityTaskCompletedTxn, ActivityTaskFailedTxn, RetryActivityTxn,
       FailActivityTxn, HeartbeatTxn, AppendEvent, WorkflowTask
  <1>3. CASE \/ txn = WorkflowTaskStartedTxn(k, row) \/ txn = WorkflowTaskFailedTxn(row)
             \/ txn = SignalTxn(k, row) \/ \E a \in Activities : txn = ActivityTaskStartedTxn(row, a)
    <2>1. /\ WorkflowTaskStartedTxn(k, row).tasks = {}
          /\ WorkflowTaskFailedTxn(row).tasks = {}
          /\ SignalTxn(k, row).tasks = {WorkflowTask(k, row.next, row.taskQueue)}
          /\ \A a : ActivityTaskStartedTxn(row, a).tasks = {}
      BY DEF WorkflowTaskStartedTxn, WorkflowTaskFailedTxn, SignalTxn, ActivityTaskStartedTxn,
         AppendEvent
    <2>2. txn.tasks \in {{}, {WorkflowTask(k, row.next, row.taskQueue)}}
      BY <1>3, <2>1
    <2> QED BY <2>2 DEF WorkflowTask
  <1>4. CASE \E cmds \in Batches : txn = WorkflowTaskCompletedTxn(k, row, cmds)
    BY <1>1, <1>4
  <1>5. CASE \E a \in Activities, arow \in Activity, rpc \in ActivityRPCs :
               txn = ActivityTxn(rpc, k, row, a, arow)
    BY <1>2, <1>5
  <1> QED BY <1>3, <1>4, <1>5 DEF HandlerTxn, RequestTxn

LEMMA RequestCall ==
  ASSUME HistoryInv, NEW c \in Callers, Request(c)
  PROVE  \E call : Enter(c, call) /\ FitCall(call) /\ QueueFit(call) /\ Hand(call) = {}
  <1>1. PICK k \in Keys : \E call : Enter(c, call) /\ Admitted(k, call)
    BY RequestShape
  <1>6. PICK call : Enter(c, call) /\ Admitted(k, call)
    BY <1>1
  <1>2. executions[k] \in Execution
    BY DEF HistoryInv, TypeOK, RepositoryTypeOK
  <1>3. ASSUME NEW txn, call = Update(k, txn, "publish"), RequestTxn(k, executions[k], txn)
        PROVE  FitCall(call) /\ QueueFit(call) /\ Hand(call) = {}
    <2>1. TxnFit(k, txn)
      BY <1>2, <1>3, HandlerTxnFit DEF HandlerTxn
    <2>2. executions[k].taskQueue = "named" => \A t \in txn.tasks : t.taskQueue = "named"
      BY <1>3, HandlerQueue DEF HandlerTxn
    <2> QED BY <1>3, <2>1, <2>2 DEF FitCall, QueueFit, Hand, Update
  <1>4. FitCall(call) /\ QueueFit(call) /\ Hand(call) = {}
    BY <1>3, <1>6 DEF FitCall, QueueFit, Hand, Admitted
  <1> QED BY <1>4, <1>6

LEMMA GetActivityStateCall ==
  ASSUME HistoryInv, NEW c \in Callers, GetActivityState(c)
  PROVE  \E call : /\ calls' = [calls EXCEPT ![c] = call]
                   /\ FitCall(call) /\ QueueFit(call) /\ Hand(call) = {}
  <1> DEFINE cl == calls[c]
             arow == activities[cl.key][cl.act]
             txn == ActivityTxn(cl.rpc, cl.key, cl.row, cl.act, arow)
  <1>1. cl.pc = "read" /\ cl \in Reading
    BY CallShape DEF HistoryInv, GetActivityState
  <1>2. TxnFit(cl.key, txn)
    BY <1>1, ActivityTxnFit DEF Reading
  <1>3. PICK call : /\ calls' = [calls EXCEPT ![c] = call]
                    /\ \/ call = Idle
                       \/ call = [pc |-> "update", key |-> cl.key, row |-> cl.row, txn |-> txn,
                                  then |-> IF cl.rpc = "RecordActivityTaskHeartbeat" THEN "peek"
                                           ELSE "publish"]
    BY DEF GetActivityState
  <1>4. arow \in Activity
    BY <1>1 DEF HistoryInv, TypeOK, RepositoryTypeOK, Reading
  <1>5. cl.row.taskQueue = "named" => \A t \in txn.tasks : t.taskQueue = "named"
    <2>1. HandlerTxn(cl.key, cl.row, txn)
      BY <1>1, <1>4 DEF HandlerTxn, Reading
    <2> QED BY <2>1, HandlerQueue
  <1>6. cl.rpc = "RecordActivityTaskHeartbeat" => txn.events = {}
    BY DEF ActivityTxn, HeartbeatTxn
  <1> HIDE DEF txn
  <1>7. FitCall(call) /\ QueueFit(call) /\ Hand(call) = {}
    BY <1>2, <1>3, <1>5, <1>6 DEF FitCall, QueueFit, Hand, Idle
  <1> QED BY <1>3, <1>7

LEMMA ScheduleTimerQuiet ==
  ASSUME HistoryInv, FitInv, NEW c \in Callers, NEW t \in calls[c].timers, ScheduleTimer(c, t)
  PROVE  Quiet
  <1> DEFINE call == Publish(calls[c].timers \ {t}, calls[c].tasks)
  <1>1. /\ calls \in [Callers -> Call] /\ calls[c].pc = "publish"
        /\ calls' = [calls EXCEPT ![c] = call]
        /\ UNCHANGED <<dbVars, workflowQueue, activityQueue>>
        /\ active' = active \cup {t} \/ ("redis" \in Faults /\ UNCHANGED active)
    BY DEF HistoryInv, TypeOK, ScheduleTimer
  <1>2. calls[c].timers \subseteq timers /\ active \subseteq timers
    BY <1>1, EffectsFitIs DEF FitInv, FitCall, TimersMatchHistory
  <1>3. Hand(call) = Hand(calls[c])
    BY <1>1, HandOfPublish DEF Hand
  <1>4. FitCall(call) /\ QueueFit(call) /\ TimersInHand(call) = calls[c].timers \ {t}
    BY <1>2 DEF FitCall, QueueFit, TimersInHand, Publish, Idle
  <1>5. TimersInHand(calls[c]) = calls[c].timers
    BY <1>1 DEF TimersInHand
  <1> HIDE DEF call
  <1>6. \A d \in Callers : calls'[d] = IF d = c THEN call ELSE calls[d]
    BY <1>1
  <1> QED BY <1>1, <1>2, <1>3, <1>4, <1>5, <1>6 DEF Quiet

LEMMA EffectStepKinds ==
  ASSUME HistoryInv, FitInv, [Next]_vars
  PROVE  \/ Quiet
         \/ \E c \in Callers : \E t \in calls[c].tasks : AddTask(c, t)
         \/ \E c \in Callers : InsertExecution(c) \/ CommitUpdate(c)
  <1>1. FitCall(Idle) /\ QueueFit(Idle) /\ Hand(Idle) = {}
    BY DEF FitCall, QueueFit, Hand, Idle
  <1>2. ASSUME NEW c \in Callers, Request(c)
        PROVE  Quiet
    <2>1. PICK call : Enter(c, call) /\ FitCall(call) /\ QueueFit(call) /\ Hand(call) = {}
      BY <1>2, RequestCall
    <2>2. /\ UNCHANGED <<dbVars, redisVars>> /\ calls' = [calls EXCEPT ![c] = call]
          /\ calls[c].pc # "publish"
      BY <2>1 DEF Enter, Idle
    <2> QED BY <2>1, <2>2, QuietCall
  <1>3. ASSUME NEW c \in Callers, GetActivityState(c)
        PROVE  Quiet
    <2>1. PICK call : /\ calls' = [calls EXCEPT ![c] = call]
                      /\ FitCall(call) /\ QueueFit(call) /\ Hand(call) = {}
      BY <1>3, GetActivityStateCall
    <2> QED BY <1>3, <2>1, QuietCall DEF GetActivityState
  <1>4. ASSUME NEW c \in Callers, RollbackUpdate(c) \/ StatementFails(c)
        PROVE  Quiet
    BY <1>1, <1>4, QuietCall DEF RollbackUpdate, StatementFails
  <1>5. ASSUME NEW c \in Callers, PeekTimeoutTimer(c)
        PROVE  Quiet
    <2>1. \/ calls' = [calls EXCEPT ![c] = Idle]
          \/ \E t \in timers : calls' = [calls EXCEPT ![c] = Publish({t}, {})]
      BY <1>5 DEF PeekTimeoutTimer, GetActivityTimeoutTimer
    <2>2. ASSUME NEW t \in timers
          PROVE  LET call == Publish({t}, {}) IN FitCall(call) /\ QueueFit(call) /\ Hand(call) = {}
      BY HandOfPublish DEF FitCall, QueueFit, Publish, Idle
    <2> QED BY <1>1, <1>5, <2>1, <2>2, QuietCall DEF PeekTimeoutTimer
  <1>6. CASE Crash
    <2>1. Faults # {} /\ UNCHANGED <<dbVars, redisVars>> /\ \A d \in Callers : calls'[d] = Idle
      BY <1>6 DEF Crash
    <2>2. active' \subseteq timers
      BY <2>1 DEF redisVars, FitInv, TimersMatchHistory
    <2> QED BY <1>1, <2>1, <2>2 DEF Quiet, redisVars
  <1>7. CASE UNCHANGED vars
    <2>1. active' \subseteq timers
      BY <1>7 DEF vars, redisVars, FitInv, TimersMatchHistory
    <2> QED BY <1>7, <2>1 DEF Quiet, vars, redisVars
  <1>8. CASE \E c \in Callers : Proceed(c)
    BY <1>3, <1>4, <1>5, <1>8, ScheduleTimerQuiet DEF Proceed
  <1>9. CASE \E c \in Callers : Request(c) \/ StatementFails(c)
    BY <1>2, <1>4, <1>9
  <1> QED BY <1>6, <1>7, <1>8, <1>9 DEF Next

LEMMA FitStep ==
  ASSUME HistoryInv, FitInv, [Next]_vars
  PROVE  FitInv' /\ Balanced
  <1>1. CASE Quiet
    BY <1>1, FitKept, HandsBalanced DEF Quiet, dbVars
  <1>2. ASSUME NEW c \in Callers, InsertExecution(c)
        PROVE  FitInv' /\ Balanced
    BY <1>2, InsertWrites, WritesEffect
  <1>3. ASSUME NEW c \in Callers, CommitUpdate(c)
        PROVE  FitInv' /\ Balanced
    BY <1>3, CommitWrites, WritesEffect DEF FitInv
  <1>4. ASSUME NEW c \in Callers, NEW t \in calls[c].tasks, AddTask(c, t)
        PROVE  FitInv' /\ Balanced
    BY <1>4, AddTaskEffect
  <1> QED BY <1>1, <1>2, <1>3, <1>4, EffectStepKinds

LEMMA EffectStep ==
  ASSUME HistoryInv, EffectInv, [Next]_vars
  PROVE  EffectInv'
  <1>1. FitInv' /\ Balanced
    BY FitStep DEF EffectInv
  <1>2. ASSUME NEW k \in Keys, NEW kind \in Kinds
        PROVE  Answers(kind, k)' <= Demand(kind, k)'
    <2>1. Answers(kind, k) <= Demand(kind, k)
      BY NoPhantomTaskIs DEF EffectInv
    <2>2. Answers(kind, k) \in Nat /\ Demand(kind, k) \in Nat
      BY CountsNat DEF EffectInv, FitInv
    <2>3. /\ Answers(kind, k)' \in Nat /\ Demand(kind, k)' \in Nat
          /\ Answers(kind, k)' + Demand(kind, k) <= Answers(kind, k) + Demand(kind, k)'
      BY <1>1 DEF Balanced
    <2> HIDE DEF Answers, Demand
    <2> QED BY <2>1, <2>2, <2>3
  <1>3. NoPhantomTask'
    BY <1>2, NoPhantomTaskIs
  <1> QED BY <1>1, <1>3 DEF EffectInv

LEMMA EffectInit == Init => EffectInv
  <1> SUFFICES ASSUME Init PROVE EffectInv
    OBVIOUS
  <1>1. /\ history = [k \in Keys |-> {}] /\ timers = {} /\ active = {}
        /\ workflowQueue = <<>> /\ activityQueue = <<>>
        /\ calls = [c \in Callers |-> Idle]
    BY DEF Init, RepositoryInit
  <1>2. EffectsFit
    BY <1>1 DEF EffectsFit, Idle
  <1>3. TimersMatchHistory
    <2>1. \A k \in Keys : Armed(k, history[k]) = {}
      BY <1>1 DEF Armed
    <2>2. UNION {Armed(k, history[k]) : k \in Keys} = {}
      BY <2>1
    <2> QED BY <1>1, <2>2 DEF TimersMatchHistory, TimeoutsNamed
  <1>4. \A k \in Keys, kind \in Kinds : Answers(kind, k) = 0 /\ Demand(kind, k) = 0
    <2> TAKE k \in Keys, kind \in Kinds
    <2>1. \A t : t \notin Unpushed(kind, k)
      BY <1>1, UnpushedIs DEF Hand, Idle
    <2>2. Unpushed(kind, k) = {}
      BY <2>1
    <2>3. EventsOf(k, CallsFor[kind]) = {}
      BY <1>1 DEF EventsOf
    <2>4. {i \in DOMAIN <<>> : <<>>[i].key = k} = {}
      OBVIOUS
    <2>5. Queue(kind) = <<>>
      BY <1>1 DEF Queue
    <2>6. Queued(Queue(kind), k) = 0
      BY <2>4, <2>5, FS_EmptySet, Zenon DEF Queued
    <2> QED BY <2>2, <2>3, <2>6, FS_EmptySet DEF Answers, Demand
  <1>5. NoPhantomTask
    BY <1>4, NoPhantomTaskIs
  <1> QED BY <1>2, <1>3, <1>5 DEF EffectInv, FitInv

--------------------------------------------------------------------------------
(* Without faults nothing is left unannounced *)

LEMMA EveryEventAnnouncedIs ==
  /\ EveryEventAnnounced <=>
       /\ \A k \in Keys, kind \in Kinds :
            executions[k].taskQueue = "named" => Answers(kind, k) = Demand(kind, k)
       /\ \A t : t \in timers <=> t \in active \/ \E c \in Callers : t \in TimersInHand(calls[c])
  /\ EveryEventAnnounced' <=>
       /\ \A k \in Keys, kind \in Kinds :
            executions'[k].taskQueue = "named" => Answers(kind, k)' = Demand(kind, k)'
       /\ \A t : t \in timers' <=> t \in active' \/ \E c \in Callers : t \in TimersInHand(calls'[c])
  <1>1. timers = active \cup UNION {calls[c].timers : c \in {d \in Callers : calls[d].pc = "publish"}}
          <=> \A t : t \in timers <=> t \in active \/ \E c \in Callers : t \in TimersInHand(calls[c])
    BY DEF TimersInHand
  <1>2. timers' = active' \cup UNION {calls'[c].timers : c \in {d \in Callers : calls'[d].pc = "publish"}}
          <=> \A t : t \in timers' <=> t \in active' \/ \E c \in Callers : t \in TimersInHand(calls'[c])
    BY DEF TimersInHand
  <1>3. /\ \A k, kind : Answers(kind, k) = Queued(Queue(kind), k) + Cardinality(Unpushed(kind, k))
        /\ \A k, kind : Demand(kind, k) = Cardinality(EventsOf(k, CallsFor[kind]))
        /\ \A k, kind : Answers(kind, k)' = (Queued(Queue(kind), k) + Cardinality(Unpushed(kind, k)))'
        /\ \A k, kind : Demand(kind, k)' = Cardinality(EventsOf(k, CallsFor[kind]))'
    BY DEF Answers, Demand
  <1> QED BY <1>1, <1>2, <1>3, Zenon DEF EveryEventAnnounced

LEMMA AnnounceInvIs ==
  /\ AnnounceInv <=>
       /\ EveryEventAnnounced
       /\ \A c \in Callers : QueueFit(calls[c])
       /\ \A c \in Callers : \A t \in Hand(calls[c]) :
            executions[t.key].taskQueue = "named" => t.taskQueue = "named"
  /\ AnnounceInv' <=>
       /\ EveryEventAnnounced'
       /\ \A c \in Callers : QueueFit(calls'[c])
       /\ \A c \in Callers : \A t \in Hand(calls'[c]) :
            executions'[t.key].taskQueue = "named" => t.taskQueue = "named"
  BY DEF AnnounceInv, QueueFit, Hand

LEMMA QuietAnnounce ==
  ASSUME Faults = {}, HistoryInv, EffectInv, AnnounceInv, Quiet
  PROVE  AnnounceInv'
  <1>1. /\ UNCHANGED <<executions, history, timers, workflowQueue, activityQueue>>
        /\ active \subseteq active' /\ active' \subseteq timers
        /\ \A d \in Callers : Hand(calls'[d]) = Hand(calls[d])
        /\ \A d \in Callers : TimersInHand(calls[d]) \subseteq active' \cup TimersInHand(calls'[d])
        /\ \A d \in Callers : calls'[d] = calls[d] \/ (FitCall(calls'[d]) /\ QueueFit(calls'[d]))
    <2>1. UNCHANGED <<executions, history, timers, workflowQueue, activityQueue>>
      BY DEF Quiet, dbVars
    <2> QED BY <2>1, Zenon DEF Quiet
  <1>2. \A k \in Keys, kind \in Kinds :
          executions'[k].taskQueue = "named" => Answers(kind, k)' = Demand(kind, k)'
    BY <1>1, SameHands, EveryEventAnnouncedIs, AnnounceInvIs
  <1>3. \A d \in Callers : TimersInHand(calls'[d]) \subseteq timers
    <2>1. \A d \in Callers : FitCall(calls'[d])
      BY <1>1, EffectsFitIs DEF EffectInv, FitInv
    <2> QED BY <2>1 DEF FitCall, TimersInHand
  <1>4. \A t : t \in timers' <=> t \in active' \/ \E c \in Callers : t \in TimersInHand(calls'[c])
    <2>1. \A t : t \in timers <=> t \in active \/ \E c \in Callers : t \in TimersInHand(calls[c])
      BY EveryEventAnnouncedIs, AnnounceInvIs
    <2> QED BY <1>1, <1>3, <2>1
  <1>5. EveryEventAnnounced'
    BY <1>2, <1>4, EveryEventAnnouncedIs
  <1>6. \A c \in Callers : QueueFit(calls'[c])
    BY <1>1, AnnounceInvIs
  <1>7. \A c \in Callers : \A t \in Hand(calls'[c]) :
          executions'[t.key].taskQueue = "named" => t.taskQueue = "named"
    BY <1>1, AnnounceInvIs
  <1> QED BY <1>5, <1>6, <1>7, AnnounceInvIs

LEMMA AddTaskAnnounce ==
  ASSUME Faults = {}, HistoryInv, EffectInv, AnnounceInv,
         NEW c \in Callers, NEW t \in calls[c].tasks, AddTask(c, t)
  PROVE  AnnounceInv'
  <1>1. /\ calls \in [Callers -> Call] /\ calls[c].pc = "publish" /\ calls[c].timers = {}
        /\ calls' = [calls EXCEPT ![c] = Publish({}, calls[c].tasks \ {t})]
        /\ UNCHANGED <<executions, timers, active>>
    BY DEF HistoryInv, TypeOK, AddTask, dbVars
  <1>2. /\ Hand(Publish({}, calls[c].tasks \ {t})) = calls[c].tasks \ {t}
        /\ TimersInHand(Publish({}, calls[c].tasks \ {t})) = {}
        /\ QueueFit(Publish({}, calls[c].tasks \ {t}))
    BY HandOfPublish DEF TimersInHand, QueueFit, Publish, Idle
  <1>3. \A d \in Callers : /\ Hand(calls'[d]) \subseteq Hand(calls[d])
                           /\ TimersInHand(calls'[d]) = TimersInHand(calls[d])
                           /\ calls'[d] = calls[d] \/ QueueFit(calls'[d])
    BY <1>1, <1>2 DEF Hand, TimersInHand
  <1>4. t \in Hand(calls[c])
    BY <1>1 DEF Hand
  <1>5. ASSUME NEW k \in Keys, NEW kind \in Kinds, executions'[k].taskQueue = "named"
        PROVE  Answers(kind, k)' = Demand(kind, k)'
    <2>1. Answers(kind, k) = Demand(kind, k)
      BY <1>1, <1>5, EveryEventAnnouncedIs, AnnounceInvIs
    <2>2. t.key = k => t.taskQueue = "named"
      BY <1>1, <1>4, <1>5, AnnounceInvIs
    <2> QED BY <2>1, <2>2, AddTaskCounts DEF EffectInv, FitInv
  <1>6. EveryEventAnnounced'
    BY <1>1, <1>3, <1>5, EveryEventAnnouncedIs, AnnounceInvIs
  <1> QED BY <1>1, <1>3, <1>6, AnnounceInvIs

\* A call writes run k and announces what it has written.
LEMMA WritesAnnounce ==
  ASSUME Faults = {}, HistoryInv, EffectInv, AnnounceInv, NEW c \in Callers, NEW k \in Keys,
         NEW N, NEW W, NEW call, Writes(c, k, N, W, call), Hand(call) = W,
         TimersInHand(calls[c]) = {}, TimersInHand(call) = Armed(k, N),
         \A l \in Keys \ {k} : executions'[l] = executions[l],
         executions'[k].taskQueue = "named" =>
           /\ executions[k].taskQueue = "named" \/ history[k] = {}
           /\ \A t \in W : t.taskQueue = "named"
  PROVE  AnnounceInv'
  <1>1. /\ calls \in [Callers -> Call] /\ calls' = [calls EXCEPT ![c] = call]
        /\ timers' = timers \cup Armed(k, N) /\ UNCHANGED active
        /\ call.pc # "update"
    BY DEF HistoryInv, TypeOK, Writes, redisVars
  <1>2. \A d \in Callers : Hand(calls'[d]) = IF d = c THEN W ELSE Hand(calls[d])
    BY WritesHands
  <1>3. \A d \in Callers : TimersInHand(calls'[d])
                             = IF d = c THEN Armed(k, N) ELSE TimersInHand(calls[d])
    BY <1>1
  <1>4. ASSUME NEW l \in Keys, NEW kind \in Kinds, executions'[l].taskQueue = "named"
        PROVE  Answers(kind, l)' = Demand(kind, l)'
    <2>1. Answers(kind, l) = Demand(kind, l)
      <3>1. CASE executions[l].taskQueue = "named"
        BY <3>1, EveryEventAnnouncedIs, AnnounceInvIs
      <3>2. CASE history[l] = {}
        <4>1. EventsOf(l, CallsFor[kind]) = {}
          BY <3>2 DEF EventsOf
        <4>2. Demand(kind, l) = 0
          BY <4>1, FS_EmptySet DEF Demand
        <4>3. Answers(kind, l) \in Nat /\ Answers(kind, l) <= Demand(kind, l)
          BY CountsNat, NoPhantomTaskIs DEF EffectInv, FitInv
        <4> QED BY <4>2, <4>3
      <3> QED BY <1>4, <3>1, <3>2
    <2>2. Answers(kind, l) \in Nat
      BY CountsNat DEF EffectInv, FitInv
    <2> QED BY <2>1, <2>2, WritesCounts DEF EffectInv, FitInv
  <1>5. \A t : t \in timers' <=> t \in active' \/ \E d \in Callers : t \in TimersInHand(calls'[d])
    <2>1. \A t : t \in timers <=> t \in active \/ \E d \in Callers : t \in TimersInHand(calls[d])
      BY EveryEventAnnouncedIs, AnnounceInvIs
    <2> QED BY <1>1, <1>3, <2>1
  <1>6. EveryEventAnnounced'
    BY <1>4, <1>5, EveryEventAnnouncedIs
  <1>7. \A d \in Callers : QueueFit(calls'[d])
    BY <1>1, AnnounceInvIs DEF QueueFit
  <1>8. ASSUME NEW d \in Callers, NEW t \in Hand(calls'[d]), executions'[t.key].taskQueue = "named"
        PROVE  t.taskQueue = "named"
    <2>1. \A u \in W : u.key = k
      BY DEF Writes, TasksFit
    <2>2. CASE d = c
      BY <1>2, <1>8, <2>1, <2>2
    <2>3. CASE d # c
      <3>1. t \in Hand(calls[d]) /\ t.key \in Keys
        BY <1>2, <1>8, <2>3, CallShape DEF HistoryInv, Hand, Publishing, Task
      <3>2. \E h \in history[t.key] : h.id = t.event
        BY <3>1, EffectsFitIs DEF EffectInv, FitInv, EventsOf
      <3>3. executions[t.key].taskQueue = "named"
        BY <1>8, <3>1, <3>2
      <3> QED BY <3>1, <3>3, AnnounceInvIs
    <2> QED BY <2>2, <2>3
  <1> QED BY <1>6, <1>7, <1>8, AnnounceInvIs

LEMMA AnnounceStep ==
  ASSUME Faults = {}, HistoryInv, EffectInv, AnnounceInv, [Next]_vars
  PROVE  AnnounceInv'
  <1>1. ASSUME NEW c \in Callers, InsertExecution(c)
        PROVE  AnnounceInv'
    <2> DEFINE k == calls[c].key
               N == {NewEvent(1, "WorkflowExecutionStarted", NoActivity)}
               W == {WorkflowTask(k, 1, calls[c].taskQueue)}
               row == [status |-> "Running", version |-> 1, next |-> 2, taskQueue |-> calls[c].taskQueue]
    <2>1. /\ k \in Keys /\ history[k] = {} /\ executions' = [executions EXCEPT ![k] = row]
          /\ Writes(c, k, N, W, Publish({}, W))
      BY <1>1, InsertWrites
    <2>2. executions \in [Keys -> Execution]
      BY DEF HistoryInv, TypeOK, RepositoryTypeOK
    <2>3. executions'[k] = row /\ \A l \in Keys \ {k} : executions'[l] = executions[l]
      BY <2>1, <2>2
    <2>4. row.taskQueue = "named" => \A t \in W : t.taskQueue = "named"
      BY DEF WorkflowTask
    <2>5. Armed(k, N) = {}
      <3>1. "WorkflowExecutionStarted" \notin DOMAIN TimerArmedBy
        BY DEF TimerArmedBy
      <3> QED BY <3>1, UnarmedEvent
    <2>6. /\ TimersInHand(calls[c]) = {} /\ TimersInHand(Publish({}, W)) = {}
          /\ Hand(Publish({}, W)) = W
      BY <1>1, HandOfPublish DEF InsertExecution, TimersInHand, Publish, Idle
    <2> HIDE DEF k, N, W, row
    <2> QED BY <2>1, <2>3, <2>4, <2>5, <2>6, WritesAnnounce
  <1>2. ASSUME NEW c \in Callers, CommitUpdate(c)
        PROVE  AnnounceInv'
    <2> DEFINE k == calls[c].key
               txn == calls[c].txn
               call == IF calls[c].then = "peek" THEN [pc |-> "peek", key |-> k]
                       ELSE Publish(txn.timers, txn.tasks)
    <2>1. /\ k \in Keys /\ calls[c].pc = "update" /\ calls[c].row = executions[k]
          /\ executions' = [executions EXCEPT ![k] = WriteRow(k, txn, executions[k].version + 1)]
          /\ Writes(c, k, txn.events, txn.tasks, call)
      BY <1>2, CommitWrites DEF EffectInv, FitInv
    <2>2. executions \in [Keys -> Execution]
      BY DEF HistoryInv, TypeOK, RepositoryTypeOK
    <2>3. /\ executions'[k].taskQueue = executions[k].taskQueue
          /\ \A l \in Keys \ {k} : executions'[l] = executions[l]
      BY <2>1, <2>2 DEF WriteRow
    <2>4. /\ calls[c].then = "peek" => txn.events = {}
          /\ executions[k].taskQueue = "named" => \A t \in txn.tasks : t.taskQueue = "named"
      BY <2>1, AnnounceInvIs DEF QueueFit
    <2>5. txn.timers = Armed(k, txn.events) /\ TasksFit(k, txn.events, txn.tasks)
      BY <2>1, EffectsFitIs DEF EffectInv, FitInv, FitCall, TxnFit
    <2>6. txn.events = {} => Armed(k, txn.events) = {} /\ txn.tasks = {}
      BY <2>5 DEF Armed, TasksFit
    <2>7. TimersInHand(calls[c]) = {}
      BY <2>1 DEF TimersInHand
    <2>8. Hand(call) = txn.tasks /\ TimersInHand(call) = Armed(k, txn.events)
      <3>1. CASE calls[c].then = "peek"
        BY <2>4, <2>6, <3>1 DEF Hand, TimersInHand
      <3>2. CASE calls[c].then # "peek"
        <4>1. TimersInHand(Publish(txn.timers, txn.tasks)) = txn.timers
          BY DEF TimersInHand, Publish, Idle
        <4> QED BY <2>5, <3>2, <4>1, HandOfPublish
      <3> QED BY <3>1, <3>2
    <2> HIDE DEF k, txn, call
    <2> QED BY <2>1, <2>3, <2>4, <2>7, <2>8, WritesAnnounce
  <1> QED BY <1>1, <1>2, QuietAnnounce, AddTaskAnnounce, EffectStepKinds DEF EffectInv, FitInv

LEMMA AnnounceInit == Init => AnnounceInv
  <1> SUFFICES ASSUME Init PROVE AnnounceInv
    OBVIOUS
  <1>1. /\ executions = [k \in Keys |-> NoExecution] /\ timers = {} /\ active = {}
        /\ calls = [c \in Callers |-> Idle]
    BY DEF Init, RepositoryInit
  <1>2. \A c \in Callers : QueueFit(calls[c]) /\ Hand(calls[c]) = {} /\ TimersInHand(calls[c]) = {}
    BY <1>1 DEF QueueFit, Hand, TimersInHand, Idle
  <1>3. EveryEventAnnounced
    BY <1>1, <1>2, EveryEventAnnouncedIs DEF NoExecution
  <1> QED BY <1>2, <1>3, AnnounceInvIs

--------------------------------------------------------------------------------
(* Theorems *)

\* Whatever the callers interleave, and in spite of failed statements, lost replies, failed
\* publications and crashes, the effects of the handlers fit the history.
THEOREM EffectsSound == Spec => []EffectInv
  <1>1. HistoryInv /\ EffectInv /\ [Next]_vars => (HistoryInv /\ EffectInv)'
    BY StepKinds, EffectStep
  <1> QED BY InitInv, EffectInit, <1>1, PTL DEF Spec

\* The timers of a run are exactly those its history armed, and Redis has no other.
THEOREM TimersExact == Spec => []TimersMatchHistory
  <1>1. EffectInv => TimersMatchHistory
    BY DEF EffectInv, FitInv
  <1> QED BY EffectsSound, <1>1, PTL

\* No worker is woken for an event that is not in the history.
THEOREM NoPhantoms == Spec => []NoPhantomTask
  <1>1. EffectInv => NoPhantomTask
    BY DEF EffectInv, FitInv
  <1> QED BY EffectsSound, <1>1, PTL

\* When nothing fails, every event that calls for a task has one and every timer is in
\* Redis, pushed already or held by a call that is still publishing.
THEOREM Announced == ASSUME Faults = {} PROVE Spec => []EveryEventAnnounced
  <1>1. HistoryInv /\ EffectInv /\ AnnounceInv /\ [Next]_vars
          => (HistoryInv /\ EffectInv /\ AnnounceInv)'
    BY StepKinds, EffectStep, AnnounceStep
  <1>2. AnnounceInv => EveryEventAnnounced
    BY DEF AnnounceInv
  <1> QED BY InitInv, EffectInit, AnnounceInit, <1>1, <1>2, PTL DEF Spec
================================================================================
