------------------------------ MODULE FrontendProofs -----------------------------
(***************************************************************************)
(* Mini-Workflow as a whole: the event store keeps its invariant under     *)
(* what workers and clients do through Frontend, what a worker reports     *)
(* goes to the task it was given, a decision schedules an activity once,   *)
(* and no run is left with news and without a task.                        *)
(***************************************************************************)
EXTENDS FrontendProperties, FiringProofs

--------------------------------------------------------------------------------
(* Tokens *)

\* What Frontend reads of a token is what it has put into it; History reads nothing of it.
LEMMA TokenDecodes ==
  ASSUME NEW workflow, NEW run, NEW a, NEW n
  PROVE  LET token == Encode(workflow, run, a, n)
         IN  /\ token.coding = "base64"
             /\ Decode(token) = [workflow |-> workflow, run |-> run, activity |-> a]
             /\ Decode(token) # Malformed
             /\ DecodeTaskToken(token) = Malformed
  <1> DEFINE token == Encode(workflow, run, a, n)
  <1>1. token.coding = "base64"
    BY DEF Encode
  <1>2. /\ Field(token.json, "wf_id") = workflow
        /\ Field(token.json, "run_id") = run
        /\ Field(token.json, "act_id") = a
    <2>1. CASE a = NoActivity
      BY <2>1 DEF Encode, Omit, Field
    <2>2. CASE a # NoActivity
      BY <2>2 DEF Encode, Field
    <2> QED BY <2>1, <2>2
  <1> HIDE DEF token
  <1>3. Decode(token) = [workflow |-> workflow, run |-> run, activity |-> a]
    BY <1>1, <1>2 DEF Decode
  <1>4. Decode(token) # Malformed
    <2>1. "run" \in DOMAIN Decode(token) /\ "run" \notin DOMAIN Malformed
      BY <1>3 DEF Malformed
    <2> QED BY <2>1
  <1> QED BY <1>1, <1>3, <1>4 DEF DecodeTaskToken, token

\* Without an activity the attempt is left out as well.
LEMMA NoAttempt ==
  ASSUME NEW workflow, NEW run, NEW m, NEW n
  PROVE  Encode(workflow, run, NoActivity, m) = Encode(workflow, run, NoActivity, n)
  <1> DEFINE json(i) == [wf_id |-> workflow, run_id |-> run, act_id |-> NoActivity, attempt |-> i]
             short(i) == Omit(Omit(json(i), "act_id"), "attempt")
  <1>1. \A i : short(i) = [field \in {"wf_id", "run_id"} |-> json(i)[field]]
    BY DEF Omit
  <1>2. \A i : short(i) = [field \in {"wf_id", "run_id"} |-> IF field = "wf_id" THEN workflow ELSE run]
    BY <1>1
  <1> QED BY <1>2 DEF Encode

\* What Frontend reads of the tokens of Matching is the run of the task.
LEMMA MatchingTokenRead ==
  ASSUME NEW workflow, NEW run, NEW a
  PROVE  LET json == MatchingToken(workflow, run, a).json
         IN  Field(json, "workflow_id") = workflow /\ Field(json, "run_id") = run
  BY DEF MatchingToken, Omit, Field

LEMMA KeyIsPair ==
  ASSUME NEW k \in Keys
  PROVE  <<k[1], k[2]>> = k
  BY DEF Keys

\* Tokens about a run of the system, and about an activity of it or about none.
LEMMA TokenTypes ==
  ASSUME NEW k \in Keys, NEW a \in Activities \cup {NoActivity}
  PROVE  MatchingToken(k[1], k[2], a) \in Tokens /\ Encode(k[1], k[2], a, 1) \in Tokens
  <1> DEFINE matching(i, b) == MatchingToken(i[1], i[2], b)
             frontend(i, b) == Encode(i[1], i[2], b, 1)
  <1>1. Tokens = {matching(i, b) : i \in Keys, b \in Activities \cup {NoActivity}}
                   \cup {frontend(i, b) : i \in Keys, b \in Activities \cup {NoActivity}}
    BY DEF Tokens
  <1> HIDE DEF matching, frontend
  <1>2. matching(k, a) \in Tokens /\ frontend(k, a) \in Tokens
    BY <1>1
  <1> QED BY <1>2 DEF matching, frontend

--------------------------------------------------------------------------------
(* Activity tasks name activities *)

NamedCall(call) ==
  /\ call.pc = "update" => ActsNamed(call.txn.tasks)
  /\ call.pc = "publish" => ActsNamed(call.tasks)

LEMMA TasksNamedIs ==
  /\ TasksNamed <=> /\ \A i \in DOMAIN activityQueue : activityQueue[i].act \in Activities
                    /\ \A c \in Callers : NamedCall(calls[c])
                    /\ \A p \in Processors : procs[p].pc = "requeue" => procs[p].timer.act \in Activities
  /\ TasksNamed' <=> /\ \A i \in DOMAIN activityQueue' : activityQueue'[i].act \in Activities
                     /\ \A c \in Callers : NamedCall(calls'[c])
                     /\ \A p \in Processors : procs'[p].pc = "requeue" => procs'[p].timer.act \in Activities
  BY DEF TasksNamed, NamedCall, ProcessorsAt

LEMMA AppendNamed ==
  ASSUME NEW queue \in Seq(QueuedTask), NEW task \in QueuedTask, task.act \in Activities,
         \A i \in DOMAIN queue : queue[i].act \in Activities
  PROVE  \A i \in DOMAIN Append(queue, task) : Append(queue, task)[i].act \in Activities
  OBVIOUS

LEMMA HandlerNamed ==
  ASSUME NEW k, NEW row, NEW txn, HandlerTxn(k, row, txn)
  PROVE  ActsNamed(txn.tasks)
  <1>1. ASSUME NEW cmds \in Batches
        PROVE  ActsNamed(WorkflowTaskCompletedTxn(k, row, cmds).tasks)
    <2>1. \A i \in Scheduled(cmds) : cmds[i].act \in Activities
      BY ServiceAssumption DEF Scheduled
    <2> QED BY <2>1 DEF WorkflowTaskCompletedTxn, ActsNamed
  <1>2. ASSUME NEW a, NEW arow, NEW rpc \in ActivityRPCs
        PROVE  ActsNamed(ActivityTxn(rpc, k, row, a, arow).tasks)
    BY DEF ActivityTxn, ActivityRPCs, ActivityTaskCompletedTxn, ActivityTaskFailedTxn, RetryActivityTxn,
       FailActivityTxn, HeartbeatTxn, AppendEvent, WorkflowTask, ActsNamed
  <1>3. CASE \/ txn = WorkflowTaskStartedTxn(k, row) \/ txn = WorkflowTaskFailedTxn(row)
             \/ txn = SignalTxn(k, row) \/ \E a \in Activities : txn = ActivityTaskStartedTxn(row, a)
    <2>1. /\ WorkflowTaskStartedTxn(k, row).tasks = {}
          /\ WorkflowTaskFailedTxn(row).tasks = {}
          /\ SignalTxn(k, row).tasks = {WorkflowTask(k, row.next, row.taskQueue)}
          /\ \A a : ActivityTaskStartedTxn(row, a).tasks = {}
      BY DEF WorkflowTaskStartedTxn, WorkflowTaskFailedTxn, SignalTxn, ActivityTaskStartedTxn,
         AppendEvent
    <2>2. txn.tasks \in {{}, {WorkflowTask(k, row.next, row.taskQueue)}}
      BY <1>3, <2>1
    <2> QED BY <2>2 DEF WorkflowTask, ActsNamed
  <1>4. CASE \E cmds \in Batches : txn = WorkflowTaskCompletedTxn(k, row, cmds)
    BY <1>1, <1>4
  <1>5. CASE \E a \in Activities, arow \in Activity, rpc \in ActivityRPCs :
               txn = ActivityTxn(rpc, k, row, a, arow)
    BY <1>2, <1>5
  <1> QED BY <1>3, <1>4, <1>5 DEF HandlerTxn, RequestTxn

LEMMA PublishNamed ==
  ASSUME NEW T, NEW W, ActsNamed(W)
  PROVE  NamedCall(Publish(T, W))
  BY DEF NamedCall, Publish, Idle

\* A call of one caller changes, and nothing is pushed.
LEMMA CallNamed ==
  ASSUME TypeOK, TasksNamed, UNCHANGED <<activityQueue, procs>>, NEW c \in Callers, NEW call,
         calls' = [calls EXCEPT ![c] = call], NamedCall(call)
  PROVE  TasksNamed'
  <1>1. \A d \in Callers : calls'[d] = IF d = c THEN call ELSE calls[d]
    BY DEF TypeOK
  <1> QED BY <1>1, TasksNamedIs

LEMMA HistoryNamed ==
  ASSUME HistoryInv, TasksNamed, [Next]_vars, UNCHANGED procs
  PROVE  TasksNamed'
  <1>1. TypeOK /\ NamedCall(Idle)
    BY DEF HistoryInv, NamedCall, Idle
  <1>2. ASSUME NEW c \in Callers, Request(c)
        PROVE  TasksNamed'
    <2>1. PICK k \in Keys : \E call : Enter(c, call) /\ Admitted(k, call)
      BY <1>2, RequestShape
    <2>2. PICK call : Enter(c, call) /\ Admitted(k, call)
      BY <2>1
    <2>3. ASSUME NEW txn, call = Update(k, txn, "publish"), RequestTxn(k, executions[k], txn)
          PROVE  NamedCall(call)
      BY <2>3, HandlerNamed DEF HandlerTxn, NamedCall, Update
    <2>4. NamedCall(call)
      BY <2>2, <2>3 DEF Admitted, NamedCall
    <2> QED BY <1>1, <2>2, <2>4, CallNamed DEF Enter, redisVars
  <1>3. ASSUME NEW c \in Callers, GetActivityState(c)
        PROVE  TasksNamed'
    <2> DEFINE cl == calls[c]
               arow == activities[cl.key][cl.act]
               txn == ActivityTxn(cl.rpc, cl.key, cl.row, cl.act, arow)
    <2>1. cl.pc = "read" /\ cl \in Reading
      BY <1>1, <1>3, CallShape DEF GetActivityState
    <2>2. arow \in Activity
      BY <2>1 DEF HistoryInv, TypeOK, RepositoryTypeOK, Reading
    <2>3. ActsNamed(txn.tasks)
      <3>1. HandlerTxn(cl.key, cl.row, txn)
        BY <2>1, <2>2 DEF HandlerTxn, Reading
      <3> QED BY <3>1, HandlerNamed
    <2>4. PICK call : /\ calls' = [calls EXCEPT ![c] = call]
                      /\ \/ call = Idle
                         \/ call = [pc |-> "update", key |-> cl.key, row |-> cl.row, txn |-> txn,
                                    then |-> IF cl.rpc = "RecordActivityTaskHeartbeat" THEN "peek"
                                             ELSE "publish"]
      BY <1>3 DEF GetActivityState
    <2> HIDE DEF txn
    <2>5. NamedCall(call)
      BY <1>1, <2>3, <2>4 DEF NamedCall
    <2> QED BY <1>1, <1>3, <2>4, <2>5, CallNamed DEF GetActivityState, redisVars
  <1>4. ASSUME NEW c \in Callers, InsertExecution(c)
        PROVE  TasksNamed'
    <2> DEFINE task == WorkflowTask(calls[c].key, 1, calls[c].taskQueue)
    <2>1. ActsNamed({task})
      BY DEF ActsNamed, WorkflowTask
    <2>2. PICK call \in {Publish({}, {task}), Idle} : calls' = [calls EXCEPT ![c] = call]
      BY <1>4 DEF InsertExecution, AfterCommit
    <2> QED BY <1>1, <1>4, <2>1, <2>2, PublishNamed, CallNamed DEF InsertExecution, redisVars
  <1>5. ASSUME NEW c \in Callers, CommitUpdate(c)
        PROVE  TasksNamed'
    <2> DEFINE then == IF calls[c].then = "peek" THEN [pc |-> "peek", key |-> calls[c].key]
                       ELSE Publish(calls[c].txn.timers, calls[c].txn.tasks)
    <2>1. ActsNamed(calls[c].txn.tasks)
      BY <1>5 DEF CommitUpdate, TasksNamed
    <2>2. NamedCall(then)
      BY <2>1, PublishNamed DEF NamedCall
    <2>3. PICK call \in {then, Idle} : calls' = [calls EXCEPT ![c] = call]
      BY <1>5 DEF CommitUpdate, AfterCommit
    <2> QED BY <1>1, <1>5, <2>2, <2>3, CallNamed DEF CommitUpdate, redisVars
  <1>6. ASSUME NEW c \in Callers, RollbackUpdate(c) \/ StatementFails(c)
        PROVE  TasksNamed'
    BY <1>1, <1>6, CallNamed DEF RollbackUpdate, StatementFails, redisVars
  <1>7. ASSUME NEW c \in Callers, PeekTimeoutTimer(c)
        PROVE  TasksNamed'
    <2>1. PICK call : /\ calls' = [calls EXCEPT ![c] = call]
                      /\ call = Idle \/ \E t : call = Publish({t}, {})
      BY <1>7 DEF PeekTimeoutTimer
    <2>2. NamedCall(call)
      BY <1>1, <2>1, PublishNamed DEF ActsNamed
    <2> QED BY <1>1, <1>7, <2>1, <2>2, CallNamed DEF PeekTimeoutTimer, redisVars
  <1>8. ASSUME NEW c \in Callers, NEW t \in calls[c].timers, ScheduleTimer(c, t)
        PROVE  TasksNamed'
    <2>1. NamedCall(Publish(calls[c].timers \ {t}, calls[c].tasks))
      BY <1>8, PublishNamed DEF ScheduleTimer, TasksNamed
    <2> QED BY <1>1, <1>8, <2>1, CallNamed DEF ScheduleTimer
  <1>9. ASSUME NEW c \in Callers, NEW t \in calls[c].tasks, AddTask(c, t)
        PROVE  TasksNamed'
    <2> DEFINE call == Publish({}, calls[c].tasks \ {t})
    <2>1. calls[c].pc = "publish" /\ ActsNamed(calls[c].tasks) /\ calls[c] \in Publishing
      BY <1>1, <1>9, CallShape DEF AddTask, TasksNamed
    <2>2. NamedCall(call)
      BY <2>1, PublishNamed DEF ActsNamed
    <2>3. t \in Task /\ (t.kind = "activity" => t.act \in Activities)
      BY <2>1 DEF Publishing, ActsNamed
    <2>4. [key |-> t.key, act |-> t.act] \in QueuedTask
      BY <2>3 DEF Task, QueuedTask
    <2>5. \A i \in DOMAIN activityQueue' : activityQueue'[i].act \in Activities
      <3>1. \/ activityQueue' = activityQueue
            \/ /\ activityQueue' = Append(activityQueue, [key |-> t.key, act |-> t.act])
               /\ t.act \in Activities
        BY <1>9, <2>3 DEF AddTask
      <3> QED BY <1>1, <2>4, <3>1, AppendNamed, TasksNamedIs DEF TypeOK
    <2>6. calls' = [calls EXCEPT ![c] = call]
      BY <1>9 DEF AddTask
    <2> HIDE DEF call
    <2>7. \A d \in Callers : calls'[d] = IF d = c THEN call ELSE calls[d]
      BY <1>1, <2>6 DEF TypeOK
    <2> QED BY <2>2, <2>5, <2>7, TasksNamedIs
  <1>10. CASE Crash
    BY <1>1, <1>10, TasksNamedIs DEF Crash, redisVars
  <1>11. CASE UNCHANGED vars
    BY <1>11, TasksNamedIs DEF vars, redisVars
  <1> QED BY <1>2, <1>3, <1>4, <1>5, <1>6, <1>7, <1>8, <1>9, <1>10, <1>11 DEF Next, Proceed

LEMMA ProcessorNamed ==
  ASSUME TimerInv, TasksNamed, NEW p \in Processors, Run(p)
  PROVE  TasksNamed'
  <1>1. procs \in [Processors -> Processor] /\ activityQueue \in Seq(QueuedTask)
    BY SetsOfTimers
  <1>2. ASSUME NEW proc, Moves(p, proc)
        PROVE  TasksNamed'
    <2>1. UNCHANGED calls /\ \A q \in Processors : procs'[q] = IF q = p THEN proc ELSE procs[q]
      BY <1>1, <1>2 DEF Moves
    <2>2. proc.pc = "requeue" => proc.timer.act \in Activities
      <3>1. CASE Plain(proc)
        BY <3>1 DEF Plain
      <3>2. CASE procs[p].pc = "handle" /\ proc.timer = procs[p].timer
                   /\ (proc.pc = "requeue" => proc.timer.type = "ActivityTimeout")
        BY <3>2, FitProc, SetsOfTimers DEF ProcFit, Batching
      <3> QED BY <1>2, <3>1, <3>2 DEF Moves, Pushes
    <2>3. \A i \in DOMAIN activityQueue' : activityQueue'[i].act \in Activities
      <3>1. CASE UNCHANGED activityQueue
        BY <3>1, TasksNamedIs
      <3>2. CASE /\ procs[p].pc = "requeue"
                 /\ activityQueue' =
                      Append(activityQueue, [key |-> procs[p].timer.key, act |-> procs[p].timer.act])
        <4>1. procs[p].timer.act \in Activities
          BY <3>2, TasksNamedIs
        <4>2. procs[p].timer \in timers
          BY <3>2, FitProc, SetsOfTimers DEF ProcFit, Batching
        <4>3. [key |-> procs[p].timer.key, act |-> procs[p].timer.act] \in QueuedTask
          BY <4>1, <4>2, SetsOfTimers DEF QueuedTask
        <4> QED BY <1>1, <3>2, <4>1, <4>3, AppendNamed, TasksNamedIs
      <3> QED BY <1>2, <3>1, <3>2 DEF Moves, Pushes
    <2> QED BY <2>1, <2>2, <2>3, TasksNamedIs
  <1>3. CASE CommitFired(p)
    <2>1. /\ UNCHANGED <<redisVars, calls>>
          /\ \E proc : Become(p, proc) /\ proc.pc # "requeue"
      BY <1>3 DEF CommitFired, Continue
    <2>2. \A q \in Processors : procs'[q].pc = "requeue" => procs'[q] = procs[q]
      BY <1>1, <2>1 DEF Become
    <2> QED BY <2>1, <2>2, TasksNamedIs DEF redisVars
  <1> QED BY <1>2, <1>3, RunKinds
--------------------------------------------------------------------------------
(* What the invariant says of one worker *)

AllFit ==
  /\ DOMAIN sessions = Workers /\ decided \in [Keys -> SUBSET Nat]
  /\ \A w \in Workers : sessions[w] \in Session /\ WorkerFits(w, sessions[w], calls[w], decided)

LEMMA WorkersFit ==
  /\ FrontendTypeOK /\ SessionInv <=> TimerTypeOK /\ TasksNamed /\ AllFit
  /\ (FrontendTypeOK /\ SessionInv)' <=> TimerTypeOK' /\ TasksNamed' /\ AllFit'
  BY DEF FrontendTypeOK, SessionInv, AllFit

LEMMA SessionShape ==
  ASSUME NEW s \in Session
  PROVE  /\ s.pc \in {"idle", "fetch", "working", "reporting", "answered", "dead"}
         /\ s.pc = "fetch" => s \in Fetching
         /\ s.pc \in {"working", "reporting", "answered"} => s \in Working
         /\ s # Idle => s.task \in QueuedTask
  BY DEF Session, Idle, Fetching, Working, Dead

\* The events that are decided only grow.
LEMMA DecidedGrows ==
  ASSUME NEW w, NEW s, NEW cl, NEW dec, NEW more, WorkerFits(w, s, cl, dec),
         s # Idle => dec[s.task.key] \subseteq more[s.task.key]
  PROVE  WorkerFits(w, s, cl, more)
  <1>1. s.pc = "answered" \/ s.pc = "reporting" => s # Idle
    BY DEF Idle
  <1> QED BY <1>1 DEF WorkerFits, CallFits

\* A worker that is not waiting has no call.
LEMMA Uncalled ==
  ASSUME NEW w, NEW s, NEW cl, NEW dec, WorkerFits(w, s, cl, dec),
         s.pc \notin {"reporting", "answered"}
  PROVE  cl = Idle
  BY DEF WorkerFits, CallFits

\* What Frontend reads of a worker's token is the run and the activity of the task.
LEMMA TokenRead ==
  ASSUME NEW w \in Workers, sessions[w] \in Session,
         WorkerFits(w, sessions[w], calls[w], decided),
         sessions[w].pc \in {"working", "reporting", "answered"}
  PROVE  /\ RunOf(w) = sessions[w].task.key /\ RunOf(w) \in Keys
         /\ ActivityOf(w) = Carried(w, sessions[w].task)
         /\ Decode(sessions[w].token) # Malformed /\ ~Understood(sessions[w].token)
         /\ Seen(sessions[w]) \subseteq Nat
  <1> DEFINE s == sessions[w]
             task == s.task
  <1>1. s \in Working
    BY SessionShape
  <1>2. task \in QueuedTask /\ s.seen \subseteq Event
    BY <1>1 DEF Working
  <1>3. task.key \in Keys
    BY <1>2 DEF QueuedTask
  <1>4. s.token = Encode(task.key[1], task.key[2], Carried(w, task), 1)
    BY DEF WorkerFits, TokenFits
  <1>5. /\ Decode(s.token) = [workflow |-> task.key[1], run |-> task.key[2],
                              activity |-> Carried(w, task)]
        /\ Decode(s.token) # Malformed /\ DecodeTaskToken(s.token) = Malformed
    BY <1>4, TokenDecodes
  <1>6. RunOf(w) = task.key
    BY <1>3, <1>5, KeyIsPair DEF RunOf
  <1>7. Seen(s) \subseteq Nat
    BY <1>2 DEF Event, Seen
  <1> QED BY <1>3, <1>5, <1>6, <1>7 DEF ActivityOf, Understood

--------------------------------------------------------------------------------
(* What a worker does without calling History *)

\* Worker w goes on with session s.
Goes(w, s) ==
  /\ sessions' = [sessions EXCEPT ![w] = s]
  /\ UNCHANGED <<calls, decided>>
  /\ calls[w] = Idle
  /\ s \in Session /\ WorkerFits(w, s, Idle, decided)

LEMMA PollGoes ==
  ASSUME FrontendTypeOK, SessionInv, NEW w \in Workers,
         \/ w \in WorkflowWorkers /\ PollWorkflowTaskQueue(w)
         \/ w \in ActivityWorkers /\ PollActivityTaskQueue(w)
  PROVE  \E s : Goes(w, s)
  <1>1. /\ sessions[w] = Idle /\ WorkerFits(w, Idle, calls[w], decided)
        /\ UNCHANGED <<calls, decided>>
    BY WorkersFit DEF AllFit, PollWorkflowTaskQueue, PollActivityTaskQueue
  <1>2. calls[w] = Idle
    BY <1>1, Uncalled DEF Idle
  <1>3. workflowQueue \in Seq(QueuedTask) /\ activityQueue \in Seq(QueuedTask)
    BY DEF FrontendTypeOK, TimerTypeOK, TypeOK
  <1>4. CASE w \in WorkflowWorkers /\ PollWorkflowTaskQueue(w)
    <2> DEFINE task == Head(workflowQueue)
               token == MatchingToken(task.key[1], task.key[2], NoActivity)
               s == [pc |-> "fetch", task |-> task, token |-> token]
    <2>1. workflowQueue # <<>> /\ sessions' = [sessions EXCEPT ![w] = s]
      BY <1>4 DEF PollWorkflowTaskQueue, Hold
    <2>2. task \in QueuedTask
      BY <1>3, <2>1
    <2>3. token \in Tokens
      BY <2>2, TokenTypes DEF QueuedTask
    <2> HIDE DEF task, token
    <2>4. s \in Session
      BY <2>2, <2>3 DEF Session, Fetching
    <2>5. WorkerFits(w, s, Idle, decided)
      BY <1>4 DEF WorkerFits, TokenFits, token
    <2> QED BY <1>1, <1>2, <2>1, <2>4, <2>5 DEF Goes
  <1>5. CASE w \in ActivityWorkers /\ PollActivityTaskQueue(w)
    <2> DEFINE task == Head(activityQueue)
               json == MatchingToken(task.key[1], task.key[2], task.act).json
               token == Encode(Field(json, "workflow_id"), Field(json, "run_id"), task.act, 1)
               s == [pc |-> "working", task |-> task, token |-> token, seen |-> {},
                     report |-> "none", heartbeat |-> "none"]
    <2>1. activityQueue # <<>> /\ sessions' = [sessions EXCEPT ![w] = s]
      BY <1>5 DEF PollActivityTaskQueue, Hold
    <2>2. task \in QueuedTask /\ task.act \in Activities
      <3>1. activityQueue[1].act \in Activities
        BY <1>3, <2>1 DEF SessionInv, TasksNamed
      <3> QED BY <1>3, <2>1, <3>1
    <2>3. token = Encode(task.key[1], task.key[2], task.act, 1)
      BY MatchingTokenRead
    <2>4. token \in Tokens
      BY <2>2, <2>3, TokenTypes DEF QueuedTask
    <2> HIDE DEF task, token
    <2>5. s \in Session
      BY <2>2, <2>4 DEF Session, Working
    <2>6. WorkerFits(w, s, Idle, decided)
      BY <1>5, <2>2, <2>3 DEF WorkerFits, TokenFits, Carried
    <2> QED BY <1>1, <1>2, <2>1, <2>5, <2>6 DEF Goes
  <1> QED BY <1>4, <1>5

LEMMA FetchGoes ==
  ASSUME FrontendTypeOK, SessionInv, NEW w \in WorkflowWorkers, FetchHistory(w)
  PROVE  \E s : Goes(w, s)
  <1> DEFINE now == sessions[w]
             task == now.task
             json == now.token.json
             k == <<Field(json, "workflow_id"), Field(json, "run_id")>>
             token == Encode(k[1], k[2], NoActivity, 0)
             s == [pc |-> "working", task |-> task, token |-> token, seen |-> history[k],
                   report |-> "none", heartbeat |-> "none"]
  <1>1. w \in Workers /\ w \notin ActivityWorkers
    BY FrontendAssumption DEF Workers
  <1>2. now.pc = "fetch" /\ UNCHANGED <<calls, decided>> /\ sessions' = [sessions EXCEPT ![w] = s]
    BY DEF FetchHistory, Hold, GetHistoryEvents, timerVars, vars
  <1>3. now \in Session /\ WorkerFits(w, now, calls[w], decided)
    BY <1>1, WorkersFit DEF AllFit
  <1>4. calls[w] = Idle
    BY <1>2, <1>3, Uncalled
  <1>5. task \in QueuedTask /\ task.key \in Keys
    BY <1>2, <1>3, SessionShape DEF Fetching, QueuedTask
  <1>6. k = task.key
    <2>1. now.token = MatchingToken(task.key[1], task.key[2], NoActivity)
      BY <1>2, <1>3 DEF WorkerFits, TokenFits
    <2>2. Field(json, "workflow_id") = task.key[1] /\ Field(json, "run_id") = task.key[2]
      BY <2>1, MatchingTokenRead
    <2> QED BY <1>5, <2>2, KeyIsPair
  <1>7. token = Encode(task.key[1], task.key[2], NoActivity, 1)
    BY <1>6, NoAttempt
  <1>8. token \in Tokens
    <2>1. Encode(task.key[1], task.key[2], NoActivity, 1) \in Tokens
      BY <1>5, TokenTypes
    <2> QED BY <1>7, <2>1
  <1>9. history[k] \subseteq Event
    BY <1>5, <1>6 DEF FrontendTypeOK, TimerTypeOK, TypeOK, RepositoryTypeOK
  <1> HIDE DEF now, json, k, token
  <1>10. s \in Session
    BY <1>5, <1>8, <1>9 DEF Session, Working
  <1>11. WorkerFits(w, s, Idle, decided)
    BY <1>1, <1>7 DEF WorkerFits, TokenFits, Carried
  <1> QED BY <1>2, <1>4, <1>10, <1>11 DEF Goes

\* A worker lets its task go, or dies with it.
LEMMA LeaveGoes ==
  ASSUME FrontendTypeOK, SessionInv, NEW w \in Workers,
         FetchFails(w) \/ ReportRefused(w) \/ ReportDone(w) \/ WorkerDies(w)
  PROVE  \E s : Goes(w, s)
  <1>1. sessions[w] \in Session /\ WorkerFits(w, sessions[w], calls[w], decided)
    BY WorkersFit DEF AllFit
  <1>2. UNCHANGED <<calls, decided>> /\ calls[w] = Idle
    BY <1>1, Uncalled DEF FetchFails, ReportRefused, ReportDone, WorkerDies, timerVars, vars
  <1>3. CASE Hold(w, Idle)
    <2>1. Idle \in Session /\ WorkerFits(w, Idle, Idle, decided)
      BY DEF Session, Idle, WorkerFits, TokenFits
    <2> QED BY <1>2, <1>3, <2>1 DEF Goes, Hold
  <1>4. CASE WorkerDies(w)
    <2> DEFINE s == [pc |-> "dead", task |-> sessions[w].task]
    <2>1. sessions[w] # Idle
      BY <1>4 DEF WorkerDies, Idle
    <2>2. s \in Session
      BY <1>1, <2>1, SessionShape DEF Session, Dead
    <2>3. WorkerFits(w, s, Idle, decided)
      BY DEF WorkerFits, TokenFits
    <2> QED BY <1>2, <1>4, <2>2, <2>3 DEF Goes, Hold, WorkerDies
  <1> QED BY <1>3, <1>4 DEF FetchFails, ReportRefused, ReportDone

LEMMA RepeatGoes ==
  ASSUME FrontendTypeOK, SessionInv, NEW w \in Workers,
         RepeatReport(w) \/ RecordActivityTaskHeartbeat(w)
  PROVE  \E s : Goes(w, s)
  <1> DEFINE now == sessions[w]
             beats == [now EXCEPT !.heartbeat = "InvalidArgument"]
             repeats == [now EXCEPT !.pc = "working", !.report = "none"]
  <1>1. now \in Session /\ WorkerFits(w, now, calls[w], decided) /\ DOMAIN sessions = Workers
    BY WorkersFit DEF AllFit
  <1>2. now.pc \in {"working", "answered"}
    BY DEF RepeatReport, RecordActivityTaskHeartbeat
  <1>3. now \in Working
    BY <1>1, <1>2, SessionShape
  <1>4. CASE RepeatReport(w)
    <2>1. UNCHANGED <<calls, decided>> /\ calls[w] = Idle /\ sessions' = [sessions EXCEPT ![w] = repeats]
      BY <1>4 DEF RepeatReport, Hold, timerVars, vars
    <2>2. /\ repeats \in Session /\ repeats.pc = "working" /\ repeats.report = "none"
          /\ repeats.task = now.task /\ repeats.token = now.token
      BY <1>3 DEF Working, Session
    <2> HIDE DEF repeats
    <2>3. WorkerFits(w, repeats, Idle, decided)
      BY <1>1, <1>2, <2>2 DEF WorkerFits, TokenFits
    <2> QED BY <2>1, <2>2, <2>3 DEF Goes
  <1>5. CASE RecordActivityTaskHeartbeat(w)
    <2>1. now.pc = "working"
      BY <1>5 DEF RecordActivityTaskHeartbeat
    <2>2. ~Understood(now.token)
      BY <1>1, <2>1, TokenRead
    <2>3. sessions' = [sessions EXCEPT ![w] = beats] /\ UNCHANGED <<calls, decided>>
      BY <1>5, <2>2 DEF RecordActivityTaskHeartbeat
    <2>4. calls[w] = Idle
      BY <1>1, <2>1, Uncalled
    <2>5. /\ beats \in Session /\ beats.pc = "working" /\ beats.report = now.report
          /\ beats.task = now.task /\ beats.token = now.token
      BY <1>3, <2>1 DEF Working, Session
    <2> HIDE DEF beats
    <2>6. WorkerFits(w, beats, Idle, decided)
      BY <1>1, <2>1, <2>5 DEF WorkerFits, TokenFits
    <2> QED BY <2>3, <2>4, <2>5, <2>6 DEF Goes
  <1> QED BY <1>4, <1>5

--------------------------------------------------------------------------------
(* What a worker does with a call of History *)

\* Only worker w, its call and what it has decided change.
LEMMA OneWorkerFits ==
  ASSUME AllFit, DOMAIN sessions' = Workers, decided' \in [Keys -> SUBSET Nat],
         \A k \in Keys : decided[k] \subseteq decided'[k], NEW w \in Workers,
         \A v \in Workers \ {w} : sessions'[v] = sessions[v] /\ calls'[v] = calls[v],
         sessions'[w] \in Session, WorkerFits(w, sessions'[w], calls'[w], decided')
  PROVE  AllFit'
  <1>1. ASSUME NEW v \in Workers \ {w}
        PROVE  sessions'[v] \in Session /\ WorkerFits(v, sessions'[v], calls'[v], decided')
    <2> DEFINE s == sessions[v]
    <2>1. s \in Session /\ WorkerFits(v, s, calls[v], decided)
      BY DEF AllFit
    <2>2. s # Idle => s.task.key \in Keys
      BY <2>1, SessionShape DEF QueuedTask
    <2>3. WorkerFits(v, s, calls[v], decided')
      BY <2>1, <2>2, DecidedGrows
    <2> QED BY <2>1, <2>3
  <1> QED BY <1>1 DEF AllFit

LEMMA GoesFit ==
  ASSUME FrontendTypeOK, SessionInv, NEW w \in Workers, NEW s, Goes(w, s)
  PROVE  AllFit'
  <1>1. AllFit
    BY WorkersFit
  <1>2. /\ sessions' = [sessions EXCEPT ![w] = s] /\ UNCHANGED <<calls, decided>>
        /\ calls[w] = Idle /\ s \in Session /\ WorkerFits(w, s, Idle, decided)
    BY DEF Goes
  <1>3. DOMAIN sessions' = Workers /\ sessions'[w] = s
        /\ \A v \in Workers \ {w} : sessions'[v] = sessions[v]
    BY <1>1, <1>2 DEF AllFit
  <1> QED BY <1>1, <1>2, <1>3, OneWorkerFits DEF AllFit

\* The request that a report becomes.
LEMMA ReportFits ==
  ASSUME FrontendTypeOK, SessionInv, NEW w \in Workers, Report(w), NEW call, Enter(w, call),
         call.pc \in {"read", "update"}, call.key = RunOf(w),
         call.pc = "read" => /\ w \in ActivityWorkers /\ call.act = ActivityOf(w)
                             /\ call.rpc # "RecordActivityTaskHeartbeat",
         call.pc = "update" => w \notin ActivityWorkers /\ call.then = "publish"
  PROVE  AllFit'
  <1> DEFINE now == sessions[w]
             s == [now EXCEPT !.pc = "reporting"]
  <1>1. AllFit /\ now \in Session /\ WorkerFits(w, now, calls[w], decided) /\ DOMAIN sessions = Workers
    BY WorkersFit DEF AllFit
  <1>2. now.pc = "working" /\ sessions' = [sessions EXCEPT ![w] = s] /\ UNCHANGED decided
    BY DEF Report
  <1>3. now \in Working
    BY <1>1, <1>2, SessionShape
  <1>4. RunOf(w) = now.task.key /\ ActivityOf(w) = Carried(w, now.task)
    BY <1>1, <1>2, TokenRead
  <1>5. /\ s \in Session /\ s.pc = "reporting" /\ s.report = now.report
        /\ s.task = now.task /\ s.token = now.token
    BY <1>3 DEF Working, Session
  <1>6. calls' = [calls EXCEPT ![w] = call] /\ w \in Callers /\ calls \in [Callers -> Call]
    BY FrontendAssumption DEF Enter, FrontendTypeOK, TimerTypeOK, TypeOK
  <1> HIDE DEF now, s
  <1>7. /\ DOMAIN sessions' = Workers /\ sessions'[w] = s /\ calls'[w] = call
        /\ \A v \in Workers \ {w} : sessions'[v] = sessions[v] /\ calls'[v] = calls[v]
    BY <1>1, <1>2, <1>6, FrontendAssumption
  <1>8. WorkerFits(w, s, call, decided)
    <2>1. call # Idle
      BY DEF Idle
    <2>2. CallFits(w, s, call, decided)
      BY <1>4, <1>5 DEF CallFits, Carried
    <2>3. TokenFits(w, s) /\ s.report = "none"
      BY <1>1, <1>2, <1>5 DEF WorkerFits, TokenFits
    <2> QED BY <1>5, <2>1, <2>2, <2>3 DEF WorkerFits
  <1> QED BY <1>1, <1>2, <1>5, <1>7, <1>8, OneWorkerFits DEF AllFit

LEMMA RespondFits ==
  ASSUME FrontendTypeOK, SessionInv, NEW w \in Workers,
         \/ /\ w \in WorkflowWorkers
            /\ RespondWorkflowTaskCompleted(w) \/ RespondWorkflowTaskFailed(w)
         \/ /\ w \in ActivityWorkers
            /\ RespondActivityTaskCompleted(w) \/ RespondActivityTaskFailed(w)
  PROVE  AllFit'
  <1>1. Report(w)
    BY DEF RespondWorkflowTaskCompleted, RespondWorkflowTaskFailed, RespondActivityTaskCompleted,
       RespondActivityTaskFailed
  <1>2. CASE /\ w \in WorkflowWorkers
             /\ RespondWorkflowTaskCompleted(w) \/ RespondWorkflowTaskFailed(w)
    <2>1. PICK txn : Enter(w, Update(RunOf(w), txn, "publish"))
      BY <1>2 DEF RespondWorkflowTaskCompleted, RespondWorkflowTaskFailed,
         RecordWorkflowTaskCompleted, RecordWorkflowTaskFailed
    <2>2. w \notin ActivityWorkers
      BY <1>2, FrontendAssumption
    <2> QED BY <1>1, <2>1, <2>2, ReportFits DEF Update
  <1>3. CASE /\ w \in ActivityWorkers
             /\ RespondActivityTaskCompleted(w) \/ RespondActivityTaskFailed(w)
    <2>1. PICK rpc \in {"RecordActivityTaskCompleted", "RecordActivityTaskFailed"} :
            RecordActivityTask(w, rpc, RunOf(w), ActivityOf(w))
      BY <1>3 DEF RespondActivityTaskCompleted, RespondActivityTaskFailed
    <2> QED BY <1>1, <1>3, <2>1, ReportFits DEF RecordActivityTask
  <1> QED BY <1>2, <1>3

\* The call of worker w goes on as "call": it is still about the worker's task, what it
\* has decided is only added to, and "OK" can be the answer only if the decision is made.
Serves(w, call) ==
  /\ calls' = [calls EXCEPT ![w] = call]
  /\ call # Idle => CallFits(w, sessions[w], call, decided')
  /\ decided' \in [Keys -> SUBSET Nat]
  /\ \A k \in Keys : decided[k] \subseteq decided'[k]
  /\ "OK" \in Replies(w) /\ w \in WorkflowWorkers /\ sessions[w].pc = "reporting" =>
       Seen(sessions[w]) \subseteq decided'[sessions[w].task.key]

\* The handler reads, gives up, or publishes: no row changes, and nothing is decided.
LEMMA UnwrittenServes ==
  ASSUME FrontendTypeOK, SessionInv, NEW w \in Workers, Handled(w), ~CommitUpdate(w)
  PROVE  \E call : Serves(w, call)
  <1> DEFINE now == sessions[w]
             cl == calls[w]
  <1>1. TypeOK /\ w \in Callers /\ AllFit
    BY FrontendAssumption, WorkersFit DEF FrontendTypeOK, TimerTypeOK
  <1>2. WorkerFits(w, now, cl, decided)
    BY <1>1 DEF AllFit
  <1>3. Proceed(w) \/ StatementFails(w)
    BY DEF Handled
  <1>4. cl # Idle
    BY <1>3 DEF Proceed, StatementFails, GetActivityState, InsertExecution, CommitUpdate,
       RollbackUpdate, PeekTimeoutTimer, Idle
  <1>5. CallFits(w, now, cl, decided) /\ cl.pc \in {"read", "update", "publish"}
    BY <1>2, <1>4 DEF WorkerFits, CallFits
  <1>6. UNCHANGED executions
    BY <1>3, <1>5 DEF Proceed, StatementFails, GetActivityState, InsertExecution, RollbackUpdate,
       PeekTimeoutTimer, ScheduleTimer, AddTask, dbVars
  <1>7. decided' = decided /\ decided \in [Keys -> SUBSET Nat]
    BY <1>1, <1>6 DEF Handled, AllFit
  <1>8. ASSUME cl.pc # "publish", NEW call, calls' = [calls EXCEPT ![w] = call],
               call # Idle => CallFits(w, now, call, decided)
        PROVE  Serves(w, call)
    <2>1. "OK" \notin Replies(w)
      BY <1>6, <1>8 DEF Replies
    <2> QED BY <1>7, <1>8, <2>1 DEF Serves
  <1>9. CASE RollbackUpdate(w) \/ StatementFails(w)
    <2>1. cl.pc # "publish" /\ calls' = [calls EXCEPT ![w] = Idle]
      BY <1>9 DEF RollbackUpdate, StatementFails
    <2> QED BY <1>8, <2>1
  <1>10. CASE GetActivityState(w)
    <2> DEFINE arow == activities[cl.key][cl.act]
               txn == ActivityTxn(cl.rpc, cl.key, cl.row, cl.act, arow)
               call == [pc |-> "update", key |-> cl.key, row |-> cl.row, txn |-> txn,
                        then |-> "publish"]
    <2>1. /\ cl.pc = "read" /\ cl.key = now.task.key /\ cl.act = now.task.act
          /\ cl.rpc # "RecordActivityTaskHeartbeat" /\ w \in ActivityWorkers
          /\ now.pc \in {"reporting", "answered"}
      BY <1>5, <1>10 DEF GetActivityState, CallFits
    <2>2. cl.rpc \in {"RecordActivityTaskCompleted", "RecordActivityTaskFailed"}
      BY <1>1, <2>1, CallShape DEF Reading, ActivityRPCs
    <2>3. \A e \in txn.events : e.act = cl.act
      BY <2>2 DEF ActivityTxn, ActivityTaskCompletedTxn, ActivityTaskFailedTxn, RetryActivityTxn,
         FailActivityTxn, AppendEvent, NewEvent
    <2> HIDE DEF txn
    <2>4. CallFits(w, now, call, decided)
      BY <2>1, <2>3 DEF CallFits
    <2>5. calls' = [calls EXCEPT ![w] = call] \/ calls' = [calls EXCEPT ![w] = Idle]
      BY <1>10, <2>1 DEF GetActivityState, txn
    <2> QED BY <1>8, <2>1, <2>4, <2>5
  <1>11. ASSUME NEW T, NEW W, cl.pc = "publish", calls' = [calls EXCEPT ![w] = Publish(T, W)]
         PROVE  \E call : Serves(w, call)
    <2>1. Publish(T, W) # Idle => CallFits(w, now, Publish(T, W), decided)
      BY <1>5, <1>11 DEF Publish, CallFits
    <2>2. w \in WorkflowWorkers /\ now.pc = "reporting" => Seen(now) \subseteq decided[now.task.key]
      BY <1>5, <1>11 DEF CallFits
    <2> QED BY <1>7, <1>11, <2>1, <2>2 DEF Serves
  <1>12. CASE \/ \E t \in cl.timers : cl.pc = "publish" /\ ScheduleTimer(w, t)
              \/ \E t \in cl.tasks : cl.pc = "publish" /\ AddTask(w, t)
    <2>1. PICK T, W : cl.pc = "publish" /\ calls' = [calls EXCEPT ![w] = Publish(T, W)]
      BY <1>12 DEF ScheduleTimer, AddTask
    <2> QED BY <1>11, <2>1
  <1>13. ~InsertExecution(w) /\ ~PeekTimeoutTimer(w)
    BY <1>5 DEF InsertExecution, PeekTimeoutTimer
  <1> QED BY <1>3, <1>9, <1>10, <1>12, <1>13 DEF Proceed

\* The handler commits: what a workflow worker has seen is decided from now on.
LEMMA CommitServes ==
  ASSUME HistoryInv, FrontendTypeOK, SessionInv, NEW w \in Workers, Handled(w), CommitUpdate(w)
  PROVE  \E call : Serves(w, call)
  <1> DEFINE now == sessions[w]
             cl == calls[w]
  <1>1. w \in Callers /\ AllFit
    BY FrontendAssumption, WorkersFit
  <1>2. cl.pc = "update" /\ cl # Idle
    BY DEF CommitUpdate, Idle
  <1>3. now \in Session /\ WorkerFits(w, now, cl, decided)
    BY <1>1 DEF AllFit
  <1>4. CallFits(w, now, cl, decided) /\ cl.then = "publish" /\ now.pc \in {"reporting", "answered"}
    <2>1. CallFits(w, now, cl, decided)
      BY <1>2, <1>3 DEF WorkerFits
    <2> QED BY <1>2, <2>1 DEF CallFits
  <1>5. executions' # executions
    <2>1. PICK k \in Keys : executions'[k].version = executions[k].version + 1
      BY <1>1, CommitEffect
    <2>2. executions[k].version \in Nat
      BY DEF HistoryInv, TypeOK, RepositoryTypeOK, Execution
    <2> QED BY <2>1, <2>2
  <1>6. RunOf(w) = now.task.key /\ now.task.key \in Keys /\ Seen(now) \subseteq Nat
    BY <1>3, <1>4, TokenRead
  <1>7. decided' = IF w \in WorkflowWorkers
                   THEN [decided EXCEPT ![now.task.key] = @ \cup Seen(now)] ELSE decided
    BY <1>5, <1>6 DEF Handled, Seen
  <1> HIDE DEF now
  <1>8. /\ decided' \in [Keys -> SUBSET Nat]
        /\ \A k \in Keys : decided[k] \subseteq decided'[k]
        /\ w \in WorkflowWorkers => Seen(now) \subseteq decided'[now.task.key]
    BY <1>1, <1>6, <1>7 DEF AllFit
  <1>9. \A T, W : Publish(T, W) # Idle => CallFits(w, now, Publish(T, W), decided')
    BY <1>4, <1>8 DEF CallFits, Publish
  <1>10. PICK call \in {Publish(cl.txn.timers, cl.txn.tasks), Idle} : calls' = [calls EXCEPT ![w] = call]
    BY <1>4 DEF CommitUpdate, AfterCommit
  <1>11. call # Idle => CallFits(w, now, call, decided')
    BY <1>9, <1>10
  <1> QED BY <1>8, <1>10, <1>11 DEF Serves, now

LEMMA HandledFits ==
  ASSUME HistoryInv, FrontendTypeOK, SessionInv, NEW w \in Workers, Handled(w)
  PROVE  AllFit'
  <1> DEFINE now == sessions[w]
  <1>1. PICK call : Serves(w, call)
    BY UnwrittenServes, CommitServes
  <1>2. /\ AllFit /\ now \in Session /\ WorkerFits(w, now, calls[w], decided)
        /\ calls \in [Callers -> Call] /\ Workers \subseteq Callers
    BY WorkersFit, FrontendAssumption DEF AllFit, FrontendTypeOK, TimerTypeOK, TypeOK
  <1>3. calls'[w] = call /\ \A v \in Workers \ {w} : calls'[v] = calls[v]
    BY <1>1, <1>2 DEF Serves
  <1>4. WorkerFits(w, now, calls[w], decided')
    <2>1. now # Idle => now.task.key \in Keys
      BY <1>2, SessionShape DEF QueuedTask
    <2> QED BY <1>1, <1>2, <2>1, DecidedGrows DEF Serves
  <1>5. CASE ~(calls'[w] = Idle /\ now.pc = "reporting")
    <2>1. sessions' = sessions
      BY <1>5 DEF Handled
    <2>2. WorkerFits(w, now, call, decided')
      BY <1>1, <1>3, <1>4, <1>5 DEF Serves, WorkerFits
    <2> QED BY <1>1, <1>2, <1>3, <2>1, <2>2, OneWorkerFits DEF Serves, AllFit
  <1>6. CASE calls'[w] = Idle /\ now.pc = "reporting"
    <2>1. PICK reply \in Replies(w) :
            sessions' = [sessions EXCEPT ![w] = [now EXCEPT !.pc = "answered", !.report = reply]]
      BY <1>6 DEF Handled, Hold
    <2>2. reply \in {"OK", "Error"}
      BY DEF Replies
    <2> DEFINE s == [now EXCEPT !.pc = "answered", !.report = reply]
    <2>3. /\ s \in Session /\ s.pc = "answered" /\ s.report = reply
          /\ s.task = now.task /\ s.token = now.token /\ s.seen = now.seen
      <3>1. now \in Working
        BY <1>2, <1>6, SessionShape
      <3> QED BY <2>2, <3>1 DEF Working, Session
    <2>4. sessions' = [sessions EXCEPT ![w] = s]
      BY <2>1
    <2> HIDE DEF s, now
    <2>5. WorkerFits(w, s, Idle, decided')
      <3>1. TokenFits(w, s)
        BY <1>2, <1>6, <2>3 DEF WorkerFits, TokenFits
      <3>2. reply = "OK" /\ w \in WorkflowWorkers => Seen(s) \subseteq decided'[s.task.key]
        BY <1>1, <1>6, <2>3 DEF Serves, Seen, now
      <3> QED BY <2>3, <3>1, <3>2 DEF WorkerFits
    <2>6. DOMAIN sessions' = Workers /\ sessions'[w] = s
          /\ \A v \in Workers \ {w} : sessions'[v] = sessions[v]
      BY <1>2, <2>4 DEF AllFit
    <2> QED BY <1>1, <1>2, <1>3, <1>6, <2>3, <2>5, <2>6, OneWorkerFits DEF Serves
  <1> QED BY <1>5, <1>6

--------------------------------------------------------------------------------
(* Requests that fail *)

\* A worker's request fails, and its call goes on or is cancelled; or only its call is, if
\* nobody waits for it any more.
LEMMA FailedFits ==
  ASSUME NEW w \in Workers, NEW s, NEW cl, NEW t, NEW call \in {cl, Idle},
         s \in Session, WorkerFits(w, s, cl, decided),
         \/ t = s /\ (s.pc = "reporting" => call = cl)
         \/ t = Idle /\ s.pc = "fetch"
         \/ t = [s EXCEPT !.pc = "answered", !.report = "Error"] /\ s.pc = "reporting"
  PROVE  t \in Session /\ WorkerFits(w, t, call, decided)
  <1>1. CASE t = s /\ (s.pc = "reporting" => call = cl)
    BY <1>1 DEF WorkerFits
  <1>2. CASE t = Idle /\ s.pc = "fetch"
    <2>1. call = Idle
      BY <1>2, Uncalled
    <2> QED BY <1>2, <2>1 DEF WorkerFits, TokenFits, Idle, Session
  <1>3. CASE t = [s EXCEPT !.pc = "answered", !.report = "Error"] /\ s.pc = "reporting"
    <2>1. s \in Working
      BY <1>3, SessionShape
    <2>2. /\ t \in Session /\ t.pc = "answered" /\ t.report = "Error"
          /\ t.task = s.task /\ t.token = s.token
      BY <1>3, <2>1 DEF Working, Session
    <2>3. call # Idle => CallFits(w, t, call, decided)
      <3>1. call # Idle => CallFits(w, s, call, decided)
        BY DEF WorkerFits
      <3> QED BY <2>2, <3>1 DEF CallFits
    <2>4. TokenFits(w, t)
      BY <1>3, <2>2 DEF WorkerFits, TokenFits
    <2> QED BY <2>2, <2>3, <2>4 DEF WorkerFits
  <1> QED BY <1>1, <1>2, <1>3

LEMMA GiveUpFits ==
  ASSUME FrontendTypeOK, SessionInv, NEW failed \in SUBSET Waiting, GiveUp(failed)
  PROVE  AllFit'
  <1>1. AllFit /\ calls \in [Callers -> Call] /\ Workers \subseteq Callers
    BY WorkersFit, FrontendAssumption DEF FrontendTypeOK, TimerTypeOK, TypeOK
  <1>2. ASSUME NEW w \in Workers
        PROVE  sessions'[w] \in Session /\ WorkerFits(w, sessions'[w], calls'[w], decided)
    <2>1. sessions[w] \in Session /\ WorkerFits(w, sessions[w], calls[w], decided)
      BY <1>1 DEF AllFit
    <2>2. calls'[w] \in {calls[w], Idle} /\ (w \notin failed => calls'[w] = calls[w])
      BY <1>1 DEF GiveUp
    <2>3. w \in failed => sessions[w].pc \in {"fetch", "reporting"}
      BY DEF Waiting
    <2>4. sessions'[w] = IF w \notin failed THEN sessions[w]
                         ELSE IF sessions[w].pc = "fetch" THEN Idle
                         ELSE [sessions[w] EXCEPT !.pc = "answered", !.report = "Error"]
      BY DEF GiveUp
    <2> QED BY <2>1, <2>2, <2>3, <2>4, FailedFits
  <1>3. DOMAIN sessions' = Workers /\ decided' = decided
    BY DEF GiveUp
  <1> QED BY <1>1, <1>2, <1>3 DEF AllFit

LEMMA HistoryDiesFits ==
  ASSUME FrontendTypeOK, SessionInv, NEW p \in Processors, HistoryDies(p)
  PROVE  AllFit'
  <1>1. AllFit /\ calls \in [Callers -> Call] /\ Workers \subseteq Callers
    BY WorkersFit, FrontendAssumption DEF FrontendTypeOK, TimerTypeOK, TypeOK
  <1>2. ASSUME NEW w \in Workers
        PROVE  sessions'[w] \in Session /\ WorkerFits(w, sessions'[w], calls'[w], decided)
    <2>1. sessions[w] \in Session /\ WorkerFits(w, sessions[w], calls[w], decided)
      BY <1>1 DEF AllFit
    <2>2. calls'[w] \in {calls[w], Idle}
      BY <1>1 DEF HistoryDies, ProcessorCrash
    <2>3. sessions'[w] = IF sessions[w].pc = "reporting" /\ calls'[w] = Idle
                         THEN [sessions[w] EXCEPT !.pc = "answered", !.report = "Error"]
                         ELSE sessions[w]
      BY DEF HistoryDies
    <2> QED BY <2>1, <2>2, <2>3, FailedFits
  <1>3. DOMAIN sessions' = Workers /\ decided' = decided
    BY DEF HistoryDies
  <1> QED BY <1>1, <1>2, <1>3 DEF AllFit

\* Clients and processors leave the workers alone.
LEMMA OthersFit ==
  ASSUME FrontendTypeOK, SessionInv, UNCHANGED <<sessions, decided>>,
         \A w \in Workers : calls'[w] = calls[w]
  PROVE  AllFit'
  BY WorkersFit DEF AllFit

--------------------------------------------------------------------------------
(* The event store behind Frontend *)

Pops(queue, left) == left = queue \/ (queue # <<>> /\ left = Tail(queue))

\* A poll pops a task; or a request fails, and with it perhaps its call.
Loses ==
  /\ UNCHANGED <<dbVars, active, procs>>
  /\ incidents' = incidents \/ incidents' = incidents + 1
  /\ Pops(workflowQueue, workflowQueue') /\ Pops(activityQueue, activityQueue')
  /\ calls' \in [Callers -> Call]
  /\ \A c \in Callers : calls'[c] \in {calls[c], Idle}

LEMMA PopsOneOrNone ==
  /\ \A queue : Pops(queue, queue)
  /\ \A queue : queue # <<>> => Pops(queue, Tail(queue))
  BY Zenon DEF Pops

LEMMA PopsQueued ==
  ASSUME NEW queue \in Seq(QueuedTask), NEW left, Pops(queue, left)
  PROVE  left \in Seq(QueuedTask)
  <1>1. CASE queue # <<>> /\ left = Tail(queue)
    BY <1>1
  <1> QED BY <1>1 DEF Pops

\* Whatever workers and clients do through Frontend, History may see in its environment,
\* or it is a loss.
LEMMA ClientsAreCallers ==
  ASSUME OpenToWorkers, NEW c \in Clients, ClientRequest(c) \/ HandledForClient(c)
  PROVE  HistoryStep
  <1>1. c \in Callers
    BY DEF Clients
  <1>2. CASE HandledForClient(c)
    BY <1>1, <1>2 DEF HandledForClient, HistoryStep, Next
  <1>3. CASE ClientRequest(c)
    <2>1. "RecordWorkflowExecutionStarted" \in RPCs /\ "SignalWorkflowExecution" \in RPCs
      BY DEF OpenToWorkers, OtherRPCs
    <2>2. Request(c) /\ UNCHANGED <<procs, incidents>>
      BY <1>3, <2>1, Zenon DEF ClientRequest, StartWorkflow, SignalWorkflow, Request
    <2> QED BY <1>1, <2>2 DEF HistoryStep, Next
  <1> QED BY <1>2, <1>3

LEMMA WorkersAreCallers ==
  ASSUME FrontendTypeOK, SessionInv, OpenToWorkers, NEW w \in Workers,
         \/ /\ w \in WorkflowWorkers
            /\ RespondWorkflowTaskCompleted(w) \/ RespondWorkflowTaskFailed(w)
         \/ /\ w \in ActivityWorkers
            /\ RespondActivityTaskCompleted(w) \/ RespondActivityTaskFailed(w)
         \/ Handled(w)
  PROVE  HistoryStep
  <1>1. w \in Callers
    BY FrontendAssumption
  <1>2. CASE Handled(w)
    BY <1>1, <1>2 DEF Handled, HistoryStep, Next
  <1>3. CASE ~Handled(w)
    <2> DEFINE s == sessions[w]
    <2>1. Report(w) /\ UNCHANGED <<procs, incidents>> /\ s.pc = "working"
      BY <1>3 DEF RespondWorkflowTaskCompleted, RespondWorkflowTaskFailed,
         RespondActivityTaskCompleted, RespondActivityTaskFailed, Report
    <2>2. s \in Session /\ WorkerFits(w, s, calls[w], decided)
      BY WorkersFit DEF AllFit
    <2>3. RunOf(w) \in Keys /\ ActivityOf(w) = Carried(w, s.task)
      BY <2>1, <2>2, TokenRead
    <2>4. w \in ActivityWorkers => ActivityOf(w) \in Activities
      BY <2>1, <2>2, <2>3 DEF WorkerFits, TokenFits, Carried
    <2>5. Decide(s.seen) \in Batches
      <3>1. s.seen \in SUBSET Event
        BY <2>1, <2>2, SessionShape DEF Working
      <3> QED BY <3>1 DEF OpenToWorkers
    <2>6. /\ "RecordWorkflowTaskFailed" \in RPCs
          /\ "RecordActivityTaskCompleted" \in ActivityRPCs \cap RPCs
          /\ "RecordActivityTaskFailed" \in ActivityRPCs \cap RPCs
      BY DEF OpenToWorkers, OtherRPCs, ActivityRPCs
    <2>7. ASSUME NEW k \in Keys, NEW cmds \in Batches, RecordWorkflowTaskCompleted(w, k, cmds)
          PROVE  Request(w)
      BY <2>7 DEF Request
    <2>8. ASSUME NEW k \in Keys, RecordWorkflowTaskFailed(w, k)
          PROVE  Request(w)
      BY <2>6, <2>8 DEF Request
    <2>9. ASSUME NEW k \in Keys, NEW a \in Activities,
                 \/ RecordActivityTask(w, "RecordActivityTaskCompleted", k, a)
                 \/ RecordActivityTask(w, "RecordActivityTaskFailed", k, a)
          PROVE  Request(w)
      BY <2>6, <2>9 DEF Request
    <2>10. /\ RespondWorkflowTaskCompleted(w) => RecordWorkflowTaskCompleted(w, RunOf(w), Decide(s.seen))
           /\ RespondWorkflowTaskFailed(w) => RecordWorkflowTaskFailed(w, RunOf(w))
           /\ RespondActivityTaskCompleted(w) =>
                RecordActivityTask(w, "RecordActivityTaskCompleted", RunOf(w), ActivityOf(w))
           /\ RespondActivityTaskFailed(w) =>
                RecordActivityTask(w, "RecordActivityTaskFailed", RunOf(w), ActivityOf(w))
      BY DEF RespondWorkflowTaskCompleted, RespondWorkflowTaskFailed, RespondActivityTaskCompleted,
         RespondActivityTaskFailed
    <2>11. Request(w)
      BY <1>3, <2>3, <2>4, <2>5, <2>7, <2>8, <2>9, <2>10
    <2> QED BY <1>1, <2>1, <2>11 DEF HistoryStep, Next
  <1> QED BY <1>2, <1>3

LEMMA FailuresLose ==
  ASSUME FrontendTypeOK, NEW failed \in SUBSET Waiting, GiveUp(failed)
  PROVE  Loses
  <1>1. calls \in [Callers -> Call] /\ Idle \in Call
    BY DEF FrontendTypeOK, TimerTypeOK, TypeOK, Call
  <1>2. calls' \in [Callers -> Call] /\ \A c \in Callers : calls'[c] \in {calls[c], Idle}
    BY <1>1 DEF GiveUp
  <1>3. /\ UNCHANGED <<dbVars, active, procs>> /\ incidents' = incidents + 1
        /\ Pops(workflowQueue, workflowQueue') /\ Pops(activityQueue, activityQueue')
    BY PopsOneOrNone DEF GiveUp, redisVars
  <1> QED BY <1>2, <1>3 DEF Loses

\* One step of the whole system, seen from the workers and from History.
LEMMA FrontendStep ==
  ASSUME TimerInv, FrontendTypeOK, SessionInv, OpenToWorkers, [FrontendNext]_frontendVars
  PROVE  /\ AllFit'
         /\ [TimerNext]_timerVars \/ Loses
  <1>1. /\ AllFit /\ TypeOK /\ HistoryInv /\ Workers \subseteq Callers /\ Clients \cap Workers = {}
        /\ calls \in [Callers -> Call] /\ incidents \in Nat
    BY WorkersFit, FrontendAssumption
       DEF FrontendTypeOK, TimerTypeOK, TypeOK, TimerInv, HistoryInv, Clients
  <1>2. ASSUME UNCHANGED <<dbVars, active, procs, calls>>,
               incidents' = incidents \/ incidents' = incidents + 1,
               Pops(workflowQueue, workflowQueue'), Pops(activityQueue, activityQueue')
        PROVE  Loses
    BY <1>1, <1>2 DEF Loses
  <1>3. CASE UNCHANGED frontendVars
    BY <1>1, <1>3, OthersFit DEF frontendVars, timerVars, vars
  <1>4. ASSUME NEW c \in Clients, ClientRequest(c) \/ HandledForClient(c)
        PROVE  AllFit' /\ HistoryStep
    <2>1. UNCHANGED <<sessions, decided>>
      BY <1>4 DEF ClientRequest, StartWorkflow, SignalWorkflow, HandledForClient
    <2>2. PICK call : calls' = [calls EXCEPT ![c] = call]
      BY <1>4 DEF ClientRequest, StartWorkflow, SignalWorkflow, HandledForClient,
         RecordWorkflowExecutionStarted, SignalWorkflowExecution, Enter, Proceed, StatementFails,
         GetActivityState, InsertExecution, CommitUpdate, RollbackUpdate, PeekTimeoutTimer,
         ScheduleTimer, AddTask, AfterCommit
    <2>3. \A w \in Workers : calls'[w] = calls[w]
      BY <1>1, <2>2
    <2> QED BY <1>4, <2>1, <2>3, OthersFit, ClientsAreCallers
  <1>5. ASSUME NEW w \in Workers,
               \/ /\ w \in WorkflowWorkers
                  /\ RespondWorkflowTaskCompleted(w) \/ RespondWorkflowTaskFailed(w)
               \/ /\ w \in ActivityWorkers
                  /\ RespondActivityTaskCompleted(w) \/ RespondActivityTaskFailed(w)
               \/ Handled(w)
        PROVE  AllFit' /\ HistoryStep
    BY <1>1, <1>5, RespondFits, HandledFits, WorkersAreCallers
  <1>6. ASSUME NEW w \in Workers,
               \/ w \in WorkflowWorkers /\ PollWorkflowTaskQueue(w)
               \/ w \in ActivityWorkers /\ PollActivityTaskQueue(w)
        PROVE  AllFit' /\ Loses
    <2>1. AllFit'
      BY <1>6, PollGoes, GoesFit
    <2>2. /\ UNCHANGED <<dbVars, active, procs, calls, incidents>>
          /\ Pops(workflowQueue, workflowQueue') /\ Pops(activityQueue, activityQueue')
      BY <1>6, PopsOneOrNone DEF PollWorkflowTaskQueue, PollActivityTaskQueue
    <2>3. Loses
      BY <1>2, <2>2
    <2> QED BY <2>1, <2>3
  <1>7. ASSUME NEW w \in Workers,
               \/ w \in WorkflowWorkers /\ FetchHistory(w)
               \/ FetchFails(w) \/ ReportRefused(w) \/ ReportDone(w) \/ RepeatReport(w)
        PROVE  AllFit' /\ UNCHANGED timerVars
    <2>1. AllFit'
      BY <1>7, FetchGoes, LeaveGoes, RepeatGoes, GoesFit
    <2> QED BY <1>7, <2>1 DEF FetchHistory, FetchFails, ReportRefused, ReportDone, RepeatReport
  <1>8. ASSUME NEW w \in Workers, WorkerDies(w) \/ RecordActivityTaskHeartbeat(w)
        PROVE  AllFit' /\ Loses
    <2>1. PICK s : Goes(w, s)
      BY <1>8, LeaveGoes, RepeatGoes
    <2>2. UNCHANGED calls
      BY <2>1 DEF Goes
    <2>3. /\ UNCHANGED <<dbVars, active, procs>>
          /\ Pops(workflowQueue, workflowQueue') /\ Pops(activityQueue, activityQueue')
          /\ incidents' = incidents \/ incidents' = incidents + 1
      BY <1>8, PopsOneOrNone DEF WorkerDies, RecordActivityTaskHeartbeat, vars, redisVars
    <2>4. Loses
      BY <1>2, <2>2, <2>3
    <2> QED BY <2>1, <2>4, GoesFit
  <1>9. ASSUME NEW failed \in SUBSET Waiting, GiveUp(failed)
        PROVE  AllFit' /\ Loses
    BY <1>9, GiveUpFits, FailuresLose
  <1>10. CASE FrontendDies \/ \E w \in Workers : DeadlineExceeded(w)
    BY <1>9, <1>10 DEF FrontendDies, DeadlineExceeded
  <1>11. ASSUME NEW p \in Processors, Run(p) /\ UNCHANGED <<sessions, decided>>
         PROVE  AllFit' /\ Run(p)
    <2>1. UNCHANGED calls
      BY <1>11, RunKinds DEF CommitFired, Moves
    <2> QED BY <1>11, <2>1, OthersFit
  <1>12. ASSUME NEW p \in Processors, HistoryDies(p)
         PROVE  AllFit' /\ ProcessorCrash(p)
    BY <1>12, HistoryDiesFits DEF HistoryDies
  <1>13. WorkflowWorkers \subseteq Workers /\ ActivityWorkers \subseteq Workers
    BY DEF Workers
  <1>14. ASSUME NEW w \in WorkflowWorkers, WorkflowWork(w) \/ FetchFails(w) \/ RespondWorkflowTaskFailed(w)
         PROVE  AllFit' /\ (HistoryStep \/ Loses \/ UNCHANGED timerVars)
    BY <1>5, <1>6, <1>7, <1>13, <1>14 DEF WorkflowWork
  <1>15. ASSUME NEW w \in ActivityWorkers,
                ActivityWork(w) \/ RespondActivityTaskFailed(w) \/ RecordActivityTaskHeartbeat(w)
         PROVE  AllFit' /\ (HistoryStep \/ Loses \/ UNCHANGED timerVars)
    BY <1>5, <1>6, <1>7, <1>8, <1>13, <1>15 DEF ActivityWork
  <1>16. CASE FrontendNext
    <2>1. CASE \E c \in Clients : ClientRequest(c) \/ HandledForClient(c)
      BY <1>4, <2>1 DEF TimerNext
    <2>2. CASE \E w \in WorkflowWorkers :
                 WorkflowWork(w) \/ FetchFails(w) \/ RespondWorkflowTaskFailed(w)
      BY <1>14, <2>2 DEF TimerNext
    <2>3. CASE \E w \in ActivityWorkers :
                 ActivityWork(w) \/ RespondActivityTaskFailed(w) \/ RecordActivityTaskHeartbeat(w)
      BY <1>15, <2>3 DEF TimerNext
    <2>4. CASE FrontendDies \/ \E w \in Workers : DeadlineExceeded(w)
      BY <1>10, <2>4
    <2>5. CASE \E w \in Workers : Handled(w) \/ WorkerDies(w)
      BY <1>5, <1>8, <2>5 DEF TimerNext
    <2>6. CASE \E p \in Processors : (Run(p) /\ UNCHANGED <<sessions, decided>>) \/ HistoryDies(p)
      BY <1>11, <1>12, <2>6 DEF TimerNext
    <2> QED BY <1>16, <2>1, <2>2, <2>3, <2>4, <2>5, <2>6 DEF FrontendNext
  <1> QED BY <1>3, <1>16 DEF frontendVars

LEMMA LossNamed ==
  ASSUME TimerInv, TasksNamed, procs' \in [Processors -> Processor],
         Pops(activityQueue, activityQueue'),
         \A c \in Callers : calls'[c] \in {calls[c], Idle},
         \A p \in Processors : procs'[p] \in {procs[p], Idle}
  PROVE  TasksNamed'
  <1>1. activityQueue \in Seq(QueuedTask)
    BY SetsOfTimers
  <1>2. \A i \in DOMAIN activityQueue' : activityQueue'[i].act \in Activities
    <2>1. CASE activityQueue' = activityQueue
      BY <2>1, TasksNamedIs
    <2>2. CASE activityQueue # <<>> /\ activityQueue' = Tail(activityQueue)
      <3>1. \A i \in DOMAIN activityQueue' :
              i + 1 \in DOMAIN activityQueue /\ activityQueue'[i] = activityQueue[i + 1]
        BY <1>1, <2>2
      <3> QED BY <3>1, TasksNamedIs
    <2> QED BY <2>1, <2>2 DEF Pops
  <1>3. \A c \in Callers : NamedCall(calls'[c])
    BY TasksNamedIs DEF NamedCall, Idle
  <1>4. \A p \in Processors : procs'[p].pc = "requeue" => procs'[p].timer.act \in Activities
    BY TasksNamedIs DEF Idle
  <1> QED BY <1>2, <1>3, <1>4, TasksNamedIs

\* The event store and the tasks, in a step of the whole system.
LEMMA StoreStep ==
  ASSUME TimerInv, TasksNamed, [TimerNext]_timerVars \/ Loses
  PROVE  /\ TimerTypeOK' /\ HistoryInv' /\ FitInv'
         /\ ProcessorSnapshotCurrent' /\ TimersKnown'
         /\ TasksNamed'
  <1>1. /\ HistoryInv /\ incidents \in Nat /\ Idle \in Processor
        /\ procs \in [Processors -> Processor] /\ calls \in [Callers -> Call]
        /\ workflowQueue \in Seq(QueuedTask) /\ activityQueue \in Seq(QueuedTask)
    BY SetsOfTimers DEF TimerInv, TimerTypeOK, Processor
  <1>2. CASE Loses
    <2>1. TasksNamed'
      BY <1>1, <1>2, LossNamed DEF Loses
    <2>2. workflowQueue' \in Seq(QueuedTask) /\ activityQueue' \in Seq(QueuedTask)
      BY <1>1, <1>2, PopsQueued DEF Loses
    <2> QED BY <1>1, <1>2, <2>1, <2>2, LossInv DEF Loses
  <1>3. CASE [TimerNext]_timerVars
    <2>1. ASSUME HistoryStep \/ UNCHANGED timerVars PROVE TasksNamed'
      BY <1>1, <2>1, HistoryNamed DEF HistoryStep, timerVars
    <2>2. ASSUME NEW p \in Processors, Run(p) PROVE TasksNamed'
      BY <2>2, ProcessorNamed
    <2>3. ASSUME RedisRestart \/ \E p \in Processors : ProcessorCrash(p) PROVE TasksNamed'
      <3>1. /\ procs' \in [Processors -> Processor] /\ activityQueue' = activityQueue
            /\ \A c \in Callers : calls'[c] \in {calls[c], Idle}
            /\ \A p \in Processors : procs'[p] \in {procs[p], Idle}
        BY <1>1, <2>3 DEF RedisRestart, ProcessorCrash, Become, redisVars
      <3> QED BY <3>1, PopsOneOrNone, LossNamed
    <2>4. TasksNamed'
      BY <1>3, <2>1, <2>2, <2>3 DEF TimerNext
    <2> QED BY <1>3, <2>4, TimerStep
  <1> QED BY <1>2, <1>3

LEMMA FrontendInitInv ==
  FrontendInit => /\ TimerTypeOK /\ HistoryInv /\ FitInv /\ ProcessorSnapshotCurrent /\ TimersKnown
                  /\ FrontendTypeOK /\ SessionInv
  <1> SUFFICES ASSUME FrontendInit
               PROVE  /\ TimerTypeOK /\ HistoryInv /\ FitInv /\ ProcessorSnapshotCurrent /\ TimersKnown
                      /\ FrontendTypeOK /\ SessionInv
    OBVIOUS
  <1>1. /\ TimerInit /\ sessions = [w \in Workers |-> Idle] /\ decided = [k \in Keys |-> {}]
        /\ calls = [c \in Callers |-> Idle] /\ procs = [p \in Processors |-> Idle]
        /\ activityQueue = <<>>
    BY DEF FrontendInit, TimerInit, Init
  <1>2. TasksNamed
    BY <1>1 DEF TasksNamed, ProcessorsAt, Idle
  <1>3. AllFit
    BY <1>1, FrontendAssumption DEF AllFit, Session, WorkerFits, TokenFits, Idle
  <1> QED BY <1>1, <1>2, <1>3, TimerInitInv, WorkersFit

\* What a session promises about its reports.
LEMMA ReportsFit ==
  ASSUME FrontendTypeOK, SessionInv
  PROVE  ReportsReachTheirTask /\ AcknowledgedIsDecided
  <1>1. ASSUME NEW w \in Workers
        PROVE  WorkerFits(w, sessions[w], calls[w], decided)
    BY WorkersFit DEF AllFit
  <1>2. ASSUME NEW w \in Workers, sessions[w].pc = "reporting"
        PROVE  CallFits(w, sessions[w], calls[w], decided)
    BY <1>1, <1>2 DEF WorkerFits
  <1>3. ReportsReachTheirTask
    BY <1>2 DEF ReportsReachTheirTask, CallFits, SessionsAt
  <1>4. AcknowledgedIsDecided
    BY <1>1 DEF AcknowledgedIsDecided, SessionsAt, WorkerFits, Seen
  <1> QED BY <1>3, <1>4

--------------------------------------------------------------------------------
(* Theorems: as long as the environment of History is open to what workers answer *)

\* The event store, its timers and its processors keep their invariant under the workers
\* and clients of Frontend, and the tokens and calls of the workers stay about their tasks.
THEOREM FrontendSound ==
  ASSUME OpenToWorkers
  PROVE  FrontendSpec => [](TimerInv /\ FrontendTypeOK /\ SessionInv)
  <1> DEFINE Stored == /\ TimerTypeOK /\ HistoryInv /\ FitInv
                       /\ ProcessorSnapshotCurrent /\ TimersKnown
             Whole == TimerInv /\ FrontendTypeOK /\ SessionInv
  <1>1. FrontendInit => Stored /\ FrontendTypeOK /\ SessionInv
    BY FrontendInitInv
  <1>2. Whole /\ [FrontendNext]_frontendVars => (Stored /\ FrontendTypeOK /\ SessionInv)'
    <2> SUFFICES ASSUME Whole, [FrontendNext]_frontendVars
                 PROVE  (Stored /\ FrontendTypeOK /\ SessionInv)'
      OBVIOUS
    <2>1. TasksNamed
      BY DEF SessionInv
    <2>2. AllFit' /\ ([TimerNext]_timerVars \/ Loses)
      BY FrontendStep
    <2>3. Stored' /\ TasksNamed'
      BY <2>1, <2>2, StoreStep
    <2> QED BY <2>2, <2>3, WorkersFit
  <1>3. Stored => TimerInv
    BY NoRunTimeoutHolds DEF TimerInv
  <1> QED BY <1>1, <1>2, <1>3, PTL DEF FrontendSpec

\* Every state of a worker, a client's request and a handler is one the code can be in.
THEOREM FrontendTypes ==
  ASSUME OpenToWorkers
  PROVE  FrontendSpec => []FrontendTypeOK
  BY FrontendSound, PTL

\* A report goes to the run and the activity its worker has polled, whatever fails, crashes
\* or comes late in between.
THEOREM ReportsArrive ==
  ASSUME OpenToWorkers
  PROVE  FrontendSpec => []ReportsReachTheirTask
  <1>1. FrontendTypeOK /\ SessionInv => ReportsReachTheirTask
    BY ReportsFit
  <1> QED BY FrontendSound, <1>1, PTL

\* What a worker is told OK about is decided, with every event it had seen.
THEOREM AcknowledgedStands ==
  ASSUME OpenToWorkers
  PROVE  FrontendSpec => []AcknowledgedIsDecided
  <1>1. FrontendTypeOK /\ SessionInv => AcknowledgedIsDecided
    BY ReportsFit
  <1> QED BY FrontendSound, <1>1, PTL

--------------------------------------------------------------------------------
(* What the decisions schedule *)

\* A worker with this session and this call has not committed what it decided.
Unsettled(session, call) ==
  \/ session.pc = "working"
  \/ session.pc = "reporting" /\ call.pc # "publish"
  \/ session.pc = "answered" /\ session.report = "Error"

Distinct(events) == \A e, f \in events : e.act = f.act => e = f

Adds(events, seen) == \A e \in events : \A f \in seen : e.act # f.act

DeciderFits(session, call, events) ==
  /\ session.pc = "answered" => call = Idle
  /\ Unsettled(session, call) => Schedulings(events[session.task.key]) \subseteq session.seen
  /\ call.pc = "update" => /\ Distinct(Schedulings(call.txn.events))
                           /\ Adds(Schedulings(call.txn.events), Schedulings(session.seen))

SchedulesNothing(call) == call.pc = "update" => Schedulings(call.txn.events) = {}

LEMMA DecisionInvIs ==
  /\ DecisionInv <=> /\ \A k \in Keys : Distinct(Schedulings(history[k]))
                     /\ \A c \in Callers \ WorkflowWorkers : SchedulesNothing(calls[c])
                     /\ \A w \in WorkflowWorkers : DeciderFits(sessions[w], calls[w], history)
  /\ DecisionInv' <=> /\ \A k \in Keys : Distinct(Schedulings(history'[k]))
                      /\ \A c \in Callers \ WorkflowWorkers : SchedulesNothing(calls'[c])
                      /\ \A w \in WorkflowWorkers : DeciderFits(sessions'[w], calls'[w], history')
  <1>1. \A w : Undecided(w) <=> Unsettled(sessions[w], calls[w])
    BY DEF Undecided, Unsettled
  <1>2. \A w : Undecided(w)' <=> Unsettled(sessions'[w], calls'[w])
    BY DEF Undecided, Unsettled
  <1>3. \A w : DeciderFits(sessions[w], calls[w], history) <=>
          /\ sessions[w].pc = "answered" => calls[w] = Idle
          /\ Undecided(w) => Schedulings(history[sessions[w].task.key]) \subseteq sessions[w].seen
          /\ calls[w].pc = "update" =>
               \A e \in Schedulings(calls[w].txn.events) :
                 /\ \A f \in Schedulings(calls[w].txn.events) : e.act = f.act => e = f
                 /\ \A f \in Schedulings(sessions[w].seen) : e.act # f.act
    BY <1>1, Zenon DEF DeciderFits, Distinct, Adds
  <1>4. \A w : DeciderFits(sessions'[w], calls'[w], history') <=>
          /\ sessions'[w].pc = "answered" => calls'[w] = Idle
          /\ Undecided(w)' => Schedulings(history'[sessions'[w].task.key]) \subseteq sessions'[w].seen
          /\ calls'[w].pc = "update" =>
               \A e \in Schedulings(calls'[w].txn.events) :
                 /\ \A f \in Schedulings(calls'[w].txn.events) : e.act = f.act => e = f
                 /\ \A f \in Schedulings(sessions'[w].seen) : e.act # f.act
    BY <1>2, Zenon DEF DeciderFits, Distinct, Adds
  <1>5. \A k : /\ Distinct(Schedulings(history[k])) <=>
                    \A e, f \in Schedulings(history[k]) : e.act = f.act => e = f
               /\ Distinct(Schedulings(history'[k])) <=>
                    \A e, f \in Schedulings(history'[k]) : e.act = f.act => e = f
    BY DEF Distinct
  <1>6. /\ DecisionInv <=>
             /\ \A k \in Keys : \A e, f \in Schedulings(history[k]) : e.act = f.act => e = f
             /\ \A c \in Callers \ WorkflowWorkers : SchedulesNothing(calls[c])
             /\ \A w \in WorkflowWorkers : DeciderFits(sessions[w], calls[w], history)
    BY <1>3, Zenon DEF DecisionInv, SchedulesNothing
  <1>7. /\ DecisionInv' <=>
             /\ \A k \in Keys : \A e, f \in Schedulings(history'[k]) : e.act = f.act => e = f
             /\ \A c \in Callers \ WorkflowWorkers : SchedulesNothing(calls'[c])
             /\ \A w \in WorkflowWorkers : DeciderFits(sessions'[w], calls'[w], history')
    BY <1>4, Zenon DEF DecisionInv, SchedulesNothing, Schedulings
  <1> QED BY <1>5, <1>6, <1>7

\* Only the answer to a workflow task schedules activities.
LEMMA NothingElseSchedules ==
  /\ \A row : Schedulings(WorkflowTaskFailedTxn(row).events) = {}
  /\ \A k, row : Schedulings(SignalTxn(k, row).events) = {}
  /\ \A rpc \in ActivityRPCs : \A k, row, a, arow :
       Schedulings(ActivityTxn(rpc, k, row, a, arow).events) = {}
  <1>1. ASSUME NEW type, NEW id, NEW a, type # "ActivityTaskScheduled"
        PROVE  Schedulings({NewEvent(id, type, a)}) = {}
    BY <1>1 DEF Schedulings, NewEvent
  <1>2. ASSUME NEW row
        PROVE  Schedulings(WorkflowTaskFailedTxn(row).events) = {}
    <2>1. WorkflowTaskFailedTxn(row).events
            = {NewEvent(row.next, "WorkflowTaskFailed", NoActivity),
               NewEvent(row.next + 1, "WorkflowExecutionFailed", NoActivity)}
      BY DEF WorkflowTaskFailedTxn, AppendEvent
    <2> QED BY <2>1 DEF Schedulings, NewEvent
  <1>3. ASSUME NEW k, NEW row
        PROVE  Schedulings(SignalTxn(k, row).events) = {}
    <2>1. SignalTxn(k, row).events = {NewEvent(row.next, "WorkflowExecutionSignaled", NoActivity)}
      BY DEF SignalTxn, AppendEvent
    <2> QED BY <1>1, <2>1
  <1>4. ASSUME NEW rpc \in ActivityRPCs, NEW k, NEW row, NEW a, NEW arow
        PROVE  Schedulings(ActivityTxn(rpc, k, row, a, arow).events) = {}
    <2> DEFINE N == ActivityTxn(rpc, k, row, a, arow).events
    <2>1. \/ N = {}
          \/ N = {NewEvent(row.next, "ActivityTaskCompleted", a)}
          \/ N = {NewEvent(row.next, "ActivityTaskFailed", a)}
          \/ N = {NewEvent(row.next, "ActivityTaskFailedFinally", a)}
      BY DEF ActivityTxn, ActivityRPCs, ActivityTaskCompletedTxn, ActivityTaskFailedTxn,
         RetryActivityTxn, FailActivityTxn, HeartbeatTxn, AppendEvent
    <2> HIDE DEF N
    <2>2. Schedulings({}) = {}
      BY DEF Schedulings
    <2>3. Schedulings(N) = {}
      BY <1>1, <2>1, <2>2
    <2> QED BY <2>3 DEF N
  <1> QED BY <1>2, <1>3, <1>4

\* A decision schedules what the workflow code says, once each, and nothing it has seen.
LEMMA DecisionSchedules ==
  ASSUME SchedulesOnce, NEW seen \in SUBSET Event, Decide(seen) \in Batches, NEW k, NEW row
  PROVE  LET N == Schedulings(WorkflowTaskCompletedTxn(k, row, Decide(seen)).events)
         IN  Distinct(N) /\ Adds(N, Schedulings(seen))
  <1> DEFINE cmds == Decide(seen)
             event(i) == NewEvent(row.next + i, CommandEvent[cmds[i].type], cmds[i].act)
             N == Schedulings(WorkflowTaskCompletedTxn(k, row, cmds).events)
  <1>1. cmds \in Seq(Command)
    BY ServiceAssumption
  <1>2. \A i \in DOMAIN cmds : cmds[i].type \in CommandTypes
    <2> HIDE DEF cmds
    <2>1. \A i \in 1 .. Len(cmds) : cmds[i] \in Command
      BY <1>1
    <2> QED BY <1>1, <2>1 DEF Command
  <1>3. WorkflowTaskCompletedTxn(k, row, cmds).events
          = {NewEvent(row.next, "WorkflowTaskCompleted", NoActivity)} \cup {event(i) : i \in DOMAIN cmds}
    BY DEF WorkflowTaskCompletedTxn
  <1>4. /\ \A i \in Scheduled(cmds) : /\ \A j \in Scheduled(cmds) : cmds[i].act = cmds[j].act => i = j
                                      /\ \A e \in Schedulings(seen) : e.act # cmds[i].act
    BY DEF SchedulesOnce
  <1>5. \A i \in DOMAIN cmds : event(i).type = "ActivityTaskScheduled" => i \in Scheduled(cmds)
    BY <1>2 DEF CommandTypes, CommandEvent, NewEvent, Scheduled
  <1>6. \A i : event(i).act = cmds[i].act
    BY DEF NewEvent
  <1>7. NewEvent(row.next, "WorkflowTaskCompleted", NoActivity).type # "ActivityTaskScheduled"
    BY DEF NewEvent
  <1> HIDE DEF cmds, event
  <1>8. \A e \in N : \E i \in Scheduled(cmds) : e = event(i)
    BY <1>3, <1>5, <1>7 DEF Schedulings
  <1> HIDE DEF N
  <1>9. Distinct(N)
    BY <1>4, <1>6, <1>8 DEF Distinct
  <1>10. Adds(N, Schedulings(seen))
    BY <1>4, <1>6, <1>8 DEF Adds
  <1> QED BY <1>9, <1>10 DEF N, cmds

--------------------------------------------------------------------------------
(* The callers that decide nothing *)

\* What is scheduled stays as it is, and whoever prepares something schedules nothing.
Undeciding ==
  /\ \A k \in Keys : Schedulings(history'[k]) = Schedulings(history[k])
  /\ \A c \in Callers \ WorkflowWorkers : SchedulesNothing(calls'[c])

LEMMA OthersUndecided ==
  ASSUME DecisionInv, AllFit, Undeciding, WorkflowWorkers \subseteq Workers,
         \A w \in WorkflowWorkers : sessions'[w] = sessions[w] /\ calls'[w] = calls[w]
  PROVE  DecisionInv'
  <1>1. ASSUME NEW w \in WorkflowWorkers
        PROVE  DeciderFits(sessions[w], calls[w], history')
    <2>1. Unsettled(sessions[w], calls[w]) => sessions[w].task.key \in Keys
      <3>1. sessions[w] \in Session
        BY DEF AllFit
      <3>2. Unsettled(sessions[w], calls[w]) => sessions[w].pc \in {"working", "reporting", "answered"}
        BY DEF Unsettled
      <3> QED BY <3>1, <3>2, SessionShape DEF Idle, QueuedTask
    <2>2. DeciderFits(sessions[w], calls[w], history)
      BY DecisionInvIs
    <2> QED BY <2>1, <2>2 DEF DeciderFits, Undeciding
  <1>2. \A k \in Keys : Distinct(Schedulings(history'[k]))
    BY DecisionInvIs DEF Undeciding
  <1> QED BY <1>1, <1>2, DecisionInvIs DEF Undeciding

\* A call of somebody else changes, and nothing is written.
LEMMA CallUndecided ==
  ASSUME TypeOK, DecisionInv, UNCHANGED history, NEW c \in Callers, NEW call,
         calls' = [calls EXCEPT ![c] = call], c \notin WorkflowWorkers => SchedulesNothing(call)
  PROVE  Undeciding
  <1>1. \A d \in Callers : calls'[d] = IF d = c THEN call ELSE calls[d]
    BY DEF TypeOK
  <1> QED BY <1>1, DecisionInvIs DEF Undeciding

LEMMA WriteUndecided ==
  ASSUME TypeOK, DecisionInv, NEW k \in Keys, NEW N, Schedulings(N) = {},
         history' = [history EXCEPT ![k] = @ \cup N], NEW c \in Callers, NEW call,
         calls' = [calls EXCEPT ![c] = call], SchedulesNothing(call)
  PROVE  Undeciding
  <1>1. \A d \in Callers : calls'[d] = IF d = c THEN call ELSE calls[d]
    BY DEF TypeOK
  <1>2. \A l \in Keys : history'[l] = IF l = k THEN history[k] \cup N ELSE history[l]
    BY DEF TypeOK, RepositoryTypeOK
  <1>3. Schedulings(history[k] \cup N) = Schedulings(history[k])
    BY DEF Schedulings
  <1> QED BY <1>1, <1>2, <1>3, DecisionInvIs DEF Undeciding

LEMMA PublishSchedulesNothing ==
  /\ SchedulesNothing(Idle)
  /\ \A T, W : SchedulesNothing(Publish(T, W))
  BY DEF SchedulesNothing, Publish, Idle

\* The handlers of clients and activity workers.
LEMMA HandlerUndecided ==
  ASSUME TypeOK, DecisionInv, NEW c \in Callers \ WorkflowWorkers, Proceed(c) \/ StatementFails(c)
  PROVE  Undeciding
  <1> DEFINE cl == calls[c]
  <1>1. SchedulesNothing(cl)
    BY DecisionInvIs
  <1>2. CASE GetActivityState(c)
    <2> DEFINE txn == ActivityTxn(cl.rpc, cl.key, cl.row, cl.act, activities[cl.key][cl.act])
    <2>1. cl.rpc \in ActivityRPCs
      BY <1>2, CallShape DEF GetActivityState, Reading
    <2>2. Schedulings(txn.events) = {}
      BY <2>1, NothingElseSchedules
    <2>3. PICK call : /\ calls' = [calls EXCEPT ![c] = call]
                      /\ \/ call = Idle
                         \/ call = [pc |-> "update", key |-> cl.key, row |-> cl.row, txn |-> txn,
                                    then |-> IF cl.rpc = "RecordActivityTaskHeartbeat" THEN "peek"
                                             ELSE "publish"]
      BY <1>2 DEF GetActivityState
    <2> HIDE DEF txn
    <2>4. SchedulesNothing(call)
      BY <2>2, <2>3, PublishSchedulesNothing DEF SchedulesNothing
    <2> QED BY <1>2, <2>3, <2>4, CallUndecided DEF GetActivityState, dbVars
  <1>3. CASE InsertExecution(c)
    <2>1. cl.key \in Keys
      BY <1>3, CallShape DEF InsertExecution, Inserting
    <2>2. history' = [history EXCEPT ![cl.key] =
                        @ \cup {NewEvent(1, "WorkflowExecutionStarted", NoActivity)}]
      BY <1>3 DEF InsertExecution, CreateWorkflowExecution
    <2>3. Schedulings({NewEvent(1, "WorkflowExecutionStarted", NoActivity)}) = {}
      BY DEF Schedulings, NewEvent
    <2>4. PICK call : calls' = [calls EXCEPT ![c] = call] /\ SchedulesNothing(call)
      BY <1>3, PublishSchedulesNothing DEF InsertExecution, AfterCommit
    <2> QED BY <2>1, <2>2, <2>3, <2>4, WriteUndecided
  <1>4. CASE CommitUpdate(c)
    <2>1. cl.key \in Keys /\ cl.pc = "update"
      BY <1>4, CallShape DEF CommitUpdate, Updating
    <2>2. history' = [history EXCEPT ![cl.key] = @ \cup cl.txn.events]
      BY <1>4 DEF CommitUpdate, UpdateWorkflowExecution, WriteTables
    <2>3. SchedulesNothing([pc |-> "peek", key |-> cl.key])
      BY DEF SchedulesNothing
    <2>4. PICK call : calls' = [calls EXCEPT ![c] = call] /\ SchedulesNothing(call)
      BY <1>4, <2>3, PublishSchedulesNothing DEF CommitUpdate, AfterCommit
    <2> QED BY <1>1, <2>1, <2>2, <2>4, WriteUndecided DEF SchedulesNothing
  <1>5. CASE RollbackUpdate(c) \/ StatementFails(c)
    BY <1>5, PublishSchedulesNothing, CallUndecided DEF RollbackUpdate, StatementFails, dbVars
  <1>6. CASE PeekTimeoutTimer(c)
    BY <1>6, PublishSchedulesNothing, CallUndecided DEF PeekTimeoutTimer, dbVars
  <1>7. ASSUME \/ \E t \in cl.timers : ScheduleTimer(c, t)
               \/ \E t \in cl.tasks : AddTask(c, t)
        PROVE  Undeciding
    <2>1. UNCHANGED history /\ \E T, W : calls' = [calls EXCEPT ![c] = Publish(T, W)]
      BY <1>7 DEF ScheduleTimer, AddTask, dbVars
    <2> QED BY <2>1, PublishSchedulesNothing, CallUndecided
  <1> QED BY <1>2, <1>3, <1>4, <1>5, <1>6, <1>7 DEF Proceed

\* The requests of clients and activity workers.
LEMMA RequestUndecided ==
  ASSUME TypeOK, DecisionInv, NEW c \in Callers \ WorkflowWorkers,
         \/ \E k \in Keys, tq \in TaskQueueNames : RecordWorkflowExecutionStarted(c, k, tq)
         \/ \E k \in Keys : SignalWorkflowExecution(c, k)
         \/ \E rpc, k, a : RecordActivityTask(c, rpc, k, a)
  PROVE  Undeciding
  <1>1. \A k \in Keys : SchedulesNothing(Update(k, SignalTxn(k, executions[k]), "publish"))
    BY NothingElseSchedules DEF SchedulesNothing, Update
  <1>2. /\ \A k, tq : SchedulesNothing([pc |-> "insert", key |-> k, taskQueue |-> tq])
        /\ \A rpc, k, a, row :
             SchedulesNothing([pc |-> "read", rpc |-> rpc, key |-> k, act |-> a, row |-> row])
    BY DEF SchedulesNothing
  <1>3. PICK call : Enter(c, call) /\ SchedulesNothing(call)
    BY <1>1, <1>2 DEF RecordWorkflowExecutionStarted, SignalWorkflowExecution, RecordActivityTask
  <1> QED BY <1>3, CallUndecided DEF Enter, dbVars

\* The processors.
LEMMA ProcessorUndecided ==
  ASSUME TimerInv, DecisionInv, NEW p \in Processors, Run(p)
  PROVE  Undeciding
  <1>1. TypeOK
    BY DEF TimerInv, TimerTypeOK
  <1>2. ASSUME UNCHANGED <<history, calls>>
        PROVE  Undeciding
    BY <1>2, DecisionInvIs DEF Undeciding
  <1>3. CASE CommitFired(p)
    <2> DEFINE k == procs[p].timer.key
               event == NewEvent(executions[k].next, "TimerFired", NoActivity)
    <2>1. /\ k \in Keys /\ UNCHANGED calls
          /\ history' = [history EXCEPT ![k] = history[k] \cup {event}]
      BY <1>3, FiredEffect
    <2>2. event.type # "ActivityTaskScheduled"
      BY DEF NewEvent
    <2> HIDE DEF k, event
    <2>3. \A l \in Keys : history'[l] = IF l = k THEN history[k] \cup {event} ELSE history[l]
      BY <1>1, <2>1 DEF TypeOK, RepositoryTypeOK
    <2>4. \A l \in Keys : Schedulings(history'[l]) = Schedulings(history[l])
      BY <2>2, <2>3 DEF Schedulings
    <2> QED BY <2>1, <2>4, DecisionInvIs DEF Undeciding
  <1>4. CASE \E proc : Moves(p, proc)
    BY <1>2, <1>4 DEF Moves
  <1> QED BY <1>3, <1>4, RunKinds

--------------------------------------------------------------------------------
(* The one who decides *)

LEMMA LoneDecider ==
  ASSUME OneDecider, DecisionInv, NEW w \in WorkflowWorkers,
         \A k \in Keys : Distinct(Schedulings(history'[k])),
         \A c \in Callers \ {w} : calls'[c] = calls[c],
         DeciderFits(sessions'[w], calls'[w], history')
  PROVE  DecisionInv'
  <1>1. \A v \in WorkflowWorkers : v = w
    BY DEF OneDecider
  <1>2. \A c \in Callers \ WorkflowWorkers : SchedulesNothing(calls'[c])
    BY <1>1, DecisionInvIs
  <1> QED BY <1>1, <1>2, DecisionInvIs

\* The history that Frontend fetches is that of the task.
LEMMA FetchedRun ==
  ASSUME NEW w \in Workers, sessions[w] \in Session, sessions[w].pc = "fetch",
         TokenFits(w, sessions[w])
  PROVE  LET json == sessions[w].token.json
             k == sessions[w].task.key
         IN  k \in Keys /\ <<Field(json, "workflow_id"), Field(json, "run_id")>> = k
  <1> DEFINE task == sessions[w].task
             json == sessions[w].token.json
  <1>1. task.key \in Keys
    BY SessionShape DEF Idle, QueuedTask
  <1>2. sessions[w].token = MatchingToken(task.key[1], task.key[2], NoActivity)
    BY DEF TokenFits
  <1>3. Field(json, "workflow_id") = task.key[1] /\ Field(json, "run_id") = task.key[2]
    BY <1>2, MatchingTokenRead
  <1> QED BY <1>1, <1>3, KeyIsPair

LEMMA RestingDecides ==
  ASSUME OneDecider, FrontendTypeOK, SessionInv, DecisionInv, NEW w \in WorkflowWorkers,
         \/ PollWorkflowTaskQueue(w) \/ FetchHistory(w) \/ FetchFails(w)
         \/ ReportRefused(w) \/ ReportDone(w) \/ RepeatReport(w)
  PROVE  DecisionInv'
  <1> DEFINE now == sessions[w]
  <1>1. /\ now \in Session /\ WorkerFits(w, now, calls[w], decided) /\ w \in Workers
        /\ DOMAIN sessions = Workers
    BY WorkersFit DEF AllFit, Workers
  <1>2. UNCHANGED <<history, calls>> /\ DeciderFits(now, calls[w], history)
    BY DecisionInvIs DEF PollWorkflowTaskQueue, FetchHistory, FetchFails, ReportRefused, ReportDone,
       RepeatReport, timerVars, vars, dbVars
  <1>3. calls[w] = Idle
    BY <1>1, Uncalled DEF PollWorkflowTaskQueue, FetchHistory, FetchFails, ReportRefused, ReportDone,
       RepeatReport, Idle
  <1>4. Idle.pc = "idle"
    BY DEF Idle
  <1>5. PICK s : /\ sessions' = [sessions EXCEPT ![w] = s]
                 /\ \/ s.pc \in {"idle", "fetch"}
                    \/ s.pc = "working" /\ Schedulings(history[s.task.key]) \subseteq s.seen
    <2>1. CASE PollWorkflowTaskQueue(w)
      <3> DEFINE task == Head(workflowQueue)
                 s == [pc |-> "fetch", task |-> task,
                       token |-> MatchingToken(task.key[1], task.key[2], NoActivity)]
      <3>1. sessions' = [sessions EXCEPT ![w] = s] /\ s.pc = "fetch"
        BY <2>1 DEF PollWorkflowTaskQueue, Hold
      <3> HIDE DEF s
      <3> QED BY <3>1
    <2>2. CASE FetchHistory(w)
      <3> DEFINE json == now.token.json
                 k == <<Field(json, "workflow_id"), Field(json, "run_id")>>
                 s == [pc |-> "working", task |-> now.task, token |-> Encode(k[1], k[2], NoActivity, 0),
                       seen |-> history[k], report |-> "none", heartbeat |-> "none"]
      <3>1. now.pc = "fetch" /\ sessions' = [sessions EXCEPT ![w] = s]
        BY <2>2 DEF FetchHistory, Hold, GetHistoryEvents
      <3>2. k = now.task.key
        BY <1>1, <3>1, FetchedRun DEF WorkerFits
      <3>3. s.pc = "working" /\ s.task.key = k /\ s.seen = history[k]
        BY <3>2
      <3>4. Schedulings(history[k]) \subseteq history[k]
        BY DEF Schedulings
      <3> HIDE DEF k, s
      <3> QED BY <3>1, <3>3, <3>4
    <2>3. CASE FetchFails(w) \/ ReportRefused(w) \/ ReportDone(w)
      BY <1>4, <2>3 DEF FetchFails, ReportRefused, ReportDone, Hold
    <2>4. CASE RepeatReport(w)
      <3> DEFINE s == [now EXCEPT !.pc = "working", !.report = "none"]
      <3>1. now.pc = "answered" /\ now.report = "Error" /\ sessions' = [sessions EXCEPT ![w] = s]
        BY <2>4 DEF RepeatReport, Hold
      <3>2. now \in Working
        BY <1>1, <3>1, SessionShape
      <3>3. s.pc = "working" /\ s.task = now.task /\ s.seen = now.seen
        BY <3>2 DEF Working
      <3>4. Schedulings(history[now.task.key]) \subseteq now.seen
        BY <1>2, <3>1 DEF DeciderFits, Unsettled
      <3> HIDE DEF s
      <3> QED BY <3>1, <3>3, <3>4
    <2> QED BY <2>1, <2>2, <2>3, <2>4
  <1>6. sessions'[w] = s
    BY <1>1, <1>5
  <1>7. DeciderFits(s, Idle, history)
    BY <1>4, <1>5 DEF DeciderFits, Unsettled
  <1>8. calls'[w] = Idle /\ history' = history
    BY <1>2, <1>3
  <1>9. \A k \in Keys : Distinct(Schedulings(history'[k]))
    BY <1>8, DecisionInvIs
  <1> QED BY <1>2, <1>6, <1>7, <1>8, <1>9, LoneDecider

LEMMA ReportDecides ==
  ASSUME OneDecider, SchedulesOnce, OpenToWorkers, FrontendTypeOK, SessionInv, DecisionInv,
         NEW w \in WorkflowWorkers,
         RespondWorkflowTaskCompleted(w) \/ RespondWorkflowTaskFailed(w)
  PROVE  DecisionInv'
  <1> DEFINE now == sessions[w]
             s == [now EXCEPT !.pc = "reporting"]
  <1>1. /\ now \in Session /\ WorkerFits(w, now, calls[w], decided) /\ w \in Workers
        /\ DOMAIN sessions = Workers /\ calls \in [Callers -> Call] /\ w \in Callers
    BY WorkersFit, FrontendAssumption DEF AllFit, Workers, FrontendTypeOK, TimerTypeOK, TypeOK
  <1>2. now.pc = "working" /\ sessions' = [sessions EXCEPT ![w] = s]
    BY DEF RespondWorkflowTaskCompleted, RespondWorkflowTaskFailed, Report
  <1>3. now \in Working
    BY <1>1, <1>2, SessionShape
  <1>4. s.pc = "reporting" /\ s.task = now.task /\ s.seen = now.seen /\ now.seen \in SUBSET Event
    BY <1>3 DEF Working
  <1>5. Schedulings(history[now.task.key]) \subseteq now.seen
    BY <1>2, DecisionInvIs DEF DeciderFits, Unsettled
  <1>6. PICK k, txn :
          /\ Enter(w, Update(k, txn, "publish"))
          /\ Distinct(Schedulings(txn.events)) /\ Adds(Schedulings(txn.events), Schedulings(now.seen))
    <2>1. CASE RespondWorkflowTaskCompleted(w)
      <3>1. Decide(now.seen) \in Batches
        BY <1>4 DEF OpenToWorkers
      <3> QED BY <1>4, <2>1, <3>1, DecisionSchedules
              DEF RespondWorkflowTaskCompleted, RecordWorkflowTaskCompleted
    <2>2. CASE RespondWorkflowTaskFailed(w)
      <3>1. \A row : Distinct(Schedulings(WorkflowTaskFailedTxn(row).events))
                     /\ Adds(Schedulings(WorkflowTaskFailedTxn(row).events), Schedulings(now.seen))
        BY NothingElseSchedules DEF Distinct, Adds
      <3> QED BY <2>2, <3>1 DEF RespondWorkflowTaskFailed, RecordWorkflowTaskFailed
    <2> QED BY <2>1, <2>2
  <1> DEFINE call == Update(k, txn, "publish")
  <1>7. calls' = [calls EXCEPT ![w] = call] /\ UNCHANGED history
    BY <1>6 DEF Enter, dbVars
  <1>8. call.pc = "update" /\ call.txn = txn
    BY DEF Update
  <1> HIDE DEF s, call
  <1>9. sessions'[w] = s /\ calls'[w] = call /\ \A c \in Callers \ {w} : calls'[c] = calls[c]
    BY <1>1, <1>2, <1>7
  <1>10. DeciderFits(s, call, history)
    BY <1>4, <1>5, <1>6, <1>8 DEF DeciderFits
  <1>11. \A l \in Keys : Distinct(Schedulings(history'[l]))
    BY <1>7, DecisionInvIs
  <1> QED BY <1>7, <1>9, <1>10, <1>11, LoneDecider

\* A handler that serves a decision: until it commits, its worker knows what is scheduled,
\* and then it is told so.
LEMMA HandledDecides ==
  ASSUME OneDecider, "database" \notin Faults, HistoryInv, FrontendTypeOK, SessionInv, DecisionInv,
         NEW w \in WorkflowWorkers, Handled(w)
  PROVE  DecisionInv'
  <1> DEFINE now == sessions[w]
             cl == calls[w]
             answered(reply) == [now EXCEPT !.pc = "answered", !.report = reply]
  <1>1. /\ now \in Session /\ WorkerFits(w, now, cl, decided) /\ w \in Workers /\ w \in Callers
        /\ DOMAIN sessions = Workers /\ calls \in [Callers -> Call] /\ TypeOK
    BY WorkersFit, FrontendAssumption DEF AllFit, Workers, FrontendTypeOK, TimerTypeOK, TypeOK
  <1>2. Proceed(w) /\ ~StatementFails(w)
    BY DEF Handled, StatementFails
  <1>3. cl # Idle
    BY <1>2 DEF Proceed, GetActivityState, InsertExecution, CommitUpdate, RollbackUpdate,
       PeekTimeoutTimer, Idle
  <1>4. DeciderFits(now, cl, history)
    BY DecisionInvIs
  <1>5. /\ now.pc = "reporting" /\ cl.pc \in {"update", "publish"}
        /\ cl.pc = "update" => cl.key = now.task.key /\ cl.then = "publish"
    <2>1. CallFits(w, now, cl, decided)
      BY <1>1, <1>3 DEF WorkerFits
    <2> QED BY <1>3, <1>4, <2>1, FrontendAssumption DEF CallFits, DeciderFits
  <1>6. now \in Working
    BY <1>1, <1>5, SessionShape
  <1>7. ASSUME NEW reply \in Replies(w)
        PROVE  /\ answered(reply).pc = "answered" /\ answered(reply).report = reply
               /\ answered(reply).task = now.task /\ answered(reply).seen = now.seen
    BY <1>6 DEF Working
  \* the worker waits on, or is answered
  <1>8. ASSUME NEW call, calls' = [calls EXCEPT ![w] = call]
        PROVE  /\ calls'[w] = call /\ \A c \in Callers \ {w} : calls'[c] = calls[c]
               /\ call # Idle => sessions'[w] = now
               /\ call = Idle => \E reply \in Replies(w) : sessions'[w] = answered(reply)
    <2>1. calls'[w] = call /\ \A c \in Callers \ {w} : calls'[c] = calls[c]
      BY <1>1, <1>8
    <2>2. CASE call # Idle
      BY <2>1, <2>2 DEF Handled
    <2>3. CASE call = Idle
      <3>1. PICK reply \in Replies(w) : sessions' = [sessions EXCEPT ![w] = answered(reply)]
        BY <1>5, <2>1, <2>3 DEF Handled, Hold
      <3>2. sessions'[w] = answered(reply)
        BY <1>1, <3>1
      <3> QED BY <2>1, <2>3, <3>2
    <2> QED BY <2>1, <2>2, <2>3
  <1> HIDE DEF answered
  \* what has been committed, nobody has still to commit
  <1>9. ASSUME NEW T, NEW W, calls' = [calls EXCEPT ![w] = Publish(T, W)],
               Publish(T, W) = Idle => Replies(w) = {"OK"},
               \A k \in Keys : Distinct(Schedulings(history'[k]))
        PROVE  DecisionInv'
    <2> DEFINE call == Publish(T, W)
    <2>1. call.pc \in {"idle", "publish"} /\ (call # Idle => call.pc = "publish")
      BY DEF Publish, Idle
    <2> HIDE DEF call
    <2>2. CASE call # Idle
      <3>1. sessions'[w] = now /\ calls'[w] = call /\ \A c \in Callers \ {w} : calls'[c] = calls[c]
        BY <1>8, <1>9, <2>2 DEF call
      <3>2. DeciderFits(now, call, history')
        BY <1>5, <2>1, <2>2 DEF DeciderFits, Unsettled
      <3> QED BY <1>9, <3>1, <3>2, LoneDecider
    <2>3. CASE call = Idle
      <3>1. /\ sessions'[w] = answered("OK") /\ calls'[w] = Idle
            /\ \A c \in Callers \ {w} : calls'[c] = calls[c]
        BY <1>8, <1>9, <2>3 DEF call
      <3>2. DeciderFits(answered("OK"), Idle, history')
        BY <1>7, <1>9, <2>1, <2>3 DEF DeciderFits, Unsettled, call
      <3> QED BY <1>9, <3>1, <3>2, LoneDecider
    <2> QED BY <2>2, <2>3
  <1>10. CASE CommitUpdate(w)
    <2> DEFINE k == cl.key
               N == cl.txn.events
    <2>1. cl.pc = "update" /\ k \in Keys /\ k = now.task.key
      BY <1>1, <1>5, <1>10, CallShape DEF CommitUpdate, Updating
    <2>2. history' = [history EXCEPT ![k] = @ \cup N]
      BY <1>10 DEF CommitUpdate, UpdateWorkflowExecution, WriteTables
    <2>3. calls' = [calls EXCEPT ![w] = Publish(cl.txn.timers, cl.txn.tasks)]
      BY <1>5, <1>10, <2>1 DEF CommitUpdate, AfterCommit
    <2>4. executions' # executions
      <3>1. PICK l \in Keys : executions'[l].version = executions[l].version + 1
        BY <1>1, <1>10, CommitEffect
      <3>2. executions[l].version \in Nat
        BY <1>1 DEF TypeOK, RepositoryTypeOK, Execution
      <3> QED BY <3>1, <3>2
    <2>5. Publish(cl.txn.timers, cl.txn.tasks) = Idle => Replies(w) = {"OK"}
      BY <2>1, <2>4 DEF Replies
    <2>6. Distinct(Schedulings(N)) /\ Adds(Schedulings(N), Schedulings(now.seen))
      BY <1>4, <2>1 DEF DeciderFits
    <2>7. Schedulings(history[k]) \subseteq Schedulings(now.seen)
      BY <1>4, <1>5, <2>1 DEF DeciderFits, Unsettled, Schedulings
    <2>8. Distinct(Schedulings(history[k]))
      BY <2>1, DecisionInvIs
    <2> HIDE DEF k, N
    <2>9. Schedulings(history[k] \cup N) = Schedulings(history[k]) \cup Schedulings(N)
      BY DEF Schedulings
    <2>10. Distinct(Schedulings(history[k] \cup N))
      BY <2>6, <2>7, <2>8, <2>9 DEF Distinct, Adds
    <2>11. \A l \in Keys : history'[l] = IF l = k THEN history[k] \cup N ELSE history[l]
      BY <1>1, <2>2 DEF TypeOK, RepositoryTypeOK
    <2>12. \A l \in Keys : Distinct(Schedulings(history'[l]))
      BY <2>10, <2>11, DecisionInvIs
    <2> QED BY <1>9, <2>3, <2>5, <2>12
  <1>11. CASE RollbackUpdate(w)
    <2>1. cl.pc = "update" /\ calls' = [calls EXCEPT ![w] = Idle] /\ UNCHANGED <<executions, history>>
      BY <1>11 DEF RollbackUpdate, dbVars
    <2>2. Replies(w) = {"Error"}
      BY <2>1 DEF Replies
    <2>3. /\ sessions'[w] = answered("Error") /\ calls'[w] = Idle
          /\ \A c \in Callers \ {w} : calls'[c] = calls[c]
      BY <1>8, <2>1, <2>2
    <2>4. Schedulings(history[now.task.key]) \subseteq now.seen
      BY <1>4, <1>5, <2>1 DEF DeciderFits, Unsettled
    <2>5. DeciderFits(answered("Error"), Idle, history)
      BY <1>7, <2>2, <2>4 DEF DeciderFits, Idle
    <2>6. \A l \in Keys : Distinct(Schedulings(history'[l]))
      BY <2>1, DecisionInvIs
    <2> QED BY <2>1, <2>3, <2>5, <2>6, LoneDecider
  <1>12. CASE cl.pc = "publish"
    <2>1. /\ UNCHANGED history
          /\ \E T, W : calls' = [calls EXCEPT ![w] = Publish(T, W)]
      BY <1>2, <1>12 DEF Proceed, GetActivityState, InsertExecution, CommitUpdate, RollbackUpdate,
         PeekTimeoutTimer, ScheduleTimer, AddTask, dbVars
    <2>2. Replies(w) = {"OK"}
      BY <1>12 DEF Replies
    <2>3. \A l \in Keys : Distinct(Schedulings(history'[l]))
      BY <2>1, DecisionInvIs
    <2> QED BY <1>9, <2>1, <2>2, <2>3
  <1>13. CommitUpdate(w) \/ RollbackUpdate(w) \/ cl.pc = "publish"
    BY <1>2, <1>5 DEF Proceed, GetActivityState, InsertExecution, PeekTimeoutTimer
  <1> QED BY <1>10, <1>11, <1>12, <1>13

--------------------------------------------------------------------------------
(* The whole system *)

LEMMA DecisionStep ==
  ASSUME OpenToWorkers, OneDecider, SchedulesOnce, "database" \notin Faults, MaxIncidents = 0,
         TimerInv, FrontendTypeOK, SessionInv, DecisionInv, [FrontendNext]_frontendVars
  PROVE  DecisionInv'
  <1>1. /\ AllFit /\ HistoryInv /\ TypeOK /\ WorkflowWorkers \subseteq Workers
        /\ WorkflowWorkers \subseteq Callers /\ ActivityWorkers \subseteq Callers \ WorkflowWorkers
        /\ Clients \subseteq Callers \ WorkflowWorkers /\ incidents \in Nat
    BY WorkersFit, FrontendAssumption DEF TimerInv, HistoryInv, TimerTypeOK, Workers, Clients
  <1>2. ASSUME Undeciding, UNCHANGED sessions,
               \A w \in WorkflowWorkers : calls'[w] = calls[w]
        PROVE  DecisionInv'
    BY <1>1, <1>2, OthersUndecided
  <1>3. ASSUME NEW c \in Callers \ WorkflowWorkers, Undeciding,
               \E call : calls' = [calls EXCEPT ![c] = call],
               \A w \in WorkflowWorkers : sessions'[w] = sessions[w]
        PROVE  DecisionInv'
    <2>1. \A w \in WorkflowWorkers : calls'[w] = calls[w]
      BY <1>1, <1>3 DEF TypeOK
    <2> QED BY <1>1, <1>3, <2>1, OthersUndecided
  <1>4. ASSUME NEW c \in Callers \ WorkflowWorkers, Proceed(c) \/ StatementFails(c),
               \A w \in WorkflowWorkers : sessions'[w] = sessions[w]
        PROVE  DecisionInv'
    <2>1. PICK call : calls' = [calls EXCEPT ![c] = call]
      BY <1>4 DEF Proceed, StatementFails,
         GetActivityState, InsertExecution, CommitUpdate, RollbackUpdate, PeekTimeoutTimer,
         ScheduleTimer, AddTask, AfterCommit
    <2> QED BY <1>1, <1>3, <1>4, <2>1, HandlerUndecided
  <1>5. ASSUME UNCHANGED <<history, calls>>,
               \A w \in WorkflowWorkers : sessions'[w] = sessions[w]
        PROVE  DecisionInv'
    <2>1. Undeciding
      BY <1>5, DecisionInvIs DEF Undeciding
    <2> QED BY <1>1, <1>5, <2>1, OthersUndecided
  <1>6. ASSUME NEW c \in Clients, ClientRequest(c) \/ HandledForClient(c)
        PROVE  DecisionInv'
    <2>1. c \in Callers \ WorkflowWorkers /\ UNCHANGED sessions
      BY <1>1, <1>6 DEF ClientRequest, StartWorkflow, SignalWorkflow, HandledForClient
    <2>2. CASE HandledForClient(c)
      BY <1>4, <2>1, <2>2 DEF HandledForClient
    <2>3. CASE ClientRequest(c)
      <3>1. \/ \E k \in Keys, tq \in TaskQueueNames : RecordWorkflowExecutionStarted(c, k, tq)
            \/ \E k \in Keys : SignalWorkflowExecution(c, k)
        BY <2>3 DEF ClientRequest, StartWorkflow, SignalWorkflow
      <3>2. \E call : calls' = [calls EXCEPT ![c] = call]
        BY <3>1 DEF RecordWorkflowExecutionStarted, SignalWorkflowExecution, Enter
      <3> QED BY <1>1, <1>3, <2>1, <3>1, <3>2, RequestUndecided
    <2> QED BY <1>6, <2>2, <2>3
  <1>7. ASSUME NEW a \in ActivityWorkers,
               \/ ActivityWork(a) \/ RespondActivityTaskFailed(a) \/ RecordActivityTaskHeartbeat(a)
               \/ Handled(a)
        PROVE  DecisionInv'
    <2>1. a \in Callers \ WorkflowWorkers /\ a \in Workers
      BY <1>1 DEF Workers
    <2>2. \A w \in WorkflowWorkers : sessions'[w] = sessions[w]
      <3>1. UNCHANGED sessions \/ \E s : sessions' = [sessions EXCEPT ![a] = s]
        BY <1>7 DEF ActivityWork, PollActivityTaskQueue, RespondActivityTaskCompleted,
           RespondActivityTaskFailed, RecordActivityTaskHeartbeat, ReportRefused, ReportDone,
           RepeatReport, Handled, Hold, Report
      <3> QED BY <1>1, <2>1, <3>1 DEF AllFit
    <2>3. CASE Handled(a)
      BY <1>4, <2>1, <2>2, <2>3 DEF Handled
    <2>4. CASE \/ RespondActivityTaskCompleted(a) \/ RespondActivityTaskFailed(a)
      <3>1. \E rpc, k, act : RecordActivityTask(a, rpc, k, act)
        BY <2>4 DEF RespondActivityTaskCompleted, RespondActivityTaskFailed
      <3>2. \E call : calls' = [calls EXCEPT ![a] = call]
        BY <3>1 DEF RecordActivityTask, Enter
      <3> QED BY <1>1, <1>3, <2>1, <2>2, <3>1, <3>2, RequestUndecided
    <2>5. CASE \/ PollActivityTaskQueue(a) \/ ReportRefused(a) \/ ReportDone(a) \/ RepeatReport(a)
      BY <1>5, <2>2, <2>5 DEF PollActivityTaskQueue, ReportRefused, ReportDone, RepeatReport, timerVars,
         vars, dbVars
    <2>6. CASE RecordActivityTaskHeartbeat(a)
      <3>1. PICK s : Goes(a, s)
        BY <2>1, <2>6, RepeatGoes
      <3> QED BY <1>5, <2>2, <2>6, <3>1 DEF RecordActivityTaskHeartbeat, Goes, dbVars
    <2> QED BY <1>7, <2>3, <2>4, <2>5, <2>6 DEF ActivityWork
  <1>8. ASSUME NEW w \in WorkflowWorkers,
               \/ WorkflowWork(w) \/ FetchFails(w) \/ RespondWorkflowTaskFailed(w) \/ Handled(w)
        PROVE  DecisionInv'
    BY <1>1, <1>8, RestingDecides, ReportDecides, HandledDecides DEF WorkflowWork
  <1>9. ASSUME NEW p \in Processors, Run(p), UNCHANGED <<sessions, decided>>
        PROVE  DecisionInv'
    <2>1. UNCHANGED calls
      BY <1>9, RunKinds DEF CommitFired, Moves
    <2> QED BY <1>2, <1>9, <2>1, ProcessorUndecided
  <1>10. /\ ~FrontendDies /\ \A w : ~WorkerDies(w) /\ ~DeadlineExceeded(w)
         /\ \A p : ~HistoryDies(p)
    <2>1. ~(incidents < MaxIncidents)
      BY <1>1
    <2> QED BY <2>1 DEF FrontendDies, DeadlineExceeded, GiveUp, WorkerDies, HistoryDies, ProcessorCrash
  <1>11. CASE UNCHANGED frontendVars
    BY <1>5, <1>11 DEF frontendVars, timerVars, vars, dbVars
  <1>12. CASE FrontendNext
    BY <1>6, <1>7, <1>8, <1>9, <1>10, <1>12, Zenon DEF FrontendNext, Workers
  <1> QED BY <1>11, <1>12

LEMMA DecisionInit ==
  ASSUME FrontendInit
  PROVE  DecisionInv
  <1>1. /\ history = [k \in Keys |-> {}] /\ calls = [c \in Callers |-> Idle]
        /\ sessions = [w \in Workers |-> Idle]
    BY DEF FrontendInit, TimerInit, Init, RepositoryInit
  <1>2. Idle.pc = "idle" /\ Schedulings({}) = {}
    BY DEF Idle, Schedulings
  <1>3. WorkflowWorkers \subseteq Workers /\ Workers \subseteq Callers
    BY FrontendAssumption DEF Workers
  <1>4. \A k \in Keys : Distinct(Schedulings(history[k]))
    BY <1>1, <1>2 DEF Distinct
  <1>5. \A c \in Callers : SchedulesNothing(calls[c])
    BY <1>1, PublishSchedulesNothing
  <1>6. \A w \in WorkflowWorkers : DeciderFits(sessions[w], calls[w], history)
    BY <1>1, <1>2, <1>3 DEF DeciderFits, Unsettled
  <1> QED BY <1>4, <1>5, <1>6, DecisionInvIs

\* Each activity of a run is scheduled once, as long as one worker decides, with workflow code
\* that schedules no activity twice, and nobody repeats a decision that may have been
\* committed, because a reply was lost or a process has died.
THEOREM DecidesOnce ==
  ASSUME OpenToWorkers, OneDecider, SchedulesOnce, "database" \notin Faults, MaxIncidents = 0
  PROVE  FrontendSpec => []ScheduledOnce
  <1> DEFINE Whole == TimerInv /\ FrontendTypeOK /\ SessionInv
  <1>1. FrontendSpec => []Whole
    BY FrontendSound
  <1>2. FrontendInit => DecisionInv
    BY DecisionInit
  <1>3. Whole /\ DecisionInv /\ [FrontendNext]_frontendVars => DecisionInv'
    BY DecisionStep
  <1>4. DecisionInv => ScheduledOnce
    <2> SUFFICES ASSUME DecisionInv, NEW k \in Keys, NEW a \in Activities
                 PROVE  Cardinality({e \in EventsOf(k, {"ActivityTaskScheduled"}) : e.act = a}) <= 1
      BY DEF ScheduledOnce
    <2> DEFINE S == {e \in EventsOf(k, {"ActivityTaskScheduled"}) : e.act = a}
    <2>1. S \subseteq Schedulings(history[k]) /\ \A e \in S : e.act = a
      BY DEF EventsOf, Schedulings
    <2>2. \A e, f \in S : e = f
      BY <2>1, DecisionInvIs DEF Distinct
    <2> HIDE DEF S
    <2>3. S = {} \/ \E e : S = {e}
      BY <2>2
    <2>4. Cardinality(S) <= 1
      BY <2>3, FS_EmptySet, FS_Singleton
    <2> QED BY <2>4 DEF S
  <1> QED BY <1>1, <1>2, <1>3, <1>4, PTL DEF FrontendSpec

--------------------------------------------------------------------------------
(* Where the tasks of a run are *)

Alarms == WakingTypes \cup {"TimerFired"}

Awake(row) == row.status = "Running" /\ row.taskQueue = "named"

\* In the queue, in the hands of a handler, or with a processor that is about to push it.
OnTheWay(k, queue, handlers, processors) ==
  \/ \E i \in DOMAIN queue : queue[i].key = k
  \/ \E c \in Callers : \E t \in Hand(handlers[c]) : t.kind = "workflow" /\ t.key = k
  \/ \E p \in Processors : processors[p].pc = "wake" /\ processors[p].timer.key = k

Sees(session, k, e) ==
  /\ session.pc \in {"fetch", "working", "reporting", "answered"}
  /\ session.task.key = k
  /\ session.pc # "fetch" => e \in session.seen

NamedHand(call, rows) ==
  \A t \in Hand(call) : rows[t.key].taskQueue = "named" => t.taskQueue = "named"

NamedWake(proc, rows) ==
  proc.pc = "wake" => (rows[proc.timer.key].taskQueue = "named" => proc.taskQueue = "named")

CallReady(call, rows) == QueueFit(call) /\ NoFiring(call) /\ NamedHand(call, rows)

LEMMA TaskOnTheWayIs ==
  ASSUME NEW k
  PROVE  /\ TaskOnTheWay(k) <=> OnTheWay(k, workflowQueue, calls, procs)
         /\ TaskOnTheWay(k)' <=> OnTheWay(k, workflowQueue', calls', procs')
  <1>1. Unpushed("workflow", k) # {}
          <=> \E c \in Callers : \E t \in Hand(calls[c]) : t.kind = "workflow" /\ t.key = k
    <2>1. \A t : t \in Unpushed("workflow", k)
                   <=> t.kind = "workflow" /\ t.key = k /\ \E c \in Callers : t \in Hand(calls[c])
      BY UnpushedIs
    <2> HIDE DEF Unpushed
    <2> QED BY <2>1, Zenon
  <1>2. Unpushed("workflow", k)' # {}
          <=> \E c \in Callers : \E t \in Hand(calls'[c]) : t.kind = "workflow" /\ t.key = k
    <2>1. \A t : t \in Unpushed("workflow", k)'
                   <=> t.kind = "workflow" /\ t.key = k /\ \E c \in Callers : t \in Hand(calls'[c])
      BY UnpushedIs
    <2> QED BY <2>1, Zenon
  <1>3. WakingOf(k) # {} <=> \E p \in Processors : procs[p].pc = "wake" /\ procs[p].timer.key = k
    BY DEF WakingOf, ProcessorsAt
  <1>4. WakingOf(k)' # {} <=> \E p \in Processors : procs'[p].pc = "wake" /\ procs'[p].timer.key = k
    BY DEF WakingOf, ProcessorsAt
  <1> QED BY <1>1, <1>2, <1>3, <1>4 DEF TaskOnTheWay, OnTheWay

LEMMA NoWakeupForgottenIs ==
  /\ NoWakeupForgotten <=>
       \A k \in Keys : Awake(executions[k]) =>
         \A e \in history[k] : e.type \in Alarms =>
           \/ e.id \in decided[k]
           \/ OnTheWay(k, workflowQueue, calls, procs)
           \/ \E w \in WorkflowWorkers : Sees(sessions[w], k, e)
  /\ NoWakeupForgotten' <=>
       \A k \in Keys : Awake(executions'[k]) =>
         \A e \in history'[k] : e.type \in Alarms =>
           \/ e.id \in decided'[k]
           \/ OnTheWay(k, workflowQueue', calls', procs')
           \/ \E w \in WorkflowWorkers : Sees(sessions'[w], k, e)
  <1>1. \A k, e : \A w : (SeesIt(w, k, e) <=> Sees(sessions[w], k, e))
    BY DEF SeesIt, Sees
  <1>2. \A k, e : \A w : (SeesIt(w, k, e)' <=> Sees(sessions'[w], k, e))
    BY DEF SeesIt, Sees
  <1>3. \A k : /\ TaskOnTheWay(k) <=> OnTheWay(k, workflowQueue, calls, procs)
               /\ TaskOnTheWay(k)' <=> OnTheWay(k, workflowQueue', calls', procs')
    BY TaskOnTheWayIs
  <1>4. NoWakeupForgotten <=>
          \A k \in Keys : Awake(executions[k]) =>
            \A e \in EventsOf(k, Alarms) :
              \/ e.id \in decided[k]
              \/ OnTheWay(k, workflowQueue, calls, procs)
              \/ \E w \in WorkflowWorkers : Sees(sessions[w], k, e)
    BY <1>1, <1>3, Zenon DEF NoWakeupForgotten, Awake, Alarms
  <1>5. NoWakeupForgotten' <=>
          \A k \in Keys : Awake(executions'[k]) =>
            \A e \in EventsOf(k, Alarms)' :
              \/ e.id \in decided'[k]
              \/ OnTheWay(k, workflowQueue', calls', procs')
              \/ \E w \in WorkflowWorkers : Sees(sessions'[w], k, e)
    BY <1>2, <1>3, Zenon DEF NoWakeupForgotten, Awake, Alarms
  <1>6. \A k, e : /\ e \in EventsOf(k, Alarms) <=> e \in history[k] /\ e.type \in Alarms
                  /\ e \in EventsOf(k, Alarms)' <=> e \in history'[k] /\ e.type \in Alarms
    BY DEF EventsOf
  <1> QED BY <1>4, <1>5, <1>6, Zenon

NamesFit ==
  /\ \A c \in Callers : CallReady(calls[c], executions)
  /\ \A p \in Processors : NamedWake(procs[p], executions)

LEMMA WakeupInvIs ==
  /\ WakeupInv <=> NoWakeupForgotten /\ NamesFit
  /\ WakeupInv' <=> /\ NoWakeupForgotten'
                    /\ \A c \in Callers : CallReady(calls'[c], executions')
                    /\ \A p \in Processors : NamedWake(procs'[p], executions')
  <1>1. /\ NamesFit <=>
             /\ \A c \in Callers : calls[c].pc = "update" =>
                  /\ calls[c].then = "peek" => calls[c].txn.events = {}
                  /\ calls[c].row.taskQueue = "named" => \A t \in calls[c].txn.tasks : t.taskQueue = "named"
                  /\ \A e \in calls[c].txn.events : e.type # "TimerFired"
             /\ \A c \in Callers : calls[c].pc = "publish" =>
                  \A t \in calls[c].tasks : executions[t.key].taskQueue = "named" => t.taskQueue = "named"
             /\ \A p \in ProcessorsAt({"wake"}) :
                  executions[procs[p].timer.key].taskQueue = "named" => procs[p].taskQueue = "named"
    BY DEF NamesFit, CallReady, QueueFit, NoFiring, NamedHand, NamedWake, Hand, ProcessorsAt
  <1>2. /\ /\ \A c \in Callers : CallReady(calls'[c], executions')
           /\ \A p \in Processors : NamedWake(procs'[p], executions')
        <=> (/\ \A c \in Callers : calls[c].pc = "update" =>
                  /\ calls[c].then = "peek" => calls[c].txn.events = {}
                  /\ calls[c].row.taskQueue = "named" => \A t \in calls[c].txn.tasks : t.taskQueue = "named"
                  /\ \A e \in calls[c].txn.events : e.type # "TimerFired"
             /\ \A c \in Callers : calls[c].pc = "publish" =>
                  \A t \in calls[c].tasks : executions[t.key].taskQueue = "named" => t.taskQueue = "named"
             /\ \A p \in ProcessorsAt({"wake"}) :
                  executions[procs[p].timer.key].taskQueue = "named" => procs[p].taskQueue = "named")'
    BY DEF CallReady, QueueFit, NoFiring, NamedHand, NamedWake, Hand, ProcessorsAt
  <1> QED BY <1>1, <1>2 DEF WakeupInv

--------------------------------------------------------------------------------
(* What a step has to do for the runs that are awake *)

\* Whatever is new has a task on its way, and tasks stay on their way.
NewsAnnounced ==
  \A k \in Keys : Awake(executions'[k]) =>
    \A e \in history'[k] : e.type \in Alarms =>
      \/ e \in history[k] /\ Awake(executions[k])
      \/ OnTheWay(k, workflowQueue', calls', procs')

WayKept ==
  \A k \in Keys : Awake(executions'[k]) /\ OnTheWay(k, workflowQueue, calls, procs) =>
    \/ OnTheWay(k, workflowQueue', calls', procs')
    \/ \E w \in WorkflowWorkers : \A e \in history'[k] : Sees(sessions'[w], k, e)

\* A worker lets go of no event of a run that is awake before it is decided.
SightKept(w) ==
  \A k \in Keys : Awake(executions'[k]) =>
    \A e \in history'[k] :
      Sees(sessions[w], k, e) => e.id \in decided'[k] \/ Sees(sessions'[w], k, e)

\* Nothing is forgotten by a step that announces its news, leaves a task on its way for each
\* run that has one, and an event in the sight of each worker that sees it.
LEMMA NothingForgotten ==
  ASSUME NoWakeupForgotten, NewsAnnounced, WayKept, \A w \in WorkflowWorkers : SightKept(w),
         \A k \in Keys : decided[k] \subseteq decided'[k]
  PROVE  NoWakeupForgotten'
  <1> SUFFICES ASSUME NEW k \in Keys, Awake(executions'[k]), NEW e \in history'[k], e.type \in Alarms
               PROVE  \/ e.id \in decided'[k]
                      \/ OnTheWay(k, workflowQueue', calls', procs')
                      \/ \E w \in WorkflowWorkers : Sees(sessions'[w], k, e)
    BY NoWakeupForgottenIs
  <1>1. CASE OnTheWay(k, workflowQueue', calls', procs')
    BY <1>1
  <1>2. CASE e \in history[k] /\ Awake(executions[k])
    <2>1. \/ e.id \in decided[k]
          \/ OnTheWay(k, workflowQueue, calls, procs)
          \/ \E w \in WorkflowWorkers : Sees(sessions[w], k, e)
      BY <1>2, NoWakeupForgottenIs
    <2>2. CASE OnTheWay(k, workflowQueue, calls, procs)
      BY <2>2, Zenon DEF WayKept
    <2>3. CASE \E w \in WorkflowWorkers : Sees(sessions[w], k, e)
      BY <2>3, Zenon DEF SightKept
    <2> QED BY <2>1, <2>2, <2>3
  <1> QED BY <1>1, <1>2, Zenon DEF NewsAnnounced

--------------------------------------------------------------------------------
(* Handlers *)

\* Tasks and timers are about runs that have begun.
LEMMA BegunRuns ==
  ASSUME TimerInv
  PROVE  /\ \A c \in Callers : \A t \in Hand(calls[c]) : t.key \in Keys /\ history[t.key] # {}
         /\ \A p \in Processors : procs[p].pc = "wake" =>
              procs[p].timer.key \in Keys /\ history[procs[p].timer.key] # {}
  <1>1. ASSUME NEW c \in Callers, NEW t \in Hand(calls[c])
        PROVE  t.key \in Keys /\ history[t.key] # {}
    <2>1. calls[c] \in Publishing /\ t \in calls[c].tasks
      BY CallShape DEF TimerInv, HistoryInv, Hand
    <2>2. t.key \in Keys
      BY <2>1 DEF Publishing, Task
    <2>3. \E e \in EventsOf(t.key, CallsFor[t.kind]) : e.id = t.event
      BY EffectsFitIs DEF TimerInv, FitInv
    <2> QED BY <2>2, <2>3 DEF EventsOf
  <1>2. ASSUME NEW p \in Processors, procs[p].pc = "wake"
        PROVE  procs[p].timer.key \in Keys /\ history[procs[p].timer.key] # {}
    <2>1. procs[p].timer \in timers
      BY <1>2, FitProc, SetsOfTimers DEF ProcFit, Batching
    <2>2. PICK l \in Keys : procs[p].timer \in Armed(l, history[l])
      BY <2>1 DEF TimerInv, FitInv, TimersMatchHistory
    <2> QED BY <2>2 DEF Armed
  <1> QED BY <1>1, <1>2

\* A step that leaves the database and all hands alone.
LEMMA QuietWake ==
  ASSUME Faults = {}, TimerInv, NamesFit, [Next]_vars, UNCHANGED procs, Quiet
  PROVE  /\ NewsAnnounced /\ WayKept
         /\ \A c \in Callers : CallReady(calls'[c], executions')
         /\ \A p \in Processors : NamedWake(procs'[p], executions')
  <1>1. /\ UNCHANGED <<executions, history, workflowQueue>>
        /\ \A d \in Callers : Hand(calls'[d]) = Hand(calls[d])
        /\ \A d \in Callers : calls'[d] = calls[d] \/ QueueFit(calls'[d])
    <2>1. UNCHANGED <<executions, history, workflowQueue>>
      BY DEF Quiet, dbVars
    <2> QED BY <2>1, Zenon DEF Quiet
  <1>2. HistoryInv
    BY DEF TimerInv
  <1>3. \A k : OnTheWay(k, workflowQueue, calls, procs) => OnTheWay(k, workflowQueue', calls', procs')
    BY <1>1 DEF OnTheWay
  <1>4. NewsAnnounced /\ WayKept
    BY <1>1, <1>3 DEF NewsAnnounced, WayKept
  <1>5. ASSUME NEW c \in Callers
        PROVE  CallReady(calls'[c], executions')
    <2>1. CallReady(calls[c], executions)
      BY DEF NamesFit
    <2>2. NoFiring(calls'[c])
      BY <1>2, <2>1, CallsPrepare DEF CallReady
    <2> QED BY <1>1, <2>1, <2>2 DEF CallReady, NamedHand
  <1>6. \A p \in Processors : NamedWake(procs'[p], executions')
    BY <1>1 DEF NamesFit
  <1> QED BY <1>4, <1>5, <1>6

\* A task goes from the hand of a handler to the queue.
LEMMA AddTaskWake ==
  ASSUME Faults = {}, TimerInv, NamesFit, UNCHANGED procs,
         NEW c \in Callers, NEW t \in calls[c].tasks, AddTask(c, t)
  PROVE  /\ NewsAnnounced /\ WayKept
         /\ \A d \in Callers : CallReady(calls'[d], executions')
         /\ \A p \in Processors : NamedWake(procs'[p], executions')
  <1> DEFINE call == Publish({}, calls[c].tasks \ {t})
             x == [key |-> t.key, act |-> t.act]
  <1>1. /\ calls \in [Callers -> Call] /\ calls[c].pc = "publish" /\ calls' = [calls EXCEPT ![c] = call]
        /\ UNCHANGED <<executions, history>> /\ workflowQueue \in Seq(QueuedTask)
    BY SetsOfTimers DEF AddTask, dbVars
  <1>2. Hand(call) = calls[c].tasks \ {t} /\ QueueFit(call) /\ NoFiring(call)
    BY HandOfPublish DEF QueueFit, NoFiring, Publish, Idle
  <1>3. t \in Hand(calls[c]) /\ Hand(calls[c]) = calls[c].tasks
    BY <1>1 DEF Hand
  <1> HIDE DEF call
  <1>4. /\ calls'[c] = call /\ \A d \in Callers \ {c} : calls'[d] = calls[d]
        /\ \A d \in Callers : \A u \in Hand(calls[d]) : u = t \/ u \in Hand(calls'[d])
    BY <1>1, <1>2, <1>3
  <1>5. \/ workflowQueue' = workflowQueue /\ (t.kind = "workflow" => t.taskQueue # "named")
        \/ workflowQueue' = Append(workflowQueue, x) /\ t.kind = "workflow"
    <2>1. "matching" \notin Faults
      OBVIOUS
    <2>2. \/ t.kind = "workflow" /\ workflowQueue' = Append(workflowQueue, x)
          \/ t.kind = "activity" /\ UNCHANGED workflowQueue
          \/ t.taskQueue = "empty" /\ UNCHANGED workflowQueue
      BY <2>1, Zenon DEF AddTask
    <2> QED BY <2>2
  <1>6. x \in QueuedTask /\ x.key = t.key
    <2>1. t \in Task
      BY <1>1, CallShape DEF Publishing, TimerInv, HistoryInv
    <2> QED BY <2>1 DEF Task, QueuedTask
  <1> HIDE DEF x
  <1>7. \A i \in DOMAIN workflowQueue :
          i \in DOMAIN workflowQueue' /\ workflowQueue'[i] = workflowQueue[i]
    BY <1>1, <1>5, <1>6
  <1>8. ASSUME NEW k \in Keys, executions[k].taskQueue = "named",
               OnTheWay(k, workflowQueue, calls, procs)
        PROVE  OnTheWay(k, workflowQueue', calls', procs')
    <2>1. CASE t.kind = "workflow" /\ t.key = k
      <3>1. t.taskQueue = "named"
        BY <1>3, <1>8, <2>1 DEF NamesFit, CallReady, NamedHand
      <3>2. workflowQueue' = Append(workflowQueue, x)
        BY <1>5, <2>1, <3>1
      <3>3. Len(workflowQueue) + 1 \in DOMAIN workflowQueue'
            /\ workflowQueue'[Len(workflowQueue) + 1] = x
        BY <1>1, <1>6, <3>2
      <3> QED BY <1>6, <2>1, <3>3 DEF OnTheWay
    <2>2. CASE ~(t.kind = "workflow" /\ t.key = k)
      <3>1. CASE \E i \in DOMAIN workflowQueue : workflowQueue[i].key = k
        BY <1>7, <3>1 DEF OnTheWay
      <3>2. CASE \E d \in Callers : \E u \in Hand(calls[d]) : u.kind = "workflow" /\ u.key = k
        BY <1>4, <2>2, <3>2 DEF OnTheWay
      <3>3. CASE \E p \in Processors : procs[p].pc = "wake" /\ procs[p].timer.key = k
        BY <3>3 DEF OnTheWay
      <3> QED BY <1>8, <3>1, <3>2, <3>3 DEF OnTheWay
    <2> QED BY <2>1, <2>2
  <1>9. NewsAnnounced /\ WayKept
    BY <1>1, <1>8 DEF NewsAnnounced, WayKept, Awake
  <1>10. ASSUME NEW d \in Callers
         PROVE  CallReady(calls'[d], executions')
    <2>1. CallReady(calls[d], executions)
      BY DEF NamesFit
    <2>2. CASE d = c
      BY <1>1, <1>2, <1>3, <1>4, <2>1, <2>2 DEF CallReady, NamedHand
    <2> QED BY <1>1, <1>4, <2>1, <2>2
  <1>11. \A p \in Processors : NamedWake(procs'[p], executions')
    BY <1>1 DEF NamesFit
  <1> QED BY <1>9, <1>10, <1>11

\* A call writes run k and has what it has written to announce.
LEMMA WritesWake ==
  ASSUME TimerInv, NamesFit, UNCHANGED procs, NEW c \in Callers, NEW k \in Keys,
         NEW N, NEW W, NEW call, Writes(c, k, N, W, call), Hand(call) = W,
         \A e \in N : e.type # "TimerFired",
         \A l \in Keys \ {k} : executions'[l] = executions[l],
         Awake(executions'[k]) => history[k] = {} \/ Awake(executions[k]),
         executions'[k].taskQueue = "named" =>
           /\ executions[k].taskQueue = "named" \/ history[k] = {}
           /\ \A t \in W : t.taskQueue = "named"
  PROVE  /\ NewsAnnounced /\ WayKept
         /\ \A d \in Callers : CallReady(calls'[d], executions')
         /\ \A p \in Processors : NamedWake(procs'[p], executions')
  <1>1. /\ HistoryInv /\ calls \in [Callers -> Call] /\ calls' = [calls EXCEPT ![c] = call]
        /\ UNCHANGED workflowQueue /\ Hand(calls[c]) = {} /\ call.pc # "update"
        /\ history'[k] = history[k] \cup N /\ TasksFit(k, N, W)
        /\ \A l \in Keys \ {k} : history'[l] = history[l]
    BY SetsOfTimers DEF TimerInv, Writes, redisVars
  <1>2. \A d \in Callers : Hand(calls'[d]) = IF d = c THEN W ELSE Hand(calls[d])
    BY <1>1, WritesHands
  <1>3. \A l : OnTheWay(l, workflowQueue, calls, procs) => OnTheWay(l, workflowQueue', calls', procs')
    BY <1>1, <1>2 DEF OnTheWay
  <1>4. ASSUME NEW e \in N, e.type \in Alarms
        PROVE  OnTheWay(k, workflowQueue', calls', procs')
    <2>1. "workflow" \in Kinds /\ e.type \in CallsFor["workflow"]
      BY <1>4 DEF Alarms, Kinds, CallsFor
    <2>2. PICK t \in W : t.kind = "workflow" /\ t.key = k
      BY <1>1, <2>1 DEF TasksFit
    <2> QED BY <1>2, <2>2 DEF OnTheWay
  <1>5. ASSUME NEW l \in Keys, Awake(executions'[l]), NEW e \in history'[l], e.type \in Alarms
        PROVE  \/ e \in history[l] /\ Awake(executions[l])
               \/ OnTheWay(l, workflowQueue', calls', procs')
    <2>1. CASE l = k
      BY <1>1, <1>4, <1>5, <2>1
    <2> QED BY <1>1, <1>5, <2>1
  <1>6. NewsAnnounced /\ WayKept
    BY <1>3, <1>5, Zenon DEF NewsAnnounced, WayKept
  <1>7. \A l \in Keys : history[l] # {} /\ executions'[l].taskQueue = "named" => executions[l].taskQueue = "named"
    BY DEF Awake
  <1>8. ASSUME NEW d \in Callers
        PROVE  CallReady(calls'[d], executions')
    <2>1. CallReady(calls[d], executions)
      BY DEF NamesFit
    <2>2. CASE d = c
      <3>1. calls'[c] = call
        BY <1>1
      <3>2. \A t \in W : t.key = k
        BY <1>1 DEF TasksFit
      <3>3. NamedHand(call, executions')
        BY <3>2 DEF NamedHand
      <3> QED BY <1>1, <2>2, <3>1, <3>3 DEF CallReady, QueueFit, NoFiring
    <2>3. CASE d # c
      <3>1. calls'[d] = calls[d]
        BY <1>1, <2>3
      <3>2. NamedHand(calls[d], executions')
        BY <1>7, <2>1, BegunRuns DEF CallReady, NamedHand
      <3> QED BY <2>1, <3>1, <3>2 DEF CallReady
    <2> QED BY <2>2, <2>3
  <1>9. \A p \in Processors : NamedWake(procs'[p], executions')
    BY <1>7, BegunRuns DEF NamesFit, NamedWake
  <1> QED BY <1>6, <1>8, <1>9

\* What handlers do announces what it adds, and leaves each task on its way.
LEMMA HandlersWake ==
  ASSUME Faults = {}, TimerInv, NamesFit, [Next]_vars, UNCHANGED procs
  PROVE  /\ NewsAnnounced /\ WayKept
         /\ \A d \in Callers : CallReady(calls'[d], executions')
         /\ \A p \in Processors : NamedWake(procs'[p], executions')
  <1> DEFINE Goal == /\ NewsAnnounced /\ WayKept
                     /\ \A d \in Callers : CallReady(calls'[d], executions')
                     /\ \A p \in Processors : NamedWake(procs'[p], executions')
  <1>1. HistoryInv /\ FitInv /\ EffectsFit
    BY DEF TimerInv, FitInv
  <1>2. ASSUME NEW c \in Callers, InsertExecution(c)
        PROVE  Goal
    <2> DEFINE k == calls[c].key
               N == {NewEvent(1, "WorkflowExecutionStarted", NoActivity)}
               W == {WorkflowTask(k, 1, calls[c].taskQueue)}
               row == [status |-> "Running", version |-> 1, next |-> 2, taskQueue |-> calls[c].taskQueue]
    <2>1. /\ k \in Keys /\ history[k] = {} /\ executions' = [executions EXCEPT ![k] = row]
          /\ Writes(c, k, N, W, Publish({}, W))
      BY <1>1, <1>2, InsertWrites
    <2>2. executions \in [Keys -> Execution]
      BY <1>1 DEF HistoryInv, TypeOK, RepositoryTypeOK
    <2>3. executions'[k] = row /\ \A l \in Keys \ {k} : executions'[l] = executions[l]
      BY <2>1, <2>2
    <2>4. row.taskQueue = "named" => \A t \in W : t.taskQueue = "named"
      BY DEF WorkflowTask
    <2>5. \A e \in N : e.type # "TimerFired"
      BY DEF NewEvent
    <2>6. Hand(Publish({}, W)) = W
      BY HandOfPublish
    <2> HIDE DEF k, N, W, row
    <2>7. Goal
      BY <2>1, <2>3, <2>4, <2>5, <2>6, WritesWake
    <2> QED BY <2>7
  <1>3. ASSUME NEW c \in Callers, CommitUpdate(c)
        PROVE  Goal
    <2> DEFINE k == calls[c].key
               txn == calls[c].txn
               call == IF calls[c].then = "peek" THEN [pc |-> "peek", key |-> k]
                       ELSE Publish(txn.timers, txn.tasks)
    <2>1. /\ k \in Keys /\ calls[c].pc = "update" /\ calls[c].row = executions[k]
          /\ executions' = [executions EXCEPT ![k] = WriteRow(k, txn, executions[k].version + 1)]
          /\ Writes(c, k, txn.events, txn.tasks, call)
      BY <1>1, <1>3, CommitWrites
    <2>2. executions \in [Keys -> Execution]
      BY <1>1 DEF HistoryInv, TypeOK, RepositoryTypeOK
    <2>3. /\ executions'[k].taskQueue = executions[k].taskQueue
          /\ \A l \in Keys \ {k} : executions'[l] = executions[l]
      BY <2>1, <2>2 DEF WriteRow
    <2>4. CallReady(calls[c], executions)
      BY DEF NamesFit
    <2>5. /\ calls[c].then = "peek" => txn.events = {}
          /\ executions[k].taskQueue = "named" => \A t \in txn.tasks : t.taskQueue = "named"
          /\ \A e \in txn.events : e.type # "TimerFired"
      BY <2>1, <2>4 DEF CallReady, QueueFit, NoFiring
    <2>6. TasksFit(k, txn.events, txn.tasks)
      BY <1>1, <2>1, EffectsFitIs DEF FitCall, TxnFit
    <2>7. txn.events = {} => txn.tasks = {}
      BY <2>6 DEF TasksFit
    <2>8. Hand(call) = txn.tasks
      BY <2>5, <2>7, HandOfPublish DEF Hand
    <2>9. executions[k].status = "Running"
      BY <1>1, <2>1 DEF HistoryInv, TransactionsFit
    <2>10. Awake(executions'[k]) => Awake(executions[k])
      BY <2>3, <2>9 DEF Awake
    <2> HIDE DEF k, txn, call
    <2>11. Goal
      BY <2>1, <2>3, <2>5, <2>8, <2>10, WritesWake
    <2> QED BY <2>11
  <1> HIDE DEF Goal
  <1>4. ASSUME Quiet \/ \E c \in Callers : \E t \in calls[c].tasks : AddTask(c, t)
        PROVE  Goal
    BY <1>4, QuietWake, AddTaskWake DEF Goal
  <1>5. Goal
    BY <1>1, <1>2, <1>3, <1>4, EffectStepKinds
  <1> QED BY <1>5 DEF Goal

--------------------------------------------------------------------------------
(* Processors *)

\* So does what processors do: a fired timer comes with the wake-up it calls for.
LEMMA ProcessorsWake ==
  ASSUME Faults = {}, TimerInv, NamesFit, NEW p \in Processors, Run(p)
  PROVE  /\ NewsAnnounced /\ WayKept
         /\ \A d \in Callers : CallReady(calls'[d], executions')
         /\ \A q \in Processors : NamedWake(procs'[q], executions')
  <1> DEFINE Goal == /\ NewsAnnounced /\ WayKept
                     /\ \A d \in Callers : CallReady(calls'[d], executions')
                     /\ \A q \in Processors : NamedWake(procs'[q], executions')
             t == procs[p].timer
  <1>1. /\ procs \in [Processors -> Processor] /\ workflowQueue \in Seq(QueuedTask)
        /\ "database" \notin Faults /\ "matching" \notin Faults
    BY SetsOfTimers
  <1>2. \A batch : Continue(batch).pc # "wake"
    BY DEF Continue
  <1>3. CASE procs[p].pc = "wake"
    <2> DEFINE x == [key |-> t.key, act |-> NoActivity]
               proc == Continue(procs[p].batch)
    <2>1. WakeWorkflow(p)
      BY <1>3 DEF Run, Dispatch, ClaimExpired, NothingExpired, MarkTimerFired, DispatchFails,
         ReadExecution, CommitFired, FireConflicts, CheckHeartbeat, Reschedule, RequeueActivity,
         CheckProgress, HandleFails, PeekNext, NothingToPeek, PutBack, Scavenge, RebuildFromDB
    <2>2. /\ UNCHANGED <<executions, history, calls>> /\ procs' = [procs EXCEPT ![p] = proc]
          /\ \/ workflowQueue' = Append(workflowQueue, x)
             \/ procs[p].taskQueue # "named" /\ UNCHANGED workflowQueue
      BY <1>1, <2>1 DEF WakeWorkflow, Become, dbVars
    <2>3. x \in QueuedTask /\ x.key = t.key
      BY <1>3, BegunRuns DEF QueuedTask
    <2> HIDE DEF x, proc
    <2>4. \A q \in Processors : procs'[q] = IF q = p THEN proc ELSE procs[q]
      BY <1>1, <2>2
    <2>5. \A i \in DOMAIN workflowQueue :
            i \in DOMAIN workflowQueue' /\ workflowQueue'[i] = workflowQueue[i]
      BY <1>1, <2>2, <2>3
    <2>6. ASSUME NEW k \in Keys, executions[k].taskQueue = "named",
                 OnTheWay(k, workflowQueue, calls, procs)
          PROVE  OnTheWay(k, workflowQueue', calls', procs')
      <3>1. CASE t.key = k
        <4>1. procs[p].taskQueue = "named"
          BY <1>3, <2>6, <3>1 DEF NamesFit, NamedWake
        <4>2. workflowQueue' = Append(workflowQueue, x)
          BY <2>2, <4>1
        <4>3. /\ Len(workflowQueue) + 1 \in DOMAIN workflowQueue'
              /\ workflowQueue'[Len(workflowQueue) + 1] = x
          BY <1>1, <2>3, <4>2
        <4> QED BY <2>3, <3>1, <4>3 DEF OnTheWay
      <3>2. CASE t.key # k
        <4>1. CASE \E i \in DOMAIN workflowQueue : workflowQueue[i].key = k
          BY <2>5, <4>1 DEF OnTheWay
        <4>2. CASE \E d \in Callers : \E u \in Hand(calls[d]) : u.kind = "workflow" /\ u.key = k
          BY <2>2, <4>2 DEF OnTheWay
        <4>3. CASE \E q \in Processors : procs[q].pc = "wake" /\ procs[q].timer.key = k
          BY <2>4, <3>2, <4>3 DEF OnTheWay
        <4> QED BY <2>6, <4>1, <4>2, <4>3 DEF OnTheWay
      <3> QED BY <3>1, <3>2
    <2>7. NewsAnnounced /\ WayKept
      BY <2>2, <2>6 DEF NewsAnnounced, WayKept, Awake
    <2>8. \A d \in Callers : CallReady(calls'[d], executions')
      BY <2>2 DEF NamesFit
    <2>9. \A q \in Processors : NamedWake(procs'[q], executions')
      BY <1>2, <2>2, <2>4 DEF NamesFit, NamedWake, proc
    <2> QED BY <2>7, <2>8, <2>9
  <1>4. CASE CommitFired(p)
    <2> DEFINE k == t.key
               row == executions[k]
               event == NewEvent(row.next, "TimerFired", NoActivity)
               woken == [pc |-> "wake", batch |-> procs[p].batch, timer |-> t, taskQueue |-> row.taskQueue]
    <2>1. /\ k \in Keys /\ t.type = "UserTimer"
          /\ executions' = [executions EXCEPT ![k] = FiredRow(row)]
          /\ history' = [history EXCEPT ![k] = history[k] \cup {event}]
          /\ UNCHANGED <<workflowQueue, calls>>
          /\ \/ procs' = [procs EXCEPT ![p] = Continue(procs[p].batch)]
             \/ procs' = [procs EXCEPT ![p] = woken]
          /\ procs[p].pc = "fire"
      BY <1>4, FiredEffect DEF redisVars
    <2>2. procs'[p].pc = "wake"
      <3>1. procs' = [procs EXCEPT ![p] = [pc |-> "wake", batch |-> procs[p].batch, timer |-> t,
                                           taskQueue |-> procs[p].row.taskQueue]]
        BY <1>1, <1>4, <2>1 DEF CommitFired, Become
      <3> QED BY <1>1, <3>1
    <2>3. \A q \in Processors : procs'[q] = IF q = p THEN woken ELSE procs[q]
      BY <1>1, <1>2, <2>1, <2>2
    <2>4. \A l \in Keys : /\ executions'[l].status = executions[l].status
                          /\ executions'[l].taskQueue = executions[l].taskQueue
      <3>1. executions \in [Keys -> Execution]
        BY DEF TimerInv, HistoryInv, TypeOK, RepositoryTypeOK
      <3>2. FiredRow(row).status = row.status /\ FiredRow(row).taskQueue = row.taskQueue
        BY <2>1, <3>1 DEF FiredRow, Execution
      <3> QED BY <2>1, <3>1, <3>2
    <2>5. \A l \in Keys : history'[l] = IF l = k THEN history[k] \cup {event} ELSE history[l]
      <3>1. history \in [Keys -> SUBSET Event]
        BY DEF TimerInv, HistoryInv, TypeOK, RepositoryTypeOK
      <3> QED BY <2>1, <3>1
    <2>6. woken.pc = "wake" /\ woken.timer.key = k /\ woken.timer = t /\ woken.taskQueue = row.taskQueue
      OBVIOUS
    <2> HIDE DEF k, row, event, woken
    <2>7. OnTheWay(k, workflowQueue', calls', procs')
      BY <2>3, <2>6 DEF OnTheWay
    <2>8. \A l : OnTheWay(l, workflowQueue, calls, procs) => OnTheWay(l, workflowQueue', calls', procs')
      BY <2>1, <2>3 DEF OnTheWay
    <2>9. NewsAnnounced /\ WayKept
      BY <2>4, <2>5, <2>7, <2>8 DEF NewsAnnounced, WayKept, Awake
    <2>10. ASSUME NEW d \in Callers
           PROVE  CallReady(calls'[d], executions')
      <3>1. CallReady(calls[d], executions) /\ calls'[d] = calls[d]
        BY <2>1 DEF NamesFit
      <3> QED BY <2>4, <3>1, BegunRuns DEF CallReady, NamedHand
    <2>11. ASSUME NEW q \in Processors
           PROVE  NamedWake(procs'[q], executions')
      <3>1. CASE q = p
        BY <2>1, <2>3, <2>4, <2>6, <3>1 DEF NamedWake, k, row
      <3>2. CASE q # p
        BY <2>3, <2>4, <3>2, BegunRuns DEF NamesFit, NamedWake
      <3> QED BY <3>1, <3>2
    <2> QED BY <2>9, <2>10, <2>11
  <1>5. ASSUME NEW proc, Moves(p, proc), procs[p].pc # "wake"
        PROVE  Goal
    <2>1. /\ UNCHANGED <<executions, history, calls, workflowQueue>>
          /\ procs' = [procs EXCEPT ![p] = proc]
          /\ Plain(proc) \/ procs[p].pc = "handle"
      BY <1>5 DEF Moves, Pushes
    <2>2. \A q \in Processors : procs'[q] = IF q = p THEN proc ELSE procs[q]
      BY <1>1, <2>1
    <2>3. \A l : OnTheWay(l, workflowQueue, calls, procs) => OnTheWay(l, workflowQueue', calls', procs')
      BY <1>5, <2>1, <2>2 DEF OnTheWay
    <2>4. NewsAnnounced /\ WayKept
      BY <2>1, <2>3 DEF NewsAnnounced, WayKept
    <2>5. \A d \in Callers : CallReady(calls'[d], executions')
      BY <2>1 DEF NamesFit
    <2>6. NamedWake(proc, executions)
      <3>1. CASE proc.pc # "wake"
        BY <3>1 DEF NamedWake
      <3>2. CASE proc.pc = "wake"
        <4>1. procs[p].pc = "handle" /\ procs'[p].pc = "wake"
          BY <2>1, <2>2, <3>2 DEF Plain
        <4>2. CheckProgress(p)
          <5>1. ReadExecution(p) \/ CheckHeartbeat(p) \/ CheckProgress(p)
            BY <1>1, <4>1 DEF Run, Dispatch, ClaimExpired, NothingExpired, CommitFired, FireConflicts,
               Reschedule, RequeueActivity, WakeWorkflow, HandleFails, PeekNext, NothingToPeek, PutBack,
               Scavenge, RebuildFromDB
          <5>2. ~ReadExecution(p)
            BY <1>1, <1>2, <4>1 DEF ReadExecution, Become
          <5>3. ~CheckHeartbeat(p)
            BY <1>1, <1>2, <4>1 DEF CheckHeartbeat, Become
          <5> QED BY <5>1, <5>2, <5>3
        <4>3. procs'[p] = [pc |-> "wake", batch |-> procs[p].batch, timer |-> t,
                           taskQueue |-> executions[t.key].taskQueue]
          BY <1>1, <1>2, <4>1, <4>2 DEF CheckProgress, Become, GetWorkflowExecution
        <4> QED BY <2>2, <4>3 DEF NamedWake
      <3> QED BY <3>1, <3>2
    <2>7. \A q \in Processors : NamedWake(procs'[q], executions')
      BY <2>1, <2>2, <2>6 DEF NamesFit
    <2> QED BY <2>4, <2>5, <2>7
  <1> HIDE DEF Goal
  <1>6. CommitFired(p) \/ \E proc : Moves(p, proc)
    BY RunKinds
  <1>7. Goal
    BY <1>3, <1>4, <1>5, <1>6 DEF Goal
  <1> QED BY <1>7 DEF Goal

--------------------------------------------------------------------------------
(* The workers that decide *)

LEMMA SightUnchanged ==
  ASSUME NEW w, sessions'[w] = sessions[w]
  PROVE  SightKept(w)
  BY DEF SightKept

\* The same task, and as much of the history as before.
LEMMA SightCarried ==
  ASSUME NEW w, NEW s, sessions[w].pc # "fetch", sessions'[w] = s,
         s.pc \in {"working", "reporting", "answered"},
         s.task = sessions[w].task, s.seen = sessions[w].seen
  PROVE  SightKept(w)
  BY DEF SightKept, Sees

\* A popped task is in the hands of the worker that popped it.
LEMMA PollWake ==
  ASSUME FrontendTypeOK, NEW w \in WorkflowWorkers, PollWorkflowTaskQueue(w)
  PROVE  /\ NewsAnnounced /\ WayKept
         /\ \A v \in WorkflowWorkers : SightKept(v)
  <1> DEFINE task == Head(workflowQueue)
             s == [pc |-> "fetch", task |-> task,
                   token |-> MatchingToken(task.key[1], task.key[2], NoActivity)]
  <1>1. /\ sessions[w] = Idle /\ workflowQueue # <<>> /\ sessions' = [sessions EXCEPT ![w] = s]
        /\ workflowQueue' = Tail(workflowQueue)
        /\ UNCHANGED <<executions, history, calls, procs, decided>>
    BY DEF PollWorkflowTaskQueue, Hold, dbVars
  <1>2. workflowQueue \in Seq(QueuedTask) /\ DOMAIN sessions = Workers /\ w \in Workers
    BY DEF FrontendTypeOK, TimerTypeOK, TypeOK, Workers
  <1>3. s.pc = "fetch" /\ s.task = task
    OBVIOUS
  <1> HIDE DEF s
  <1>4. sessions'[w] = s /\ \A v \in Workers \ {w} : sessions'[v] = sessions[v]
    BY <1>1, <1>2
  <1>5. task = workflowQueue[1]
    BY <1>1, <1>2
  <1>6. \A i \in DOMAIN workflowQueue : i # 1 =>
          i - 1 \in DOMAIN workflowQueue' /\ workflowQueue'[i - 1] = workflowQueue[i]
    BY <1>1, <1>2
  <1> HIDE DEF task
  <1>7. ASSUME NEW k \in Keys, OnTheWay(k, workflowQueue, calls, procs)
        PROVE  \/ OnTheWay(k, workflowQueue', calls', procs')
               \/ \E v \in WorkflowWorkers : \A e \in history'[k] : Sees(sessions'[v], k, e)
    <2>1. CASE \E i \in DOMAIN workflowQueue : workflowQueue[i].key = k
      <3>1. PICK i \in DOMAIN workflowQueue : workflowQueue[i].key = k
        BY <2>1
      <3>2. CASE i = 1
        BY <1>3, <1>4, <1>5, <3>1, <3>2 DEF Sees
      <3>3. CASE i # 1
        BY <1>6, <3>1, <3>3 DEF OnTheWay
      <3> QED BY <3>2, <3>3
    <2>2. CASE ~\E i \in DOMAIN workflowQueue : workflowQueue[i].key = k
      BY <1>1, <1>7, <2>2 DEF OnTheWay
    <2> QED BY <2>1, <2>2
  <1>8. NewsAnnounced /\ WayKept
    BY <1>1, <1>7 DEF NewsAnnounced, WayKept
  <1>9. ASSUME NEW v \in WorkflowWorkers
        PROVE  SightKept(v)
    <2>1. CASE v = w
      BY <1>1, <2>1 DEF SightKept, Sees, Idle
    <2>2. CASE v # w
      BY <1>4, <2>2, SightUnchanged DEF Workers
    <2> QED BY <2>1, <2>2
  <1> QED BY <1>8, <1>9

\* A worker that goes on without a call sees what it saw, unless that is decided or nobody
\* will ever decide it.
LEMMA RestingWake ==
  ASSUME Persistent, "database" \notin Faults, FrontendTypeOK, SessionInv, NEW w \in WorkflowWorkers,
         \/ FetchHistory(w) \/ FetchFails(w) \/ ReportRefused(w) \/ ReportDone(w) \/ RepeatReport(w)
  PROVE  \A v \in WorkflowWorkers : SightKept(v)
  <1> DEFINE now == sessions[w]
  <1>1. /\ now \in Session /\ WorkerFits(w, now, calls[w], decided) /\ w \in Workers
        /\ DOMAIN sessions = Workers
    BY WorkersFit DEF AllFit, Workers
  <1>2. UNCHANGED <<executions, history, decided>> /\ \E s : sessions' = [sessions EXCEPT ![w] = s]
    BY DEF FetchHistory, FetchFails, ReportRefused, ReportDone, RepeatReport, Hold, timerVars, vars, dbVars
  <1>3. \A v \in WorkflowWorkers \ {w} : sessions'[v] = sessions[v]
    BY <1>2
  <1>4. CASE FetchHistory(w)
    <2> DEFINE json == now.token.json
               k == <<Field(json, "workflow_id"), Field(json, "run_id")>>
               s == [pc |-> "working", task |-> now.task, token |-> Encode(k[1], k[2], NoActivity, 0),
                     seen |-> history[k], report |-> "none", heartbeat |-> "none"]
    <2>1. now.pc = "fetch" /\ sessions' = [sessions EXCEPT ![w] = s]
      BY <1>4 DEF FetchHistory, Hold, GetHistoryEvents
    <2>2. k = now.task.key
      BY <1>1, <2>1, FetchedRun DEF WorkerFits
    <2>3. s.pc = "working" /\ s.task = now.task /\ s.seen = history[k]
      OBVIOUS
    <2> HIDE DEF k, s
    <2>4. sessions'[w] = s
      BY <1>1, <2>1
    <2>5. SightKept(w)
      BY <1>2, <2>2, <2>3, <2>4 DEF SightKept, Sees
    <2> QED BY <1>3, <2>5, SightUnchanged
  <1>5. CASE ReportRefused(w)
    <2>1. now.pc = "working" /\ executions[RunOf(w)].status # "Running"
      BY <1>5 DEF ReportRefused
    <2>2. RunOf(w) = now.task.key
      BY <1>1, <2>1, TokenRead
    <2>3. SightKept(w)
      BY <1>2, <2>1, <2>2 DEF SightKept, Sees, Awake
    <2> QED BY <1>3, <2>3, SightUnchanged
  <1>6. CASE ReportDone(w)
    <2>1. now.pc = "answered" /\ now.report = "OK"
      BY <1>6 DEF ReportDone
    <2>2. Seen(now) \subseteq decided[now.task.key]
      BY <1>1, <2>1 DEF WorkerFits
    <2>3. SightKept(w)
      BY <1>2, <2>1, <2>2 DEF SightKept, Sees, Seen
    <2> QED BY <1>3, <2>3, SightUnchanged
  <1>7. CASE RepeatReport(w)
    <2> DEFINE s == [now EXCEPT !.pc = "working", !.report = "none"]
    <2>1. now.pc = "answered" /\ sessions' = [sessions EXCEPT ![w] = s]
      BY <1>7 DEF RepeatReport, Hold
    <2>2. now \in Working
      BY <1>1, <2>1, SessionShape
    <2>3. s.pc = "working" /\ s.task = now.task /\ s.seen = now.seen
      BY <2>2 DEF Working
    <2> HIDE DEF s
    <2>4. sessions'[w] = s
      BY <1>1, <2>1
    <2>5. SightKept(w)
      BY <2>1, <2>3, <2>4, SightCarried
    <2> QED BY <1>3, <2>5, SightUnchanged
  <1>8. ~FetchFails(w)
    BY DEF FetchFails
  <1> QED BY <1>4, <1>5, <1>6, <1>7, <1>8

\* A worker that reports still sees what it decides from.
LEMMA ReportWake ==
  ASSUME FrontendTypeOK, SessionInv, NEW w \in WorkflowWorkers,
         RespondWorkflowTaskCompleted(w) \/ RespondWorkflowTaskFailed(w)
  PROVE  UNCHANGED decided /\ \A v \in WorkflowWorkers : SightKept(v)
  <1> DEFINE now == sessions[w]
             s == [now EXCEPT !.pc = "reporting"]
  <1>1. now \in Session /\ DOMAIN sessions = Workers /\ w \in Workers
    BY WorkersFit DEF AllFit, Workers
  <1>2. now.pc = "working" /\ sessions' = [sessions EXCEPT ![w] = s] /\ UNCHANGED decided
    BY DEF RespondWorkflowTaskCompleted, RespondWorkflowTaskFailed, Report
  <1>3. now \in Working
    BY <1>1, <1>2, SessionShape
  <1>4. s.pc = "reporting" /\ s.task = now.task /\ s.seen = now.seen
    BY <1>3 DEF Working
  <1> HIDE DEF s
  <1>5. sessions'[w] = s /\ \A v \in WorkflowWorkers \ {w} : sessions'[v] = sessions[v]
    BY <1>1, <1>2
  <1>6. SightKept(w)
    BY <1>2, <1>4, <1>5, SightCarried
  <1> QED BY <1>2, <1>5, <1>6, SightUnchanged

\* A worker is told OK only when what it saw is decided.
LEMMA HandledWake ==
  ASSUME HistoryInv, FrontendTypeOK, SessionInv, NEW w \in Workers, Handled(w)
  PROVE  /\ \A v \in WorkflowWorkers : SightKept(v)
         /\ \A k \in Keys : decided[k] \subseteq decided'[k]
  <1> DEFINE now == sessions[w]
  <1>1. now \in Session /\ DOMAIN sessions = Workers /\ WorkflowWorkers \subseteq Workers
    BY WorkersFit DEF AllFit, Workers
  <1>2. \A k \in Keys : decided[k] \subseteq decided'[k]
    <2>1. PICK call : Serves(w, call)
      BY UnwrittenServes, CommitServes
    <2> QED BY <2>1 DEF Serves
  <1>3. CASE UNCHANGED sessions
    BY <1>2, <1>3, SightUnchanged
  <1>4. ASSUME NEW reply, now.pc = "reporting",
               sessions' = [sessions EXCEPT ![w] = [now EXCEPT !.pc = "answered", !.report = reply]]
        PROVE  \A v \in WorkflowWorkers : SightKept(v)
    <2> DEFINE s == [now EXCEPT !.pc = "answered", !.report = reply]
    <2>1. now \in Working
      BY <1>1, <1>4, SessionShape
    <2>2. s.pc = "answered" /\ s.task = now.task /\ s.seen = now.seen
      BY <2>1 DEF Working
    <2> HIDE DEF s
    <2>3. sessions'[w] = s /\ \A v \in WorkflowWorkers \ {w} : sessions'[v] = sessions[v]
      BY <1>1, <1>4 DEF s
    <2>4. SightKept(w)
      BY <1>4, <2>2, <2>3, SightCarried
    <2> QED BY <2>3, <2>4, SightUnchanged
  <1>5. CASE ~UNCHANGED sessions
    <2>1. PICK reply \in Replies(w) :
            /\ now.pc = "reporting"
            /\ sessions' = [sessions EXCEPT ![w] = [now EXCEPT !.pc = "answered", !.report = reply]]
      BY <1>5 DEF Handled, Hold
    <2> QED BY <1>2, <1>4, <2>1
  <1> QED BY <1>3, <1>5

--------------------------------------------------------------------------------
(* The whole system *)

LEMMA WakeupStep ==
  ASSUME OpenToWorkers, Faults = {}, MaxIncidents = 0, Persistent,
         TimerInv, FrontendTypeOK, SessionInv, WakeupInv, [FrontendNext]_frontendVars
  PROVE  WakeupInv'
  <1>1. /\ HistoryInv /\ TypeOK /\ "database" \notin Faults /\ incidents \in Nat
        /\ WorkflowWorkers \subseteq Workers /\ ActivityWorkers \subseteq Workers /\ Workers \subseteq Callers
        /\ ActivityWorkers \cap WorkflowWorkers = {} /\ DOMAIN sessions = Workers
        /\ NoWakeupForgotten /\ NamesFit
    BY WakeupInvIs, FrontendAssumption DEF TimerInv, HistoryInv, TimerTypeOK, Workers, FrontendTypeOK
  <1>2. ASSUME NewsAnnounced, WayKept, \A w \in WorkflowWorkers : SightKept(w),
               \A k \in Keys : decided[k] \subseteq decided'[k],
               \A d \in Callers : CallReady(calls'[d], executions'),
               \A p \in Processors : NamedWake(procs'[p], executions')
        PROVE  WakeupInv'
    BY <1>1, <1>2, NothingForgotten, WakeupInvIs
  <1>3. ASSUME HistoryStep, \A w \in WorkflowWorkers : SightKept(w),
               \A k \in Keys : decided[k] \subseteq decided'[k]
        PROVE  WakeupInv'
    BY <1>1, <1>2, <1>3, HandlersWake DEF HistoryStep
  <1>4. ASSUME UNCHANGED <<executions, calls, procs>>
        PROVE  /\ \A d \in Callers : CallReady(calls'[d], executions')
               /\ \A p \in Processors : NamedWake(procs'[p], executions')
    BY <1>1, <1>4 DEF NamesFit
  <1>5. ASSUME UNCHANGED <<executions, history, workflowQueue, calls, procs>>
        PROVE  NewsAnnounced /\ WayKept
    BY <1>5 DEF NewsAnnounced, WayKept
  <1>6. ASSUME UNCHANGED <<executions, history, workflowQueue, calls, procs, decided>>,
               \A w \in WorkflowWorkers : SightKept(w)
        PROVE  WakeupInv'
    BY <1>2, <1>4, <1>5, <1>6
  <1>7. ASSUME NEW c \in Clients, ClientRequest(c) \/ HandledForClient(c)
        PROVE  WakeupInv'
    <2>1. UNCHANGED <<sessions, decided>>
      BY <1>7 DEF ClientRequest, StartWorkflow, SignalWorkflow, HandledForClient
    <2> QED BY <1>3, <1>7, <2>1, ClientsAreCallers, SightUnchanged
  <1>8. ASSUME NEW w \in Workers, Handled(w)
        PROVE  WakeupInv'
    BY <1>1, <1>3, <1>8, HandledWake, WorkersAreCallers
  <1>9. ASSUME NEW a \in ActivityWorkers,
               ActivityWork(a) \/ RespondActivityTaskFailed(a) \/ RecordActivityTaskHeartbeat(a)
        PROVE  WakeupInv'
    <2>1. UNCHANGED decided
      BY <1>9 DEF ActivityWork, PollActivityTaskQueue, RespondActivityTaskCompleted, RespondActivityTaskFailed,
         RecordActivityTaskHeartbeat, ReportRefused, ReportDone, RepeatReport, Report
    <2>2. \A w \in WorkflowWorkers : SightKept(w)
      <3>1. UNCHANGED sessions \/ \E s : sessions' = [sessions EXCEPT ![a] = s]
        BY <1>9 DEF ActivityWork, PollActivityTaskQueue, RespondActivityTaskCompleted,
           RespondActivityTaskFailed, RecordActivityTaskHeartbeat, ReportRefused, ReportDone,
           RepeatReport, Hold, Report
      <3>2. \A w \in WorkflowWorkers : sessions'[w] = sessions[w]
        BY <1>1, <3>1
      <3> QED BY <3>2, SightUnchanged
    <2>3. CASE RespondActivityTaskCompleted(a) \/ RespondActivityTaskFailed(a)
      BY <1>1, <1>3, <2>1, <2>2, <2>3, WorkersAreCallers
    <2>4. CASE \/ PollActivityTaskQueue(a) \/ ReportRefused(a) \/ ReportDone(a) \/ RepeatReport(a)
      BY <1>6, <2>1, <2>2, <2>4 DEF PollActivityTaskQueue, ReportRefused, ReportDone, RepeatReport,
         timerVars, vars, dbVars, redisVars
    <2>5. CASE RecordActivityTaskHeartbeat(a)
      <3>1. PICK s : Goes(a, s)
        BY <1>1, <2>5, RepeatGoes
      <3> QED BY <1>6, <2>1, <2>2, <2>5, <3>1 DEF RecordActivityTaskHeartbeat, Goes, dbVars, redisVars
    <2> QED BY <1>9, <2>3, <2>4, <2>5 DEF ActivityWork
  <1>10. ASSUME NEW w \in WorkflowWorkers,
                WorkflowWork(w) \/ FetchFails(w) \/ RespondWorkflowTaskFailed(w)
         PROVE  WakeupInv'
    <2>1. CASE PollWorkflowTaskQueue(w)
      BY <1>2, <1>4, <2>1, PollWake DEF PollWorkflowTaskQueue, dbVars
    <2>2. CASE RespondWorkflowTaskCompleted(w) \/ RespondWorkflowTaskFailed(w)
      BY <1>1, <1>3, <2>2, ReportWake, WorkersAreCallers
    <2>3. CASE \/ FetchHistory(w) \/ FetchFails(w) \/ ReportRefused(w) \/ ReportDone(w) \/ RepeatReport(w)
      <3>1. \A v \in WorkflowWorkers : SightKept(v)
        BY <1>1, <2>3, RestingWake
      <3> QED BY <1>6, <2>3, <3>1 DEF FetchHistory, FetchFails, ReportRefused, ReportDone, RepeatReport,
              timerVars, vars, dbVars, redisVars
    <2> QED BY <1>10, <2>1, <2>2, <2>3 DEF WorkflowWork
  <1>11. ASSUME NEW p \in Processors, Run(p), UNCHANGED <<sessions, decided>>
         PROVE  WakeupInv'
    BY <1>1, <1>2, <1>11, ProcessorsWake, SightUnchanged
  <1>12. /\ ~FrontendDies /\ \A w : ~WorkerDies(w) /\ ~DeadlineExceeded(w)
         /\ \A p : ~HistoryDies(p)
    <2>1. ~(incidents < MaxIncidents)
      BY <1>1
    <2> QED BY <2>1 DEF FrontendDies, DeadlineExceeded, GiveUp, WorkerDies, HistoryDies, ProcessorCrash
  <1>13. CASE UNCHANGED frontendVars
    BY <1>6, <1>13, SightUnchanged DEF frontendVars, timerVars, vars, dbVars, redisVars
  <1>14. CASE FrontendNext
    BY <1>7, <1>8, <1>9, <1>10, <1>11, <1>12, <1>14, Zenon DEF FrontendNext
  <1> QED BY <1>13, <1>14

LEMMA WakeupInit ==
  ASSUME FrontendInit
  PROVE  WakeupInv
  <1>1. /\ history = [k \in Keys |-> {}] /\ calls = [c \in Callers |-> Idle]
        /\ procs = [p \in Processors |-> Idle]
    BY DEF FrontendInit, TimerInit, Init, RepositoryInit
  <1>2. NoWakeupForgotten
    BY <1>1, NoWakeupForgottenIs
  <1>3. NamesFit
    BY <1>1 DEF NamesFit, CallReady, QueueFit, NoFiring, NamedHand, NamedWake, Hand, Idle
  <1> QED BY <1>2, <1>3, WakeupInvIs

\* No event that asks for a decision is forgotten, however many workers decide and whatever
\* timers fire, as long as nothing fails and workers repeat what was refused for its version.
THEOREM WakeupsKept ==
  ASSUME OpenToWorkers, Faults = {}, MaxIncidents = 0, Persistent
  PROVE  FrontendSpec => []NoWakeupForgotten
  <1> DEFINE Whole == TimerInv /\ FrontendTypeOK /\ SessionInv
  <1>1. FrontendSpec => []Whole
    BY FrontendSound
  <1>2. FrontendInit => WakeupInv
    BY WakeupInit
  <1>3. Whole /\ WakeupInv /\ [FrontendNext]_frontendVars => WakeupInv'
    BY WakeupStep
  <1>4. WakeupInv => NoWakeupForgotten
    BY DEF WakeupInv
  <1> QED BY <1>1, <1>2, <1>3, <1>4, PTL DEF FrontendSpec
================================================================================
