-------------------------------- MODULE Frontend --------------------------------
(***************************************************************************)
(* Mini-Workflow as a whole: clients and workers, the Frontend handlers    *)
(* they call (frontend/internal/service), and behind them the History      *)
(* service, its timer processors and the task queues.                      *)
(*                                                                         *)
(* Unlike the open environment of HistoryService, workers here only report *)
(* what a poll has given them, and Frontend only calls what it calls: it   *)
(* never records the start of a task.  Each worker and each client has one *)
(* request at a time, whose handler in History is the caller of its name.  *)
(* How a poll waits in Redis is the subject of Matching; here it pops.     *)
(***************************************************************************)
EXTENDS TimerProcessor

CONSTANTS
  WorkflowWorkers, ActivityWorkers,  \* the other callers are clients
  Decide(_),      \* the commands the workflow code answers a history with
  WorkerRPCs,     \* what workers do besides completing their tasks, see OptionalRPCs
  Persistent,     \* workers repeat a report that has failed
  MaxSignals      \* bound: no signal once the history has so many

OptionalRPCs ==
  {"RespondWorkflowTaskFailed", "RespondActivityTaskFailed", "RecordActivityTaskHeartbeat"}

Workers == WorkflowWorkers \cup ActivityWorkers
Clients == Callers \ Workers

ASSUME FrontendAssumption ==
  /\ Workers \subseteq Callers
  /\ WorkflowWorkers \cap ActivityWorkers = {}
  /\ WorkerRPCs \subseteq OptionalRPCs
  /\ Persistent \in BOOLEAN
  /\ MaxSignals \in Nat

VARIABLES
  sessions,   \* [Workers -> Session]: what a worker and its Frontend handler hold
  decided     \* [Keys -> SUBSET Nat]: events seen by a decision that was committed

frontendVars == <<timerVars, sessions, decided>>

INSTANCE TaskTokens WITH EmptyId <- NoActivity

--------------------------------------------------------------------------------
(* The task of a session is kept for the properties; the code has the token only. *)

Tokens ==
  {MatchingToken(k[1], k[2], a) : k \in Keys, a \in Activities \cup {NoActivity}}
  \cup {Encode(k[1], k[2], a, 1) : k \in Keys, a \in Activities \cup {NoActivity}}

Fetching == [pc : {"fetch"}, task : QueuedTask, token : Tokens]
Working == [pc : {"working", "reporting", "answered"}, task : QueuedTask, token : Tokens,
            seen : SUBSET Event, report : {"none", "OK", "Error"},
            heartbeat : {"none", "OK", "InvalidArgument"}]
Dead == [pc : {"dead"}, task : QueuedTask]

Session == {Idle} \cup Fetching \cup Working \cup Dead

FrontendTypeOK ==
  /\ TimerTypeOK
  /\ \A w \in Workers : sessions[w] \in Session
  /\ DOMAIN sessions = Workers
  /\ decided \in [Keys -> SUBSET Nat]

FrontendInit ==
  /\ TimerInit
  /\ sessions = [w \in Workers |-> Idle]
  /\ decided = [k \in Keys |-> {}]

Hold(w, session) == sessions' = [sessions EXCEPT ![w] = session]

--------------------------------------------------------------------------------
(* Clients *)

StartWorkflow(c, k, tq) ==
  /\ RecordWorkflowExecutionStarted(c, k, tq)
  /\ UNCHANGED <<procs, incidents, sessions, decided>>

SignalWorkflow(c, k) ==
  /\ Cardinality({e \in history[k] : e.type = "WorkflowExecutionSignaled"}) < MaxSignals
  /\ SignalWorkflowExecution(c, k)
  /\ UNCHANGED <<procs, incidents, sessions, decided>>

--------------------------------------------------------------------------------
(* Polls *)

\* Matching's part of a workflow poll: the task is popped.
PollWorkflowTaskQueue(w) ==
  /\ sessions[w] = Idle
  /\ workflowQueue # <<>>
  /\ LET task == Head(workflowQueue)
     IN  Hold(w, [pc |-> "fetch", task |-> task,
                      token |-> MatchingToken(task.key[1], task.key[2], NoActivity)])
  /\ workflowQueue' = Tail(workflowQueue)
  /\ UNCHANGED <<dbVars, active, activityQueue, calls, procs, incidents, decided>>

\* Mutant: the history is read from a replica, which lags behind by some events.
FetchFromReplica(w) ==
  /\ sessions[w].pc = "fetch"
  /\ LET json == sessions[w].token.json
         k == <<Field(json, "workflow_id"), Field(json, "run_id")>>
     IN  \E lag \in 0 .. 3 :
           Hold(w, [pc |-> "working", task |-> sessions[w].task,
                    token |-> Encode(k[1], k[2], NoActivity, 0),
                    seen |-> {e \in history[k] : e.id + lag < executions[k].next},
                    report |-> "none", heartbeat |-> "none"])
  /\ UNCHANGED <<timerVars, decided>>

\* Frontend's part: it unmarshals Matching's token, fetches the history and encodes a
\* token of its own.
FetchHistory(w) ==
  /\ sessions[w].pc = "fetch"
  /\ LET json == sessions[w].token.json
         k == <<Field(json, "workflow_id"), Field(json, "run_id")>>
     IN  Hold(w, [pc |-> "working", task |-> sessions[w].task,
                      token |-> Encode(k[1], k[2], NoActivity, 0),
                      seen |-> GetHistoryEvents(k), report |-> "none", heartbeat |-> "none"])
  /\ UNCHANGED <<timerVars, decided>>

\* The history cannot be had; the poll fails, the task stays popped.
FetchFails(w) ==
  /\ "database" \in Faults
  /\ sessions[w].pc = "fetch"
  /\ Hold(w, Idle)
  /\ UNCHANGED <<timerVars, decided>>

\* The attempt in the token is always 1.
PollActivityTaskQueue(w) ==
  /\ sessions[w] = Idle
  /\ activityQueue # <<>>
  /\ LET task == Head(activityQueue)
         json == MatchingToken(task.key[1], task.key[2], task.act).json
     IN  Hold(w, [pc |-> "working", task |-> task,
                      token |-> Encode(Field(json, "workflow_id"), Field(json, "run_id"),
                                       task.act, 1),
                      seen |-> {}, report |-> "none", heartbeat |-> "none"])
  /\ activityQueue' = Tail(activityQueue)
  /\ UNCHANGED <<dbVars, active, workflowQueue, calls, procs, incidents, decided>>

--------------------------------------------------------------------------------
(* Reports: Frontend decodes its token and calls History with the ids in it *)

RunOf(w) ==
  LET tok == Decode(sessions[w].token) IN <<tok.workflow, tok.run>>

ActivityOf(w) == Decode(sessions[w].token).activity

Report(w) ==
  /\ sessions[w].pc = "working"
  /\ Decode(sessions[w].token) # Malformed
  /\ sessions' = [sessions EXCEPT ![w].pc = "reporting"]
  /\ UNCHANGED <<procs, incidents, decided>>

RespondWorkflowTaskCompleted(w) ==
  /\ Report(w)
  /\ RecordWorkflowTaskCompleted(w, RunOf(w), Decide(sessions[w].seen))

RespondWorkflowTaskFailed(w) ==
  /\ "RespondWorkflowTaskFailed" \in WorkerRPCs
  /\ Report(w)
  /\ RecordWorkflowTaskFailed(w, RunOf(w))

RespondActivityTaskCompleted(w) ==
  /\ Report(w)
  /\ RecordActivityTask(w, "RecordActivityTaskCompleted", RunOf(w), ActivityOf(w))

RespondActivityTaskFailed(w) ==
  /\ "RespondActivityTaskFailed" \in WorkerRPCs
  /\ Report(w)
  /\ RecordActivityTask(w, "RecordActivityTaskFailed", RunOf(w), ActivityOf(w))

\* "workflow is not running": the worker goes on to its next poll.
ReportRefused(w) ==
  /\ sessions[w].pc = "working"
  /\ executions[RunOf(w)].status # "Running"
  /\ Hold(w, Idle)
  /\ UNCHANGED <<timerVars, decided>>

\* History's own check of the token.
Understood(token) == DecodeTaskToken(token) # Malformed

\* Frontend decodes the token, and forwards the request as it came.
RecordActivityTaskHeartbeat(w) ==
  /\ "RecordActivityTaskHeartbeat" \in WorkerRPCs
  /\ sessions[w].pc = "working"
  /\ Decode(sessions[w].token) # Malformed
  /\ LET tok == DecodeTaskToken(sessions[w].token)
     IN  IF ~Understood(sessions[w].token)
         THEN /\ sessions' = [sessions EXCEPT ![w].heartbeat = "InvalidArgument"]
              /\ UNCHANGED calls
         ELSE /\ sessions' = [sessions EXCEPT ![w].heartbeat = "OK"]
              /\ RecordActivityTask(w, "RecordActivityTaskHeartbeat",
                                    <<tok.workflow, tok.run>>, tok.activity)
  /\ UNCHANGED <<dbVars, redisVars, procs, incidents, decided>>

--------------------------------------------------------------------------------
(* The handlers in History, and their replies *)

\* What w is told when a step of the call is its last.  Frontend passes errors on, some
\* with another code (mapDownstreamError); codes are not told apart here.
Replies(w) ==
  IF calls[w].pc = "publish" THEN {"OK"}
  ELSE IF executions' = executions THEN {"Error"}
  ELSE IF Publish(calls[w].txn.timers, calls[w].txn.tasks) # Idle THEN {"Error"}
  ELSE {"OK"} \cup (IF "database" \in Faults THEN {"Error"} ELSE {})

\* Mutant: the reply is sent before the handler has run.
HandledAsync(w) ==
  /\ Proceed(w) \/ StatementFails(w)
  /\ IF sessions[w].pc = "reporting"
     THEN Hold(w, [sessions[w] EXCEPT !.pc = "answered", !.report = "OK"])
     ELSE UNCHANGED sessions
  /\ decided' = decided
  /\ UNCHANGED <<procs, incidents>>

Handled(w) ==
  /\ Proceed(w) \/ StatementFails(w)
  /\ IF calls'[w] = Idle /\ sessions[w].pc = "reporting"
     THEN \E reply \in Replies(w) :
            Hold(w, [sessions[w] EXCEPT !.pc = "answered", !.report = reply])
     ELSE UNCHANGED sessions
  /\ decided' = IF executions' # executions /\ w \in WorkflowWorkers
                THEN [decided EXCEPT ![RunOf(w)] = @ \cup {e.id : e \in sessions[w].seen}]
                ELSE decided
  /\ UNCHANGED <<procs, incidents>>

\* The report was taken, or the worker leaves it at that.
ReportDone(w) ==
  /\ sessions[w].pc = "answered" /\ calls[w] = Idle
  /\ sessions[w].report = "OK" \/ ~Persistent
  /\ Hold(w, Idle)
  /\ UNCHANGED <<timerVars, decided>>

RepeatReport(w) ==
  /\ sessions[w].pc = "answered" /\ calls[w] = Idle
  /\ sessions[w].report = "Error" /\ Persistent
  /\ Hold(w, [sessions[w] EXCEPT !.pc = "working", !.report = "none"])
  /\ UNCHANGED <<timerVars, decided>>

HandledForClient(c) ==
  /\ Proceed(c) \/ StatementFails(c)
  /\ UNCHANGED <<procs, incidents, sessions, decided>>

--------------------------------------------------------------------------------
(* Incidents *)

WorkerDies(w) ==
  /\ incidents < MaxIncidents
  /\ sessions[w].pc \in {"fetch", "working"}
  /\ Hold(w, [pc |-> "dead", task |-> sessions[w].task])
  /\ incidents' = incidents + 1
  /\ UNCHANGED <<vars, procs, decided>>

\* Requests fail that wait for History: a poll has lost its task, a report is an error to
\* its worker.  The calls are cancelled, which History may notice or not.
Waiting == {w \in Workers : sessions[w].pc \in {"fetch", "reporting"}}

GiveUp(failed) ==
  /\ incidents < MaxIncidents
  /\ incidents' = incidents + 1
  /\ sessions' = [w \in Workers |->
       IF w \notin failed THEN sessions[w]
       ELSE IF sessions[w].pc = "fetch" THEN Idle
       ELSE [sessions[w] EXCEPT !.pc = "answered", !.report = "Error"]]
  /\ \E cancelled \in SUBSET failed :
       calls' = [c \in Callers |-> IF c \in cancelled THEN Idle ELSE calls[c]]
  /\ UNCHANGED <<dbVars, redisVars, procs, decided>>

\* client_timeout_seconds pass.
DeadlineExceeded(w) == w \in Waiting /\ GiveUp({w})

\* A Frontend process dies, with all its connections.
FrontendDies == Waiting # {} /\ GiveUp(Waiting)

\* The calls a History process was serving fail.
HistoryDies(p) ==
  /\ ProcessorCrash(p)
  /\ sessions' = [w \in Workers |->
       IF sessions[w].pc = "reporting" /\ calls'[w] = Idle
       THEN [sessions[w] EXCEPT !.pc = "answered", !.report = "Error"]
       ELSE sessions[w]]
  /\ UNCHANGED decided

--------------------------------------------------------------------------------
\* What a worker does between two polls.
WorkflowWork(w) ==
  \/ PollWorkflowTaskQueue(w) \/ FetchHistory(w)
  \/ RespondWorkflowTaskCompleted(w) \/ ReportRefused(w)
  \/ ReportDone(w) \/ RepeatReport(w)

ActivityWork(w) ==
  \/ PollActivityTaskQueue(w)
  \/ RespondActivityTaskCompleted(w) \/ ReportRefused(w)
  \/ ReportDone(w) \/ RepeatReport(w)

ClientRequest(c) ==
  \E k \in Keys :
    \/ \E tq \in TaskQueueNames : StartWorkflow(c, k, tq)
    \/ SignalWorkflow(c, k)

FrontendNext ==
  \/ \E c \in Clients : ClientRequest(c) \/ HandledForClient(c)
  \/ \E w \in WorkflowWorkers : WorkflowWork(w) \/ FetchFails(w) \/ RespondWorkflowTaskFailed(w)
  \/ \E w \in ActivityWorkers :
       ActivityWork(w) \/ RespondActivityTaskFailed(w) \/ RecordActivityTaskHeartbeat(w)
  \/ \E w \in Workers : Handled(w) \/ WorkerDies(w) \/ DeadlineExceeded(w)
  \/ FrontendDies
  \/ \E p \in Processors : (Run(p) /\ UNCHANGED <<sessions, decided>>) \/ HistoryDies(p)

FrontendSpec == FrontendInit /\ [][FrontendNext]_frontendVars

\* Workers poll, and report on what they are given; calls and processors that can take a
\* step take it.  Time passes, so a timer that comes back to Redis again and again is due,
\* and claimed, in the end; the ticker ticks, and select takes its case when it is ready
\* often enough.
FrontendFairSpec ==
  /\ FrontendSpec
  /\ \A w \in WorkflowWorkers : WF_frontendVars(WorkflowWork(w))
  /\ \A w \in ActivityWorkers : WF_frontendVars(ActivityWork(w))
  /\ \A w \in Workers : WF_frontendVars(Handled(w))
  /\ \A c \in Clients : WF_frontendVars(HandledForClient(c))
  /\ \A p \in Processors :
       /\ WF_frontendVars((Dispatch(p) \/ PeekNext(p) \/ NothingToPeek(p) \/ PutBack(p)
                             \/ RebuildFromDB(p)) /\ UNCHANGED <<sessions, decided>>)
       /\ SF_frontendVars(ClaimExpired(p) /\ UNCHANGED <<sessions, decided>>)
       /\ SF_frontendVars(Scavenge(p) /\ UNCHANGED <<sessions, decided>>)
================================================================================
