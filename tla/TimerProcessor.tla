----------------------------- MODULE TimerProcessor -----------------------------
(***************************************************************************)
(* The timer processors (history/internal/service/timer_processor.go),     *)
(* one goroutine beside the RPC handlers of each History process.  A       *)
(* processor claims timers from Redis, marks each one fired and only then  *)
(* handles it, with the same tables, the same version check and the same   *)
(* task queues as the handlers.                                            *)
(*                                                                         *)
(* Time is left out here: a timer in Redis may be due at any step, and a   *)
(* heartbeat that was recorded may or may not still be fresh.  When the    *)
(* processor sleeps and what wakes it is the subject of SmartSleep.        *)
(***************************************************************************)
EXTENDS HistoryService

CONSTANTS
  Processors,     \* one per History process
  BatchSize,      \* timerBatchSize, 10 in the code
  Scavenging,     \* FALSE: only behaviours shorter than scavengerInterval
  MaxIncidents    \* bound: how often a process dies or Redis loses its data

ASSUME ProcessorAssumption ==
  /\ IsFiniteSet(Processors)
  /\ BatchSize \in Nat \ {0}
  /\ Scavenging \in BOOLEAN
  /\ MaxIncidents \in Nat

VARIABLES
  procs,        \* [Processors -> Processor]: the live local variables of each Run loop
  incidents     \* how many incidents there have been

timerVars == <<vars, procs, incidents>>

--------------------------------------------------------------------------------
(* The local state of a processor.  "batch" holds the claimed timers that are *)
(* still to be dispatched.                                                    *)

Dispatching == [pc : {"dispatch"}, batch : SUBSET Timer]
Handling == [pc : {"handle"}, batch : SUBSET Timer, timer : Timer]
Firing == [pc : {"fire"}, batch : SUBSET Timer, timer : Timer, row : Execution]
Rescheduling == [pc : {"reschedule"}, batch : SUBSET Timer, timer : Timer]
Requeueing == [pc : {"requeue"}, batch : SUBSET Timer, timer : Timer, arow : Activity]
Waking == [pc : {"wake"}, batch : SUBSET Timer, timer : Timer, taskQueue : TaskQueueNames]
Peeked == [pc : {"peeked"}, timer : Timer]
Rebuilding == [pc : {"rebuild"}, timers : SUBSET Timer]

Processor ==
  {Idle, [pc |-> "peek"]} \cup Dispatching \cup Handling \cup Firing \cup Rescheduling
  \cup Requeueing \cup Waking \cup Peeked \cup Rebuilding

TimerTypeOK ==
  /\ TypeOK
  /\ procs \in [Processors -> Processor]
  /\ incidents \in Nat

TimerInit ==
  /\ Init
  /\ procs = [p \in Processors |-> Idle]
  /\ incidents = 0

Become(p, state) == procs' = [procs EXCEPT ![p] = state]

\* The rest of the batch, or the end of processExpired.
Continue(batch) == IF batch = {} THEN [pc |-> "peek"] ELSE [pc |-> "dispatch", batch |-> batch]

--------------------------------------------------------------------------------
(* processExpired *)

\* Mutant: the range is read and removed by two commands.
ClaimWithoutRemoving(p) ==
  /\ procs[p].pc = "idle"
  /\ \E batch \in SUBSET active :
       /\ batch # {} /\ Cardinality(batch) <= BatchSize
       /\ Become(p, [pc |-> "dispatch", batch |-> batch])
  /\ UNCHANGED <<vars, incidents>>

\* ClaimExpired: a script takes up to BatchSize expired timers out of the sorted set
\* in one step.  If its reply is lost they are out of Redis all the same.
ClaimExpired(p) ==
  /\ procs[p].pc = "idle"
  /\ \E batch \in SUBSET active :
       /\ batch # {} /\ Cardinality(batch) <= BatchSize
       /\ active' = active \ batch
       /\ \/ Become(p, [pc |-> "dispatch", batch |-> batch])
          \/ "redis" \in Faults /\ Become(p, [pc |-> "peek"])
  /\ UNCHANGED <<dbVars, workflowQueue, activityQueue, calls, incidents>>

NothingExpired(p) ==
  /\ procs[p].pc = "idle"
  /\ Become(p, [pc |-> "peek"])
  /\ UNCHANGED <<vars, incidents>>

\* dispatch: GetTimerByID, then MarkTimerFired, before anything is done about the timer.
MarkTimerFired(p, t) ==
  /\ procs[p].pc = "dispatch"
  /\ t \in procs[p].batch \cap timers
  /\ fired' = fired \cup {t}
  /\ Become(p, [pc |-> "handle", batch |-> procs[p].batch \ {t}, timer |-> t])
  /\ UNCHANGED <<executions, history, activities, timers, redisVars, calls, incidents>>

\* The timer is not found, or one of the two statements fails, perhaps after taking effect.
DispatchFails(p, t) ==
  /\ procs[p].pc = "dispatch"
  /\ t \in procs[p].batch
  /\ \/ t \notin timers /\ UNCHANGED fired
     \/ "database" \in Faults /\ fired' \in {fired, fired \cup ({t} \cap timers)}
  /\ Become(p, Continue(procs[p].batch \ {t}))
  /\ UNCHANGED <<executions, history, activities, timers, redisVars, calls, incidents>>

--------------------------------------------------------------------------------
(* UserTimer and WorkflowTimeout: processExecutionTimer *)

\* GetWorkflowExecution.  Its status is not looked at.
ReadExecution(p) ==
  /\ procs[p].pc = "handle"
  /\ procs[p].timer.type \in {"UserTimer", "WorkflowTimeout"}
  /\ LET t == procs[p].timer
         row == GetWorkflowExecution(t.key)
     IN  Become(p, IF row.status = "Absent" THEN Continue(procs[p].batch)
                   ELSE [pc |-> "fire", batch |-> procs[p].batch, timer |-> t, row |-> row])
  /\ UNCHANGED <<vars, incidents>>

\* Mutant: next_event_id stays where it was.
FiredTxnSameId(t, row) == [AppendEvent(row, "TimerFired", NoActivity) EXCEPT !.next = row.next]

\* Mutant: the update closes the run.
FiredTxnCloses(t, row) ==
  [AppendEvent(row, "TimerFired", NoActivity) EXCEPT !.status = "TimedOut"]

FiredTxn(t, row) ==
  IF t.type = "WorkflowTimeout"
  THEN [AppendEvent(row, "WorkflowExecutionTimedOut", NoActivity) EXCEPT !.status = "TimedOut"]
  ELSE AppendEvent(row, "TimerFired", NoActivity)

\* UpdateWorkflowExecution against the version that was read; a user timer then wakes
\* the workflow.  The reply to the commit may be lost.
CommitFired(p) ==
  /\ procs[p].pc = "fire"
  /\ LET t == procs[p].timer
         row == procs[p].row
         woken == [pc |-> "wake", batch |-> procs[p].batch, timer |-> t,
                   taskQueue |-> row.taskQueue]
     IN  /\ UpdateWorkflowExecution(t.key, row.version, FiredTxn(t, row))
         /\ \/ Become(p, IF t.type = "UserTimer" THEN woken ELSE Continue(procs[p].batch))
            \/ "database" \in Faults /\ Become(p, Continue(procs[p].batch))
  /\ UNCHANGED <<redisVars, calls, incidents>>

\* Mutant: a conflict is logged, and the workflow woken all the same.
ConflictStillWakes(p) ==
  /\ procs[p].pc = "fire"
  /\ executions[procs[p].timer.key].version # procs[p].row.version
  /\ Become(p, [pc |-> "wake", batch |-> procs[p].batch, timer |-> procs[p].timer,
                taskQueue |-> procs[p].row.taskQueue])
  /\ UNCHANGED <<vars, incidents>>

\* ErrConcurrencyConflict is logged; the timer stays marked fired.
FireConflicts(p) ==
  /\ procs[p].pc = "fire"
  /\ LET t == procs[p].timer
     IN  \/ executions[t.key].version # procs[p].row.version
         \/ \E e \in FiredTxn(t, procs[p].row).events, h \in history[t.key] : e.id = h.id
  /\ Become(p, Continue(procs[p].batch))
  /\ UNCHANGED <<vars, incidents>>

--------------------------------------------------------------------------------
(* ActivityTimeout: handleActivityTimeout *)

\* GetActivityState, and the heartbeat window: with no heartbeat the worker counts as
\* silent.  The status of the activity and of the run are not looked at.
CheckHeartbeat(p) ==
  /\ procs[p].pc = "handle"
  /\ procs[p].timer.type = "ActivityTimeout"
  /\ LET t == procs[p].timer
         arow == activities[t.key][t.act]
     IN  \/ /\ arow.status = "Absent"
            /\ Become(p, Continue(procs[p].batch))
         \/ /\ arow.status # "Absent" /\ arow.lastHeartbeat = "set"
            /\ Become(p, [pc |-> "reschedule", batch |-> procs[p].batch, timer |-> t])
         \/ /\ arow.status # "Absent"
            /\ Become(p, [pc |-> "requeue", batch |-> procs[p].batch, timer |-> t, arow |-> arow])
  /\ UNCHANGED <<vars, incidents>>

\* Still alive: the timer goes back to Redis.  It stays marked fired.
Reschedule(p) ==
  /\ procs[p].pc = "reschedule"
  /\ \/ active' = active \cup {procs[p].timer}
     \/ "redis" \in Faults /\ UNCHANGED active
  /\ Become(p, Continue(procs[p].batch))
  /\ UNCHANGED <<dbVars, workflowQueue, activityQueue, calls, incidents>>

\* AddActivityTask with the columns of the activity's row.
RequeueActivity(p) ==
  /\ procs[p].pc = "requeue"
  /\ \/ /\ procs[p].arow.taskQueue = "named"
        /\ activityQueue' =
             Append(activityQueue, [key |-> procs[p].timer.key, act |-> procs[p].timer.act])
     \/ /\ procs[p].arow.taskQueue = "empty" \/ "matching" \in Faults
        /\ UNCHANGED activityQueue
  /\ Become(p, Continue(procs[p].batch))
  /\ UNCHANGED <<dbVars, active, workflowQueue, calls, incidents>>

--------------------------------------------------------------------------------
(* WorkflowTaskTimeout: handleWorkflowTaskTimeout *)

\* The run is closed, or something has been recorded since the task was started, though not
\* necessarily by its worker: the timeout is ignored.
Progressed(t, row) == row.status # "Running" \/ row.next > t.event + 1

CheckProgress(p) ==
  /\ procs[p].pc = "handle"
  /\ procs[p].timer.type = "WorkflowTaskTimeout"
  /\ LET t == procs[p].timer
         row == GetWorkflowExecution(t.key)
     IN  Become(p, IF row.status = "Absent" \/ Progressed(t, row)
                   THEN Continue(procs[p].batch)
                   ELSE [pc |-> "wake", batch |-> procs[p].batch, timer |-> t,
                         taskQueue |-> row.taskQueue])
  /\ UNCHANGED <<vars, incidents>>

\* AddWorkflowTask, after TimerFired and for a silent workflow worker.
WakeWorkflow(p) ==
  /\ procs[p].pc = "wake"
  /\ \/ /\ procs[p].taskQueue = "named"
        /\ workflowQueue' =
             Append(workflowQueue, [key |-> procs[p].timer.key, act |-> NoActivity])
     \/ /\ procs[p].taskQueue = "empty" \/ "matching" \in Faults
        /\ UNCHANGED workflowQueue
  /\ Become(p, Continue(procs[p].batch))
  /\ UNCHANGED <<dbVars, active, activityQueue, calls, incidents>>

\* GetWorkflowExecution or GetActivityState fails, or the update does: the timer is
\* given up.
HandleFails(p) ==
  /\ "database" \in Faults
  /\ procs[p].pc \in {"handle", "fire"}
  /\ Become(p, Continue(procs[p].batch))
  /\ UNCHANGED <<vars, incidents>>

--------------------------------------------------------------------------------
(* nextWaitDuration: the earliest timer is claimed to learn its fire time, and put *)
(* back; then the loop sleeps.                                                     *)

PeekNext(p) ==
  /\ procs[p].pc = "peek"
  /\ \E t \in active :
       /\ active' = active \ {t}
       /\ \/ Become(p, [pc |-> "peeked", timer |-> t])
          \/ "redis" \in Faults /\ Become(p, Idle)
  /\ UNCHANGED <<dbVars, workflowQueue, activityQueue, calls, incidents>>

\* The set is empty, or nothing in it is due within maxIdleWait.
NothingToPeek(p) ==
  /\ procs[p].pc = "peek"
  /\ Become(p, Idle)
  /\ UNCHANGED <<vars, incidents>>

\* If GetTimerByID finds nothing or fails, or Redis refuses, the timer is not put back.
PutBack(p) ==
  /\ procs[p].pc = "peeked"
  /\ \/ procs[p].timer \in timers /\ active' = active \cup {procs[p].timer}
     \/ /\ procs[p].timer \notin timers \/ "redis" \in Faults \/ "database" \in Faults
        /\ UNCHANGED active
  /\ Become(p, Idle)
  /\ UNCHANGED <<dbVars, workflowQueue, activityQueue, calls, incidents>>

--------------------------------------------------------------------------------
(* scavenge: what Postgres says is not fired is added to Redis *)

Scavenge(p) ==
  /\ Scavenging
  /\ procs[p].pc = "idle"
  /\ GetNonFiredTimers # {}
  /\ Become(p, [pc |-> "rebuild", timers |-> GetNonFiredTimers])
  /\ UNCHANGED <<vars, incidents>>

RebuildFromDB(p) ==
  /\ procs[p].pc = "rebuild"
  /\ \/ active' = active \cup procs[p].timers
     \/ "redis" \in Faults /\ \E S \in SUBSET procs[p].timers : active' = active \cup S
  /\ Become(p, Idle)
  /\ UNCHANGED <<dbVars, workflowQueue, activityQueue, calls, incidents>>

--------------------------------------------------------------------------------
(* Incidents *)

\* A History process dies and restarts: its processor forgets what it had claimed,
\* and the calls it was serving are gone.
ProcessorCrash(p) ==
  /\ incidents < MaxIncidents
  /\ Become(p, Idle)
  /\ incidents' = incidents + 1
  /\ \E served \in SUBSET Callers :
       calls' = [c \in Callers |-> IF c \in served THEN Idle ELSE calls[c]]
  /\ UNCHANGED <<dbVars, redisVars>>

\* Redis crashes and loses its in-memory sorted set.
RedisRestart ==
  /\ incidents < MaxIncidents
  /\ active' = {}
  /\ incidents' = incidents + 1
  /\ UNCHANGED <<dbVars, workflowQueue, activityQueue, calls, procs>>

--------------------------------------------------------------------------------
Dispatch(p) ==
  \/ procs[p].pc = "dispatch" /\ \E t \in procs[p].batch : MarkTimerFired(p, t) \/ DispatchFails(p, t)
  \/ ReadExecution(p) \/ CommitFired(p) \/ FireConflicts(p)
  \/ CheckHeartbeat(p) \/ Reschedule(p) \/ RequeueActivity(p)
  \/ CheckProgress(p) \/ WakeWorkflow(p)
  \/ HandleFails(p)

\* One iteration of Run is a claim, the dispatches, the peek, and a sleep.
Run(p) ==
  \/ ClaimExpired(p) \/ NothingExpired(p)
  \/ Dispatch(p)
  \/ PeekNext(p) \/ NothingToPeek(p) \/ PutBack(p)
  \/ Scavenge(p) \/ RebuildFromDB(p)

HistoryStep == Next /\ UNCHANGED <<procs, incidents>>

TimerNext ==
  \/ HistoryStep
  \/ \E p \in Processors : Run(p) \/ ProcessorCrash(p)
  \/ RedisRestart

TimerSpec == TimerInit /\ [][TimerNext]_timerVars
================================================================================
