--------------------------- MODULE HistoryProperties ---------------------------
(***************************************************************************)
(* What the handlers of the History service promise.  The event history of *)
(* a run is its source of truth (workers replay it), so most properties    *)
(* say that another piece of state agrees with it.                         *)
(***************************************************************************)
EXTENDS HistoryService

Started(k) == executions[k].status # "Absent"

EventsOf(k, types) == {e \in history[k] : e.type \in types}

--------------------------------------------------------------------------------
(* The history *)

\* The event ids of a run are exactly 1 .. next_event_id - 1, one event each: no
\* interleaving of handlers loses, overwrites or skips an event (the optimistic
\* concurrency check of UpdateWorkflowExecution).
EventIDsContiguous ==
  \A k \in Keys :
    /\ {e.id : e \in history[k]} = 1 .. executions[k].next - 1
    /\ \A e, f \in history[k] : e.id = f.id => e = f

\* A handler whose expected version still matches when it commits has read the row
\* as it is now: a version number never stands for two different rows, although
\* the handler read it several statements earlier.
SnapshotCurrent ==
  \A c \in Callers : calls[c].pc \in {"read", "update"} =>
    LET now == executions[calls[c].key]
        read == calls[c].row
    IN  /\ read.version <= now.version
        /\ read.version = now.version => read = now

\* The status column tells the outcome the history records: a run is Completed or
\* Failed exactly when an event says so, and no two racing closers both succeed.
Outcome ==
  [WorkflowExecutionCompleted |-> "Completed", WorkflowExecutionFailed |-> "Failed"]

StatusMatchesHistory ==
  \A k \in Keys : Started(k) =>
    LET outcomes == {Outcome[e.type] : e \in EventsOf(k, DOMAIN Outcome)}
    IN  outcomes = IF executions[k].status = "Running" THEN {} ELSE {executions[k].status}

\* What a handler is about to write fits what it has read: the new events are numbered
\* from next_event_id without gap or duplicate, next_event_id moves past them, and the
\* new status is the outcome they record.  Only a Running row is ever written.
FitsRow(row, txn) ==
  /\ row.next <= txn.next
  /\ {e.id : e \in txn.events} = row.next .. txn.next - 1
  /\ \A e, f \in txn.events : e.id = f.id => e = f
  /\ txn.status # "Absent"
  /\ {Outcome[e.type] : e \in {f \in txn.events : f.type \in DOMAIN Outcome}}
       = IF txn.status = "Running" THEN {} ELSE {txn.status}

TransactionsFit ==
  /\ \A c \in Callers : calls[c].pc \in {"read", "update"} => calls[c].row.status = "Running"
  /\ \A c \in Callers : calls[c].pc = "update" =>
       /\ FitsRow(calls[c].row, calls[c].txn)
       /\ \A t \in calls[c].txn.timers : t.key = calls[c].key

AbsentIsEmpty ==
  \A k \in Keys : executions[k].status = "Absent" => executions[k] = NoExecution

NextPositive == \A k \in Keys : executions[k].next >= 1

\* The inductive invariant behind the properties of the history.
HistoryInv ==
  /\ TypeOK
  /\ AbsentIsEmpty
  /\ NextPositive
  /\ TransactionsFit
  /\ SnapshotCurrent
  /\ EventIDsContiguous
  /\ StatusMatchesHistory

\* Once a run is closed no handler changes its row, history, activities or timers,
\* not even one that read the row while it was still Running.
FrozenIfClosed ==
  \A k \in Keys : executions[k].status \in ClosedStatuses =>
    /\ executions'[k] = executions[k]
    /\ history'[k] = history[k]
    /\ activities'[k] = activities[k]
    /\ {t \in timers' : t.key = k} = {t \in timers : t.key = k}

ClosedIsFrozen == [][FrozenIfClosed]_vars

\* The event store implements the abstract log: each commit is one atomic batch.
Log == INSTANCE WorkflowLog WITH
  OutcomeOf <- Outcome,
  status    <- [k \in Keys |-> executions[k].status],
  length    <- [k \in Keys |-> executions[k].next - 1],
  log       <- history

ImplementsLog == Log!Spec

--------------------------------------------------------------------------------
(* Activity rows *)

StatusAfter ==
  [ActivityTaskScheduled     |-> "Scheduled",
   ActivityTaskStarted       |-> "Started",
   ActivityTaskCompleted     |-> "Completed",
   ActivityTaskFailed        |-> "Failed",
   ActivityTaskFailedFinally |-> "Failed"]

About(events, a) == {e \in events : e.act = a}

Before(events, n) == {e \in events : e.id < n}

ResetTypes == {"ActivityTaskScheduled", "ActivityTaskStarted", "ActivityTaskCompleted"}

\* The retryable failures of activity a since its attempt count was last reset.
Retries(events, a) ==
  {e \in About(events, a) :
     /\ e.type = "ActivityTaskFailed"
     /\ \A r \in About(events, a) : r.type \in ResetTypes => r.id < e.id}

\* The row is the one these events leave behind: its status is that of the last event
\* about the activity, and its attempt one more than the retries since the last reset.
RowFollows(events, a, row) ==
  IF About(events, a) = {} THEN row = NoActivityState
  ELSE /\ \E e \in About(events, a) : /\ \A f \in About(events, a) : f.id <= e.id
                                      /\ row.status = StatusAfter[e.type]
       /\ row.attempt = 1 + Cardinality(Retries(events, a))

\* An activity's row agrees with its history.  A handler reads the activity after the
\* execution row, so a report that slips in between must not be overwritten.
ActivityMatchesHistory ==
  \A k \in Keys, a \in Activities : RowFollows(history[k], a, activities[k][a])

RetriesWithinLimit(events) ==
  \A e \in events :
    LET retries == Cardinality(Retries(Before(events, e.id), e.act))
    IN  /\ e.type = "ActivityTaskFailed" => retries < MaxActivityAttempts - 1
        /\ e.type = "ActivityTaskFailedFinally" => retries = MaxActivityAttempts - 1

\* A failure is retried while fewer than MaxActivityAttempts - 1 retries precede it,
\* and is final exactly after that many, however the failures of duplicated and late
\* reports interleave.
RetriesBounded == \A k \in Keys : RetriesWithinLimit(history[k])

SoundActivities(events, rows) ==
  /\ RetriesWithinLimit(events)
  /\ \A a \in Activities : /\ RowFollows(events, a, rows[a])
                           /\ rows[a].attempt <= MaxActivityAttempts

Upserted(rows, upserts) ==
  [a \in Activities |-> IF upserts[a].status = "Absent" THEN rows[a] ELSE upserts[a]]

\* The inductive invariant of activities.  A transaction that can still be committed was
\* computed from the activity rows as they are now, and leaves them sound.
ActivityInv ==
  /\ \A k \in Keys : SoundActivities(history[k], activities[k])
  /\ \A c \in Callers :
       LET cl == calls[c]
       IN  cl.pc = "update" /\ cl.row.version = executions[cl.key].version =>
             SoundActivities(history[cl.key] \cup cl.txn.events,
                             Upserted(activities[cl.key], cl.txn.upserts))

--------------------------------------------------------------------------------
(* Timers and tasks *)

TimerArmedBy ==
  [WorkflowTaskStarted   |-> "WorkflowTaskTimeout",
   TimerStarted          |-> "UserTimer",
   ActivityTaskScheduled |-> "ActivityTimeout",
   ActivityTaskFailed    |-> "ActivityTimeout"]

Armed(k, events) ==
  {[key |-> k, event |-> e.id, type |-> TimerArmedBy[e.type], act |-> e.act] :
     e \in {f \in events : f.type \in DOMAIN TimerArmedBy}}

\* The timeout of an activity names the activity whose row it will be checked against.
TimeoutsNamed(T) == \A t \in T : t.type = "ActivityTimeout" => t.act \in Activities

\* The timers of a run are exactly those its history armed, and Redis holds no timer
\* that Postgres does not: a timer that is claimed can always be looked up.
TimersMatchHistory ==
  /\ timers = UNION {Armed(k, history[k]) : k \in Keys}
  /\ active \subseteq timers
  /\ TimeoutsNamed(timers)

\* The events after which a worker has something new to decide.
WakingTypes ==
  {"WorkflowExecutionStarted", "WorkflowExecutionSignaled",
   "ActivityTaskCompleted", "ActivityTaskFailedFinally"}

Wakings(k) == EventsOf(k, WakingTypes)

\* The events that call for a task of each kind.
CallsFor == [workflow |-> WakingTypes, activity |-> {"ActivityTaskScheduled"}]

Kinds == DOMAIN CallsFor

Queue(kind) == IF kind = "workflow" THEN workflowQueue ELSE activityQueue

Queued(queue, k) == Cardinality({i \in DOMAIN queue : queue[i].key = k})

\* Tasks of a run that calls in flight have yet to push.
Unpushed(kind, k) ==
  UNION {{t \in calls[c].tasks : t.kind = kind /\ t.key = k} :
           c \in {d \in Callers : calls[d].pc = "publish"}}

\* A worker is never woken for an event that is not in the history: every task in a
\* queue, or about to be pushed to it, answers to an event of its own, in spite of
\* failed and unacknowledged commits, retries and crashes.
NoPhantomTask ==
  \A k \in Keys, kind \in Kinds :
    Queued(Queue(kind), k) + Cardinality(Unpushed(kind, k))
      <= Cardinality(EventsOf(k, CallsFor[kind]))

\* Without faults, and for a run started with a task queue, each event a worker must
\* react to has its task, each scheduled activity its activity task and each timer
\* row its Redis entry, pushed already or held by a call in flight.
EveryEventAnnounced ==
  /\ \A k \in Keys, kind \in Kinds : executions[k].taskQueue = "named" =>
       Queued(Queue(kind), k) + Cardinality(Unpushed(kind, k))
         = Cardinality(EventsOf(k, CallsFor[kind]))
  /\ timers = active \cup UNION {calls[c].timers : c \in {d \in Callers : calls[d].pc = "publish"}}

\* One task for each event that calls for one, and no other.
TasksFit(k, events, tasks) ==
  /\ \A t \in tasks : t.key = k /\ \E e \in events : e.id = t.event /\ e.type \in CallsFor[t.kind]
  /\ \A kind \in Kinds : \A e \in events : e.type \in CallsFor[kind] =>
       \E t \in tasks : t.kind = kind /\ t.event = e.id
  /\ \A t, u \in tasks : t.kind = u.kind /\ t.event = u.event => t = u

\* What a handler will commit arms the timers and prepares the tasks that its events call
\* for; what it has committed and still has to publish is about events of the history,
\* and no two calls have the same task in hand.
EffectsFit ==
  /\ \A c \in Callers : calls[c].pc = "update" =>
       /\ calls[c].txn.timers = Armed(calls[c].key, calls[c].txn.events)
       /\ TimeoutsNamed(calls[c].txn.timers)
       /\ TasksFit(calls[c].key, calls[c].txn.events, calls[c].txn.tasks)
  /\ \A c \in Callers : calls[c].pc = "publish" =>
       /\ calls[c].timers \subseteq timers
       /\ \A t \in calls[c].tasks :
            \E e \in EventsOf(t.key, CallsFor[t.kind]) : e.id = t.event
  /\ \A c, d \in Callers : calls[c].pc = "publish" /\ calls[d].pc = "publish" =>
       \A t \in calls[c].tasks, u \in calls[d].tasks :
         t.kind = u.kind /\ t.key = u.key /\ t.event = u.event => c = d /\ t = u

\* The inductive invariant of timers and tasks, FitInv with timer processors beside the
\* handlers as well.
FitInv == EffectsFit /\ TimersMatchHistory

EffectInv == FitInv /\ NoPhantomTask

\* The inductive invariant behind EveryEventAnnounced.  A heartbeat decides nothing, and
\* no task of a run that was started with a task queue lacks one.
AnnounceInv ==
  /\ EveryEventAnnounced
  /\ \A c \in Callers : calls[c].pc = "update" =>
       /\ calls[c].then = "peek" => calls[c].txn.events = {}
       /\ calls[c].row.taskQueue = "named" => \A t \in calls[c].txn.tasks : t.taskQueue = "named"
  /\ \A c \in Callers : calls[c].pc = "publish" =>
       \A t \in calls[c].tasks : executions[t.key].taskQueue = "named" => t.taskQueue = "named"

\* Without faults, whatever has been decided is eventually announced: as many
\* workflow tasks are pushed as there are events to react to, and every timer
\* of the run reaches Redis.
EventuallyAnnounced ==
  \A k \in Keys :
    /\ \A n \in 1 .. MaxVersion :
         (executions[k].taskQueue = "named" /\ Cardinality(Wakings(k)) >= n)
           ~> Queued(workflowQueue, k) >= n
    /\ \A n \in 1 .. 3 * MaxVersion :
         (\E t \in timers : t.key = k /\ t.event = n) ~> (\E t \in active : t.key = k /\ t.event = n)

--------------------------------------------------------------------------------
(* Duplicate starts *)

\* "workflow %q is already running": a workflow_id has at most one Running run.
AtMostOneRunning ==
  \A w \in WorkflowIds : Cardinality(FindRunningWorkflow(w)) <= 1
================================================================================
