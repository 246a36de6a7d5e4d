----------------------------- MODULE TimerProperties -----------------------------
(***************************************************************************)
(* What the timer processors promise, together with the handlers they      *)
(* share the tables with: first what holds, then what the documentation    *)
(* says and the code does not keep.                                        *)
(***************************************************************************)
EXTENDS TimerProcessor, HistoryProperties

OfType(S, k, type) == {t \in S : t.key = k /\ t.type = type}

ProcessorsAt(pcs) == {p \in Processors : procs[p].pc \in pcs}

--------------------------------------------------------------------------------
(* The event store with processors beside the handlers *)

\* A processor, too, commits against the row as it is now whenever the version it read
\* is still current.
ProcessorSnapshotCurrent ==
  \A p \in ProcessorsAt({"fire"}) :
    LET now == executions[procs[p].timer.key]
        read == procs[p].row
    IN  /\ read.status # "Absent"
        /\ read.version <= now.version
        /\ read.version = now.version => read = now

TimersSeen ==
  timers \cup active \cup fired
  \cup (UNION {procs[p].batch : p \in {q \in Processors : "batch" \in DOMAIN procs[q]}})
  \cup {procs[p].timer : p \in {q \in Processors : "timer" \in DOMAIN procs[q]}}
  \cup (UNION {procs[p].timers : p \in ProcessorsAt({"rebuild"})})
  \cup (UNION {calls[c].timers : c \in {d \in Callers : calls[d].pc = "publish"}})
  \cup UNION {calls[c].txn.timers : c \in {d \in Callers : calls[d].pc = "update"}}

\* Nothing arms a WorkflowTimeout timer, so no run is ever TimedOut.
NoRunTimeout == \A t \in TimersSeen : t.type # "WorkflowTimeout"

Batching == {"dispatch", "handle", "fire", "reschedule", "requeue", "wake"}

\* What a processor holds has a row in Postgres.  The timer it handles is marked fired, has
\* left the batch, and is of the type its handler is for.
TimersKnown ==
  /\ fired \subseteq timers
  /\ \A p \in ProcessorsAt(Batching) : procs[p].batch \subseteq timers
  /\ \A p \in ProcessorsAt(Batching \ {"dispatch"}) : procs[p].timer \in fired \ procs[p].batch
  /\ \A p \in ProcessorsAt({"fire"}) : procs[p].timer.type = "UserTimer"
  /\ \A p \in ProcessorsAt({"peeked"}) : procs[p].timer \in timers
  /\ \A p \in ProcessorsAt({"rebuild"}) : procs[p].timers \subseteq timers

\* The history stays contiguous, and the status the outcome it records, while the
\* processors append TimerFired events beside the handlers, to closed runs as well
\* (processExecutionTimer does not look at the status); and the timers, wherever they
\* are, are those the history armed.
TimerInv ==
  /\ TimerTypeOK
  /\ HistoryInv
  /\ FitInv
  /\ ProcessorSnapshotCurrent
  /\ TimersKnown
  /\ NoRunTimeout

\* A closed run can still receive TimerFired events, and nothing else: its outcome, its
\* activities and its timers are final, although a processor that read the row while
\* it was Running writes all of its columns back.
OnlyFiresIfClosed ==
  \A k \in Keys : executions[k].status \in ClosedStatuses =>
    /\ executions'[k].status = executions[k].status
    /\ activities'[k] = activities[k]
    /\ {t \in timers' : t.key = k} = {t \in timers : t.key = k}
    /\ \A e \in history'[k] \ history[k] : e.type = "TimerFired"

ClosedOnlyFires == [][OnlyFiresIfClosed]_timerVars

--------------------------------------------------------------------------------
(* Firing *)

FiringOf(k) ==
  {p \in ProcessorsAt({"handle", "fire"}) :
     procs[p].timer.key = k /\ procs[p].timer.type = "UserTimer"}

\* "You can safely scale out the number of services running the Timer Processor"
\* (README): however many processors claim at once, crash and lose replies, a user
\* timer is recorded as fired at most once.
FiredOnce ==
  \A k \in Keys :
    Cardinality(EventsOf(k, {"TimerFired"})) + Cardinality(FiringOf(k))
      <= Cardinality(OfType(fired, k, "UserTimer"))

WakingOf(k) == {p \in ProcessorsAt({"wake"}) : procs[p].timer.key = k}
RequeueingOf(k) == {p \in ProcessorsAt({"requeue"}) : procs[p].timer.key = k}

\* Every task answers to something: a workflow task to an event its worker must react
\* to, a TimerFired among them, or to a workflow-task timeout; an activity task to its
\* scheduling or to an activity timeout.  A conflict or a crash pushes none twice.
TasksJustified ==
  \A k \in Keys :
    /\ Queued(workflowQueue, k) + Cardinality(Unpushed("workflow", k)) + Cardinality(WakingOf(k))
         <= Cardinality(Wakings(k)) + Cardinality(EventsOf(k, {"TimerFired"}))
            + Cardinality(OfType(fired, k, "WorkflowTaskTimeout"))
    /\ Queued(activityQueue, k) + Cardinality(Unpushed("activity", k))
         + Cardinality(RequeueingOf(k))
         <= Cardinality(EventsOf(k, {"ActivityTaskScheduled"}))
            + Cardinality(OfType(fired, k, "ActivityTimeout"))

\* The timers a call has still to add to Redis, those a processor has claimed and not
\* disposed of, and with those in Redis all that can still be handled.
InCall(c) == IF calls[c].pc = "publish" THEN calls[c].timers ELSE {}

Claimed(p) ==
  (IF procs[p].pc \in Batching THEN procs[p].batch ELSE {})
  \cup (IF procs[p].pc \in {"handle", "fire", "reschedule", "peeked"} THEN {procs[p].timer} ELSE {})

Pending ==
  active \cup (UNION {InCall(c) : c \in Callers}) \cup UNION {Claimed(p) : p \in Processors}

\* A timer of this type is in one place at a time.
OnePlace(type) ==
  /\ \A t \in active : t.type = type =>
       (\A c \in Callers : t \notin InCall(c)) /\ (\A p \in Processors : t \notin Claimed(p))
  /\ \A c \in Callers : \A t \in InCall(c) : t.type = type =>
       /\ \A d \in Callers \ {c} : t \notin InCall(d)
       /\ \A p \in Processors : t \notin Claimed(p)
  /\ \A p \in Processors : \A t \in Claimed(p) : t.type = type =>
       \A q \in Processors \ {p} : t \notin Claimed(q)

\* Timers of a run that were fired and will not be handled any more.
Spent(k, type) == {t \in OfType(fired, k, type) : t \notin Pending}

Firings(k) == EventsOf(k, {"TimerFired"})

\* Behind FiredOnce and the workflow tasks: as long as no scavenger puts a fired timer back,
\* a user timer is spent before its event is written, which no handler writes, and a task
\* timeout before it wakes.
FiringInv ==
  /\ ProcessorsAt({"rebuild"}) = {}
  /\ \A c \in Callers : calls[c].pc = "update" =>
       \A e \in calls[c].txn.events : e.type # "TimerFired"
  /\ OnePlace("UserTimer") /\ OnePlace("WorkflowTaskTimeout")
  /\ \A k \in Keys :
       /\ Cardinality(Firings(k)) <= Cardinality(Spent(k, "UserTimer"))
       /\ Queued(workflowQueue, k) + Cardinality(Unpushed("workflow", k)) + Cardinality(WakingOf(k))
            <= Cardinality(Wakings(k)) + Cardinality(Firings(k))
               + Cardinality(Spent(k, "WorkflowTaskTimeout"))

\* Behind the activity tasks, while no heartbeat brings a timer back that is being handled.
RequeueInv ==
  /\ OnePlace("ActivityTimeout")
  /\ \A c \in Callers :
       /\ calls[c].pc # "peek"
       /\ calls[c].pc = "read" => calls[c].rpc # "RecordActivityTaskHeartbeat"
       /\ calls[c].pc = "update" => calls[c].then # "peek"
  /\ \A k \in Keys :
       Queued(activityQueue, k) + Cardinality(Unpushed("activity", k)) + Cardinality(RequeueingOf(k))
         <= Cardinality(EventsOf(k, {"ActivityTaskScheduled"}))
            + Cardinality(Spent(k, "ActivityTimeout"))

--------------------------------------------------------------------------------
(* What is said and not kept *)

\* "alt User Timer ... Append Event (e.g., TimerFired)" (README): when the processors
\* are done with the user timers of a running run, its history tells of each.
FiredTimerIsRecorded ==
  \A k \in Keys : executions[k].status = "Running" =>
    Cardinality(OfType(fired, k, "UserTimer"))
      <= Cardinality(EventsOf(k, {"TimerFired"})) + Cardinality(FiringOf(k))
================================================================================
