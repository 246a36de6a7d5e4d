# TLA+ models of Mini-Workflow

Mini-Workflow is a small workflow engine in the manner of Temporal: clients start
and signal workflows, workers poll for tasks and report back, and everything that
happens to a run is an event in its history, from which workers replay it. This
directory models the engine in TLA+, checks it with TLC and proves its main properties
with TLAPS. File paths below are relative to the repository's `src/`.

## 1. Inventory

| Component | State it keeps | Operations | What makes it correct |
|---|---|---|---|
| **Event store** (`history/internal/adapters/postgres`, `db/migrations`) | four tables: `workflow_executions` (status, version, next event id), `history_events`, `activity_states`, `timers` | single SELECTs; two transactions, `CreateWorkflowExecution` and `UpdateWorkflowExecution`, the latter with a version check | event ids are 1, 2, 3, ...; status and activity rows agree with the history; nothing is half written |
| **History RPC handlers** (`history/internal/service/record_*.go`, `signal_*.go`) | none of their own; locals between two statements | start, workflow task started / completed / failed, activity task started / completed / failed / heartbeat, signal; two read-only queries | concurrent handlers serialise per run; a closed run is never written; attempts are counted exactly; what a commit decides is published once |
| **Timer processor** (`timer_processor.go`) | sleep loop, ticker | claim, dispatch four timer types, peek, scavenge | every timer fires, once; the loop sleeps when there is nothing to do, and no longer |
| **Timer store** (`history/internal/adapters/redis`) | sorted set `timers:active_set`, channel `timers:wakeup_channel` | ScheduleTimer, ClaimExpired, Subscribe, RebuildFromDB | a timer is claimed by one processor; an earlier timer wakes the sleeper |
| **Matching** (`matching/`) | one Redis list per task queue and kind | AddWorkflowTask, AddActivityTask (LPUSH), two polls (BRPOP) | FIFO, each task to one poller, nobody waits for a task that is there |
| **Frontend** (`frontend/`) | none | forwards requests, encodes and decodes task tokens, maps errors | the token of a poll comes back to the same run and activity |
| **Workers, clients** | not in the repository | | |
| configuration, logging, generated code, mocks, migration tool | none of interest | | |

**Interaction.** A client or worker calls Frontend, which calls History or Matching
over gRPC, each call a goroutine. A History handler reads rows, commits one
transaction, then adds timers to Redis and tasks to Matching. The timer processor runs
beside the handlers in the same process, claims timers from Redis, commits
to the same rows and pushes to the same queues. Handlers share nothing in memory: all
coordination is the version column of `workflow_executions`.

**What is hard.**

- *Interleaving and stale reads.* A handler reads the run, may read an activity
  in a second statement, and writes in a third. Processors do the same.
- *Atomicity and partial failure.* Effects on Redis and Matching come after the commit,
  one at a time, and their failure is only logged. A commit may succeed and its reply be
  lost. Scheduling a timer is three Redis commands.
- *Crashes.* Nothing remembers an effect that was still to be published.
- *Protocol sequences.* No handler looks at an activity's status; late and repeated
  reports are accepted while the run is Running.
- *Timers.* Marked fired before they are handled; peeked by being claimed; the
  watchdogs decide from rows that may have moved on.
- *Lost tasks.* BRPOP removes a task before the worker has it, and a poll that has lost
  its caller goes on waiting in Redis.
- *Deadlines.* A worker whose report timed out does not know whether it was recorded.

Each of these is listed at its line in `PROJECT.json` ("hazards"), with the properties
that would catch it going wrong.

## 2. Modules

| Module | Models | Builds on |
|---|---|---|
| `ExecutionRepository` | the tables and the statements of `repository.go` | |
| `HistoryService` | the RPC handlers, the publication of their effects, faults and crashes | `ExecutionRepository` |
| `HistoryProperties` | their properties, and the refinement mapping to `WorkflowLog` | `HistoryService` |
| `WorkflowLog` | abstract: one append-only log per run, opened once, closed once | |
| `TimerProcessor` | the timer processors beside the handlers, without time | `HistoryService` |
| `TimerProperties` | what the two promise together | `TimerProcessor`, `HistoryProperties` |
| `HistoryReaders` | the two read-only handlers, beside everything that writes | `TimerProperties` |
| `SmartSleep` | the sleep loop, the sorted set and the wake-up channel, with a clock | |
| `SleepProperties` | no timer overslept, lost or left unserved | `SmartSleep` |
| `Matching` | the Matching service: lists, blocked polls, deadlines, crashes | |
| `TaskBroker` | abstract: a queue that hands each task out at most once | |
| `MatchingProperties` | the properties, and the refinement mapping to `TaskBroker` | `Matching` |
| `TaskTokens` | the three encodings of the ids of a task | |
| `Frontend` | clients, workers and the Frontend handlers, composed with History, the processors and the queues | `TimerProcessor`, `TaskTokens` |
| `FrontendProperties` | what clients and workers get from the whole | `Frontend`, `TimerProperties` |
| `MCHistory`, `MCTimers`, `MCReaders`, `MCSleep`, `MCMatching`, `MCFrontend` | values for TLC | |
| `HistoryInvariantProofs` | types and transactions, the history is exact, a closed run is frozen, the store implements the log | `HistoryProperties` |
| `HistoryEffectProofs` | timers and tasks against the history | `HistoryInvariantProofs` |
| `HistoryActivityProofs` | activity rows and retries against the history | `HistoryEffectProofs` |
| `TimerProofs` | processors and readers beside the handlers | `HistoryReaders`, `HistoryEffectProofs` |
| `FiringProofs` | what a processor does once | `TimerProofs` |
| `SleepProofs` | the sleep loop | `SleepProperties` |
| `MatchingProofs` | Matching | `MatchingProperties` |
| `FrontendProofs` | clients and workers on top of History and the processors | `FrontendProperties`, `FiringProofs` |

Each definition is mapped to its source lines in `PROJECT.json` ("map").

### History: `ExecutionRepository`, `HistoryService`

`executions`, `history`, `activities`, `timers` and `fired` are the tables, one entry per
run (a `workflow_id` and a `run_id`; the namespace is always `"default"`). `active` is the
sorted set in Redis, without scores; `workflowQueue` and `activityQueue` are the Redis
lists of tasks, in the order pushed. `calls` holds, for each concurrent gRPC call, the
live locals of its handler and its program counter:

    idle -> insert ------------------------------> publish ... -> idle   (start)
    idle -> update ------------------------------> publish ... -> idle   (most handlers)
    idle -> read -> update ----------------------> publish ... -> idle   (activity completed, failed)
    idle -> read -> update -> peek --------------> publish ... -> idle   (heartbeat)

- *First step.* The action named after the handler (`SignalWorkflowExecution`, ...):
  reads the run's row, returns if it is not Running, and keeps the row. A handler that
  does not read any further row already has its whole transaction (`...Txn`) here, since
  it is computed from that row and the request alone.
- `GetActivityState` is the second read of the three activity reports.
- `CommitUpdate` / `InsertExecution` are the transactions. `UpdateWorkflowExecution`
  succeeds only if the version is the one that was read and no event id is taken;
  otherwise `RollbackUpdate` returns an error. With the fault `database` the commit may
  also happen and the handler not learn of it, and `StatementFails` makes any statement fail.
- `ScheduleTimer` and `AddTask` publish one effect each, timers first, in the order of
  the commands. They may fail (faults `redis`, `matching`) and the handler goes on.
  `AddTask` includes the refusal of an empty task queue by Matching.
- `Crash` forgets all calls in flight; tables and Redis survive.

A handler that refuses a request writes nothing, so refusals are not steps here.

### Timers: `TimerProcessor`

Each processor has a program counter and its locals in `procs`:

    idle -> dispatch -> handle -> fire -> wake -> ...          user timer
                               -> reschedule | requeue -> ...  activity watchdog
                               -> wake -> ...                  workflow-task watchdog
         ... until the batch is empty -> peek -> peeked -> idle
    idle -> rebuild -> idle                                    scavenger

`MarkTimerFired` comes before the handling, as in `dispatch`; the update of a fired
timer is the same `UpdateWorkflowExecution` the handlers use, with a row read in a step
before, so it may conflict (`FireConflicts`). Time is left out: a timer in Redis may be due
at any step, and a heartbeat may or may not still be fresh; every outcome of the clock is
therefore a behaviour. `ProcessorCrash` kills a History process, with its processor and any
of the calls; `RedisRestart` empties the sorted set.

### Sleep: `SmartSleep`

Here the clock `now` is explicit and every Redis command a step: `ScheduleTimer` is ZADD,
then ZRANGE, then PUBLISH if the timer is the earliest, by a handler (`schedules`) or by a
processor that puts a timer back (`procs`). `messages` is what a subscriber has not read
yet; `token` is the one-place channel on which `Subscribe` coalesces wake-ups. What firing
does is left to `TimerProcessor`; a watchdog whose activity is alive is rescheduled
(`Dispatch`). Faults: a failing command, a message that reaches nobody, a failing SELECT,
the death of a process, a restart of Redis. The horizon of the scavenger and of the sleep,
one hour, is longer than any time the model reaches, and is left out.

### Matching: `Matching`, `TaskBroker`

`adds` is each AddTask request, `lists` the Redis lists, `blocked` the queue of clients
Redis keeps for each list, `polls` the poll handlers. `Push` is LPUSH with what Redis does:
the longest-blocked client gets the task. `PollTaskQueue` is BRPOP, which pops or blocks.
`CallerGivesUp` is the deadline of the caller, which is of the same length as
Matching's own and started earlier (`frontend/internal/interceptor/timeout.go`): the
BRPOP stays, and what it pops is lost (`ReplyIsLost`). `MatchingCrash` takes handlers and
blocked clients with it, not the lists.

`TaskBroker` knows none of this: tasks are put, taken in order, received, refused or lost.

### The whole: `TaskTokens`, `Frontend`, `HistoryReaders`

`TaskTokens` has the three encodings a task's ids go through: the JSON Matching makes, the
base64 token Frontend makes for the worker, and the JSON History reads, each with
its own field names and defaults. A token is a function from field names to ids.

`Frontend` closes the environment. Workers (`sessions`) poll, are given a history, decide
by the constant `Decide`, and report with the token they hold; clients start and signal.
Each request runs the handler of `HistoryService` under the caller's name, and its end
(`Handled`) is the reply, OK or an error. `DeadlineExceeded` is the timeout of Frontend's
client: the worker has an error while History goes on; then it repeats its report or, if
not `Persistent`, drops it. A poll pops the queues directly; how it waits is
the subject of `Matching`. `WorkerDies`, `FrontendDies` and `HistoryDies` are the deaths.
`Frontend` never records the start of a task, as in the code.

`HistoryReaders` adds readers whose SELECT runs between any two steps of the others.

### Abstractions

- Payloads, results, reasons, inputs and timestamps are left out. No handler decides
  anything from them. A payload the JSONB columns refuse is a failing statement.
- A task queue name is `"named"` or `"empty"` outside of `Matching`: only emptiness is
  ever tested.
- Empty workflow and run ids are left out; Matching would refuse a task with one, as it
  refuses an empty queue name.
- The `final` flag of an `ActivityTaskFailed` payload is part of the event's type.
- A timer is identified by the event it was inserted with instead of a UUID: every timer
  is inserted together with exactly one event.
- `GetActivityTimeoutTimer` looks for the activity id inside the text of a `bytea`
  column, which prints as hexadecimal. Which rows match has nothing to do with the
  activity, so `HistoryService` lets it return any unfired timeout timer of the run, or
  none. `SmartSleep` takes the case that it finds its own.
- `UpdateTimerFireTime` has no effect without fire times; `SmartSleep` models it.
- A task carries the event it announces. The field is only used to keep the order of
  publication and to count; it is not part of the queued payload.
- Error codes are not told apart: a worker sees OK or an error. The router always has
  one History service to choose.

### The environment

In `HistoryService`, and so in `TimerProcessor` and `HistoryReaders`, requests come from an
open environment: at any moment any idle call may start with any request in `RPCs`, about
any run and activity, or with any command list in `Batches`. This includes everything a
correct, slow, repeated or confused worker can send, and it is why no property of these
modules may assume well-behaved workers. `RecordWorkflowTaskStarted` and
`RecordActivityTaskStarted` are part of the service's interface but Frontend never calls
them; the open environment does. In `Frontend` workers report only on what they
were given.

## 3. Properties and runs

| Run | Instance | Checks |
|---|---|---|
| `history_safety` | 1 run, 1 activity, 2 calls, all requests, all faults, `MaxVersion` 4 | `TypeOK`, `HistoryInv`, `EventIDsContiguous`, `SnapshotCurrent`, `StatusMatchesHistory`, `ActivityMatchesHistory`, `ActivityInv`, `TimersMatchHistory`, `NoPhantomTask`, `EffectInv`, `ClosedIsFrozen`, `ImplementsLog` |
| `history_reports` | 1 run, 1 activity, 2 calls, reports on the activity and signals, no faults, fair, `MaxVersion` 5 | `RetriesBounded`, `EveryEventAnnounced`, `EventuallyAnnounced` |
| `timer_safety` | 1 run, 1 call, 1 processor, every kind of timer, scavenger, database, Redis and Matching faults, 1 incident, `MaxVersion` 3 | `TimerInv`, `ClosedOnlyFires` |
| `timers_and_readers` | 1 run, 1 call, 2 processors, 1 reader, database faults, 1 incident, no scavenger, no heartbeats | `FiredOnce`, `FiringInv`, `TasksJustified`, `RequeueInv`, `ViewsArePrefixes` |
| `sleep_safety` | 2 timers, one a watchdog, 2 processors, no faults, no heartbeats | `SleepTypeOK`, `EarlierTimerWakes`, `NoTimerLost` |
| `timers_served` | 2 timers, one a watchdog with heartbeats, 1 processor, every fault, 2 incidents, fair | `EventuallyServed` |
| `matching_tasks` | 3 tasks, 2 polls, both kinds, every fault, 2 lost callers, fair | `MatchingInv`, `NobodyWaits`, `LossAccounted`, `TasksMatchPolls`, `InOnePlace`, `ImplementsBroker`, `EventuallyReceived` |
| `workflow_faults` | 1 run, 1 workflow worker, 2 activity workers, every worker request, database and Matching faults, 1 incident | `FrontendTypeOK`, `ReportsReachTheirTask`, `AcknowledgedIsDecided`, `SessionInv` |
| `workflow_completes` | 1 run, 1 worker of each kind, 1 client, an activity beside a timer, 1 signal, fair | `ScheduledOnce`, `NoWakeupForgotten`, `EventuallyCompletes` |
| `duplicate_start` | 1 workflow, 2 run ids, 2 calls | `AtMostOneRunning`, **violated** |
| `timer_lost_on_conflict` | 1 run, 1 call, 1 processor, signals and a user timer | `FiredTimerIsRecorded`, **violated** |
| `never_asleep` | 2 timers, 1 processor, no faults, fair | `EventuallyUndisturbed`, **violated** |

All runs but `matching_tasks` set `CHECK_DEADLOCK FALSE`, because the bounded system
really stops: once every row has reached `MaxVersion` or is closed, or every timer has fired
and the clock stands still, nothing is left to do. In Matching a poll can always be made.

**History.**

- `EventIDsContiguous`: the ids of a run's events are exactly `1 .. next_event_id - 1`.
- `SnapshotCurrent`: if the version a handler has read is still the row's version, the
  row is still what the handler read. This is why checking a number is enough.
- `StatusMatchesHistory`: the status column is the single outcome in the history.
- `ActivityMatchesHistory`: an activity row has the status of the last event about it
  and an attempt of one plus the retries since the count was last reset. The row is
  read after the execution row, and still no report is overwritten, because every write of
  an activity row also bumps the version of its run.
- `RetriesBounded`: an activity fails for good exactly after two retries
  (`maxActivityAttempts` is 3), whatever reports are duplicated or late.
- `TimersMatchHistory`: the rows of `timers` are exactly those the history armed, and
  Redis holds no others.
- `NoPhantomTask`: tasks never outnumber the events that justify them.
- `EveryEventAnnounced`, `EventuallyAnnounced`: without faults, the converse, as an
  invariant that counts calls in flight and as a liveness property.
- `HistoryInv`, `ActivityInv`, `EffectInv`: the inductive invariants behind
  them (section 5), checked where what they imply is.
- `ClosedIsFrozen`: a closed run is never written again by a handler.
- `ImplementsLog`: refinement of `WorkflowLog`.

**Timers.**

- `TimerInv`: the invariant of History, with processors that write too.
- `ClosedOnlyFires`: `processExecutionTimer` does not look at the status, so a closed run
  can still get a TimerFired event. It gets nothing else: a processor that read the row
  while it was Running does not reopen it, and no activity or timer of it changes.
- `FiredOnce`: processors that claim at once, crash and lose replies record a user timer at
  most once. With a scavenger this fails, see section 4.
- `TasksJustified`: `NoPhantomTask` with the processors' pushes counted as well. An
  activity watchdog that a heartbeat brings back while it is being handled may enqueue its
  activity twice, so the run is without heartbeats.
- `FiringInv`, `RequeueInv`: the inductive invariants behind the two (section 5).
- `ViewsArePrefixes`: what a reader was given is still the beginning of the history.

**Sleep.**

- `EarlierTimerWakes`: for every timer in Redis some processor is awake, sleeps no longer
  than that timer, or is about to be woken, in the middle of any three-command schedule.
- `NoTimerLost`: a timer that has not fired is in Redis, or some handler or processor has
  it in hand and will put it back.
- `EventuallyServed`: despite two faults, every timer is marked fired: the scavenger works.

**Matching.**

- `MatchingInv`: the inductive invariant (section 5).
- `InOnePlace`, `TasksMatchPolls`, `NobodyWaits`: a task is in one list once, or with one
  poll, or received; a poll gets what it asked for; no task lies in a list while a client
  is blocked on it.
- `LossAccounted`: at most one task is lost for each poll that lost its caller. This is
  the loss `README.md` (line 216) concedes, and no more than it.
- `EventuallyReceived`: a pushed task is received, or lost in that way.
- `ImplementsBroker`: refinement of `TaskBroker`.

**The whole.**

- `ReportsReachTheirTask`: a report goes to the run and activity of the task polled.
- `AcknowledgedIsDecided`: a decision that was answered OK is in the history, with all
  the events it was taken from, although reports time out, are repeated, and race.
- `SessionInv`: the inductive invariant behind the two (section 5).
- `ScheduledOnce`: with one workflow worker no decision is committed twice, or taken from a
  history without the last decision, although the version check is against the row as it
  is at the commit and not as the worker saw it. With two workflow workers it does not hold:
  two tasks of one run may be decided on side by side.
- `NoWakeupForgotten`: every event that needs a decision has a task, or is with a worker
  that has seen it or will fetch it. `DecisionInv` and `WakeupInv`, the inductive
  invariants behind the two (section 5), are proved.
- `EventuallyCompletes`: every started workflow with a task queue completes.

**Bounds.** `MaxVersion` bounds the commits of a run: a call is admitted only below it.
Version 4 gives three commits after the start, enough for two handlers to conflict, for
the loser's request to be repeated, and for the run to be closed between a read and a
write; version 5 gives schedule, two retries and a final failure. In the timer runs 3 is
enough, since it bounds the handlers only: arming each kind of timer and one more request
beside what the processors commit. Two calls suffice for every conflict: a commit
invalidates all snapshots of older versions alike. One activity is enough, since
activities of a run interact only through the version. That a statement touches no other
run is proved for all runs (section 5). Two processors suffice to claim, peek and fire
against each other; two timers to be earlier and later than one another, and `MaxTime` 1
to be due and not due. Three tasks and two polls make a queue of two behind a task in
hand, and two polls behind one list. `MaxIncidents` counts crashes and restarts; in
`timers_served` every fault counts, and two are enough for one to hit the recovery from
another. `timers_served` has one processor: two that only peek can, under weak
fairness, hand the timer to each other forever. In `workflow_completes` the history itself
is bounded by the workflow, and `MaxVersion` 20 is never reached. Interchangeable callers
and processors are symmetric in the safety runs; the liveness runs do without symmetry.

**Fairness.** `FairSpec`: weak fairness of each admitted call, whose goroutine waits for
no other. Nothing is assumed of requests. `SleepFairSpec`: weak fairness of the clock, of
each processor's steps and of the delivery of a message, and strong fairness of the
ticker's case: Go's `select` chooses at random among the cases that are ready, so a case
that is ready again and again is chosen. `MatchingFairSpec`: weak fairness of Push and of
the end of each poll, and strong fairness of polling every queue: workers poll in a loop,
and a poll slot that is free again and again is taken. `FrontendFairSpec`: weak fairness of
workers and handlers, and strong fairness of a claim and of the scavenger, since a
timer that keeps being put back in Redis falls due in the end. The faults are off in
`history_reports` and `workflow_completes`, because with them announcements are really lost.
There workers are `Persistent`: a report that loses the version race is refused, no
task is left for it, and nothing in the system repeats it.

## 4. What the code does otherwise

Three runs expect a violation, each of what the repository says of itself.

- **Overlapping starts** (`duplicate_start`). `RecordWorkflowExecutionStarted` promises
  "workflow %q is already running" (`record_workflow_execution_started.go:28`, and the
  test *duplicate running workflow*). `FindRunningWorkflow` and `CreateWorkflowExecution`
  are separate statements and the primary key includes the new `run_id`: two calls both
  find nothing and both insert. A partial unique index on `(namespace, workflow_id) WHERE
  status = 'Running'` would close it.
- **A timer lost to a conflict** (`timer_lost_on_conflict`). `README.md:152` has every
  user timer append its event. The timer is marked fired first; if a handler commits
  between the read and the update, the update conflicts, the processor gives up, and
  neither the scavenger nor anybody else tries again.
- **Never idle** (`never_asleep`). `README.md:191` wants CPU and Redis idle when there is
  nothing to do. Putting a peeked timer back goes through `ScheduleTimer`, which finds it
  the earliest and publishes a wake-up, to the processor itself among others.

The models follow the code in these further points, which no run asks about:

- A scavenger adds to Redis what was not fired when it read the table. Another processor
  may have fired such a timer meanwhile; it is then fired again. `timers_and_readers`
  therefore stays below the scavenger's interval.
- A watchdog that is rescheduled is already marked fired: it lives in Redis alone, and the
  scavenger cannot restore it. Its new deadline is not in its row, so the next peek puts it
  back with the old one and it is handled again at once.
- A heartbeat that moves a timer while a processor has it in hand for a peek, and a
  processor that puts it back, overwrite each other's score; a timer scheduled meanwhile
  may be announced to nobody until the next look. `sleep_safety` is without heartbeats;
  `timers_served` has them.
- The activity watchdog looks at `last_heartbeat`, not at the status. Frontend forwards
  heartbeats with the base64 token it has just decoded, which History cannot parse, so all
  of them are refused, `last_heartbeat` stays empty, and an activity with a watchdog is
  enqueued again even if it has completed.
- The workflow-task watchdog takes any later event for an answer. But nothing calls
  `RecordWorkflowTaskStarted` or `RecordActivityTaskStarted`, so in the composed system no
  watchdog is armed at a poll, and a workflow worker that dies with its task is not noticed.
- The answer of a query has nothing to do with the history it reads.

## 5. Proofs

Everything below is proved for all values of the constants: any number of runs,
activities, callers, processors, timers, tasks, queues and polls, any command lists, any
faults, and any bound, except where the table names a hypothesis. The assumptions are

- `RepositoryAssumption`: the placeholder `NoActivity` is no activity;
- `ServiceAssumption`: the shape of requests, only a `ScheduleActivityTask` names an
  activity;
- `ProcessorAssumption`: there are finitely many processors and a batch is not empty;
- `MatchingAssumption`: the placeholder is no queue, polls are finite;
- `FrontendAssumption`: workers are callers, each of one kind, and report by the requests
  that exist;
- `SleepAssumption`: batches, windows and capacities are positive, and the clock stops no
  later than the last fire time.

| Theorem | Statement | Hypothesis |
|---|---|---|
| `TypeCorrect` | `Spec => []TypeOK` | |
| `HistoryInvariant`, `HistoryExact`, `StatusExact`, `SnapshotsExact` | `Spec => []HistoryInv`, and of it `EventIDsContiguous`, `StatusMatchesHistory`, `SnapshotCurrent` | |
| `ClosedFrozen` | `Spec => ClosedIsFrozen` | |
| `ServiceImplementsLog` | `Spec => ImplementsLog` | |
| `EffectsSound`, `TimersExact`, `NoPhantoms` | `Spec => []EffectInv`, and of it `TimersMatchHistory`, `NoPhantomTask` | |
| `Announced` | `Spec => []EveryEventAnnounced` | no faults |
| `ActivitiesSound`, `ActivitiesExact`, `RetriesExact` | `Spec => []ActivityInv`, and of it `ActivityMatchesHistory`, `RetriesBounded` | |
| `TimersSound` | `TimerSpec => []TimerInv` | |
| `ClosedFires` | `TimerSpec => ClosedOnlyFires` | |
| `PrefixesRead` | `ReadersSpec => []ViewsArePrefixes` | |
| `FiringSound`, `FiresOnce` | `TimerSpec => []FiringInv`, and of it `FiredOnce` | no scavenger |
| `RequeueSound`, `EveryTaskJustified` | `TimerSpec => []RequeueInv`, and of both `TasksJustified` | no scavenger, no heartbeats |
| `SleepTypes` | `SleepSpec => []SleepTypeOK` | |
| `NoTimerIsLost` | `SleepSpec => []NoTimerLost` | no faults |
| `EarlierTimersWake` | `SleepSpec => []EarlierTimerWakes` | no faults, no heartbeats, a processor, finitely many timers |
| `MatchingInvariant`, `TasksInOnePlace`, `PollsGetTheirTasks` | `MatchingSpec => []MatchingInv`, and of it `InOnePlace`, `TasksMatchPolls` | |
| `NobodyEverWaits` | `MatchingSpec => []NobodyWaits` | |
| `LossesAccounted` | `MatchingSpec => []LossAccounted` | |
| `MatchingImplementsBroker` | `MatchingSpec => ImplementsBroker` | |
| `FrontendSound`, `FrontendTypes` | `FrontendSpec => [](TimerInv /\ FrontendTypeOK /\ SessionInv)`, and of it `FrontendTypeOK` | `OpenToWorkers` |
| `ReportsArrive`, `AcknowledgedStands` | `FrontendSpec => []ReportsReachTheirTask`, `FrontendSpec => []AcknowledgedIsDecided` | `OpenToWorkers` |
| `DecidesOnce` | `FrontendSpec => []ScheduledOnce` | `OpenToWorkers`, `OneDecider`, `SchedulesOnce`, no database faults, no deaths |
| `WakeupsKept` | `FrontendSpec => []NoWakeupForgotten` | `OpenToWorkers`, no faults, no deaths, `Persistent` |

The hypotheses are those under which the statement is true. With faults announcements and
timers are lost; a scavenger puts back a timer that was fired while it read; a heartbeat
moves a timer somebody has in hand (section 4). `OpenToWorkers` says that `RPCs` has all
requests and `Batches` every decision `Decide` takes: the open environment of History then
includes the workers. It excludes no system, for `Frontend` itself uses neither constant,
and the runs of `Frontend` give them such values.

`DecidesOnce` is about one deciding worker (`OneDecider`), since two may decide side by side
on two tasks of one run, and about workflow code that schedules nothing it has already
scheduled (`SchedulesOnce`). When the reply of the database is lost, or a process dies
after the commit, the worker repeats a decision that stands, and History, which compares a
repeated report with nothing, schedules the activity again. `WakeupsKept` needs more: a
push that fails, and a handler or a worker that dies, each lose a task that nobody makes
again, and so does a worker that drops a refused report (`Persistent`). It does not need
one decider. The constants of `workflow_completes` satisfy all these hypotheses.

**History.** None of the properties is inductive alone. The inductive invariant is
`HistoryInv`:

- `SnapshotCurrent` links a handler's copy of the row to the row itself;
- `TransactionsFit` says that a transaction waiting to be committed fits that copy: it
  numbers its events from the copy's `next_event_id`, and records the outcome it sets;
- so at the commit, where the version check has just established that copy and row have
  the same version, the two meet: the transaction fits the row, and
  `EventIDsContiguous` and `StatusMatchesHistory` are preserved (`CommitInv`);
- `AbsentIsEmpty` and `NextPositive` do the same for the first write (`InsertInv`).

`TransactionsFit` also says that only a copy that was Running is ever kept, which together
with `SnapshotCurrent` gives `ClosedFrozen`: a commit that succeeds finds the row
Running. `StepKinds` sorts the steps into those that leave the database alone,
insertions and commits; `InsertEffect` and `CommitEffect` say what the latter do. The
refinement uses the same three: an insertion starts a log, a commit without events (the
heartbeat) is a stutter, and any other commit appends to the log or closes it.

**Timers and tasks of History.** `EffectsFit` says of each transaction that its
timers are those its events arm, and that its tasks are in bijection with the events
that call for one. At the commit timers and events are added together, and
`TimersMatchHistory` is preserved; the tasks go to the call that publishes, whose tasks
therefore have distinct events of the history. `NoPhantomTask` counts: a commit adds as
many tasks to publish as events, since the new ids are not in the history yet; a push
moves one from the call to the queue; a failure or a crash only takes away. Without
faults nothing is taken away, and the inequality is an equality (`AnnounceInv`), for the
runs with a task queue; a run without one has its tasks refused.

**Activities.** `ActivityInv` looks one commit ahead: whenever a call's version is still
current, the row and the history *after* its commit would agree. That is what makes the
second read harmless: a report reads the activity after the run, but a commit
in between moves the version, and the call's transaction no longer matters. The algebra
is in `RowFollows`: events appended after all others decide the status, and the retries
since the last reset grow by one with a retryable failure and become none with a reset.

**Processors.** A processor's step is one of the event store's or none. `TimerInv` adds to
`HistoryInv` and `EffectsFit` that a processor's copy is current in the same sense as a
handler's (`ProcessorSnapshotCurrent`), and where timers may be: everything in hand
has a row, and what is being handled is marked fired and has left the batch
(`TimersKnown`). A processor's commit appends one TimerFired to a row that may be closed,
with the outcome it had (`OnlyFires`). The commit of a handler moves the version, so a
processor's stale copy is harmless, and the converse. A reader's view is a prefix
because every commit appends at the row's `next_event_id` (`PrefixesRead`).

**Fired once.** Redis forgets what it hands out, so as long as nobody puts a fired timer
back, a timer is in one place: in Redis, with the call that is to schedule it, or with one
processor (`OnePlace`). A fired timer that is in no place is spent (`Spent`), and is
never pending again. `FiringInv` counts against the spent timers of a run: the events a
processor has written, and the tasks it has pushed; writing the event or waking the
worker is the step that makes the timer spent, and loses only one in a conflict, a crash
or a lost reply. `RequeueInv` is the same for activity watchdogs, which a heartbeat must not
bring back. The steps of the calls and of the processors are sorted by what they do to
the places of timers (`Single`), so that the counting is done once for each kind of step.

**Sleep.** `SleepInv` says that whatever is in Redis, in a batch, being looked up or about to
be scheduled has a row, so `GetTimerByID` finds a time to sleep until. `NoTimerLost` is
inductive beside it: each processor step that removes a timer from Redis takes it in hand,
and a peeked timer comes with an empty batch. For `EarlierTimerWakes`, `TimeInv` says that
no score is earlier than the fire time in the row, and `WakeInv` is a disjunction: either
the handler of the *earliest* timer is still to check, and will publish; or each timer is
watched, by a handler that is to publish or by a processor that looks in time. A handler
that has added a timer that is not the earliest need not publish, for an
earlier one is watched, and whoever looks at that one looks in time for this. A processor
that peeks takes the earliest timer, and will not sleep beyond it.

**Matching.** `InOnePlace` needs to know that what is popped is not also elsewhere, and
that a client Redis hands a task to is a poll that waits for it, and for nothing else.
`MatchingInv` adds to the types: `ListsMatch`, a list holds pushed tasks of its own key, and
`BlockedMatch`, each entry of a queue of blocked clients is a poll blocked on that key,
and is there once. There is one lemma per action (`PushInv`, `PollPopsInv`, ...).
`NobodyWaits` is inductive by itself next to `MatchingInv`: Redis looks at the list before it
blocks a client, and at the clients before it keeps a task. `LossAccounted` counts the
polls whose caller is gone: such a poll may still pop one task and lose it, and then it is
closed (`LossInv`).

The refinement maps a task to `Standing`, which `MatchingInv` makes unambiguous
(`StandingOf`). A push is `Put`, or `PutThrough` if a client is blocked; then the list is
empty by `NobodyWaits`, so the task overtakes nobody. A pop is `Take`, an arriving reply
`Receive`; refused and failed pushes, and replies that are lost, are `Drop`, and a crash is
one `Drop` of everything in flight. Polls that block, time out or lose their caller are
stutters.

**The whole.** A step of `Frontend` is, for the event store, a step that the open environment
of `TimerProcessor` allows, or none, or a loss (`Loses`): a poll pops a task, or requests
fail and their calls are cancelled. So `TimerInv` holds of the composed system too
(`FrontendStep`, `StoreStep`), and nothing of the proofs about History is done again.
`SessionInv` is what is new: the token of a worker carries the ids of the task that was
polled, through each of the three encodings (`TokenDecodes`); a worker waits for a reply
only while a call is served for it; and a call that outlives its request, after a deadline or
a death, is still about the task its worker holds, which is why a repeated report never
meets a call about another task. A workflow worker's call publishes only after its commit,
so when the reply is OK the decision is among `decided`. This needs `TasksNamed`: an
activity task names its activity wherever it is, in a transaction, a call, a queue or
a processor, or a worker could report on none.

**Decided once.** A decision carries no version: the commit is checked against the row the
handler reads when the report arrives, not against the history the worker decided from. What
makes it safe with one decider is that nobody else schedules. `DecisionInv` says that a
worker whose decision is not committed (`Undecided`) has seen everything its run has
scheduled, whatever else was appended since, and that its transaction adds nothing it has
seen. The commit ends this, and the next fetch begins it again. The commits of all other
callers, and firings, schedule nothing. Only here does it matter that an error
means that nothing was committed, which is the hypothesis on faults.

**No wake-up forgotten.** `WakeupInv` adds to `NoWakeupForgotten` that handlers commit no
TimerFired and heartbeats no event, and that a task which is to wake a run with a task queue
has its name, or Matching would refuse it. The new events of a commit that ask for a
decision come with a workflow task in the hand of its caller, a fired timer with a processor
that is to wake the worker (`NewsAnnounced`). From there a task moves from the hand to
the queue (`AddTaskWake`), from the queue to a worker that has yet to fetch (`PollWake`),
and the worker sees the event because it fetches the whole history; it lets go of it only
when its report is answered OK, and then the event is among `decided` by `SessionInv`
(`HandledWake`), or when the run is closed (`RestingWake`). `WayKept` and `SightKept` say of
each step that it leaves a task on its way and an event in sight. The steps of the
processors are sorted as in `FiringProofs`.

**Model-checked only.** The liveness properties (`EventuallyAnnounced`, `EventuallyServed`,
`EventuallyReceived`, `EventuallyCompletes`) stay with TLC, as does everything about
`ENABLED`: they are out of the prover's reach. Every invariant and every action property of
the passing runs is proved, under hypotheses that the configurations of the runs satisfy.
`AtMostOneRunning`, `FiredTimerIsRecorded` and
`EventuallyUndisturbed` are false.

## 6. Not modelled

- Configuration, logging, generated code, mocks, container files and the migration tool,
  which hold no protocol state.
- The mapping of errors to gRPC codes, connections, keepalive and the draining of a
  graceful stop. A deadline, a death and an error are modelled; which error is not.
- The router: with one History service there is nothing to choose.
- The workers, which are not in the repository. Their loop in `Frontend` is the one
  `README.md` describes, and what they decide is a constant of the model.
- Several runs or workflows in one TLC run: handlers of different runs share only the
  queues and the timer set.

## 7. What could come next

1. `EarlierTimerWakes` with heartbeats, once it is clear what should be promised then.
2. The composition of `Frontend` with `Matching` instead of plain queues.

## 8. Running the checks

    tlc -workers 2 -config history_safety.cfg MCHistory.tla
    tlapm HistoryActivityProofs.tla
    tlapm FiringProofs.tla
    tlapm SleepProofs.tla
    tlapm MatchingProofs.tla
    tlapm FrontendProofs.tla

Each run takes between a second and three minutes, and each of the eight proof modules
a few minutes at most. `tlapm` takes the theorems of the modules a module extends as
proved; run it on each.
