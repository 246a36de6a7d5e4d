--------------------------- MODULE FrontendProperties ----------------------------
(***************************************************************************)
(* What clients and workers get from Mini-Workflow as a whole.             *)
(***************************************************************************)
EXTENDS Frontend, TimerProperties

SessionsAt(pcs) == {w \in Workers : sessions[w].pc \in pcs}

\* A decision or a result goes to the run and the activity of the task that was polled:
\* the ids survive Matching's token, Frontend's encoding and decoding, and the way
\* through the worker.
ReportsReachTheirTask ==
  \A w \in SessionsAt({"reporting"}) :
    LET cl == calls[w]
        task == sessions[w].task
    IN  /\ cl.pc \in {"read", "update", "peek"} => cl.key = task.key
        /\ cl.pc = "read" => cl.act = task.act
        /\ cl.pc = "update" /\ w \in ActivityWorkers =>
             \A e \in cl.txn.events : e.act = task.act

\* Each activity of a run is scheduled once: with one workflow worker, however many
\* tasks wake it and however its reports race with signals, results and timers, no
\* decision is committed twice or taken from a history that lacks the last decision.
ScheduledOnce ==
  \A k \in Keys, a \in Activities :
    Cardinality({e \in EventsOf(k, {"ActivityTaskScheduled"}) : e.act = a}) <= 1

\* A worker that is told OK can rely on it: a decision that was acknowledged is in the
\* history, with the events it was taken from.
AcknowledgedIsDecided ==
  \A w \in SessionsAt({"answered"}) \cap WorkflowWorkers :
    sessions[w].report = "OK" =>
      {e.id : e \in sessions[w].seen} \subseteq decided[sessions[w].task.key]

--------------------------------------------------------------------------------
(* Behind both *)

\* The environment of HistoryService is open enough for Frontend and its workers to be in it.
OpenToWorkers ==
  /\ RPCs = ActivityRPCs \cup OtherRPCs
  /\ \A seen \in SUBSET Event : Decide(seen) \in Batches

\* Wherever an activity task is, it names the activity its worker will report on.
ActsNamed(tasks) == \A t \in tasks : t.kind = "activity" => t.act \in Activities

TasksNamed ==
  /\ \A i \in DOMAIN activityQueue : activityQueue[i].act \in Activities
  /\ \A c \in Callers : calls[c].pc = "update" => ActsNamed(calls[c].txn.tasks)
  /\ \A c \in Callers : calls[c].pc = "publish" => ActsNamed(calls[c].tasks)
  /\ \A p \in ProcessorsAt({"requeue"}) : procs[p].timer.act \in Activities

\* The activity id in the tokens of worker w.
Carried(w, task) == IF w \in ActivityWorkers THEN task.act ELSE NoActivity

Seen(session) == {e.id : e \in session.seen}

TokenFits(w, session) ==
  LET task == session.task
  IN  /\ session.pc = "fetch" =>
           /\ w \in WorkflowWorkers
           /\ session.token = MatchingToken(task.key[1], task.key[2], NoActivity)
      /\ session.pc \in {"working", "reporting", "answered"} =>
           /\ session.token = Encode(task.key[1], task.key[2], Carried(w, task), 1)
           /\ w \in ActivityWorkers => task.act \in Activities

\* A call of History that a report of worker w has led to.
CallFits(w, session, cl, dec) ==
  LET task == session.task
  IN  /\ session.pc \in {"reporting", "answered"}
      /\ cl.pc \in {"read", "update", "publish"}
      /\ cl.pc \in {"read", "update"} => cl.key = task.key
      /\ cl.pc = "read" => /\ w \in ActivityWorkers
                           /\ cl.act = task.act
                           /\ cl.rpc # "RecordActivityTaskHeartbeat"
      /\ cl.pc = "update" => /\ cl.then = "publish"
                             /\ w \in ActivityWorkers => \A e \in cl.txn.events : e.act = task.act
      /\ cl.pc = "publish" /\ session.pc = "reporting" /\ w \in WorkflowWorkers =>
           Seen(session) \subseteq dec[task.key]

WorkerFits(w, session, cl, dec) ==
  /\ TokenFits(w, session)
  /\ session.pc \in {"working", "reporting"} => session.report = "none"
  /\ session.pc = "reporting" => cl # Idle
  /\ cl # Idle => CallFits(w, session, cl, dec)
  /\ session.pc = "answered" /\ w \in WorkflowWorkers /\ session.report = "OK" =>
       Seen(session) \subseteq dec[session.task.key]

\* The inductive invariant of the workers: tokens carry the ids of the task that was
\* polled, a worker waits for an answer only while its call is being served, and a call
\* that outlives its request is still about the task the worker holds.
SessionInv ==
  /\ TasksNamed
  /\ \A w \in Workers : WorkerFits(w, sessions[w], calls[w], decided)

--------------------------------------------------------------------------------
(* Decisions *)

\* One worker decides, about whatever runs: with two, two tasks of one run may be decided on
\* side by side.
OneDecider == \A v, w \in WorkflowWorkers : v = w

Schedulings(events) == {e \in events : e.type = "ActivityTaskScheduled"}

\* The workflow code schedules no activity twice: not in one decision, and not when the
\* history it is given says it is scheduled.
SchedulesOnce ==
  \A seen \in SUBSET Event :
    LET cmds == Decide(seen)
    IN  \A i \in Scheduled(cmds) :
          /\ \A j \in Scheduled(cmds) : cmds[i].act = cmds[j].act => i = j
          /\ \A e \in Schedulings(seen) : e.act # cmds[i].act

\* The worker has been given a history and has not committed what it decided.
Undecided(w) ==
  \/ sessions[w].pc = "working"
  \/ sessions[w].pc = "reporting" /\ calls[w].pc # "publish"
  \/ sessions[w].pc = "answered" /\ sessions[w].report = "Error"

\* Behind ScheduledOnce: a worker that has not committed its decision knows all that is
\* scheduled, whatever else was committed meanwhile, and its decision adds nothing that it
\* has seen; nobody else schedules anything.
DecisionInv ==
  /\ \A k \in Keys : \A e, f \in Schedulings(history[k]) : e.act = f.act => e = f
  /\ \A c \in Callers \ WorkflowWorkers :
       calls[c].pc = "update" => Schedulings(calls[c].txn.events) = {}
  /\ \A w \in WorkflowWorkers :
       /\ sessions[w].pc = "answered" => calls[w] = Idle
       /\ Undecided(w) => Schedulings(history[sessions[w].task.key]) \subseteq sessions[w].seen
       /\ calls[w].pc = "update" =>
            \A e \in Schedulings(calls[w].txn.events) :
              /\ \A f \in Schedulings(calls[w].txn.events) : e.act = f.act => e = f
              /\ \A f \in Schedulings(sessions[w].seen) : e.act # f.act

--------------------------------------------------------------------------------
(* Progress *)

\* An event that asks for a decision is not forgotten: until a decision has seen it,
\* there is a workflow task for it, in the queue, on its way to it, or in the hands of
\* a worker who has seen it or is going to.
SeesIt(w, k, e) ==
  /\ sessions[w].pc \in {"fetch", "working", "reporting", "answered"}
  /\ sessions[w].task.key = k
  /\ sessions[w].pc # "fetch" => e \in sessions[w].seen

TaskOnTheWay(k) ==
  \/ \E i \in DOMAIN workflowQueue : workflowQueue[i].key = k
  \/ Unpushed("workflow", k) # {}
  \/ WakingOf(k) # {}

NoWakeupForgotten ==
  \A k \in Keys : executions[k].status = "Running" /\ executions[k].taskQueue = "named" =>
    \A e \in EventsOf(k, WakingTypes \cup {"TimerFired"}) :
      \/ e.id \in decided[k]
      \/ TaskOnTheWay(k)
      \/ \E w \in WorkflowWorkers : SeesIt(w, k, e)

\* Behind it: a handler that commits prepares no firing, a heartbeat commits no event, and
\* no task that is to wake a run with a task queue lacks one.
WakeupInv ==
  /\ NoWakeupForgotten
  /\ \A c \in Callers : calls[c].pc = "update" =>
       /\ calls[c].then = "peek" => calls[c].txn.events = {}
       /\ calls[c].row.taskQueue = "named" => \A t \in calls[c].txn.tasks : t.taskQueue = "named"
       /\ \A e \in calls[c].txn.events : e.type # "TimerFired"
  /\ \A c \in Callers : calls[c].pc = "publish" =>
       \A t \in calls[c].tasks : executions[t.key].taskQueue = "named" => t.taskQueue = "named"
  /\ \A p \in ProcessorsAt({"wake"}) :
       executions[procs[p].timer.key].taskQueue = "named" => procs[p].taskQueue = "named"

\* A workflow that was started with a task queue completes: without faults, and with
\* workers that keep polling and repeat what failed, no race between reports, signals
\* and watchdogs leaves it waiting for a task that never comes.
EventuallyCompletes ==
  \A k \in Keys :
    (executions[k].status = "Running" /\ executions[k].taskQueue = "named")
      ~> executions[k].status \in ClosedStatuses
================================================================================
