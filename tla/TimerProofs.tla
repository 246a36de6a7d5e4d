------------------------------- MODULE TimerProofs -------------------------------
(***************************************************************************)
(* The event store keeps its invariant with timer processors beside the    *)
(* handlers, what it writes to a closed run is a fired timer at most, and  *)
(* whoever reads a history reads the beginning of what it will be.         *)
(***************************************************************************)
EXTENDS HistoryReaders, HistoryEffectProofs

--------------------------------------------------------------------------------
(* What TimerInv says of one processor *)

\* "marked" is the set of timers that are marked fired.
ProcFit(proc, marked) ==
  /\ proc.pc \in Batching => proc.batch \subseteq timers
  /\ proc.pc \in Batching \ {"dispatch"} => proc.timer \in marked \ proc.batch
  /\ proc.pc = "fire" => proc.timer.type = "UserTimer"
  /\ proc.pc = "peeked" => proc.timer \in timers
  /\ proc.pc = "rebuild" => proc.timers \subseteq timers

SnapshotFit(proc) ==
  proc.pc = "fire" =>
    /\ proc.row.status # "Absent"
    /\ proc.row.version <= executions[proc.timer.key].version
    /\ proc.row.version = executions[proc.timer.key].version
         => proc.row = executions[proc.timer.key]

LEMMA TimersKnownIs ==
  /\ TimersKnown <=> fired \subseteq timers /\ \A p \in Processors : ProcFit(procs[p], fired)
  /\ TimersKnown' <=> /\ fired' \subseteq timers'
                      /\ \A p \in Processors : ProcFit(procs[p], fired)'
  BY DEF TimersKnown, ProcFit, ProcessorsAt

LEMMA SnapshotsIs ==
  /\ ProcessorSnapshotCurrent <=> \A p \in Processors : SnapshotFit(procs[p])
  /\ ProcessorSnapshotCurrent' <=> \A p \in Processors : SnapshotFit(procs[p])'
  BY DEF ProcessorSnapshotCurrent, SnapshotFit, ProcessorsAt

LEMMA ProcShape ==
  ASSUME TimerTypeOK, NEW p \in Processors
  PROVE  /\ procs[p] \in Processor
         /\ procs[p].pc \in {"idle", "peek", "peeked", "rebuild"} \cup Batching
         /\ procs[p].pc \in Batching => procs[p].batch \in SUBSET Timer
         /\ procs[p].pc \in (Batching \ {"dispatch"}) \cup {"peeked"} => procs[p].timer \in Timer
         /\ procs[p].pc = "fire" => procs[p].row \in Execution
         /\ procs[p].pc = "requeue" => procs[p].arow \in Activity
         /\ procs[p].pc = "wake" => procs[p].taskQueue \in TaskQueueNames
         /\ procs[p].pc = "rebuild" => procs[p].timers \in SUBSET Timer
         /\ "batch" \in DOMAIN procs[p] => procs[p].pc \in Batching
         /\ "timer" \in DOMAIN procs[p] => procs[p].pc \in (Batching \ {"dispatch"}) \cup {"peeked"}
  <1>1. procs[p] \in Processor
    BY DEF TimerTypeOK
  <1>2. CASE procs[p] \in {Idle, [pc |-> "peek"]}
    BY <1>1, <1>2 DEF Idle, Batching
  <1>3. CASE procs[p] \in Dispatching
    BY <1>1, <1>3 DEF Dispatching, Batching
  <1>4. CASE procs[p] \in Handling
    BY <1>1, <1>4 DEF Handling, Batching
  <1>5. CASE procs[p] \in Firing
    BY <1>1, <1>5 DEF Firing, Batching
  <1>6. CASE procs[p] \in Rescheduling
    BY <1>1, <1>6 DEF Rescheduling, Batching
  <1>7. CASE procs[p] \in Requeueing
    BY <1>1, <1>7 DEF Requeueing, Batching
  <1>8. CASE procs[p] \in Waking
    BY <1>1, <1>8 DEF Waking, Batching
  <1>9. CASE procs[p] \in Peeked
    BY <1>1, <1>9 DEF Peeked, Batching
  <1>10. CASE procs[p] \in Rebuilding
    BY <1>1, <1>10 DEF Rebuilding, Batching
  <1> QED BY <1>1, <1>2, <1>3, <1>4, <1>5, <1>6, <1>7, <1>8, <1>9, <1>10 DEF Processor

\* No handler arms a WorkflowTimeout timer, and there are no other timers.
LEMMA NoRunTimeoutHolds ==
  ASSUME TimerTypeOK, FitInv, TimersKnown
  PROVE  NoRunTimeout
  <1>1. ASSUME NEW k, NEW N, NEW t \in Armed(k, N)
        PROVE  t.type # "WorkflowTimeout"
    BY <1>1 DEF Armed, TimerArmedBy
  <1>2. \A t \in timers : t.type # "WorkflowTimeout"
    BY <1>1 DEF FitInv, TimersMatchHistory
  <1>3. active \subseteq timers /\ fired \subseteq timers
    BY DEF FitInv, TimersMatchHistory, TimersKnown
  <1>4. ASSUME NEW p \in Processors
        PROVE  /\ "batch" \in DOMAIN procs[p] => procs[p].batch \subseteq timers
               /\ "timer" \in DOMAIN procs[p] => procs[p].timer \in timers
               /\ procs[p].pc = "rebuild" => procs[p].timers \subseteq timers
    BY <1>3, ProcShape, TimersKnownIs DEF ProcFit
  <1>5. ASSUME NEW c \in Callers
        PROVE  /\ calls[c].pc = "publish" => calls[c].timers \subseteq timers
               /\ calls[c].pc = "update" => \A t \in calls[c].txn.timers : t.type # "WorkflowTimeout"
    <2>1. FitCall(calls[c])
      BY EffectsFitIs DEF FitInv
    <2> QED BY <1>1, <2>1 DEF FitCall, TxnFit
  <1> SUFFICES ASSUME NEW t \in TimersSeen
               PROVE  t.type # "WorkflowTimeout"
    BY DEF NoRunTimeout
  <1> DEFINE inBatches == UNION {procs[p].batch : p \in {q \in Processors : "batch" \in DOMAIN procs[q]}}
             handled == {procs[p].timer : p \in {q \in Processors : "timer" \in DOMAIN procs[q]}}
             rebuilt == UNION {procs[p].timers : p \in ProcessorsAt({"rebuild"})}
             published == UNION {calls[c].timers : c \in {d \in Callers : calls[d].pc = "publish"}}
             prepared == UNION {calls[c].txn.timers : c \in {d \in Callers : calls[d].pc = "update"}}
  <1>6. TimersSeen = timers \cup active \cup fired \cup inBatches \cup handled \cup rebuilt
                     \cup published \cup prepared
    BY Zenon DEF TimersSeen, inBatches, handled, rebuilt, published, prepared
  <1>7. inBatches \subseteq timers /\ handled \subseteq timers
    BY <1>4 DEF inBatches, handled
  <1>8. rebuilt \subseteq timers /\ published \subseteq timers
    BY <1>4, <1>5 DEF ProcessorsAt
  <1>9. \A u \in prepared : u.type # "WorkflowTimeout"
    BY <1>5
  <1> HIDE DEF inBatches, handled, rebuilt, published, prepared
  <1> QED BY <1>2, <1>3, <1>6, <1>7, <1>8, <1>9

--------------------------------------------------------------------------------
(* The steps of a processor that write no run *)

\* The claimed timers that a processor can still dispatch, handle or put back.
Held(proc) ==
  (IF proc.pc \in Batching THEN proc.batch ELSE {})
  \cup (IF proc.pc \in {"handle", "fire", "reschedule", "peeked"} THEN {proc.timer} ELSE {})

\* Timers only pass between Redis and processor p, or are lost.
Passes(p, proc) ==
  /\ \A t : t \in active' \/ t \in Held(proc) => t \in active \/ t \in Held(procs[p])
  /\ \A t : t \in active' /\ t \in Held(proc) => t \in active /\ t \in Held(procs[p])

\* A processor with no task to push, and nothing from Postgres to add to Redis.
Plain(proc) == proc.pc \notin {"wake", "requeue"} /\ (proc.pc = "rebuild" => Scavenging)

\* A timeout that is handled is turned into a task to push, or a task is pushed, or neither.
Pushes(p, proc) ==
  \/ /\ UNCHANGED <<workflowQueue, activityQueue>>
     /\ Plain(proc)
  \/ /\ UNCHANGED <<workflowQueue, activityQueue, active, fired>>
     /\ procs[p].pc = "handle" /\ proc.timer = procs[p].timer /\ Held(proc) = procs[p].batch
     /\ \/ proc.pc = "wake" /\ proc.timer.type = "WorkflowTaskTimeout"
        \/ proc.pc = "requeue" /\ proc.timer.type = "ActivityTimeout"
  \/ /\ procs[p].pc = "wake" /\ Plain(proc)
     /\ workflowQueue' = Append(workflowQueue, [key |-> procs[p].timer.key, act |-> NoActivity])
     /\ UNCHANGED activityQueue
  \/ /\ procs[p].pc = "requeue" /\ Plain(proc)
     /\ activityQueue' =
          Append(activityQueue, [key |-> procs[p].timer.key, act |-> procs[p].timer.act])
     /\ UNCHANGED workflowQueue

\* Processor p goes on as "proc".
Moves(p, proc) ==
  /\ UNCHANGED <<executions, history, activities, timers, calls, incidents>>
  /\ procs' = [procs EXCEPT ![p] = proc]
  /\ proc \in Processor /\ ProcFit(proc, fired') /\ SnapshotFit(proc)
  /\ active' \subseteq timers
  /\ fired \subseteq fired' /\ fired' \subseteq timers
  /\ workflowQueue' \in Seq(QueuedTask) /\ activityQueue' \in Seq(QueuedTask)
  /\ procs[p].pc # "rebuild" => Passes(p, proc)
  /\ Pushes(p, proc)

LEMMA SetsOfTimers ==
  ASSUME TimerInv
  PROVE  /\ timers \subseteq Timer /\ active \subseteq timers /\ fired \subseteq timers
         /\ workflowQueue \in Seq(QueuedTask) /\ activityQueue \in Seq(QueuedTask)
         /\ procs \in [Processors -> Processor] /\ calls \in [Callers -> Call]
         /\ \A t \in timers : t.key \in Keys /\ t.act \in Activities \cup {NoActivity}
         /\ \A t \in timers : t.type # "WorkflowTimeout"
         /\ \A t \in timers : t.type = "ActivityTimeout" => t.act \in Activities
  <1>1. /\ timers \subseteq Timer /\ active \subseteq timers /\ fired \subseteq timers
        /\ workflowQueue \in Seq(QueuedTask) /\ activityQueue \in Seq(QueuedTask)
        /\ procs \in [Processors -> Processor] /\ calls \in [Callers -> Call]
    BY DEF TimerInv, TimerTypeOK, TypeOK, RepositoryTypeOK, FitInv, TimersMatchHistory, TimersKnown
  <1>2. \A t \in timers : t.type # "WorkflowTimeout"
    BY DEF TimerInv, NoRunTimeout, TimersSeen
  <1>3. TimeoutsNamed(timers)
    BY DEF TimerInv, FitInv, TimersMatchHistory
  <1> QED BY <1>1, <1>2, <1>3 DEF Timer, TimeoutsNamed

LEMMA FitProc ==
  ASSUME TimerInv, NEW p \in Processors
  PROVE  ProcFit(procs[p], fired) /\ SnapshotFit(procs[p])
  BY TimersKnownIs, SnapshotsIs DEF TimerInv

LEMMA ContinueFit ==
  ASSUME TimerInv, NEW batch \in SUBSET timers, NEW marked
  PROVE  /\ Continue(batch) \in Processor
         /\ ProcFit(Continue(batch), marked) /\ SnapshotFit(Continue(batch))
         /\ Held(Continue(batch)) = batch /\ Plain(Continue(batch))
  <1>1. batch \in SUBSET Timer
    BY SetsOfTimers
  <1>2. Continue(batch) \in Processor
    BY <1>1 DEF Continue, Processor, Dispatching
  <1>3. ProcFit(Continue(batch), marked) /\ SnapshotFit(Continue(batch))
    BY DEF Continue, ProcFit, SnapshotFit, Batching
  <1>4. Held(Continue(batch)) = batch /\ Plain(Continue(batch))
    BY DEF Continue, Held, Batching, Plain
  <1> QED BY <1>2, <1>3, <1>4

LEMMA IdleFit ==
  ASSUME NEW marked, NEW proc \in {Idle, [pc |-> "peek"]}
  PROVE  /\ proc \in Processor /\ ProcFit(proc, marked) /\ SnapshotFit(proc)
         /\ Held(proc) = {} /\ Plain(proc)
  BY DEF Idle, Processor, ProcFit, SnapshotFit, Batching, Held, Plain

\* A processor that only reads.
LEMMA ReadMoves ==
  ASSUME TimerInv, NEW p \in Processors, NEW proc, UNCHANGED <<vars, incidents>>, Become(p, proc),
         proc \in Processor, ProcFit(proc, fired), SnapshotFit(proc),
         Held(proc) \subseteq Held(procs[p]),
         \/ Plain(proc)
         \/ /\ procs[p].pc = "handle" /\ proc.timer = procs[p].timer /\ Held(proc) = procs[p].batch
            /\ \/ proc.pc = "wake" /\ proc.timer.type = "WorkflowTaskTimeout"
               \/ proc.pc = "requeue" /\ proc.timer.type = "ActivityTimeout"
  PROVE  Moves(p, proc)
  <1>1. UNCHANGED <<active, workflowQueue, activityQueue, fired>>
    BY DEF vars, dbVars, redisVars
  <1>2. Passes(p, proc)
    BY <1>1 DEF Passes
  <1>3. Pushes(p, proc)
    BY <1>1 DEF Pushes
  <1> QED BY <1>2, <1>3, SetsOfTimers DEF Moves, vars, dbVars, redisVars, Become

LEMMA ClaimMoves ==
  ASSUME TimerInv, NEW p \in Processors, ClaimExpired(p) \/ NothingExpired(p)
  PROVE  \E proc : Moves(p, proc)
  <1>1. CASE NothingExpired(p)
    BY <1>1, IdleFit, ReadMoves DEF NothingExpired
  <1>2. CASE ClaimExpired(p)
    <2> USE DEF Passes, Pushes
    <2>1. PICK batch \in SUBSET active :
            /\ active' = active \ batch
            /\ Become(p, [pc |-> "dispatch", batch |-> batch]) \/ Become(p, [pc |-> "peek"])
      BY <1>2 DEF ClaimExpired
    <2> DEFINE proc == [pc |-> "dispatch", batch |-> batch]
    <2>2. /\ proc \in Processor /\ ProcFit(proc, fired) /\ SnapshotFit(proc)
          /\ Held(proc) = batch /\ proc.pc = "dispatch"
      BY SetsOfTimers DEF Processor, Dispatching, ProcFit, SnapshotFit, Batching, Held
    <2>3. /\ UNCHANGED <<executions, history, activities, timers, calls, incidents, fired>>
          /\ UNCHANGED <<workflowQueue, activityQueue>>
      BY <1>2 DEF ClaimExpired, dbVars
    <2> HIDE DEF proc
    <2>4. Moves(p, proc) \/ Moves(p, [pc |-> "peek"])
      BY <2>1, <2>2, <2>3, IdleFit, SetsOfTimers DEF Moves, Become, proc, Plain
    <2> QED BY <2>4
  <1> QED BY <1>1, <1>2

LEMMA MarkMoves ==
  ASSUME TimerInv, NEW p \in Processors, NEW t \in procs[p].batch,
         MarkTimerFired(p, t) \/ DispatchFails(p, t)
  PROVE  \E proc : Moves(p, proc)
  <1>1. procs[p].pc = "dispatch" /\ procs[p].batch \subseteq timers
    BY FitProc DEF MarkTimerFired, DispatchFails, ProcFit, Batching
  <1>2. CASE MarkTimerFired(p, t)
    <2> DEFINE proc == [pc |-> "handle", batch |-> procs[p].batch \ {t}, timer |-> t]
    <2>1. /\ fired' = fired \cup {t} /\ Become(p, proc)
          /\ UNCHANGED <<executions, history, activities, timers, redisVars, calls, incidents>>
      BY <1>2 DEF MarkTimerFired
    <2>2. proc \in Processor /\ ProcFit(proc, fired') /\ SnapshotFit(proc)
      BY <1>1, <2>1, SetsOfTimers DEF Processor, Handling, ProcFit, SnapshotFit, Batching
    <2>3. Held(proc) = procs[p].batch /\ Held(procs[p]) = procs[p].batch /\ proc.pc = "handle"
      BY <1>1 DEF Held, Batching
    <2> HIDE DEF proc
    <2>4. Passes(p, proc) /\ Pushes(p, proc)
      BY <2>1, <2>3 DEF Passes, Pushes, redisVars, Plain
    <2> QED BY <1>1, <2>1, <2>2, <2>4, SetsOfTimers DEF Moves, Become, redisVars
  <1>3. CASE DispatchFails(p, t)
    <2> DEFINE proc == Continue(procs[p].batch \ {t})
    <2>1. /\ fired' \in {fired, fired \cup ({t} \cap timers)} /\ Become(p, proc)
          /\ UNCHANGED <<executions, history, activities, timers, redisVars, calls, incidents>>
      BY <1>3 DEF DispatchFails
    <2>2. /\ proc \in Processor /\ ProcFit(proc, fired') /\ SnapshotFit(proc)
          /\ Held(proc) = procs[p].batch \ {t} /\ Plain(proc)
      BY <1>1, ContinueFit
    <2>3. Held(procs[p]) = procs[p].batch
      BY <1>1 DEF Held, Batching
    <2> HIDE DEF proc
    <2>4. Passes(p, proc) /\ Pushes(p, proc)
      BY <2>1, <2>2, <2>3 DEF Passes, Pushes, redisVars
    <2> QED BY <1>1, <2>1, <2>2, <2>4, SetsOfTimers DEF Moves, Become, redisVars
  <1> QED BY <1>2, <1>3

\* A processor reads what it needs about the timer it handles, or gives it up.
LEMMA HandleMoves ==
  ASSUME TimerInv, NEW p \in Processors,
         ReadExecution(p) \/ FireConflicts(p) \/ CheckHeartbeat(p) \/ CheckProgress(p) \/ HandleFails(p)
  PROVE  \E proc : Moves(p, proc)
  <1> DEFINE t == procs[p].timer
             batch == procs[p].batch
             row == executions[t.key]
  <1>1. UNCHANGED <<vars, incidents>> /\ procs[p].pc \in {"handle", "fire"}
    BY DEF ReadExecution, FireConflicts, CheckHeartbeat, CheckProgress, HandleFails
  <1>2. batch \in SUBSET timers /\ t \in fired \ batch /\ t \in timers
    BY <1>1, FitProc, SetsOfTimers DEF ProcFit, Batching
  <1>3. t \in Timer /\ t.key \in Keys /\ batch \in SUBSET Timer /\ t.type # "WorkflowTimeout"
    BY <1>2, SetsOfTimers
  <1>4. row \in Execution /\ \A a \in Activities : activities[t.key][a] \in Activity
    BY <1>3 DEF TimerInv, TimerTypeOK, TypeOK, RepositoryTypeOK
  <1> HIDE DEF row
  <1>5. ASSUME NEW proc, Become(p, proc), proc \in Processor, ProcFit(proc, fired), SnapshotFit(proc),
               Held(proc) \subseteq Held(procs[p]),
               \/ Plain(proc)
               \/ /\ procs[p].pc = "handle" /\ proc.timer = t /\ Held(proc) = batch
                  /\ \/ proc.pc = "wake" /\ proc.timer.type = "WorkflowTaskTimeout"
                     \/ proc.pc = "requeue" /\ proc.timer.type = "ActivityTimeout"
        PROVE  \E other : Moves(p, other)
    BY <1>1, <1>5, ReadMoves
  <1>6. LET proc == Continue(batch)
        IN  /\ proc \in Processor /\ ProcFit(proc, fired) /\ SnapshotFit(proc)
            /\ Held(proc) = batch /\ Plain(proc)
    BY <1>2, ContinueFit
  <1>11. Held(procs[p]) = batch \cup {t}
    BY <1>1 DEF Held, Batching
  <1>7. CASE ReadExecution(p)
    <2> DEFINE proc == [pc |-> "fire", batch |-> batch, timer |-> t, row |-> row]
    <2>1. Become(p, Continue(batch)) \/ (Become(p, proc) /\ row.status # "Absent")
      BY <1>7 DEF ReadExecution, GetWorkflowExecution, row
    <2>2. t.type = "UserTimer"
      BY <1>3, <1>7 DEF ReadExecution
    <2>3. proc \in Processor
      BY <1>3, <1>4 DEF Processor, Firing
    <2>4. ProcFit(proc, fired)
      BY <1>2, <2>2 DEF ProcFit, Batching
    <2>5. row.status # "Absent" => SnapshotFit(proc)
      BY <1>4 DEF SnapshotFit, row, Execution
    <2>6. Held(proc) = batch \cup {t} /\ proc.pc = "fire"
      BY DEF Held, Batching
    <2> HIDE DEF proc
    <2> QED BY <1>5, <1>6, <1>11, <2>1, <2>3, <2>4, <2>5, <2>6 DEF Plain
  <1>8. CASE FireConflicts(p) \/ HandleFails(p)
    BY <1>5, <1>6, <1>8, <1>11 DEF FireConflicts, HandleFails
  <1>9. CASE CheckHeartbeat(p)
    <2> DEFINE arow == activities[t.key][t.act]
               again == [pc |-> "reschedule", batch |-> batch, timer |-> t]
               requeue == [pc |-> "requeue", batch |-> batch, timer |-> t, arow |-> arow]
    <2>1. \/ Become(p, Continue(batch)) \/ Become(p, again)
          \/ Become(p, requeue)
      BY <1>9 DEF CheckHeartbeat
    <2>2. /\ again \in Processor /\ ProcFit(again, fired) /\ SnapshotFit(again)
          /\ Held(again) = batch \cup {t} /\ again.pc = "reschedule"
      BY <1>2, <1>3 DEF Processor, Rescheduling, ProcFit, SnapshotFit, Batching, Held
    <2>3. requeue \in Processor
      <3>1. t.act \in Activities
        BY <1>2, <1>9, SetsOfTimers DEF CheckHeartbeat
      <3>2. arow \in Activity
        BY <1>4, <3>1
      <3> HIDE DEF arow
      <3> QED BY <1>3, <3>2 DEF Processor, Requeueing
    <2>4. /\ ProcFit(requeue, fired) /\ SnapshotFit(requeue) /\ requeue.pc = "requeue"
          /\ requeue.timer = t /\ Held(requeue) = batch
      BY <1>2 DEF ProcFit, SnapshotFit, Batching, Held
    <2>5. procs[p].pc = "handle" /\ t.type = "ActivityTimeout"
      BY <1>9 DEF CheckHeartbeat
    <2> HIDE DEF again, requeue
    <2> QED BY <1>5, <1>6, <1>11, <2>1, <2>2, <2>3, <2>4, <2>5 DEF Plain
  <1>10. CASE CheckProgress(p)
    <2> DEFINE wake == [pc |-> "wake", batch |-> batch, timer |-> t, taskQueue |-> row.taskQueue]
    <2>1. Become(p, Continue(batch)) \/ Become(p, wake)
      BY <1>10 DEF CheckProgress, GetWorkflowExecution, row
    <2>2. wake \in Processor /\ ProcFit(wake, fired) /\ SnapshotFit(wake)
      BY <1>2, <1>3, <1>4 DEF Processor, Waking, ProcFit, SnapshotFit, Batching, Execution
    <2>3. wake.pc = "wake" /\ wake.timer = t /\ Held(wake) = batch
      BY DEF Held, Batching
    <2>4. procs[p].pc = "handle" /\ t.type = "WorkflowTaskTimeout"
      BY <1>10 DEF CheckProgress
    <2> HIDE DEF wake
    <2> QED BY <1>5, <1>6, <1>11, <2>1, <2>2, <2>3, <2>4
  <1> QED BY <1>7, <1>8, <1>9, <1>10

\* A processor that ends what it was doing about a timer, and goes on with its batch.
LEMMA ContinueMoves ==
  ASSUME TimerInv, NEW p \in Processors, procs[p].pc \in Batching,
         Become(p, Continue(procs[p].batch)), UNCHANGED <<dbVars, calls, incidents>>,
         active' \subseteq timers,
         workflowQueue' \in Seq(QueuedTask), activityQueue' \in Seq(QueuedTask),
         \A proc : Held(proc) = procs[p].batch => Passes(p, proc),
         \A proc : Plain(proc) => Pushes(p, proc)
  PROVE  \E proc : Moves(p, proc)
  <1> DEFINE proc == Continue(procs[p].batch)
  <1>1. /\ proc \in Processor /\ ProcFit(proc, fired') /\ SnapshotFit(proc)
        /\ Held(proc) = procs[p].batch /\ Plain(proc)
    BY FitProc, ContinueFit DEF ProcFit
  <1>2. Passes(p, proc) /\ Pushes(p, proc)
    BY <1>1
  <1> HIDE DEF proc
  <1>3. Moves(p, proc)
    BY <1>1, <1>2, SetsOfTimers DEF Moves, Become, dbVars, proc
  <1> QED BY <1>3

LEMMA PushMoves ==
  ASSUME TimerInv, NEW p \in Processors,
         Reschedule(p) \/ RequeueActivity(p) \/ WakeWorkflow(p)
  PROVE  \E proc : Moves(p, proc)
  <1> DEFINE t == procs[p].timer
  <1>1. /\ procs[p].pc \in Batching \ {"dispatch"}
        /\ Become(p, Continue(procs[p].batch)) /\ UNCHANGED <<dbVars, calls, incidents>>
    BY DEF Reschedule, RequeueActivity, WakeWorkflow, Batching
  <1>2. t \in timers
    BY <1>1, FitProc, SetsOfTimers DEF ProcFit
  <1>3. t.key \in Keys /\ t.act \in Activities \cup {NoActivity}
    BY <1>2, SetsOfTimers
  <1>4. [key |-> t.key, act |-> t.act] \in QueuedTask /\ [key |-> t.key, act |-> NoActivity] \in QueuedTask
    BY <1>3 DEF QueuedTask
  <1>5. \A queue \in Seq(QueuedTask), task \in QueuedTask : Append(queue, task) \in Seq(QueuedTask)
    BY AppendType
  <1>6. active' \subseteq timers
    BY <1>2, SetsOfTimers DEF Reschedule, RequeueActivity, WakeWorkflow
  <1>7. workflowQueue' \in Seq(QueuedTask)
    BY <1>4, <1>5, SetsOfTimers DEF Reschedule, RequeueActivity, WakeWorkflow
  <1>8. activityQueue' \in Seq(QueuedTask)
    BY <1>4, <1>5, SetsOfTimers DEF Reschedule, RequeueActivity, WakeWorkflow
  <1>9. procs[p].batch \subseteq Held(procs[p]) /\ (procs[p].pc = "reschedule" => t \in Held(procs[p]))
    BY <1>1 DEF Held, Batching
  <1>10. t \notin procs[p].batch
    BY <1>1, FitProc DEF ProcFit
  <1>11. \A proc : Held(proc) = procs[p].batch => Passes(p, proc)
    BY <1>9, <1>10 DEF Passes, Reschedule, RequeueActivity, WakeWorkflow
  <1>12. \A proc : Plain(proc) => Pushes(p, proc)
    BY DEF Pushes, Reschedule, RequeueActivity, WakeWorkflow
  <1> QED BY <1>1, <1>6, <1>7, <1>8, <1>11, <1>12, ContinueMoves

LEMMA SleepMoves ==
  ASSUME TimerInv, NEW p \in Processors,
         PeekNext(p) \/ NothingToPeek(p) \/ PutBack(p) \/ Scavenge(p) \/ RebuildFromDB(p)
  PROVE  \E proc : Moves(p, proc)
  <1>1. UNCHANGED <<dbVars, workflowQueue, activityQueue, calls, incidents>>
    BY DEF PeekNext, NothingToPeek, PutBack, Scavenge, RebuildFromDB, vars, redisVars
  <1>2. ASSUME NEW proc, Become(p, proc), proc \in Processor, ProcFit(proc, fired), SnapshotFit(proc),
               active' \subseteq timers, procs[p].pc # "rebuild" => Passes(p, proc),
               Plain(proc)
        PROVE  \E other : Moves(p, other)
    <2>1. Moves(p, proc)
      BY <1>1, <1>2, SetsOfTimers DEF Moves, Become, dbVars, Pushes
    <2> QED BY <2>1
  <1>3. /\ Idle \in Processor /\ ProcFit(Idle, fired) /\ SnapshotFit(Idle)
        /\ Held(Idle) = {} /\ Plain(Idle)
    BY IdleFit
  <1>4. CASE PeekNext(p)
    <2>1. PICK t \in active : /\ active' = active \ {t}
                              /\ Become(p, [pc |-> "peeked", timer |-> t]) \/ Become(p, Idle)
      BY <1>4 DEF PeekNext
    <2> DEFINE proc == [pc |-> "peeked", timer |-> t]
    <2>2. /\ proc \in Processor /\ ProcFit(proc, fired) /\ SnapshotFit(proc)
          /\ Held(proc) = {t} /\ proc.pc = "peeked"
      BY SetsOfTimers DEF Processor, Peeked, ProcFit, SnapshotFit, Batching, Held
    <2>3. active' \subseteq timers
      BY <2>1, SetsOfTimers
    <2> HIDE DEF proc
    <2>4. Passes(p, proc) /\ Passes(p, Idle)
      BY <1>3, <2>1, <2>2 DEF Passes
    <2> QED BY <1>2, <1>3, <2>1, <2>2, <2>3, <2>4 DEF proc, Plain
  <1>5. CASE NothingToPeek(p)
    <2>1. active' \subseteq timers
      BY <1>5, SetsOfTimers DEF NothingToPeek, vars, redisVars
    <2>2. Passes(p, Idle)
      BY <1>3, <1>5 DEF Passes, NothingToPeek, vars, redisVars
    <2> QED BY <1>2, <1>3, <1>5, <2>1, <2>2 DEF NothingToPeek
  <1>6. CASE PutBack(p)
    <2>1. procs[p].timer \in timers
      BY <1>6, FitProc DEF PutBack, ProcFit
    <2>2. active' \subseteq timers
      BY <1>6, <2>1, SetsOfTimers DEF PutBack
    <2>3. procs[p].timer \in Held(procs[p])
      BY <1>6 DEF PutBack, Held
    <2>4. Passes(p, Idle)
      BY <1>3, <1>6, <2>3 DEF Passes, PutBack
    <2> QED BY <1>2, <1>3, <1>6, <2>2, <2>4 DEF PutBack
  <1>7. CASE Scavenge(p)
    <2> DEFINE proc == [pc |-> "rebuild", timers |-> GetNonFiredTimers]
    <2>1. Become(p, proc) /\ active' \subseteq timers
      BY <1>7, SetsOfTimers DEF Scavenge, vars, redisVars
    <2>2. GetNonFiredTimers \subseteq timers /\ GetNonFiredTimers \subseteq Timer
      BY SetsOfTimers DEF GetNonFiredTimers
    <2>3. /\ proc \in Processor /\ ProcFit(proc, fired) /\ SnapshotFit(proc)
          /\ Held(proc) = {} /\ proc.pc = "rebuild"
      BY <2>2 DEF Processor, Rebuilding, ProcFit, SnapshotFit, Batching, Held
    <2> HIDE DEF proc
    <2>4. Passes(p, proc)
      BY <1>7, <2>3 DEF Passes, Scavenge, vars, redisVars
    <2> QED BY <1>2, <1>7, <2>1, <2>3, <2>4 DEF Plain, Scavenge
  <1>8. CASE RebuildFromDB(p)
    <2>1. procs[p].timers \subseteq timers
      BY <1>8, FitProc DEF RebuildFromDB, ProcFit
    <2>2. active' \subseteq timers
      BY <1>8, <2>1, SetsOfTimers DEF RebuildFromDB
    <2> QED BY <1>2, <1>3, <1>8, <2>2 DEF RebuildFromDB
  <1> QED BY <1>4, <1>5, <1>6, <1>7, <1>8

\* Every step of a processor but its commit.
LEMMA RunKinds ==
  ASSUME TimerInv, NEW p \in Processors, Run(p)
  PROVE  CommitFired(p) \/ \E proc : Moves(p, proc)
  BY ClaimMoves, MarkMoves, HandleMoves, PushMoves, SleepMoves, Zenon DEF Run, Dispatch

LEMMA MovesInv ==
  ASSUME TimerInv, NEW p \in Processors, NEW proc, Moves(p, proc)
  PROVE  /\ TimerTypeOK' /\ HistoryInv' /\ FitInv'
         /\ ProcessorSnapshotCurrent' /\ TimersKnown'
  <1>1. /\ TypeOK /\ procs \in [Processors -> Processor] /\ incidents \in Nat
        /\ HistoryInv /\ FitInv
    BY DEF TimerInv, TimerTypeOK
  <1>2. /\ UNCHANGED <<executions, history, activities, timers, calls, incidents>>
        /\ procs' = [procs EXCEPT ![p] = proc]
        /\ proc \in Processor /\ ProcFit(proc, fired') /\ SnapshotFit(proc)
        /\ active' \subseteq timers /\ fired \subseteq fired' /\ fired' \subseteq timers
        /\ workflowQueue' \in Seq(QueuedTask) /\ activityQueue' \in Seq(QueuedTask)
    BY DEF Moves
  <1>3. TimerTypeOK'
    <2>1. active' \in SUBSET Timer /\ fired' \in SUBSET Timer
      BY <1>2, SetsOfTimers
    <2> QED BY <1>1, <1>2, <2>1 DEF TimerTypeOK, TypeOK, RepositoryTypeOK
  <1>4. HistoryInv'
    BY <1>1, <1>2, <1>3, CallsChange DEF TimerTypeOK
  <1>5. FitInv'
    BY <1>1, <1>2, FitKept
  <1>6. \A q \in Processors : procs'[q] = IF q = p THEN proc ELSE procs[q]
    BY <1>1, <1>2
  <1>7. ProcessorSnapshotCurrent'
    <2>1. ASSUME NEW q \in Processors PROVE SnapshotFit(procs[q])'
      <3>1. SnapshotFit(procs'[q])
        BY <1>2, <1>6, FitProc
      <3> QED BY <1>2, <3>1 DEF SnapshotFit
    <2> QED BY <2>1, SnapshotsIs
  <1>8. TimersKnown'
    <2>1. ASSUME NEW q \in Processors PROVE ProcFit(procs[q], fired)'
      <3>1. ProcFit(procs'[q], fired')
        <4>1. CASE q = p
          BY <1>2, <1>6, <4>1
        <4>2. CASE q # p
          BY <1>2, <1>6, <4>2, FitProc DEF ProcFit
        <4> QED BY <4>1, <4>2
      <3> QED BY <1>2, <3>1 DEF ProcFit
    <2> QED BY <1>2, <2>1, TimersKnownIs
  <1> QED BY <1>3, <1>4, <1>5, <1>7, <1>8

--------------------------------------------------------------------------------
(* The step of a processor that writes a run *)

\* The row of a run to which one more event is written.
FiredRow(row) ==
  [status |-> row.status, version |-> row.version + 1, next |-> row.next + 1,
   taskQueue |-> row.taskQueue]

\* Processor p appends a TimerFired event to the run as it is now, and nothing else.
LEMMA FiredEffect ==
  ASSUME TimerInv, NEW p \in Processors, CommitFired(p)
  PROVE  LET t == procs[p].timer
             k == t.key
             row == executions[k]
             event == NewEvent(row.next, "TimerFired", NoActivity)
         IN  /\ procs[p].pc = "fire" /\ k \in Keys /\ t.type = "UserTimer" /\ t \in fired
             /\ row \in Execution /\ row.status # "Absent"
             /\ executions' = [executions EXCEPT ![k] = FiredRow(row)]
             /\ history' = [history EXCEPT ![k] = history[k] \cup {event}]
             /\ UNCHANGED <<activities, timers, fired, redisVars, calls, incidents>>
             /\ \/ procs' = [procs EXCEPT ![p] = Continue(procs[p].batch)]
                \/ procs' = [procs EXCEPT ![p] = [pc |-> "wake", batch |-> procs[p].batch, timer |-> t,
                                                  taskQueue |-> row.taskQueue]]
  <1> DEFINE t == procs[p].timer
             k == t.key
             row == executions[k]
             event == NewEvent(row.next, "TimerFired", NoActivity)
             txn == AppendEvent(row, "TimerFired", NoActivity)
  <1>1. procs[p].pc = "fire"
    BY DEF CommitFired
  <1>2. t \in fired /\ t \in timers /\ t.type = "UserTimer" /\ t.key \in Keys
    BY <1>1, FitProc, SetsOfTimers DEF ProcFit, Batching
  <1>3. UpdateWorkflowExecution(k, procs[p].row.version, FiredTxn(t, procs[p].row))
    BY DEF CommitFired
  <1>4. procs[p].row = row /\ row.status # "Absent"
    <2>1. procs[p].row.version = row.version
      BY <1>3 DEF UpdateWorkflowExecution
    <2> QED BY <1>1, <2>1, FitProc DEF SnapshotFit
  <1>5. FiredTxn(t, procs[p].row) = txn
    BY <1>2, <1>4 DEF FiredTxn
  <1>6. /\ executions \in [Keys -> Execution] /\ history \in [Keys -> SUBSET Event]
        /\ activities \in [Keys -> [Activities -> Activity]]
    BY DEF TimerInv, TimerTypeOK, TypeOK, RepositoryTypeOK
  <1>7. /\ txn.status = row.status /\ txn.next = row.next + 1 /\ txn.events = {event}
        /\ txn.timers = {} /\ \A a \in Activities : txn.upserts[a].status = "Absent"
    BY DEF AppendEvent, NoUpserts, NoActivityState
  <1>8. /\ executions' = [executions EXCEPT ![k] = WriteRow(k, txn, row.version + 1)]
        /\ history' = [history EXCEPT ![k] = history[k] \cup txn.events]
        /\ activities' = [activities EXCEPT ![k] =
             [a \in Activities |-> IF txn.upserts[a].status = "Absent" THEN activities[k][a]
                                                                      ELSE txn.upserts[a]]]
        /\ timers' = timers \cup txn.timers
        /\ UNCHANGED fired
    BY <1>2, <1>3, <1>5, <1>6 DEF UpdateWorkflowExecution, WriteTables
  <1>9. UNCHANGED <<redisVars, calls, incidents>>
    BY DEF CommitFired
  <1>10. \/ procs' = [procs EXCEPT ![p] = Continue(procs[p].batch)]
         \/ procs' = [procs EXCEPT ![p] = [pc |-> "wake", batch |-> procs[p].batch, timer |-> t,
                                           taskQueue |-> row.taskQueue]]
    BY <1>2, <1>4 DEF CommitFired, Become
  <1> HIDE DEF txn, event
  <1>11. activities' = activities
    <2>1. [a \in Activities |-> IF txn.upserts[a].status = "Absent" THEN activities[k][a]
                                                                   ELSE txn.upserts[a]]
            = activities[k]
      BY <1>2, <1>6, <1>7
    <2> QED BY <1>2, <1>6, <1>8, <2>1
  <1>12. row \in Execution
    BY <1>2, <1>6
  <1>13. WriteRow(k, txn, row.version + 1) = FiredRow(row)
    BY <1>7 DEF WriteRow, FiredRow
  <1>14. timers' = timers
    BY <1>7, <1>8
  <1> HIDE DEF row, k
  <1> QED BY <1>1, <1>2, <1>4, <1>7, <1>8, <1>9, <1>10, <1>11, <1>12, <1>13, <1>14 DEF k, row, event

LEMMA FiredHistory ==
  ASSUME HistoryInv, TypeOK', NEW k \in Keys, executions[k].status # "Absent", UNCHANGED calls,
         LET row == executions[k]
         IN  /\ executions' = [executions EXCEPT ![k] = FiredRow(row)]
             /\ history' = [history EXCEPT ![k] =
                              history[k] \cup {NewEvent(row.next, "TimerFired", NoActivity)}]
  PROVE  HistoryInv'
  <1> DEFINE row == executions[k]
             event == NewEvent(row.next, "TimerFired", NoActivity)
  <1>1. /\ executions \in [Keys -> Execution] /\ history \in [Keys -> SUBSET Event]
        /\ row \in Execution /\ row.next \in Nat /\ row.version \in Nat /\ row.next >= 1
    BY DEF HistoryInv, TypeOK, RepositoryTypeOK, Execution, NextPositive
  <1>2. /\ executions'[k].status = row.status
        /\ executions'[k].next = row.next + 1
        /\ executions'[k].version = row.version + 1
        /\ \A l \in Keys \ {k} : executions'[l] = executions[l]
    BY <1>1 DEF FiredRow
  <1>3. /\ history'[k] = history[k] \cup {event}
        /\ \A l \in Keys \ {k} : history'[l] = history[l]
    BY <1>1
  <1>4. event.id = row.next /\ event.type = "TimerFired"
    BY DEF NewEvent
  <1>5. row.status # "Absent"
    OBVIOUS
  <1> HIDE DEF row, event
  <1>6. AbsentIsEmpty'
    BY <1>2, <1>5 DEF HistoryInv, AbsentIsEmpty
  <1>7. NextPositive'
    BY <1>1, <1>2 DEF HistoryInv, NextPositive
  <1>8. TransactionsFit'
    BY DEF HistoryInv, TransactionsFit
  <1>9. SnapshotCurrent'
    <2> SUFFICES ASSUME NEW d \in Callers, calls[d].pc \in {"read", "update"}
                 PROVE  /\ calls[d].row.version <= executions'[calls[d].key].version
                        /\ calls[d].row.version = executions'[calls[d].key].version
                             => calls[d].row = executions'[calls[d].key]
      BY DEF SnapshotCurrent
    <2>1. calls[d].key \in Keys /\ calls[d].row.version \in Nat
      BY CallShape DEF HistoryInv, Reading, Updating, Execution
    <2>2. /\ calls[d].row.version <= executions[calls[d].key].version
          /\ calls[d].row.version = executions[calls[d].key].version
               => calls[d].row = executions[calls[d].key]
      BY DEF HistoryInv, SnapshotCurrent
    <2>3. CASE calls[d].key = k
      BY <1>1, <1>2, <2>1, <2>2, <2>3 DEF row
    <2>4. CASE calls[d].key # k
      BY <1>2, <2>1, <2>2, <2>4
    <2> QED BY <2>3, <2>4
  <1>10. EventIDsContiguous'
    <2>1. /\ {e.id : e \in history[k]} = 1 .. row.next - 1
          /\ \A e, f \in history[k] : e.id = f.id => e = f
      BY DEF HistoryInv, EventIDsContiguous, row
    <2>2. {e.id : e \in history'[k]} = 1 .. executions'[k].next - 1
      <3>1. {e.id : e \in history'[k]} = {e.id : e \in history[k]} \cup {event.id}
        BY <1>3
      <3>2. 1 .. (row.next + 1) - 1 = (1 .. row.next - 1) \cup {row.next}
        BY <1>1
      <3> QED BY <1>2, <1>4, <2>1, <3>1, <3>2
    <2>3. \A e \in history[k] : e.id # event.id
      BY <1>1, <1>4, <2>1
    <2>4. \A e, f \in history'[k] : e.id = f.id => e = f
      BY <1>3, <2>1, <2>3
    <2> QED BY <1>2, <1>3, <2>2, <2>4 DEF HistoryInv, EventIDsContiguous
  <1>11. StatusMatchesHistory'
    <2> DEFINE outcomes(S) == {Outcome[e.type] : e \in {f \in S : f.type \in DOMAIN Outcome}}
    <2>1. event.type \notin DOMAIN Outcome
      BY <1>4 DEF Outcome
    <2>2. {f \in history'[k] : f.type \in DOMAIN Outcome} = {f \in history[k] : f.type \in DOMAIN Outcome}
      BY <1>3, <2>1
    <2>3. outcomes(history'[k]) = outcomes(history[k])
      BY <2>2
    <2>4. outcomes(history[k]) = IF executions[k].status = "Running" THEN {} ELSE {executions[k].status}
      BY DEF HistoryInv, StatusMatchesHistory, EventsOf, Started
    <2>5. executions'[k].status = executions[k].status
      BY <1>2 DEF row
    <2> QED BY <1>2, <1>3, <2>3, <2>4, <2>5 DEF HistoryInv, StatusMatchesHistory, EventsOf, Started
  <1> QED BY <1>6, <1>7, <1>8, <1>9, <1>10, <1>11 DEF HistoryInv

\* A TimerFired event arms no timer, and calls for no task.
LEMMA FiredFit ==
  ASSUME HistoryInv, FitInv, NEW k \in Keys, NEW id,
         history' = [history EXCEPT ![k] = history[k] \cup {NewEvent(id, "TimerFired", NoActivity)}],
         UNCHANGED <<timers, active, calls>>
  PROVE  FitInv'
  <1> DEFINE event == NewEvent(id, "TimerFired", NoActivity)
  <1>1. history \in [Keys -> SUBSET Event]
    BY DEF HistoryInv, TypeOK, RepositoryTypeOK
  <1>2. \A l \in Keys : history[l] \subseteq history'[l] /\ history'[l] \subseteq history[l] \cup {event}
    BY <1>1
  <1>3. event.type \notin DOMAIN TimerArmedBy
    BY DEF NewEvent, TimerArmedBy
  <1> HIDE DEF event
  <1>4. EffectsFit'
    <2>1. \A c \in Callers : FitCall(calls[c])'
      <3> TAKE c \in Callers
      <3>1. FitCall(calls[c])
        BY EffectsFitIs DEF FitInv
      <3> QED BY <3>1 DEF FitCall
    <2>2. ASSUME NEW c \in Callers, NEW t \in Hand(calls[c])
          PROVE  \E e \in EventsOf(t.key, CallsFor[t.kind])' : e.id = t.event
      <3>1. t.key \in Keys
        BY CallShape DEF HistoryInv, Hand, Publishing, Task
      <3>2. \E e \in EventsOf(t.key, CallsFor[t.kind]) : e.id = t.event
        BY EffectsFitIs DEF FitInv
      <3> QED BY <1>2, <3>1, <3>2 DEF EventsOf
    <2>3. \A c, d \in Callers : \A t \in Hand(calls'[c]), u \in Hand(calls'[d]) :
            SameEvent(t, u) => c = d /\ t = u
      BY EffectsFitIs DEF FitInv
    <2> QED BY <2>1, <2>2, <2>3, EffectsFitNext
  <1>5. \A l \in Keys : {f \in history'[l] : f.type \in DOMAIN TimerArmedBy}
                          = {f \in history[l] : f.type \in DOMAIN TimerArmedBy}
    BY <1>2, <1>3
  <1>6. \A l \in Keys : Armed(l, history'[l]) = Armed(l, history[l])
    BY <1>5 DEF Armed
  <1>7. {Armed(l, history'[l]) : l \in Keys} = {Armed(l, history[l]) : l \in Keys}
    BY <1>6
  <1>8. TimersMatchHistory'
    BY <1>7 DEF FitInv, TimersMatchHistory, TimeoutsNamed
  <1> QED BY <1>4, <1>8 DEF FitInv

\* The rows of the runs at the versions that processors may hold never change.
RowsAdvance ==
  \A k \in Keys : \/ executions'[k] = executions[k]
                  \/ executions[k].version < executions'[k].version

LEMMA SnapshotAdvances ==
  ASSUME TimerInv, NEW q \in Processors, procs'[q] = procs[q], RowsAdvance,
         executions' \in [Keys -> Execution]
  PROVE  SnapshotFit(procs[q])'
  <1> SUFFICES ASSUME procs[q].pc = "fire"
               PROVE  LET k == procs[q].timer.key
                          row == procs[q].row
                      IN  /\ row.status # "Absent" /\ row.version <= executions'[k].version
                          /\ row.version = executions'[k].version => row = executions'[k]
    BY DEF SnapshotFit
  <1> DEFINE k == procs[q].timer.key
             row == procs[q].row
  <1>1. k \in Keys /\ row \in Execution
    BY ProcShape DEF TimerInv, Timer, Batching
  <1>2. /\ row.status # "Absent" /\ row.version <= executions[k].version
        /\ row.version = executions[k].version => row = executions[k]
    BY FitProc DEF SnapshotFit
  <1>3. executions[k] \in Execution /\ executions'[k] \in Execution
    BY <1>1 DEF TimerInv, TimerTypeOK, TypeOK, RepositoryTypeOK
  <1>4. executions'[k] = executions[k] \/ executions[k].version < executions'[k].version
    BY <1>1 DEF RowsAdvance
  <1> HIDE DEF k, row
  <1>5. row.version \in Nat /\ executions[k].version \in Nat /\ executions'[k].version \in Nat
    BY <1>1, <1>3 DEF Execution
  <1>6. /\ row.status # "Absent" /\ row.version <= executions'[k].version
        /\ row.version = executions'[k].version => row = executions'[k]
    BY <1>2, <1>4, <1>5
  <1> QED BY <1>6 DEF k, row

LEMMA KnownKept ==
  ASSUME TimerInv, UNCHANGED procs, timers \subseteq timers', fired \subseteq fired',
         fired' \subseteq timers'
  PROVE  TimersKnown'
  <1>1. ASSUME NEW q \in Processors PROVE ProcFit(procs[q], fired)'
    <2>1. ProcFit(procs[q], fired)
      BY FitProc
    <2> QED BY <2>1 DEF ProcFit
  <1> QED BY <1>1, TimersKnownIs

LEMMA FiredInv ==
  ASSUME TimerInv, NEW p \in Processors, CommitFired(p)
  PROVE  /\ TimerTypeOK' /\ HistoryInv' /\ FitInv'
         /\ ProcessorSnapshotCurrent' /\ TimersKnown'
  <1> DEFINE t == procs[p].timer
             k == t.key
             row == executions[k]
             event == NewEvent(row.next, "TimerFired", NoActivity)
             woken == [pc |-> "wake", batch |-> procs[p].batch, timer |-> t, taskQueue |-> row.taskQueue]
  <1>1. /\ procs[p].pc = "fire" /\ k \in Keys /\ t \in fired
        /\ row \in Execution /\ row.status # "Absent"
        /\ executions' = [executions EXCEPT ![k] = FiredRow(row)]
        /\ history' = [history EXCEPT ![k] = history[k] \cup {event}]
        /\ UNCHANGED <<activities, timers, fired, redisVars, calls, incidents>>
        /\ \/ procs' = [procs EXCEPT ![p] = Continue(procs[p].batch)]
           \/ procs' = [procs EXCEPT ![p] = woken]
    BY FiredEffect
  <1>2. /\ TypeOK /\ procs \in [Processors -> Processor] /\ incidents \in Nat
        /\ HistoryInv /\ FitInv
        /\ executions \in [Keys -> Execution] /\ history \in [Keys -> SUBSET Event]
    BY DEF TimerInv, TimerTypeOK, TypeOK, RepositoryTypeOK
  <1>3. procs[p].batch \subseteq timers /\ t \in fired \ procs[p].batch
    BY <1>1, FitProc DEF ProcFit, Batching
  <1>4. ASSUME NEW proc \in {Continue(procs[p].batch), woken}
        PROVE  proc \in Processor /\ ProcFit(proc, fired) /\ proc.pc # "fire"
    <2>1. procs[p].batch \in SUBSET Timer /\ t \in Timer /\ row.taskQueue \in TaskQueueNames
      BY <1>1, <1>3, SetsOfTimers DEF Execution
    <2>2. woken \in Processor
      BY <2>1 DEF Processor, Waking
    <2>3. ProcFit(woken, fired)
      BY <1>3 DEF ProcFit, Batching
    <2>4. /\ Continue(procs[p].batch) \in Processor /\ ProcFit(Continue(procs[p].batch), fired)
          /\ Continue(procs[p].batch).pc # "fire"
      BY <1>3, ContinueFit DEF Continue
    <2> QED BY <2>2, <2>3, <2>4
  <1>5. FiredRow(row) \in Execution /\ event \in Event
    BY <1>1 DEF FiredRow, Execution, Event, NewEvent, EventTypes
  <1> HIDE DEF woken
  <1>6. PICK proc \in {Continue(procs[p].batch), woken} : procs' = [procs EXCEPT ![p] = proc]
    BY <1>1
  <1>7. \A q \in Processors : procs'[q] = IF q = p THEN proc ELSE procs[q]
    BY <1>2, <1>6
  <1> HIDE DEF event
  <1>8. TimerTypeOK'
    <2>1. executions' \in [Keys -> Execution]
      BY <1>1, <1>2, <1>5
    <2>2. history' \in [Keys -> SUBSET Event]
      BY <1>1, <1>2, <1>5
    <2>3. TypeOK'
      BY <1>1, <1>2, <2>1, <2>2 DEF TypeOK, RepositoryTypeOK, redisVars
    <2>4. procs' \in [Processors -> Processor]
      BY <1>2, <1>4, <1>6
    <2> QED BY <1>1, <1>2, <2>3, <2>4 DEF TimerTypeOK
  <1>9. HistoryInv'
    BY <1>1, <1>2, <1>8, FiredHistory DEF TimerTypeOK, event
  <1>10. FitInv'
    BY <1>1, <1>2, FiredFit DEF event, redisVars
  <1>11. ProcessorSnapshotCurrent'
    <2>1. \A l \in Keys : \/ executions'[l] = executions[l]
                          \/ executions[l].version < executions'[l].version
      BY <1>1, <1>2 DEF FiredRow, Execution
    <2>2. RowsAdvance /\ executions' \in [Keys -> Execution]
      BY <1>8, <2>1 DEF RowsAdvance, TimerTypeOK, TypeOK, RepositoryTypeOK
    <2>3. ASSUME NEW q \in Processors PROVE SnapshotFit(procs[q])'
      <3>1. CASE q = p
        <4>1. procs'[q].pc # "fire"
          BY <1>4, <1>7, <3>1
        <4> QED BY <4>1 DEF SnapshotFit
      <3>2. CASE q # p
        BY <1>7, <2>2, <3>2, SnapshotAdvances
      <3> QED BY <3>1, <3>2
    <2> QED BY <2>3, SnapshotsIs
  <1>12. TimersKnown'
    <2>1. ASSUME NEW q \in Processors PROVE ProcFit(procs[q], fired)'
      <3>1. ProcFit(procs'[q], fired)
        BY <1>4, <1>7, FitProc
      <3> QED BY <1>1, <3>1 DEF ProcFit
    <2> QED BY <1>1, <2>1, TimersKnownIs DEF TimerInv, TimersKnown
  <1> QED BY <1>8, <1>9, <1>10, <1>11, <1>12

--------------------------------------------------------------------------------
(* The steps of the handlers, and incidents *)

\* Whatever a handler writes, a version that a processor has read is never given out again.
LEMMA HandlerAdvances ==
  ASSUME TypeOK, HistoryInv, [Next]_vars
  PROVE  HistoryInv' /\ RowsAdvance /\ timers \subseteq timers' /\ UNCHANGED fired
  <1>1. CASE UNCHANGED dbVars
    BY <1>1, StepKinds DEF dbVars, RowsAdvance, InsertExecution, CreateWorkflowExecution, CommitUpdate,
       UpdateWorkflowExecution, WriteTables
  <1>2. ASSUME NEW c \in Callers, InsertExecution(c)
        PROVE  RowsAdvance /\ timers \subseteq timers' /\ UNCHANGED fired
    <2>1. PICK k \in Keys :
            /\ executions[k] = NoExecution /\ executions'[k].version = 1
            /\ \A l \in Keys \ {k} : executions'[l] = executions[l]
            /\ timers' = timers
      BY <1>2, InsertEffect
    <2>2. executions[k].version < executions'[k].version
      BY <2>1 DEF NoExecution
    <2> QED BY <1>2, <2>1, <2>2 DEF RowsAdvance, InsertExecution, CreateWorkflowExecution
  <1>3. ASSUME NEW c \in Callers, CommitUpdate(c)
        PROVE  RowsAdvance /\ timers \subseteq timers' /\ UNCHANGED fired
    <2>1. PICK k \in Keys, txn \in Transaction :
            /\ executions'[k].version = executions[k].version + 1
            /\ \A l \in Keys \ {k} : executions'[l] = executions[l]
            /\ timers' = timers \cup txn.timers
      BY <1>3, CommitEffect
    <2>2. executions[k].version < executions'[k].version
      BY <2>1 DEF TypeOK, RepositoryTypeOK, Execution
    <2> QED BY <1>3, <2>1, <2>2 DEF RowsAdvance, CommitUpdate, UpdateWorkflowExecution, WriteTables
  <1> QED BY <1>1, <1>2, <1>3, StepKinds

LEMMA HistoryStepInv ==
  ASSUME TimerInv, [Next]_vars, UNCHANGED <<procs, incidents>>
  PROVE  /\ TimerTypeOK' /\ HistoryInv' /\ FitInv'
         /\ ProcessorSnapshotCurrent' /\ TimersKnown'
  <1>1. HistoryInv /\ FitInv /\ TypeOK /\ procs \in [Processors -> Processor] /\ incidents \in Nat
    BY DEF TimerInv, TimerTypeOK
  <1>2. HistoryInv' /\ RowsAdvance /\ timers \subseteq timers' /\ UNCHANGED fired
    BY <1>1, HandlerAdvances
  <1>3. FitInv'
    BY <1>1, FitStep
  <1>4. TimerTypeOK'
    BY <1>1, <1>2 DEF HistoryInv, TimerTypeOK
  <1>5. executions' \in [Keys -> Execution]
    BY <1>2 DEF HistoryInv, TypeOK, RepositoryTypeOK
  <1>6. ProcessorSnapshotCurrent'
    <2>1. \A q \in Processors : SnapshotFit(procs[q])'
      BY <1>2, <1>5, SnapshotAdvances
    <2> QED BY <2>1, SnapshotsIs
  <1>7. TimersKnown'
    BY <1>2, SetsOfTimers, KnownKept
  <1> QED BY <1>2, <1>3, <1>4, <1>6, <1>7

\* What is lost (timers in Redis, tasks, calls, and what processors had in hand) takes
\* nothing from the invariant.
LEMMA LossInv ==
  ASSUME TimerInv, UNCHANGED dbVars, active' \subseteq active, incidents' \in Nat,
         workflowQueue' \in Seq(QueuedTask), activityQueue' \in Seq(QueuedTask),
         calls' \in [Callers -> Call], \A c \in Callers : calls'[c] \in {calls[c], Idle},
         procs' \in [Processors -> Processor], \A p \in Processors : procs'[p] \in {procs[p], Idle}
  PROVE  /\ TimerTypeOK' /\ HistoryInv' /\ FitInv'
         /\ ProcessorSnapshotCurrent' /\ TimersKnown'
  <1>1. HistoryInv /\ FitInv /\ TypeOK
    BY DEF TimerInv, TimerTypeOK
  <1>2. active' \subseteq timers /\ active' \in SUBSET Timer
    BY SetsOfTimers
  <1>3. TimerTypeOK'
    BY <1>1, <1>2 DEF TimerTypeOK, TypeOK, RepositoryTypeOK, dbVars
  <1>4. SoundCall(Idle) /\ FitCall(Idle) /\ Hand(Idle) = {}
    BY DEF SoundCall, FitCall, Hand, Idle
  <1>5. HistoryInv'
    BY <1>1, <1>3, <1>4, CallsChange DEF TimerTypeOK, dbVars
  <1>6. FitInv'
    <2>1. \A c \in Callers : \/ calls'[c] = calls[c]
                             \/ FitCall(calls'[c]) /\ Hand(calls'[c]) \in {{}, Hand(calls[c])}
      BY <1>4
    <2> QED BY <1>1, <1>2, <2>1, FitKept DEF dbVars
  <1>7. ASSUME NEW q \in Processors
        PROVE  ProcFit(procs[q], fired)' /\ SnapshotFit(procs[q])'
    <2>1. ProcFit(procs'[q], fired) /\ SnapshotFit(procs'[q])
      BY FitProc, IdleFit
    <2> QED BY <2>1 DEF ProcFit, SnapshotFit, dbVars
  <1>8. fired' \subseteq timers'
    BY SetsOfTimers DEF dbVars
  <1> QED BY <1>3, <1>5, <1>6, <1>7, <1>8, SnapshotsIs, TimersKnownIs

LEMMA IncidentInv ==
  ASSUME TimerInv, RedisRestart \/ \E p \in Processors : ProcessorCrash(p)
  PROVE  /\ TimerTypeOK' /\ HistoryInv' /\ FitInv'
         /\ ProcessorSnapshotCurrent' /\ TimersKnown'
  <1>1. incidents \in Nat /\ Idle \in Processor /\ Idle \in Call
    BY DEF TimerInv, TimerTypeOK, Processor, Call
  <1>2. CASE RedisRestart
    BY <1>1, <1>2, SetsOfTimers, LossInv DEF RedisRestart
  <1>3. ASSUME NEW p \in Processors, ProcessorCrash(p)
        PROVE  /\ UNCHANGED <<dbVars, redisVars>> /\ incidents' \in Nat
               /\ calls' \in [Callers -> Call]
               /\ \A c \in Callers : calls'[c] \in {calls[c], Idle}
               /\ procs' \in [Processors -> Processor]
               /\ \A q \in Processors : procs'[q] \in {procs[q], Idle}
    BY <1>1, <1>3, SetsOfTimers DEF ProcessorCrash, Become
  <1> QED BY <1>2, <1>3, SetsOfTimers, LossInv DEF redisVars

LEMMA TimerStep ==
  ASSUME TimerInv, [TimerNext]_timerVars
  PROVE  /\ TimerTypeOK' /\ HistoryInv' /\ FitInv'
         /\ ProcessorSnapshotCurrent' /\ TimersKnown'
  <1>1. CASE HistoryStep \/ UNCHANGED timerVars
    BY <1>1, HistoryStepInv DEF HistoryStep, timerVars
  <1>2. ASSUME NEW p \in Processors, Run(p)
        PROVE  /\ TimerTypeOK' /\ HistoryInv' /\ FitInv'
               /\ ProcessorSnapshotCurrent' /\ TimersKnown'
    BY <1>2, RunKinds, FiredInv, MovesInv
  <1>3. CASE RedisRestart \/ \E p \in Processors : ProcessorCrash(p)
    BY <1>3, IncidentInv
  <1> QED BY <1>1, <1>2, <1>3 DEF TimerNext

LEMMA TimerInitInv ==
  TimerInit => TimerTypeOK /\ HistoryInv /\ FitInv /\ ProcessorSnapshotCurrent /\ TimersKnown
  <1> SUFFICES ASSUME TimerInit
               PROVE  TimerTypeOK /\ HistoryInv /\ FitInv /\ ProcessorSnapshotCurrent /\ TimersKnown
    OBVIOUS
  <1>1. Init /\ procs = [p \in Processors |-> Idle] /\ incidents = 0 /\ timers = {} /\ fired = {}
    BY DEF TimerInit, Init, RepositoryInit
  <1>2. HistoryInv /\ FitInv
    BY <1>1, InitInv, EffectInit DEF EffectInv
  <1>3. TimerTypeOK
    BY <1>1, <1>2 DEF TimerTypeOK, HistoryInv, Processor
  <1>4. \A p \in Processors : ProcFit(procs[p], fired) /\ SnapshotFit(procs[p])
    BY <1>1 DEF ProcFit, SnapshotFit, Idle, Batching
  <1> QED BY <1>1, <1>2, <1>3, <1>4, SnapshotsIs, TimersKnownIs

--------------------------------------------------------------------------------
(* Readers *)

\* No step takes an event from a history.
LEMMA HistoryGrows ==
  ASSUME TimerInv, [TimerNext]_timerVars, NEW k \in Keys
  PROVE  history[k] \subseteq history'[k]
  <1>1. CASE UNCHANGED history
    BY <1>1
  <1>2. CASE HistoryStep
    <2>1. HistoryInv /\ [Next]_vars
      BY <1>2 DEF HistoryStep, TimerInv
    <2>2. ASSUME NEW c \in Callers, InsertExecution(c)
          PROVE  history[k] \subseteq history'[k]
      <3>1. PICK l \in Keys : history[l] = {} /\ \A m \in Keys \ {l} : history'[m] = history[m]
        BY <2>1, <2>2, InsertEffect
      <3> QED BY <3>1
    <2>3. ASSUME NEW c \in Callers, CommitUpdate(c)
          PROVE  history[k] \subseteq history'[k]
      <3>1. PICK l \in Keys, txn \in Transaction :
              /\ history'[l] = history[l] \cup txn.events
              /\ \A m \in Keys \ {l} : history'[m] = history[m]
        BY <2>1, <2>3, CommitEffect
      <3> QED BY <3>1
    <2> QED BY <1>1, <2>1, <2>2, <2>3, StepKinds DEF dbVars
  <1>3. ASSUME NEW p \in Processors, CommitFired(p)
        PROVE  history[k] \subseteq history'[k]
    <2>1. /\ history \in [Keys -> SUBSET Event]
          /\ \E l \in Keys : \E e : history' = [history EXCEPT ![l] = history[l] \cup {e}]
      BY <1>3, FiredEffect DEF TimerInv, TimerTypeOK, TypeOK, RepositoryTypeOK
    <2> QED BY <2>1
  <1>4. ASSUME NEW p \in Processors, NEW proc, Moves(p, proc)
        PROVE  UNCHANGED history
    BY <1>4 DEF Moves
  <1>5. CASE UNCHANGED timerVars \/ RedisRestart \/ \E p \in Processors : ProcessorCrash(p)
    BY <1>1, <1>5 DEF timerVars, vars, dbVars, RedisRestart, ProcessorCrash
  <1> QED BY <1>1, <1>2, <1>3, <1>4, <1>5, RunKinds DEF TimerNext

\* A whole history is numbered from 1 to its size.
LEMMA HistorySize ==
  ASSUME HistoryInv, NEW k \in Keys
  PROVE  {e.id : e \in history[k]} = 1 .. Cardinality(history[k])
  <1> DEFINE n == executions[k].next - 1
             f == [e \in history[k] |-> e.id]
  <1>1. /\ {e.id : e \in history[k]} = 1 .. n
        /\ \A e, g \in history[k] : e.id = g.id => e = g
    BY DEF HistoryInv, EventIDsContiguous
  <1>2. n \in Nat
    BY DEF HistoryInv, TypeOK, RepositoryTypeOK, NextPositive, Execution
  <1> HIDE DEF n
  <1>3. /\ f \in [history[k] -> 1 .. n] /\ \A e, g \in history[k] : f[e] = f[g] => e = g
        /\ \A i \in 1 .. n : \E e \in history[k] : f[e] = i
    BY <1>1
  <1> HIDE DEF f
  <1>4. f \in Bijection(history[k], 1 .. n)
    BY <1>3 DEF Bijection, Injection, Surjection, IsInjective
  <1>5. IsFiniteSet(history[k])
    BY FiniteHistory
  <1>6. Cardinality(1 .. n) = Cardinality(history[k])
    BY <1>4, <1>5, FS_Bijection DEF ExistsBijection
  <1>7. Cardinality(1 .. n) = n
    BY <1>2, FS_Interval
  <1> QED BY <1>1, <1>6, <1>7

LEMMA ReadersStep ==
  ASSUME TimerInv, ReadersTypeOK, ViewsArePrefixes, TimerTypeOK', [ReadersNext]_readerVars
  PROVE  ReadersTypeOK' /\ ViewsArePrefixes'
  <1>1. views \in [Readers -> View] /\ [TimerNext]_timerVars
    BY DEF ReadersTypeOK, ReadersNext, readerVars, timerVars, Ask, GetWorkflowExecutionHistory,
       QueryWorkflowExecution, ReadFails
  <1>2. \A r \in Readers : views[r].pc # "idle" => views[r].key \in Keys
    BY <1>1 DEF View, Idle
  <1>3. \A k \in Keys : history[k] \subseteq history'[k]
    BY <1>1, HistoryGrows
  <1>4. \A k \in Keys : history[k] \in SUBSET Event
    BY DEF TimerInv, HistoryInv, TypeOK, RepositoryTypeOK
  <1> DEFINE Prefix(view) == LET seen == view.seen
                             IN  /\ seen \subseteq history'[view.key]
                                 /\ {e.id : e \in seen} = 1 .. Cardinality(seen)
  <1>5. ASSUME NEW r \in Readers, views[r].pc = "answered"
        PROVE  Prefix(views[r])
    BY <1>2, <1>3, <1>5 DEF ViewsArePrefixes
  <1>6. ASSUME NEW r \in Readers, NEW view \in View, views' = [views EXCEPT ![r] = view],
               view.pc = "answered" => Prefix(view)
        PROVE  ReadersTypeOK' /\ ViewsArePrefixes'
    <2>1. \A q \in Readers : views'[q] = IF q = r THEN view ELSE views[q]
      BY <1>1, <1>6
    <2>2. \A q \in Readers : views'[q].pc = "answered" => Prefix(views'[q])
      BY <1>5, <1>6, <2>1
    <2>3. ReadersTypeOK'
      BY <1>1, <1>6 DEF ReadersTypeOK
    <2> QED BY <2>2, <2>3 DEF ViewsArePrefixes
  <1>7. CASE UNCHANGED views
    <2>1. \A q \in Readers : views'[q].pc = "answered" => Prefix(views'[q])
      BY <1>5, <1>7
    <2> QED BY <1>1, <1>7, <2>1 DEF ReadersTypeOK, ViewsArePrefixes
  <1>8. ASSUME NEW r \in Readers, NEW rpc \in {"history", "query"}, NEW k \in Keys, Ask(r, rpc, k)
        PROVE  ReadersTypeOK' /\ ViewsArePrefixes'
    BY <1>6, <1>8 DEF Ask, Show, View
  <1>9. ASSUME NEW r \in Readers, NEW seen, views[r].pc = "asked",
               seen = {} \/ seen = history[views[r].key],
               Show(r, [pc |-> "answered", key |-> views[r].key, seen |-> seen])
        PROVE  ReadersTypeOK' /\ ViewsArePrefixes'
    <2> DEFINE view == [pc |-> "answered", key |-> views[r].key, seen |-> seen]
    <2>1. views[r].key \in Keys
      BY <1>2, <1>9
    <2>2. view \in View
      BY <1>4, <1>9, <2>1 DEF View
    <2>3. {e.id : e \in seen} = 1 .. Cardinality(seen)
      <3>1. CASE seen = {}
        <4>1. {e.id : e \in {}} = 1 .. 0
          OBVIOUS
        <4> QED BY <3>1, <4>1, FS_EmptySet
      <3>2. CASE seen = history[views[r].key]
        BY <2>1, <3>2, HistorySize DEF TimerInv
      <3> QED BY <1>9, <3>1, <3>2
    <2>4. Prefix(view)
      BY <1>3, <1>9, <2>1, <2>3
    <2> QED BY <1>6, <1>9, <2>2, <2>4 DEF Show
  <1> HIDE DEF Prefix
  <1>10. ASSUME NEW r \in Readers,
                GetWorkflowExecutionHistory(r) \/ QueryWorkflowExecution(r) \/ ReadFails(r)
         PROVE  ReadersTypeOK' /\ ViewsArePrefixes'
    BY <1>9, <1>10 DEF GetWorkflowExecutionHistory, QueryWorkflowExecution, ReadFails, GetHistoryEvents
  <1> QED BY <1>7, <1>8, <1>10 DEF ReadersNext, readerVars

--------------------------------------------------------------------------------
(* Theorems *)

\* With any number of timer processors beside the handlers the history stays contiguous, the
\* status is the outcome it records, and every timer, wherever it is, is one that the
\* history armed, in spite of crashes, lost replies, and Redis losing its data.
THEOREM TimersSound == TimerSpec => []TimerInv
  <1>1. TimerInv /\ [TimerNext]_timerVars
          => (TimerTypeOK /\ HistoryInv /\ FitInv /\ ProcessorSnapshotCurrent /\ TimersKnown)'
    BY TimerStep
  <1>2. TimerTypeOK /\ FitInv /\ TimersKnown => NoRunTimeout
    BY NoRunTimeoutHolds
  <1>3. TimerInv <=> /\ TimerTypeOK /\ HistoryInv /\ FitInv /\ ProcessorSnapshotCurrent
                     /\ TimersKnown /\ NoRunTimeout
    BY DEF TimerInv
  <1> QED BY TimerInitInv, <1>1, <1>2, <1>3, PTL DEF TimerSpec

LEMMA OnlyFires ==
  ASSUME TimerInv, [TimerNext]_timerVars
  PROVE  OnlyFiresIfClosed
  <1>1. CASE FrozenIfClosed
    BY <1>1 DEF FrozenIfClosed, OnlyFiresIfClosed
  <1>2. CASE UNCHANGED <<executions, history, activities, timers>>
    BY <1>2 DEF OnlyFiresIfClosed
  <1>3. CASE HistoryStep \/ UNCHANGED timerVars
    <2>1. HistoryInv /\ [Next]_vars
      BY <1>3 DEF HistoryStep, timerVars, TimerInv
    <2> QED BY <1>1, <2>1, FrozenStep
  <1>4. CASE RedisRestart \/ \E p \in Processors : ProcessorCrash(p)
    BY <1>2, <1>4 DEF RedisRestart, ProcessorCrash, dbVars
  <1>5. ASSUME NEW p \in Processors, NEW proc, Moves(p, proc)
        PROVE  OnlyFiresIfClosed
    BY <1>2, <1>5 DEF Moves
  <1>6. ASSUME NEW p \in Processors, CommitFired(p)
        PROVE  OnlyFiresIfClosed
    <2> DEFINE k == procs[p].timer.key
               event == NewEvent(executions[k].next, "TimerFired", NoActivity)
    <2>1. /\ k \in Keys
          /\ executions' = [executions EXCEPT ![k] = FiredRow(executions[k])]
          /\ history' = [history EXCEPT ![k] = history[k] \cup {event}]
          /\ UNCHANGED <<activities, timers>>
      BY <1>6, FiredEffect
    <2>2. executions \in [Keys -> Execution] /\ history \in [Keys -> SUBSET Event]
      BY DEF TimerInv, TimerTypeOK, TypeOK, RepositoryTypeOK
    <2>3. FiredRow(executions[k]).status = executions[k].status /\ event.type = "TimerFired"
      BY DEF FiredRow, NewEvent
    <2> HIDE DEF k, event
    <2>4. \A l \in Keys : /\ executions'[l].status = executions[l].status
                          /\ \A e \in history'[l] \ history[l] : e.type = "TimerFired"
      BY <2>1, <2>2, <2>3
    <2> QED BY <2>1, <2>4 DEF OnlyFiresIfClosed
  <1> QED BY <1>3, <1>4, <1>5, <1>6, RunKinds DEF TimerNext

\* A closed run can only receive TimerFired events, whatever the processors have read of it.
THEOREM ClosedFires == TimerSpec => ClosedOnlyFires
  <1>1. TimerInv /\ [TimerNext]_timerVars => [OnlyFiresIfClosed]_timerVars
    BY OnlyFires
  <1> QED BY TimersSound, <1>1, PTL DEF TimerSpec, ClosedOnlyFires

\* Whatever has been read of a history, however long ago, is still its beginning: complete,
\* without gaps, and never taken back.
THEOREM PrefixesRead == ReadersSpec => []ViewsArePrefixes
  <1>1. ReadersInit => TimerInit /\ ReadersTypeOK /\ ViewsArePrefixes
    <2> SUFFICES ASSUME ReadersInit PROVE TimerInit /\ ReadersTypeOK /\ ViewsArePrefixes
      OBVIOUS
    <2>1. TimerInit /\ views = [r \in Readers |-> Idle]
      BY DEF ReadersInit
    <2>2. TimerTypeOK
      BY <2>1, TimerInitInv
    <2> QED BY <2>1, <2>2 DEF ReadersTypeOK, ViewsArePrefixes, View, Idle
  <1>2. [ReadersNext]_readerVars => [TimerNext]_timerVars
    BY DEF ReadersNext, readerVars, timerVars, Ask, GetWorkflowExecutionHistory,
       QueryWorkflowExecution, ReadFails
  <1>3. ReadersSpec => TimerSpec
    BY <1>1, <1>2, PTL DEF ReadersSpec, TimerSpec
  <1>4. ReadersSpec => []TimerInv
    BY <1>3, TimersSound, PTL
  <1>5. TimerInv /\ TimerInv' /\ ReadersTypeOK /\ ViewsArePrefixes /\ [ReadersNext]_readerVars
          => (ReadersTypeOK /\ ViewsArePrefixes)'
    BY ReadersStep DEF TimerInv
  <1> QED BY <1>1, <1>4, <1>5, PTL DEF ReadersSpec
================================================================================
