------------------------------ MODULE FiringProofs ------------------------------
(***************************************************************************)
(* A timer that is not in the hands of a scavenger is handled once: what   *)
(* has been handled is spent, and every event and every task that the      *)
(* processors make has a spent timer of its own to answer for it.          *)
(***************************************************************************)
EXTENDS TimerProofs

--------------------------------------------------------------------------------
(* Where a timer may be: in Redis (A), with a call (H), with a processor (P) *)

Single(type, A, H, P) ==
  /\ \A t \in A : t.type = type =>
       (\A c \in Callers : t \notin H[c]) /\ (\A p \in Processors : t \notin P[p])
  /\ \A c \in Callers : \A t \in H[c] : t.type = type =>
       /\ \A d \in Callers \ {c} : t \notin H[d]
       /\ \A p \in Processors : t \notin P[p]
  /\ \A p \in Processors : \A t \in P[p] : t.type = type =>
       \A q \in Processors \ {p} : t \notin P[q]

Waits(t, A, H, P) == t \in A \/ (\E c \in Callers : t \in H[c]) \/ \E p \in Processors : t \in P[p]

Hands == [c \in Callers |-> TimersInHand(calls[c])]
Claims == [p \in Processors |-> Held(procs[p])]

LEMMA PlacesAre ==
  /\ \A t : t \in Pending <=> Waits(t, active, Hands, Claims)
  /\ \A t : t \in Pending' <=> Waits(t, active', Hands', Claims')
  /\ \A type : OnePlace(type) <=> Single(type, active, Hands, Claims)
  /\ \A type : OnePlace(type)' <=> Single(type, active', Hands', Claims')
  <1>1. /\ \A c \in Callers : Hands[c] = InCall(c) /\ Hands'[c] = InCall(c)'
        /\ \A p \in Processors : Claims[p] = Claimed(p) /\ Claims'[p] = Claimed(p)'
    BY DEF Hands, Claims, InCall, TimersInHand, Claimed, Held
  <1>2. /\ \A t : t \in Pending <=> Waits(t, active, Hands, Claims)
        /\ \A t : t \in Pending' <=> Waits(t, active', Hands', Claims')
    BY <1>1 DEF Pending, Waits
  <1>3. ASSUME NEW type
        PROVE  /\ OnePlace(type) <=> Single(type, active, Hands, Claims)
               /\ OnePlace(type)' <=> Single(type, active', Hands', Claims')
    BY <1>1 DEF OnePlace, Single
  <1> QED BY <1>2, <1>3

\* Everybody keeps what they had, or less.
LEMMA LoseSome ==
  ASSUME NEW type, NEW A, NEW H, NEW P, NEW A2, NEW H2, NEW P2, Single(type, A, H, P),
         A2 \subseteq A, \A c \in Callers : H2[c] \subseteq H[c],
         \A p \in Processors : P2[p] \subseteq P[p]
  PROVE  /\ Single(type, A2, H2, P2)
         /\ \A t : Waits(t, A2, H2, P2) => Waits(t, A, H, P)
  BY DEF Single, Waits

--------------------------------------------------------------------------------
(* What a step does to the places of the timers of one type *)

\* Each of them stays in one place at a time, and those that are spent stay spent.
Kept(type) ==
  /\ OnePlace(type)'
  /\ \A t \in fired : t.type = type /\ t \notin Pending => t \in fired' /\ t \notin Pending'

LEMMA PendingKnown ==
  ASSUME TimerInv
  PROVE  Pending \subseteq timers
  <1>1. \A c \in Callers : TimersInHand(calls[c]) \subseteq timers
    <2>1. \A c \in Callers : FitCall(calls[c])
      BY EffectsFitIs DEF TimerInv, FitInv
    <2> QED BY <2>1 DEF FitCall, TimersInHand
  <1>2. \A p \in Processors : Held(procs[p]) \subseteq timers
    BY FitProc, SetsOfTimers DEF ProcFit, Held, Batching
  <1>3. \A t \in Pending : \/ t \in active \/ \E c \in Callers : t \in TimersInHand(calls[c])
                           \/ \E p \in Processors : t \in Held(procs[p])
    BY PlacesAre DEF Waits, Hands, Claims
  <1> QED BY <1>1, <1>2, <1>3, SetsOfTimers

LEMMA CallKeeps ==
  ASSUME TimerInv, NEW type, OnePlace(type), UNCHANGED <<procs, fired>>,
         NEW c \in Callers, NEW call, calls' = [calls EXCEPT ![c] = call],
         \A t : t.type = type /\ (t \in active' \/ t \in TimersInHand(call))
                  => t \in active \/ t \in TimersInHand(calls[c]) \/ t \notin timers,
         \A t : t.type = type /\ t \in active' /\ t \in TimersInHand(call)
                  => t \in active /\ t \in TimersInHand(calls[c])
  PROVE  Kept(type)
  <1>1. calls \in [Callers -> Call]
    BY SetsOfTimers
  <1>2. /\ Claims' = Claims
        /\ Hands[c] = TimersInHand(calls[c]) /\ Hands'[c] = TimersInHand(call)
        /\ \A d \in Callers \ {c} : Hands'[d] = Hands[d]
    BY <1>1 DEF Claims, Hands
  <1>3. \A t : Waits(t, active, Hands, Claims) => t \in timers
    BY PendingKnown, PlacesAre
  <1>4. Single(type, active, Hands, Claims)
    BY PlacesAre
  <1>5. /\ \A t : t.type = type /\ (t \in active' \/ t \in Hands'[c])
                    => t \in active \/ t \in Hands[c] \/ t \notin timers
        /\ \A t : t.type = type /\ t \in active' /\ t \in Hands'[c] => t \in active /\ t \in Hands[c]
    BY <1>2
  <1>6. /\ Single(type, active', Hands', Claims)
        /\ \A t : Waits(t, active', Hands', Claims)
                    => Waits(t, active, Hands, Claims) \/ t \in active' \/ t \in Hands'[c]
    <2>1. /\ \A d \in Callers \ {c} : Hands'[d] = Hands[d]
          /\ \A t : t.type = type /\ (t \in active' \/ t \in Hands'[c])
                    => t \in active \/ t \in Hands[c] \/ ~Waits(t, active, Hands, Claims)
          /\ \A t : t.type = type /\ t \in active' /\ t \in Hands'[c] => t \in active /\ t \in Hands[c]
      BY <1>2, <1>3, <1>5
    <2> QED BY <1>4, <2>1 DEF Single, Waits
  <1>7. \A t \in fired : t.type = type /\ Waits(t, active', Hands', Claims)
                           => Waits(t, active, Hands, Claims)
    BY <1>5, <1>6, SetsOfTimers DEF Waits
  <1> QED BY <1>2, <1>6, <1>7, PlacesAre DEF Kept

LEMMA LossKeeps ==
  ASSUME TimerInv, NEW type, OnePlace(type), UNCHANGED fired, active' \subseteq active,
         \A c \in Callers : calls'[c] \in {calls[c], Idle},
         \A p \in Processors : procs'[p] \in {procs[p], Idle}
  PROVE  Kept(type)
  <1>1. TimersInHand(Idle) = {} /\ Held(Idle) = {}
    BY DEF TimersInHand, Held, Idle, Batching
  <1>2. /\ \A c \in Callers : Hands'[c] \subseteq Hands[c]
        /\ \A p \in Processors : Claims'[p] \subseteq Claims[p]
    BY <1>1 DEF Hands, Claims
  <1>3. Single(type, active, Hands, Claims)
    BY PlacesAre
  <1>4. /\ Single(type, active', Hands', Claims')
        /\ \A t : Waits(t, active', Hands', Claims') => Waits(t, active, Hands, Claims)
    BY <1>2, <1>3, LoseSome
  <1> QED BY <1>4, PlacesAre DEF Kept

\* A processor that neither scavenges nor crashes.  What it held, and neither holds any more
\* nor has put back, is nowhere.
LEMMA MoveKeeps ==
  ASSUME TimerInv, NEW type, OnePlace(type), UNCHANGED calls, fired \subseteq fired',
         NEW p \in Processors, NEW proc, procs' = [procs EXCEPT ![p] = proc], Passes(p, proc)
  PROVE  /\ Kept(type)
         /\ \A t \in Held(procs[p]) :
              t.type = type /\ t \notin active' /\ t \notin Held(proc) => t \in Pending /\ t \notin Pending'
  <1>1. /\ Hands' = Hands
        /\ Claims[p] = Held(procs[p]) /\ Claims'[p] = Held(proc)
        /\ \A q \in Processors \ {p} : Claims'[q] = Claims[q]
    BY SetsOfTimers DEF Hands, Claims
  <1>2. Single(type, active, Hands, Claims)
    BY PlacesAre
  <1>3. /\ \A t : t \in active' \/ t \in Claims'[p] => t \in active \/ t \in Claims[p]
        /\ \A t : t \in active' /\ t \in Claims'[p] => t \in active /\ t \in Claims[p]
    BY <1>1 DEF Passes
  <1>4. /\ Single(type, active', Hands, Claims')
        /\ \A t : Waits(t, active', Hands, Claims') => Waits(t, active, Hands, Claims)
        /\ \A t \in Claims[p] : t.type = type /\ t \notin active' /\ t \notin Claims'[p]
                                  => ~Waits(t, active', Hands, Claims')
    <2>1. \A q \in Processors \ {p} : Claims'[q] = Claims[q]
      BY <1>1
    <2> QED BY <1>2, <1>3, <2>1 DEF Single, Waits
  <1>5. Kept(type)
    BY <1>1, <1>4, PlacesAre DEF Kept
  <1>6. \A t \in Claims[p] : Waits(t, active, Hands, Claims)
    BY DEF Waits
  <1> QED BY <1>1, <1>4, <1>5, <1>6, PlacesAre

--------------------------------------------------------------------------------
(* The steps of the calls *)

\* The timers in hand of call c after a step: none, a timeout that a heartbeat will move, those
\* it has just armed, or one less, which has gone to Redis or is lost.
Carries(c, call) ==
  \/ TimersInHand(call) = {} /\ UNCHANGED active
  \/ /\ calls[c].pc = "peek" /\ UNCHANGED active
     /\ \A t \in TimersInHand(call) : t.type = "ActivityTimeout"
  \/ TimersInHand(call) \cap timers = {} /\ UNCHANGED active
  \/ \E t \in TimersInHand(calls[c]) : /\ TimersInHand(call) \subseteq TimersInHand(calls[c]) \ {t}
                                       /\ active' \subseteq active \cup {t}
                                       /\ active \subseteq active'

LEMMA CommitCarries ==
  ASSUME HistoryInv, FitInv, NEW c \in Callers, CommitUpdate(c)
  PROVE  \E call : calls' = [calls EXCEPT ![c] = call] /\ Carries(c, call)
  <1> DEFINE k == calls[c].key
             txn == calls[c].txn
  <1>1. PICK call : Writes(c, k, txn.events, txn.tasks, call)
    BY CommitWrites DEF FitInv
  <1>2. /\ calls' = [calls EXCEPT ![c] = call] /\ UNCHANGED active /\ k \in Keys
        /\ \A e \in txn.events, h \in history[k] : e.id # h.id
    BY <1>1, CommitWrites DEF Writes, redisVars, FitInv
  <1>3. calls \in [Callers -> Call] /\ calls[c].pc = "update"
    BY DEF HistoryInv, TypeOK, CommitUpdate
  <1>4. calls'[c] = call
    BY <1>2, <1>3
  <1>5. txn.timers = Armed(k, txn.events)
    BY <1>3, EffectsFitIs DEF FitInv, FitCall, TxnFit
  <1>6. ASSUME NEW t \in txn.timers PROVE t \notin timers
    <2>1. PICK e \in txn.events : t.key = k /\ t.event = e.id
      BY <1>5 DEF Armed
    <2>2. t \in timers => \E h \in history[k] : t.event = h.id
      BY <2>1 DEF FitInv, TimersMatchHistory, Armed
    <2> QED BY <1>2, <2>1, <2>2
  <1>7. calls'[c] \in {[pc |-> "peek", key |-> k], Publish(txn.timers, txn.tasks), Idle}
    BY <1>3 DEF CommitUpdate, AfterCommit
  <1>8. TimersInHand(call) \subseteq txn.timers
    BY <1>4, <1>7 DEF TimersInHand, Publish, Idle
  <1>9. TimersInHand(call) \cap timers = {}
    BY <1>6, <1>8
  <1> QED BY <1>2, <1>9 DEF Carries

LEMMA CallCarries ==
  ASSUME HistoryInv, FitInv, NEW c \in Callers, Request(c) \/ Proceed(c) \/ StatementFails(c)
  PROVE  \E call : calls' = [calls EXCEPT ![c] = call] /\ Carries(c, call)
  <1>1. CASE Request(c)
    <2>1. PICK k \in Keys : \E call : Enter(c, call) /\ Admitted(k, call)
      BY <1>1, RequestShape
    <2>2. PICK call : Enter(c, call) /\ Admitted(k, call)
      BY <2>1
    <2>3. call.pc \in {"insert", "read", "update"}
      BY <2>2 DEF Admitted, Update
    <2>4. TimersInHand(call) = {}
      BY <2>3 DEF TimersInHand
    <2> QED BY <2>2, <2>4 DEF Enter, Carries, redisVars
  <1>2. CASE GetActivityState(c)
    <2> DEFINE cl == calls[c]
               arow == activities[cl.key][cl.act]
               txn == ActivityTxn(cl.rpc, cl.key, cl.row, cl.act, arow)
               then == IF cl.rpc = "RecordActivityTaskHeartbeat" THEN "peek" ELSE "publish"
               update == [pc |-> "update", key |-> cl.key, row |-> cl.row, txn |-> txn, then |-> then]
    <2>1. PICK call \in {Idle, update} : calls' = [calls EXCEPT ![c] = call]
      BY <1>2 DEF GetActivityState
    <2>2. TimersInHand(call) = {}
      BY <2>1 DEF TimersInHand, Idle
    <2> QED BY <1>2, <2>1, <2>2 DEF GetActivityState, Carries, redisVars
  <1>3. CASE InsertExecution(c)
    <2>1. PICK call : calls' = [calls EXCEPT ![c] = call] /\ TimersInHand(call) = {}
      BY <1>3 DEF InsertExecution, AfterCommit, Publish, TimersInHand, Idle
    <2> QED BY <1>3, <2>1 DEF InsertExecution, Carries, redisVars
  <1>4. CASE RollbackUpdate(c) \/ StatementFails(c)
    <2>1. TimersInHand(Idle) = {}
      BY DEF TimersInHand, Idle
    <2> QED BY <1>4, <2>1 DEF RollbackUpdate, StatementFails, Carries, redisVars
  <1>5. CASE PeekTimeoutTimer(c)
    <2>1. PICK call : /\ calls' = [calls EXCEPT ![c] = call]
                      /\ \/ \E t \in GetActivityTimeoutTimer(calls[c].key) : call = Publish({t}, {})
                         \/ call = Idle
      BY <1>5 DEF PeekTimeoutTimer
    <2>2. \A t \in TimersInHand(call) : t.type = "ActivityTimeout"
      BY <2>1 DEF TimersInHand, Publish, Idle, GetActivityTimeoutTimer
    <2> QED BY <1>5, <2>1, <2>2 DEF PeekTimeoutTimer, Carries, redisVars
  <1>6. ASSUME NEW t \in calls[c].timers, ScheduleTimer(c, t)
        PROVE  \E call : calls' = [calls EXCEPT ![c] = call] /\ Carries(c, call)
    <2> DEFINE call == Publish(calls[c].timers \ {t}, calls[c].tasks)
    <2>1. /\ t \in TimersInHand(calls[c])
          /\ TimersInHand(call) \subseteq TimersInHand(calls[c]) \ {t}
      BY <1>6 DEF ScheduleTimer, TimersInHand, Publish, Idle
    <2>2. /\ calls' = [calls EXCEPT ![c] = call] /\ active' \subseteq active \cup {t}
          /\ active \subseteq active'
      BY <1>6 DEF ScheduleTimer
    <2> HIDE DEF call
    <2>3. Carries(c, call)
      BY <2>1, <2>2 DEF Carries
    <2> QED BY <2>2, <2>3
  <1>7. ASSUME NEW t \in calls[c].tasks, AddTask(c, t)
        PROVE  \E call : calls' = [calls EXCEPT ![c] = call] /\ Carries(c, call)
    <2>1. TimersInHand(Publish({}, calls[c].tasks \ {t})) = {}
      BY DEF TimersInHand, Publish, Idle
    <2> QED BY <1>7, <2>1 DEF AddTask, Carries
  <1> QED BY <1>1, <1>2, <1>3, <1>4, <1>5, <1>6, <1>7, CommitCarries DEF Proceed

LEMMA CallsKeep ==
  ASSUME TimerInv, [Next]_vars, UNCHANGED procs, NEW type, OnePlace(type),
         type = "ActivityTimeout" => \A c \in Callers : calls[c].pc # "peek"
  PROVE  Kept(type)
  <1>1. /\ HistoryInv /\ FitInv /\ UNCHANGED fired
    BY HandlerAdvances DEF TimerInv, TimerTypeOK
  <1>2. ASSUME NEW c \in Callers, Request(c) \/ Proceed(c) \/ StatementFails(c)
        PROVE  Kept(type)
    <2>1. PICK call : calls' = [calls EXCEPT ![c] = call] /\ Carries(c, call)
      BY <1>1, <1>2, CallCarries
    <2>2. \A t \in TimersInHand(calls[c]) : t.type = type => t \notin active
      <3>1. \A t \in InCall(c) : t.type = type => t \notin active
        BY DEF OnePlace
      <3> QED BY <3>1 DEF InCall, TimersInHand
    <2>3. /\ \A t : t.type = type /\ (t \in active' \/ t \in TimersInHand(call))
                      => t \in active \/ t \in TimersInHand(calls[c]) \/ t \notin timers
          /\ \A t : t.type = type /\ t \in active' /\ t \in TimersInHand(call)
                      => t \in active /\ t \in TimersInHand(calls[c])
      <3>1. CASE TimersInHand(call) = {} /\ UNCHANGED active
        BY <3>1
      <3>2. CASE calls[c].pc = "peek" /\ UNCHANGED active
                 /\ \A t \in TimersInHand(call) : t.type = "ActivityTimeout"
        BY <3>2
      <3>3. CASE TimersInHand(call) \cap timers = {} /\ UNCHANGED active
        BY <3>3, SetsOfTimers
      <3>4. CASE \E t \in TimersInHand(calls[c]) :
                   /\ TimersInHand(call) \subseteq TimersInHand(calls[c]) \ {t}
                   /\ active' \subseteq active \cup {t}
                   /\ active \subseteq active'
        BY <2>2, <3>4
      <3> QED BY <2>1, <3>1, <3>2, <3>3, <3>4 DEF Carries
    <2> QED BY <1>1, <2>1, <2>3, CallKeeps
  <1>3. CASE Crash \/ UNCHANGED vars
    <2>1. UNCHANGED active /\ \A c \in Callers : calls'[c] \in {calls[c], Idle}
      BY <1>3 DEF Crash, vars, redisVars
    <2> QED BY <1>1, <2>1, LossKeeps
  <1> QED BY <1>2, <1>3 DEF Next

--------------------------------------------------------------------------------
(* What the calls may have prepared *)

NoFiring(call) == call.pc = "update" => \A e \in call.txn.events : e.type # "TimerFired"

\* Not the call of a heartbeat.
NoHeartbeat(call) ==
  /\ call.pc # "peek"
  /\ call.pc = "read" => call.rpc # "RecordActivityTaskHeartbeat"
  /\ call.pc = "update" => call.then # "peek"

\* Only the processors write TimerFired.
LEMMA HandlersFireNothing ==
  ASSUME NEW k, NEW row, NEW txn, HandlerTxn(k, row, txn), NEW e \in txn.events
  PROVE  e.type # "TimerFired"
  <1>1. ASSUME NEW cmds \in Batches, txn = WorkflowTaskCompletedTxn(k, row, cmds)
        PROVE  e.type # "TimerFired"
    <2>1. cmds \in Seq(Command)
      BY ServiceAssumption
    <2>2. \A i \in 1 .. Len(cmds) : cmds[i] \in Command
      BY <2>1
    <2>3. \A i \in 1 .. Len(cmds) : CommandEvent[cmds[i].type] # "TimerFired"
      BY <2>2 DEF Command, CommandEvent, CommandTypes
    <2>4. \/ e.type = "WorkflowTaskCompleted"
          \/ \E i \in DOMAIN cmds : e.type = CommandEvent[cmds[i].type]
      BY <1>1 DEF WorkflowTaskCompletedTxn, NewEvent
    <2> QED BY <2>1, <2>3, <2>4
  <1>2. ASSUME NEW a \in Activities, NEW arow, NEW rpc \in ActivityRPCs,
               txn = ActivityTxn(rpc, k, row, a, arow)
        PROVE  e.type # "TimerFired"
    <2>1. /\ ActivityTaskCompletedTxn(k, row, a, arow).events
               = {NewEvent(row.next, "ActivityTaskCompleted", a)}
          /\ RetryActivityTxn(k, row, a, arow).events = {NewEvent(row.next, "ActivityTaskFailed", a)}
          /\ FailActivityTxn(k, row, a, arow).events
               = {NewEvent(row.next, "ActivityTaskFailedFinally", a)}
          /\ HeartbeatTxn(row, a, arow).events = {}
      BY DEF ActivityTaskCompletedTxn, RetryActivityTxn, FailActivityTxn, HeartbeatTxn, AppendEvent
    <2>2. txn \in {ActivityTaskCompletedTxn(k, row, a, arow), RetryActivityTxn(k, row, a, arow),
                   FailActivityTxn(k, row, a, arow), HeartbeatTxn(row, a, arow)}
      <3>1. /\ rpc = "RecordActivityTaskCompleted" => txn = ActivityTaskCompletedTxn(k, row, a, arow)
            /\ rpc = "RecordActivityTaskFailed" => txn = ActivityTaskFailedTxn(k, row, a, arow)
            /\ rpc = "RecordActivityTaskHeartbeat" => txn = HeartbeatTxn(row, a, arow)
        BY <1>2, Zenon DEF ActivityTxn
      <3>2. ActivityTaskFailedTxn(k, row, a, arow)
              \in {RetryActivityTxn(k, row, a, arow), FailActivityTxn(k, row, a, arow)}
        BY DEF ActivityTaskFailedTxn
      <3> QED BY <3>1, <3>2 DEF ActivityRPCs
    <2> QED BY <2>1, <2>2 DEF NewEvent
  <1>3. /\ WorkflowTaskStartedTxn(k, row).events = {NewEvent(row.next, "WorkflowTaskStarted", NoActivity)}
        /\ \A a : ActivityTaskStartedTxn(row, a).events = {NewEvent(row.next, "ActivityTaskStarted", a)}
        /\ SignalTxn(k, row).events = {NewEvent(row.next, "WorkflowExecutionSignaled", NoActivity)}
    BY DEF WorkflowTaskStartedTxn, ActivityTaskStartedTxn, SignalTxn, AppendEvent
  <1>4. \A f \in WorkflowTaskFailedTxn(row).events : f.type # "TimerFired"
    BY DEF WorkflowTaskFailedTxn, AppendEvent, NewEvent
  <1>5. \A id, a : /\ NewEvent(id, "WorkflowTaskStarted", a).type # "TimerFired"
                   /\ NewEvent(id, "ActivityTaskStarted", a).type # "TimerFired"
                   /\ NewEvent(id, "WorkflowExecutionSignaled", a).type # "TimerFired"
    BY DEF NewEvent
  <1> QED BY <1>1, <1>2, <1>3, <1>4, <1>5 DEF HandlerTxn, RequestTxn

LEMMA CallsPrepare ==
  ASSUME HistoryInv, [Next]_vars, NEW d \in Callers
  PROVE  /\ NoFiring(calls[d]) => NoFiring(calls'[d])
         /\ "RecordActivityTaskHeartbeat" \notin RPCs /\ NoHeartbeat(calls[d]) => NoHeartbeat(calls'[d])
  <1> DEFINE Goal(call) ==
        /\ NoFiring(calls[d]) => NoFiring(call)
        /\ "RecordActivityTaskHeartbeat" \notin RPCs /\ NoHeartbeat(calls[d]) => NoHeartbeat(call)
  <1>1. calls \in [Callers -> Call]
    BY DEF HistoryInv, TypeOK
  <1>2. \A call : call.pc \in {"idle", "publish"} => Goal(call)
    BY DEF NoFiring, NoHeartbeat
  <1>3. ASSUME NEW T, NEW W PROVE Publish(T, W).pc \in {"idle", "publish"}
    BY DEF Publish, Idle
  <1>4. Goal(calls[d])
    OBVIOUS
  <1>5. ASSUME NEW c \in Callers, Request(c)
        PROVE  Goal(calls'[d])
    <2>1. PICK k \in Keys : \E call : Enter(c, call) /\ Admitted(k, call)
      BY <1>5, RequestShape
    <2>2. PICK call : Enter(c, call) /\ Admitted(k, call)
      BY <2>1
    <2>3. \A txn : RequestTxn(k, executions[k], txn) => Goal(Update(k, txn, "publish"))
      BY HandlersFireNothing DEF HandlerTxn, NoFiring, NoHeartbeat, Update
    <2>4. \A tq : Goal([pc |-> "insert", key |-> k, taskQueue |-> tq])
      BY DEF NoFiring, NoHeartbeat
    <2>5. \A a, row : \A rpc \in RPCs :
            Goal([pc |-> "read", rpc |-> rpc, key |-> k, act |-> a, row |-> row])
      BY DEF NoFiring, NoHeartbeat
    <2> HIDE DEF Goal
    <2>6. Goal(call)
      BY <2>2, <2>3, <2>4, <2>5 DEF Admitted
    <2>7. calls'[d] \in {call, calls[d]}
      BY <1>1, <2>2 DEF Enter
    <2> QED BY <1>4, <2>6, <2>7
  <1>6. ASSUME NEW c \in Callers, GetActivityState(c)
        PROVE  Goal(calls'[d])
    <2> DEFINE cl == calls[c]
               arow == activities[cl.key][cl.act]
               txn == ActivityTxn(cl.rpc, cl.key, cl.row, cl.act, arow)
               then == IF cl.rpc = "RecordActivityTaskHeartbeat" THEN "peek" ELSE "publish"
               update == [pc |-> "update", key |-> cl.key, row |-> cl.row, txn |-> txn, then |-> then]
    <2>1. /\ c # d => calls'[d] = calls[d]
          /\ c = d => calls'[d] \in {Idle, update}
      BY <1>1, <1>6 DEF GetActivityState
    <2>2. cl.pc = "read" /\ cl \in Reading
      BY <1>6, CallShape DEF HistoryInv, GetActivityState
    <2>3. cl.act \in Activities /\ arow \in Activity /\ cl.rpc \in ActivityRPCs
      BY <2>2 DEF Reading, HistoryInv, TypeOK, RepositoryTypeOK
    <2>4. HandlerTxn(cl.key, cl.row, txn)
      BY <2>3 DEF HandlerTxn
    <2> HIDE DEF txn
    <2>5. NoFiring(update)
      BY <2>4, HandlersFireNothing DEF NoFiring
    <2>6. NoHeartbeat(cl) => NoHeartbeat(update)
      BY <2>2 DEF NoHeartbeat
    <2> HIDE DEF update, cl
    <2>7. c = d => Goal(update)
      BY <2>5, <2>6 DEF cl
    <2> HIDE DEF Goal
    <2> QED BY <1>2, <1>4, <2>1, <2>7 DEF Idle
  <1>7. ASSUME NEW c \in Callers, InsertExecution(c) \/ RollbackUpdate(c) \/ StatementFails(c)
        PROVE  Goal(calls'[d])
    <2>1. calls'[d] = calls[d] \/ calls'[d] = Idle \/ \E T, W : calls'[d] = Publish(T, W)
      BY <1>1, <1>7 DEF InsertExecution, AfterCommit, RollbackUpdate, StatementFails
    <2> HIDE DEF Goal
    <2> QED BY <1>2, <1>3, <1>4, <2>1 DEF Idle
  <1>8. ASSUME NEW c \in Callers,
               \/ PeekTimeoutTimer(c)
               \/ \E t \in calls[c].timers : ScheduleTimer(c, t)
               \/ \E t \in calls[c].tasks : AddTask(c, t)
        PROVE  Goal(calls'[d])
    <2>1. calls'[d] = calls[d] \/ calls'[d] = Idle \/ \E T, W : calls'[d] = Publish(T, W)
      BY <1>1, <1>8 DEF PeekTimeoutTimer, ScheduleTimer, AddTask
    <2> HIDE DEF Goal
    <2> QED BY <1>2, <1>3, <1>4, <2>1 DEF Idle
  <1>9. ASSUME NEW c \in Callers, CommitUpdate(c)
        PROVE  Goal(calls'[d])
    <2> DEFINE peek == [pc |-> "peek", key |-> calls[c].key]
    <2>1. \/ calls'[d] = calls[d] \/ calls'[d] = Idle \/ \E T, W : calls'[d] = Publish(T, W)
          \/ c = d /\ calls[c].then = "peek" /\ calls'[d] = peek
      BY <1>1, <1>9 DEF CommitUpdate, AfterCommit
    <2>2. calls[c].pc = "update"
      BY <1>9 DEF CommitUpdate
    <2>3. c = d /\ calls[c].then = "peek" => Goal(peek)
      BY <2>2 DEF NoFiring, NoHeartbeat
    <2> HIDE DEF Goal, peek
    <2> QED BY <1>2, <1>3, <1>4, <2>1, <2>3 DEF Idle
  <1>10. ASSUME Crash \/ UNCHANGED vars
         PROVE  Goal(calls'[d])
    <2>1. calls'[d] = calls[d] \/ calls'[d] = Idle
      BY <1>10 DEF Crash, vars
    <2> HIDE DEF Goal
    <2> QED BY <1>2, <1>4, <2>1 DEF Idle
  <1>11. Goal(calls'[d])
    <2> HIDE DEF Goal
    <2>1. \/ Crash \/ UNCHANGED vars
          \/ \E c \in Callers :
               \/ Request(c) \/ GetActivityState(c) \/ CommitUpdate(c)
               \/ InsertExecution(c) \/ RollbackUpdate(c) \/ StatementFails(c)
               \/ PeekTimeoutTimer(c)
               \/ \E t \in calls[c].timers : ScheduleTimer(c, t)
               \/ \E t \in calls[c].tasks : AddTask(c, t)
      BY Zenon DEF Next, Proceed
    <2> QED BY <1>5, <1>6, <1>7, <1>8, <1>9, <1>10, <2>1
  <1> QED BY <1>11

--------------------------------------------------------------------------------
(* Counting *)

\* The processors about to push a task of each kind, the timeouts that call for one, and how
\* many events do.
Tasking(kind, k) == IF kind = "workflow" THEN WakingOf(k) ELSE RequeueingOf(k)
TimeoutOf(kind) == IF kind = "workflow" THEN "WorkflowTaskTimeout" ELSE "ActivityTimeout"
Called(kind, k) ==
  IF kind = "workflow" THEN Demand(kind, k) + Cardinality(Firings(k)) ELSE Demand(kind, k)

\* Each task, pushed or not, has an event or a spent timer of its own.
Justified(kind) ==
  \A k \in Keys :
    Answers(kind, k) + Cardinality(Tasking(kind, k))
      <= Called(kind, k) + Cardinality(Spent(k, TimeoutOf(kind)))

\* Each TimerFired event has a spent user timer of its own.
FiringsSpent == \A k \in Keys : Cardinality(Firings(k)) <= Cardinality(Spent(k, "UserTimer"))

Counted ==
  \A k \in Keys :
    /\ IsFiniteSet(Firings(k))
    /\ \A type : IsFiniteSet(OfType(fired, k, type))
    /\ \A kind \in Kinds : Answers(kind, k) \in Nat /\ Demand(kind, k) \in Nat

LEMMA KindsAre == Kinds = {"workflow", "activity"}
  BY DEF Kinds, CallsFor

LEMMA FiringInvIs ==
  /\ FiringInv <=> /\ ProcessorsAt({"rebuild"}) = {} /\ \A c \in Callers : NoFiring(calls[c])
                   /\ OnePlace("UserTimer") /\ OnePlace("WorkflowTaskTimeout")
                   /\ FiringsSpent /\ Justified("workflow")
  /\ FiringInv' <=> /\ ProcessorsAt({"rebuild"})' = {} /\ \A c \in Callers : NoFiring(calls'[c])
                    /\ OnePlace("UserTimer")' /\ OnePlace("WorkflowTaskTimeout")'
                    /\ FiringsSpent' /\ Justified("workflow")'
  BY DEF FiringInv, NoFiring, FiringsSpent, Justified, Answers, Demand, Tasking, TimeoutOf, Called,
     Queue, CallsFor, Wakings

LEMMA RequeueInvIs ==
  /\ RequeueInv <=> /\ OnePlace("ActivityTimeout") /\ \A c \in Callers : NoHeartbeat(calls[c])
                    /\ Justified("activity")
  /\ RequeueInv' <=> /\ OnePlace("ActivityTimeout")' /\ \A c \in Callers : NoHeartbeat(calls'[c])
                     /\ Justified("activity")'
  BY DEF RequeueInv, NoHeartbeat, Justified, Answers, Demand, Tasking, TimeoutOf, Called,
     Queue, CallsFor

LEMMA CountsFinite ==
  ASSUME TimerInv
  PROVE  Counted
  <1> SUFFICES ASSUME NEW k \in Keys
               PROVE  /\ IsFiniteSet(Firings(k))
                      /\ \A type : IsFiniteSet(OfType(fired, k, type))
                      /\ \A kind \in Kinds : Answers(kind, k) \in Nat /\ Demand(kind, k) \in Nat
    BY DEF Counted
  <1>1. HistoryInv /\ FitInv /\ EffectsFit /\ IsFiniteSet(history[k])
    BY FiniteHistory DEF TimerInv, FitInv
  <1>2. IsFiniteSet(Firings(k))
    BY <1>1, FS_Subset DEF Firings, EventsOf
  <1>3. ASSUME NEW type PROVE IsFiniteSet(OfType(fired, k, type))
    <2> DEFINE S == OfType(fired, k, type)
               f == [t \in S |-> t.event]
               last == executions[k].next - 1
    <2>1. \A t \in S : t \in Armed(k, history[k])
      BY <1>1, SetsOfTimers DEF OfType, FitInv, TimersMatchHistory, Armed
    <2>2. \A t \in S : \E e \in history[k] :
            t = [key |-> k, event |-> e.id, type |-> TimerArmedBy[e.type], act |-> e.act]
      BY <2>1 DEF Armed
    <2>3. /\ \A e \in history[k] : e.id \in 1 .. last
          /\ \A e, g \in history[k] : e.id = g.id => e = g
      BY <1>1 DEF HistoryInv, EventIDsContiguous
    <2>4. last \in Int
      BY <1>1 DEF HistoryInv, TypeOK, RepositoryTypeOK, Execution
    <2> HIDE DEF S, last
    <2>5. \A t, u \in S : t.event = u.event => t = u
      BY <2>2, <2>3
    <2>6. \A t \in S : t.event \in 1 .. last
      BY <2>2, <2>3
    <2>7. f \in [S -> 1 .. last] /\ \A t, u \in S : f[t] = f[u] => t = u
      BY <2>5, <2>6
    <2> HIDE DEF f
    <2>8. IsFiniteSet(S)
      BY <2>4, <2>7, FiniteNumbered
    <2> QED BY <2>8 DEF S
  <1> QED BY <1>1, <1>2, <1>3, CountsNat

LEMMA TaskingIs ==
  ASSUME NEW kind \in Kinds, NEW k
  PROVE  /\ IsFiniteSet(Tasking(kind, k)) /\ IsFiniteSet(Tasking(kind, k)')
         /\ Cardinality(Tasking(kind, k)) \in Nat /\ Cardinality(Tasking(kind, k)') \in Nat
         /\ \A q : q \in Tasking(kind, k) <=>
              /\ q \in Processors /\ procs[q].timer.key = k
              /\ procs[q].pc = (IF kind = "workflow" THEN "wake" ELSE "requeue")
         /\ \A q : q \in Tasking(kind, k)' <=>
              /\ q \in Processors /\ procs'[q].timer.key = k
              /\ procs'[q].pc = (IF kind = "workflow" THEN "wake" ELSE "requeue")
  <1>1. /\ \A q : q \in Tasking(kind, k) <=>
              /\ q \in Processors /\ procs[q].timer.key = k
              /\ procs[q].pc = (IF kind = "workflow" THEN "wake" ELSE "requeue")
        /\ \A q : q \in Tasking(kind, k)' <=>
              /\ q \in Processors /\ procs'[q].timer.key = k
              /\ procs'[q].pc = (IF kind = "workflow" THEN "wake" ELSE "requeue")
    BY DEF Tasking, WakingOf, RequeueingOf, ProcessorsAt
  <1>2. Tasking(kind, k) \subseteq Processors /\ Tasking(kind, k)' \subseteq Processors
    BY <1>1
  <1>3. IsFiniteSet(Tasking(kind, k)) /\ IsFiniteSet(Tasking(kind, k)')
    BY <1>2, FS_Subset, ProcessorAssumption
  <1> QED BY <1>1, <1>3, FS_CardinalityType

LEMMA SpentGrows ==
  ASSUME Counted, Counted', NEW type, Kept(type), NEW k \in Keys
  PROVE  /\ IsFiniteSet(Spent(k, type)) /\ IsFiniteSet(Spent(k, type)')
         /\ Spent(k, type) \subseteq Spent(k, type)'
         /\ Cardinality(Spent(k, type)) \in Nat /\ Cardinality(Spent(k, type)') \in Nat
         /\ Cardinality(Spent(k, type)) <= Cardinality(Spent(k, type)')
  <1>1. Spent(k, type) \subseteq OfType(fired, k, type) /\ Spent(k, type)' \subseteq OfType(fired, k, type)'
    BY DEF Spent
  <1>2. IsFiniteSet(OfType(fired, k, type)) /\ IsFiniteSet(OfType(fired, k, type)')
    BY DEF Counted
  <1>3. IsFiniteSet(Spent(k, type)) /\ IsFiniteSet(Spent(k, type)')
    BY <1>1, <1>2, FS_Subset
  <1>4. Spent(k, type) \subseteq Spent(k, type)'
    BY DEF Spent, OfType, Kept
  <1> QED BY <1>3, <1>4, FS_Subset, FS_CardinalityType

\* A timer is spent by this step.
LEMMA SpentGains ==
  ASSUME Counted, Counted', NEW type, Kept(type), NEW t \in fired', t.key \in Keys,
         t.type = type, t \in Pending, t \notin Pending'
  PROVE  Cardinality(Spent(t.key, type)) + 1 <= Cardinality(Spent(t.key, type)')
  <1> DEFINE k == t.key
  <1>1. t \notin Spent(k, type) /\ t \in Spent(k, type)'
    BY DEF Spent, OfType
  <1>2. /\ IsFiniteSet(Spent(k, type)) /\ IsFiniteSet(Spent(k, type)')
        /\ Spent(k, type) \subseteq Spent(k, type)'
    BY SpentGrows
  <1>3. Spent(k, type) \cup {t} \subseteq Spent(k, type)'
    BY <1>1, <1>2
  <1>4. IsFiniteSet(Spent(k, type) \cup {t}) /\ Cardinality(Spent(k, type) \cup {t}) = Cardinality(Spent(k, type)) + 1
    BY <1>1, <1>2, FS_AddElement
  <1>5. Cardinality(Spent(k, type) \cup {t}) <= Cardinality(Spent(k, type)')
    BY <1>2, <1>3, FS_Subset
  <1> QED BY <1>4, <1>5

--------------------------------------------------------------------------------
(* The steps that keep the balance *)

\* For each task that a step makes for run k it makes something that calls for one.
Fair(kind, k) ==
  Answers(kind, k)' + Cardinality(Tasking(kind, k)') + Called(kind, k)
      + Cardinality(Spent(k, TimeoutOf(kind)))
    <= Answers(kind, k) + Cardinality(Tasking(kind, k)) + Called(kind, k)'
      + Cardinality(Spent(k, TimeoutOf(kind))')

LEMMA CountsAre ==
  ASSUME Counted, Counted', NEW kind \in Kinds, NEW k \in Keys, Kept(TimeoutOf(kind))
  PROVE  /\ Answers(kind, k) \in Nat /\ Answers(kind, k)' \in Nat
         /\ Demand(kind, k) \in Nat /\ Demand(kind, k)' \in Nat
         /\ Called(kind, k) \in Nat /\ Called(kind, k)' \in Nat
         /\ Cardinality(Tasking(kind, k)) \in Nat /\ Cardinality(Tasking(kind, k)') \in Nat
         /\ Cardinality(Spent(k, TimeoutOf(kind))) \in Nat
         /\ Cardinality(Spent(k, TimeoutOf(kind))') \in Nat
         /\ Cardinality(Spent(k, TimeoutOf(kind))) <= Cardinality(Spent(k, TimeoutOf(kind))')
  <1>1. /\ Answers(kind, k) \in Nat /\ Answers(kind, k)' \in Nat
        /\ Demand(kind, k) \in Nat /\ Demand(kind, k)' \in Nat
        /\ IsFiniteSet(Firings(k)) /\ IsFiniteSet(Firings(k)')
    BY DEF Counted
  <1>2. Cardinality(Firings(k)) \in Nat /\ Cardinality(Firings(k)') \in Nat
    BY <1>1, FS_CardinalityType
  <1>3. Called(kind, k) \in Nat /\ Called(kind, k)' \in Nat
    BY <1>1, <1>2 DEF Called
  <1> QED BY <1>1, <1>3, TaskingIs, SpentGrows

LEMMA FairStep ==
  ASSUME Counted, Counted', NEW kind \in Kinds, Kept(TimeoutOf(kind)), Justified(kind),
         \A k \in Keys : Fair(kind, k)
  PROVE  Justified(kind)'
  <1> SUFFICES ASSUME NEW k \in Keys
               PROVE  Answers(kind, k)' + Cardinality(Tasking(kind, k)')
                        <= Called(kind, k)' + Cardinality(Spent(k, TimeoutOf(kind))')
    BY DEF Justified, TimeoutOf
  <1>1. Answers(kind, k) + Cardinality(Tasking(kind, k))
          <= Called(kind, k) + Cardinality(Spent(k, TimeoutOf(kind)))
    BY DEF Justified
  <1> QED BY <1>1, CountsAre DEF Fair

\* The handlers' own balance, and no more processors about to push a task than there were.
LEMMA CalmFair ==
  ASSUME Counted, Counted', NEW kind \in Kinds, NEW k \in Keys, Kept(TimeoutOf(kind)),
         Answers(kind, k)' + Demand(kind, k) <= Answers(kind, k) + Demand(kind, k)',
         Tasking(kind, k)' \subseteq Tasking(kind, k), Firings(k) \subseteq Firings(k)'
  PROVE  Fair(kind, k)
  <1>1. Cardinality(Tasking(kind, k)') <= Cardinality(Tasking(kind, k))
    BY TaskingIs, FS_Subset
  <1>2. IsFiniteSet(Firings(k)) /\ IsFiniteSet(Firings(k)')
    BY DEF Counted
  <1>3. /\ Cardinality(Firings(k)) \in Nat /\ Cardinality(Firings(k)') \in Nat
        /\ Cardinality(Firings(k)) <= Cardinality(Firings(k)')
    BY <1>2, FS_Subset, FS_CardinalityType
  <1>4. Called(kind, k) + Demand(kind, k)' <= Called(kind, k)' + Demand(kind, k)
    BY <1>3, CountsAre DEF Called
  <1> QED BY <1>1, <1>4, CountsAre DEF Fair

LEMMA FiringsKept ==
  ASSUME FiringsSpent, Counted, Counted', Kept("UserTimer"),
         \A k \in Keys : Firings(k)' = Firings(k)
  PROVE  FiringsSpent'
  <1> SUFFICES ASSUME NEW k \in Keys
               PROVE  Cardinality(Firings(k)') <= Cardinality(Spent(k, "UserTimer")')
    BY DEF FiringsSpent
  <1>1. Cardinality(Firings(k)) <= Cardinality(Spent(k, "UserTimer")) /\ Firings(k)' = Firings(k)
    BY DEF FiringsSpent
  <1>2. Cardinality(Firings(k)) \in Nat
    BY FS_CardinalityType DEF Counted
  <1> QED BY <1>1, <1>2, SpentGrows

--------------------------------------------------------------------------------
(* The steps of the handlers, and the incidents *)

LEMMA FiringsUnchanged ==
  ASSUME HistoryInv, EffectsFit, [Next]_vars, \A c \in Callers : NoFiring(calls[c]), NEW k \in Keys
  PROVE  Firings(k)' = Firings(k)
  <1>1. CASE UNCHANGED history
    BY <1>1 DEF Firings, EventsOf
  <1>2. ASSUME NEW c \in Callers, NEW l \in Keys, NEW N, NEW W, NEW call, Writes(c, l, N, W, call),
               \A e \in N : e.type # "TimerFired"
        PROVE  Firings(k)' = Firings(k)
    <2>1. /\ history'[l] = history[l] \cup N
          /\ \A m \in Keys \ {l} : history'[m] = history[m]
      BY <1>2 DEF Writes
    <2> QED BY <1>2, <2>1 DEF Firings, EventsOf
  <1>3. ASSUME NEW c \in Callers, InsertExecution(c)
        PROVE  Firings(k)' = Firings(k)
    <2> DEFINE l == calls[c].key
               N == {NewEvent(1, "WorkflowExecutionStarted", NoActivity)}
    <2>1. \A e \in N : e.type # "TimerFired"
      BY DEF NewEvent
    <2>2. l \in Keys /\ \E W, call : Writes(c, l, N, W, call)
      BY <1>3, InsertWrites
    <2> HIDE DEF l, N
    <2> QED BY <1>2, <2>1, <2>2
  <1>4. ASSUME NEW c \in Callers, CommitUpdate(c)
        PROVE  Firings(k)' = Firings(k)
    <2> DEFINE l == calls[c].key
               N == calls[c].txn.events
    <2>1. \A e \in N : e.type # "TimerFired"
      BY <1>4 DEF CommitUpdate, NoFiring
    <2>2. l \in Keys /\ \E W, call : Writes(c, l, N, W, call)
      BY <1>4, CommitWrites
    <2> HIDE DEF l, N
    <2> QED BY <1>2, <2>1, <2>2
  <1> QED BY <1>1, <1>3, <1>4, StepKinds DEF dbVars

\* Handlers beside idle processors.
LEMMA HandlersFiring ==
  ASSUME TimerInv, Counted, Counted', [Next]_vars, UNCHANGED procs, FiringInv
  PROVE  FiringInv' /\ (RequeueInv /\ "RecordActivityTaskHeartbeat" \notin RPCs => RequeueInv')
  <1>1. HistoryInv /\ FitInv /\ EffectsFit
    BY DEF TimerInv, FitInv
  <1>2. /\ ProcessorsAt({"rebuild"}) = {} /\ \A c \in Callers : NoFiring(calls[c])
        /\ OnePlace("UserTimer") /\ OnePlace("WorkflowTaskTimeout")
        /\ FiringsSpent /\ Justified("workflow")
    BY FiringInvIs
  <1>3. Balanced
    BY <1>1, FitStep
  <1>4. \A k \in Keys : Firings(k)' = Firings(k)
    BY <1>1, <1>2, FiringsUnchanged
  <1>5. ASSUME NEW kind \in Kinds, Justified(kind), Kept(TimeoutOf(kind))
        PROVE  Justified(kind)'
    <2>1. ASSUME NEW k \in Keys PROVE Fair(kind, k)
      <3>1. Tasking(kind, k)' \subseteq Tasking(kind, k)
        BY TaskingIs
      <3>2. Answers(kind, k)' + Demand(kind, k) <= Answers(kind, k) + Demand(kind, k)'
        BY <1>3 DEF Balanced
      <3> QED BY <1>4, <1>5, <3>1, <3>2, CalmFair
    <2> QED BY <1>5, <2>1, FairStep
  <1>6. FiringInv'
    <2>1. Kept("UserTimer") /\ Kept("WorkflowTaskTimeout")
      BY <1>2, CallsKeep
    <2>2. FiringsSpent'
      BY <1>2, <1>4, <2>1, FiringsKept
    <2>3. Justified("workflow")'
      BY <1>2, <1>5, <2>1, KindsAre DEF TimeoutOf
    <2>4. ProcessorsAt({"rebuild"})' = {}
      BY <1>2 DEF ProcessorsAt
    <2>5. \A c \in Callers : NoFiring(calls'[c])
      BY <1>1, <1>2, CallsPrepare
    <2> QED BY <2>1, <2>2, <2>3, <2>4, <2>5, FiringInvIs DEF Kept
  <1>7. ASSUME RequeueInv, "RecordActivityTaskHeartbeat" \notin RPCs
        PROVE  RequeueInv'
    <2>1. /\ OnePlace("ActivityTimeout") /\ Justified("activity")
          /\ \A c \in Callers : NoHeartbeat(calls[c])
      BY <1>7, RequeueInvIs
    <2>2. Kept("ActivityTimeout")
      BY <2>1, CallsKeep DEF NoHeartbeat
    <2>3. Justified("activity")'
      BY <1>5, <2>1, <2>2, KindsAre DEF TimeoutOf
    <2>4. \A c \in Callers : NoHeartbeat(calls'[c])
      BY <1>1, <1>7, <2>1, CallsPrepare
    <2> QED BY <2>2, <2>3, <2>4, RequeueInvIs DEF Kept
  <1> QED BY <1>6, <1>7

\* What a step has to keep, once the places of the timers are known to be.
LEMMA FiringKept ==
  ASSUME Counted, Counted', FiringInv, Kept("UserTimer"), Kept("WorkflowTaskTimeout"),
         ProcessorsAt({"rebuild"})' = {}, \A c \in Callers : NoFiring(calls'[c]), FiringsSpent',
         \A k \in Keys : Fair("workflow", k)
  PROVE  FiringInv'
  <1>1. Justified("workflow")
    BY FiringInvIs
  <1>2. Justified("workflow")'
    BY <1>1, KindsAre, FairStep DEF TimeoutOf
  <1> QED BY <1>2, FiringInvIs DEF Kept

LEMMA RequeueKept ==
  ASSUME Counted, Counted', RequeueInv, Kept("ActivityTimeout"),
         \A c \in Callers : NoHeartbeat(calls'[c]), \A k \in Keys : Fair("activity", k)
  PROVE  RequeueInv'
  <1>1. Justified("activity")
    BY RequeueInvIs
  <1>2. Justified("activity")'
    BY <1>1, KindsAre, FairStep DEF TimeoutOf
  <1> QED BY <1>2, RequeueInvIs DEF Kept

\* A restart loses timers and tasks in hand, and gives none to anybody.
LEMMA IncidentFiring ==
  ASSUME TimerInv, Counted, Counted', RedisRestart \/ \E p \in Processors : ProcessorCrash(p), FiringInv
  PROVE  FiringInv' /\ (RequeueInv => RequeueInv')
  <1>1. /\ UNCHANGED <<history, fired, workflowQueue, activityQueue>> /\ active' \subseteq active
        /\ \A c \in Callers : calls'[c] \in {calls[c], Idle}
        /\ \A p \in Processors : procs'[p] \in {procs[p], Idle}
    BY SetsOfTimers DEF RedisRestart, ProcessorCrash, Become, dbVars, redisVars
  <1>2. HistoryInv /\ FitInv
    BY DEF TimerInv
  <1>3. Hand(Idle) = {} /\ Idle.pc = "idle"
    BY DEF Hand, Idle
  <1>4. \A c \in Callers : Hand(calls'[c]) \subseteq Hand(calls[c])
    BY <1>1, <1>3
  <1>5. Balanced
    BY <1>1, <1>2, <1>4, HandsBalanced
  <1>6. \A k \in Keys : Firings(k)' = Firings(k)
    BY <1>1 DEF Firings, EventsOf
  <1>7. \A type : OnePlace(type) => Kept(type)
    BY <1>1, LossKeeps
  <1>8. ASSUME NEW kind \in Kinds, OnePlace(TimeoutOf(kind)), NEW k \in Keys
        PROVE  Fair(kind, k)
    <2>1. Tasking(kind, k)' \subseteq Tasking(kind, k)
      BY <1>1, <1>3, TaskingIs
    <2>2. Answers(kind, k)' + Demand(kind, k) <= Answers(kind, k) + Demand(kind, k)'
      BY <1>5 DEF Balanced
    <2> QED BY <1>6, <1>7, <1>8, <2>1, <2>2, CalmFair
  <1>9. FiringInv'
    <2>1. /\ OnePlace("UserTimer") /\ OnePlace("WorkflowTaskTimeout") /\ FiringsSpent
          /\ ProcessorsAt({"rebuild"}) = {} /\ \A c \in Callers : NoFiring(calls[c])
      BY FiringInvIs
    <2>2. Kept("UserTimer") /\ Kept("WorkflowTaskTimeout")
      BY <1>7, <2>1
    <2>3. FiringsSpent'
      BY <1>6, <2>1, <2>2, FiringsKept
    <2>4. ProcessorsAt({"rebuild"})' = {}
      BY <1>1, <1>3, <2>1 DEF ProcessorsAt
    <2>5. \A c \in Callers : NoFiring(calls'[c])
      BY <1>1, <1>3, <2>1 DEF NoFiring
    <2>6. \A k \in Keys : Fair("workflow", k)
      BY <1>8, <2>1, KindsAre DEF TimeoutOf
    <2> QED BY <2>2, <2>3, <2>4, <2>5, <2>6, FiringKept
  <1>10. ASSUME RequeueInv
         PROVE  RequeueInv'
    <2>1. OnePlace("ActivityTimeout") /\ \A c \in Callers : NoHeartbeat(calls[c])
      BY <1>10, RequeueInvIs
    <2>2. Kept("ActivityTimeout")
      BY <1>7, <2>1
    <2>3. \A c \in Callers : NoHeartbeat(calls'[c])
      BY <1>1, <1>3, <2>1 DEF NoHeartbeat
    <2>4. \A k \in Keys : Fair("activity", k)
      BY <1>8, <2>1, KindsAre DEF TimeoutOf
    <2> QED BY <1>10, <2>2, <2>3, <2>4, RequeueKept
  <1> QED BY <1>9, <1>10

--------------------------------------------------------------------------------
(* The steps of the processors *)

\* A processor that pushes a task has handled its timeout, and one that is about to has
\* taken it out of circulation.
LEMMA MoveFair ==
  ASSUME TimerInv, Counted, Counted', NEW p \in Processors, NEW proc, Moves(p, proc),
         procs[p].pc # "rebuild", NEW kind \in Kinds, OnePlace(TimeoutOf(kind)), NEW k \in Keys
  PROVE  Kept(TimeoutOf(kind)) /\ Fair(kind, k)
  <1> DEFINE t == procs[p].timer
             Pc == IF kind = "workflow" THEN "wake" ELSE "requeue"
  <1>1. /\ UNCHANGED <<history, calls>> /\ procs' = [procs EXCEPT ![p] = proc]
        /\ fired \subseteq fired' /\ Passes(p, proc) /\ Pushes(p, proc) /\ ProcFit(proc, fired')
    BY DEF Moves
  <1>2. /\ \A q \in Processors : procs'[q] = IF q = p THEN proc ELSE procs[q]
        /\ workflowQueue \in Seq(QueuedTask) /\ activityQueue \in Seq(QueuedTask)
    BY <1>1, SetsOfTimers
  <1>3. /\ Kept(TimeoutOf(kind))
        /\ \A u \in Held(procs[p]) :
             u.type = TimeoutOf(kind) /\ u \notin active' /\ u \notin Held(proc)
               => u \in Pending /\ u \notin Pending'
    BY <1>1, MoveKeeps
  <1>4. /\ Firings(k)' = Firings(k) /\ Demand(kind, k)' = Demand(kind, k)
        /\ Unpushed(kind, k)' = Unpushed(kind, k)
    BY <1>1 DEF Firings, Demand, EventsOf, Unpushed
  <1>5. Called(kind, k)' = Called(kind, k)
    BY <1>4 DEF Called
  <1>6. /\ Cardinality(Unpushed(kind, k)) \in Nat
        /\ Queued(Queue(kind), k) \in Nat
    BY CountsNat DEF TimerInv, FitInv
  <1>7. ASSUME Queue(kind)' = Queue(kind) /\ Tasking(kind, k)' \subseteq Tasking(kind, k)
        PROVE  Fair(kind, k)
    <2>1. Queued(Queue(kind), k)' = Queued(Queue(kind), k)
      BY <1>7 DEF Queued
    <2>2. Answers(kind, k)' + Demand(kind, k) <= Answers(kind, k) + Demand(kind, k)'
      BY <1>4, <2>1, CountsAre, <1>3 DEF Answers
    <2> QED BY <1>3, <1>4, <1>7, <2>2, CalmFair
  <1>8. /\ \A q : q \in Tasking(kind, k) <=>
                    q \in Processors /\ procs[q].timer.key = k /\ procs[q].pc = Pc
        /\ \A q : q \in Tasking(kind, k)' <=>
                    q \in Processors /\ procs'[q].timer.key = k /\ procs'[q].pc = Pc
        /\ IsFiniteSet(Tasking(kind, k)) /\ IsFiniteSet(Tasking(kind, k)')
    BY TaskingIs
  <1>9. Pc \in {"wake", "requeue"}
    OBVIOUS
  <1> HIDE DEF Pc
  <1>10. proc.pc # Pc => Tasking(kind, k)' \subseteq Tasking(kind, k)
    BY <1>2, <1>8
  <1>11. t.key # k /\ proc.timer = t => Tasking(kind, k)' \subseteq Tasking(kind, k)
    BY <1>2, <1>8
  <1>12. Plain(proc) => proc.pc # Pc
    BY <1>9 DEF Plain
  \* A timeout is handed over.
  <1>13. ASSUME UNCHANGED <<workflowQueue, activityQueue, active, fired>>,
                procs[p].pc = "handle", proc.timer = t, Held(proc) = procs[p].batch,
                \/ proc.pc = "wake" /\ t.type = "WorkflowTaskTimeout"
                \/ proc.pc = "requeue" /\ t.type = "ActivityTimeout"
         PROVE  Fair(kind, k)
    <2>1. Queue(kind)' = Queue(kind)
      BY <1>13 DEF Queue
    <2>2. CASE proc.pc = Pc /\ t.key = k
      <3>1. t.type = TimeoutOf(kind)
        BY <1>13, <2>2 DEF Pc, TimeoutOf
      <3>2. t \in Held(procs[p]) /\ t \in fired /\ t \notin procs[p].batch
        BY <1>13, FitProc DEF Held, ProcFit, Batching
      <3>3. t \notin active
        BY <3>1, <3>2, PlacesAre DEF Single, Claims
      <3>4. t \in Pending /\ t \notin Pending'
        BY <1>3, <1>13, <3>1, <3>2, <3>3
      <3>5. Cardinality(Spent(k, TimeoutOf(kind))) + 1 <= Cardinality(Spent(k, TimeoutOf(kind))')
        BY <1>1, <1>3, <2>2, <3>1, <3>2, <3>4, SpentGains
      <3>6. Cardinality(Tasking(kind, k)') <= Cardinality(Tasking(kind, k)) + 1
        <4>1. Tasking(kind, k)' \subseteq Tasking(kind, k) \cup {p}
          BY <1>2, <1>8
        <4>2. /\ IsFiniteSet(Tasking(kind, k) \cup {p})
              /\ Cardinality(Tasking(kind, k) \cup {p}) = Cardinality(Tasking(kind, k)) + 1
          <5>1. p \notin Tasking(kind, k)
            BY <1>8, <1>9, <1>13
          <5> QED BY <1>8, <5>1, FS_AddElement
        <4>3. Cardinality(Tasking(kind, k)') <= Cardinality(Tasking(kind, k) \cup {p})
          BY <4>1, <4>2, FS_Subset
        <4>4. /\ Cardinality(Tasking(kind, k)') \in Nat /\ Cardinality(Tasking(kind, k) \cup {p}) \in Nat
              /\ Cardinality(Tasking(kind, k)) \in Nat
          BY <1>8, <4>2, FS_CardinalityType
        <4> QED BY <4>2, <4>3, <4>4
      <3>7. Queued(Queue(kind), k)' = Queued(Queue(kind), k)
        BY <2>1 DEF Queued
      <3>8. Answers(kind, k)' = Answers(kind, k)
        BY <1>4, <3>7 DEF Answers
      <3> QED BY <1>3, <1>5, <3>5, <3>6, <3>8, CountsAre DEF Fair
    <2>3. CASE ~(proc.pc = Pc /\ t.key = k)
      BY <1>7, <1>10, <1>11, <1>13, <2>1, <2>3
    <2> QED BY <2>2, <2>3
  \* A task is pushed.
  <1>14. ASSUME NEW x \in QueuedTask, x.key = t.key, Queue(kind)' = Append(Queue(kind), x),
                procs[p].pc = Pc, Plain(proc)
         PROVE  Fair(kind, k)
    <2>1. Queue(kind) \in Seq(QueuedTask)
      BY <1>2 DEF Queue
    <2>2. Queued(Queue(kind), k)' = Queued(Queue(kind), k) + (IF t.key = k THEN 1 ELSE 0)
      <3>1. Queued(Append(Queue(kind), x), k) = Queued(Queue(kind), k) + (IF t.key = k THEN 1 ELSE 0)
        BY <1>14, <2>1, QueuedAppend
      <3> QED BY <1>14, <3>1 DEF Queued
    <2>3. CASE t.key = k
      <3>1. p \in Tasking(kind, k) /\ Tasking(kind, k)' \subseteq Tasking(kind, k) \ {p}
        BY <1>2, <1>8, <1>12, <1>14, <2>3
      <3>2. /\ IsFiniteSet(Tasking(kind, k) \ {p})
            /\ Cardinality(Tasking(kind, k) \ {p}) = Cardinality(Tasking(kind, k)) - 1
        BY <1>8, <3>1, FS_RemoveElement
      <3>3. Cardinality(Tasking(kind, k)') <= Cardinality(Tasking(kind, k) \ {p})
        BY <3>1, <3>2, FS_Subset
      <3>4. Answers(kind, k)' = Answers(kind, k) + 1
        BY <1>4, <1>6, <2>2, <2>3 DEF Answers
      <3> QED BY <1>3, <1>5, <3>2, <3>3, <3>4, CountsAre DEF Fair
    <2>4. CASE t.key # k
      <3>1. Tasking(kind, k)' \subseteq Tasking(kind, k)
        BY <1>10, <1>12, <1>14
      <3>2. Queued(Queue(kind), k)' = Queued(Queue(kind), k)
        BY <1>6, <2>2, <2>4
      <3>3. Answers(kind, k)' + Demand(kind, k) <= Answers(kind, k) + Demand(kind, k)'
        BY <1>3, <1>4, <3>2, CountsAre DEF Answers
      <3> QED BY <1>3, <1>4, <3>1, <3>3, CalmFair
    <2> QED BY <2>3, <2>4
  <1>15. CASE UNCHANGED <<workflowQueue, activityQueue>> /\ Plain(proc)
    <2>1. Queue(kind)' = Queue(kind)
      BY <1>15 DEF Queue
    <2> QED BY <1>3, <1>7, <1>10, <1>12, <1>15, <2>1
  <1>16. ASSUME procs[p].pc \in {"wake", "requeue"}
         PROVE  /\ [key |-> t.key, act |-> NoActivity] \in QueuedTask
                /\ [key |-> t.key, act |-> t.act] \in QueuedTask
    <2>1. t \in timers
      BY <1>16, FitProc, SetsOfTimers DEF ProcFit, Batching
    <2>2. t.key \in Keys /\ t.act \in Activities \cup {NoActivity}
      BY <2>1, SetsOfTimers
    <2> QED BY <2>2 DEF QueuedTask
  <1>17. ASSUME procs[p].pc = "wake", Plain(proc), UNCHANGED activityQueue,
                workflowQueue' = Append(workflowQueue, [key |-> t.key, act |-> NoActivity])
         PROVE  Fair(kind, k)
    <2>1. CASE kind = "workflow"
      BY <1>14, <1>16, <1>17, <2>1 DEF Queue, Pc
    <2>2. CASE kind # "workflow"
      BY <1>7, <1>10, <1>12, <1>17, <2>2 DEF Queue
    <2> QED BY <2>1, <2>2
  <1>18. ASSUME procs[p].pc = "requeue", Plain(proc), UNCHANGED workflowQueue,
                activityQueue' = Append(activityQueue, [key |-> t.key, act |-> t.act])
         PROVE  Fair(kind, k)
    <2>1. CASE kind = "workflow"
      BY <1>7, <1>10, <1>12, <1>18, <2>1 DEF Queue
    <2>2. CASE kind # "workflow"
      BY <1>14, <1>16, <1>18, <2>2 DEF Queue, Pc
    <2> QED BY <2>1, <2>2
  <1> QED BY <1>1, <1>3, <1>13, <1>15, <1>17, <1>18 DEF Pushes

LEMMA MoveFiring ==
  ASSUME TimerInv, Counted, Counted', NEW p \in Processors, NEW proc, Moves(p, proc),
         ~Scavenging, FiringInv
  PROVE  FiringInv' /\ (RequeueInv => RequeueInv')
  <1>1. /\ OnePlace("UserTimer") /\ OnePlace("WorkflowTaskTimeout") /\ FiringsSpent
        /\ ProcessorsAt({"rebuild"}) = {} /\ \A c \in Callers : NoFiring(calls[c])
    BY FiringInvIs
  <1>2. /\ UNCHANGED <<history, calls>> /\ procs' = [procs EXCEPT ![p] = proc]
        /\ fired \subseteq fired' /\ Pushes(p, proc)
    BY DEF Moves
  <1>3. procs[p].pc # "rebuild"
    BY <1>1 DEF ProcessorsAt
  <1>4. \A k \in Keys : Firings(k)' = Firings(k)
    BY <1>2 DEF Firings, EventsOf
  <1>5. FiringInv'
    <2>1. Passes(p, proc)
      BY <1>3 DEF Moves
    <2>2. Kept("UserTimer") /\ Kept("WorkflowTaskTimeout")
      BY <1>1, <1>2, <2>1, MoveKeeps
    <2>3. FiringsSpent'
      BY <1>1, <1>4, <2>2, FiringsKept
    <2>4. ProcessorsAt({"rebuild"})' = {}
      <3>1. proc.pc # "rebuild"
        BY <1>2 DEF Pushes, Plain
      <3>2. \A q \in Processors : procs'[q] = IF q = p THEN proc ELSE procs[q]
        BY <1>2, SetsOfTimers
      <3> QED BY <1>1, <3>1, <3>2 DEF ProcessorsAt
    <2>5. \A c \in Callers : NoFiring(calls'[c])
      BY <1>1, <1>2
    <2>6. \A k \in Keys : Fair("workflow", k)
      BY <1>1, <1>3, KindsAre, MoveFair DEF TimeoutOf
    <2> QED BY <2>2, <2>3, <2>4, <2>5, <2>6, FiringKept
  <1>6. ASSUME RequeueInv
        PROVE  RequeueInv'
    <2>1. OnePlace("ActivityTimeout") /\ \A c \in Callers : NoHeartbeat(calls[c])
      BY <1>6, RequeueInvIs
    <2>2. Kept("ActivityTimeout")
      <3>1. Passes(p, proc)
        BY <1>3 DEF Moves
      <3> QED BY <1>2, <2>1, <3>1, MoveKeeps
    <2>3. \A c \in Callers : NoHeartbeat(calls'[c])
      BY <1>2, <2>1
    <2>4. \A k \in Keys : Fair("activity", k)
      BY <1>3, <2>1, KindsAre, MoveFair DEF TimeoutOf
    <2> QED BY <1>6, <2>2, <2>3, <2>4, RequeueKept
  <1> QED BY <1>5, <1>6

\* The commit spends a user timer, writes its event, and has a workflow task to push.
LEMMA CommitFiring ==
  ASSUME TimerInv, Counted, Counted', NEW p \in Processors, CommitFired(p), FiringInv
  PROVE  FiringInv' /\ (RequeueInv => RequeueInv')
  <1>0. PICK t, k, event : /\ t = procs[p].timer /\ k = t.key
                           /\ event = NewEvent(executions[k].next, "TimerFired", NoActivity)
    OBVIOUS
  <1>1. /\ procs[p].pc = "fire" /\ k \in Keys /\ t.type = "UserTimer" /\ t \in fired
        /\ history' = [history EXCEPT ![k] = history[k] \cup {event}]
        /\ UNCHANGED <<fired, active, workflowQueue, activityQueue, calls>>
    BY <1>0, FiredEffect DEF redisVars
  <1>2. PICK proc : /\ procs' = [procs EXCEPT ![p] = proc]
                    /\ proc.pc \in {"peek", "dispatch", "wake"} /\ Held(proc) = procs[p].batch
    <2>1. /\ procs[p].batch \subseteq timers
      BY <1>1, FitProc DEF ProcFit, Batching
    <2>2. /\ Held(Continue(procs[p].batch)) = procs[p].batch
          /\ Continue(procs[p].batch).pc \in {"peek", "dispatch"}
      BY <2>1, ContinueFit DEF Continue
    <2> DEFINE woken == [pc |-> "wake", batch |-> procs[p].batch, timer |-> t,
                         taskQueue |-> executions[k].taskQueue]
    <2>3. Held(woken) = procs[p].batch /\ woken.pc = "wake"
      BY DEF Held, Batching
    <2>4. \/ procs' = [procs EXCEPT ![p] = Continue(procs[p].batch)]
          \/ procs' = [procs EXCEPT ![p] = woken]
      BY <1>0, FiredEffect
    <2> HIDE DEF woken
    <2> QED BY <2>2, <2>3, <2>4
  <1>3. \A q \in Processors : procs'[q] = IF q = p THEN proc ELSE procs[q]
    BY <1>2, SetsOfTimers
  <1>4. /\ Held(procs[p]) = procs[p].batch \cup {t} /\ t \notin procs[p].batch
        /\ t \in Held(procs[p]) /\ t \notin Held(proc)
    BY <1>0, <1>1, <1>2, FitProc DEF Held, ProcFit, Batching
  <1>5. Passes(p, proc)
    BY <1>1, <1>2, <1>4 DEF Passes
  <1>6. /\ OnePlace("UserTimer") /\ OnePlace("WorkflowTaskTimeout") /\ FiringsSpent
        /\ ProcessorsAt({"rebuild"}) = {} /\ \A c \in Callers : NoFiring(calls[c])
    BY FiringInvIs
  <1>7. \A type : OnePlace(type) => Kept(type)
    BY <1>1, <1>2, <1>5, MoveKeeps
  <1>8. t \in Pending /\ t \notin Pending'
    <2>1. t \notin active
      BY <1>1, <1>4, <1>6, PlacesAre DEF Single, Claims
    <2> QED BY <1>1, <1>2, <1>4, <1>5, <1>6, <2>1, MoveKeeps
  <1>9. /\ Kept("UserTimer")
        /\ Cardinality(Spent(k, "UserTimer")) + 1 <= Cardinality(Spent(k, "UserTimer")')
    <2>1. Kept("UserTimer")
      BY <1>6, <1>7
    <2> QED BY <1>0, <1>1, <1>8, <2>1, SpentGains
  <1>10. history \in [Keys -> SUBSET Event]
    BY DEF TimerInv, TimerTypeOK, TypeOK, RepositoryTypeOK
  <1>11. event.type = "TimerFired" /\ event.id = executions[k].next /\ executions[k].next \in Nat
    BY <1>0, <1>1 DEF NewEvent, TimerInv, TimerTypeOK, TypeOK, RepositoryTypeOK, Execution
  <1>12. event \notin history[k]
    <2>1. \A e \in history[k] : e.id \in 1 .. executions[k].next - 1
      BY <1>1 DEF TimerInv, HistoryInv, EventIDsContiguous
    <2>2. \A e \in history[k] : e.id # executions[k].next
      BY <1>11, <2>1
    <2> QED BY <1>11, <2>2
  <1>13. \A l \in Keys : history'[l] = IF l = k THEN history[k] \cup {event} ELSE history[l]
    BY <1>1, <1>10
  <1>14. \A l \in Keys : Firings(l)' = IF l = k THEN Firings(k) \cup {event} ELSE Firings(l)
    BY <1>11, <1>13 DEF Firings, EventsOf
  <1>15. Cardinality(Firings(k)') = Cardinality(Firings(k)) + 1 /\ Cardinality(Firings(k)) \in Nat
    <2>1. IsFiniteSet(Firings(k)) /\ event \notin Firings(k)
      BY <1>1, <1>12 DEF Counted, Firings, EventsOf
    <2>2. Firings(k)' = Firings(k) \cup {event}
      BY <1>1, <1>14
    <2>3. Cardinality(Firings(k) \cup {event}) = Cardinality(Firings(k)) + 1
      BY <2>1, FS_AddElement
    <2> QED BY <2>1, <2>2, <2>3, FS_CardinalityType
  <1>16. ASSUME NEW kind \in Kinds, NEW l \in Keys
         PROVE  Answers(kind, l)' = Answers(kind, l) /\ Demand(kind, l)' = Demand(kind, l)
    <2>1. event.type \notin CallsFor[kind]
      BY <1>11, KindsAre DEF CallsFor, WakingTypes
    <2>2. EventsOf(l, CallsFor[kind])' = EventsOf(l, CallsFor[kind])
      BY <1>13, <2>1 DEF EventsOf
    <2>3. Queued(Queue(kind), l)' = Queued(Queue(kind), l) /\ Unpushed(kind, l)' = Unpushed(kind, l)
      BY <1>1 DEF Queued, Queue, Unpushed
    <2> QED BY <2>2, <2>3 DEF Answers, Demand
  <1>17. FiringsSpent'
    <2> SUFFICES ASSUME NEW l \in Keys
                 PROVE  Cardinality(Firings(l)') <= Cardinality(Spent(l, "UserTimer")')
      BY DEF FiringsSpent
    <2>1. Cardinality(Firings(l)) \in Nat /\ Cardinality(Firings(l)) <= Cardinality(Spent(l, "UserTimer"))
      BY <1>6, FS_CardinalityType DEF FiringsSpent, Counted
    <2>2. /\ Cardinality(Spent(l, "UserTimer")) \in Nat /\ Cardinality(Spent(l, "UserTimer")') \in Nat
          /\ Cardinality(Spent(l, "UserTimer")) <= Cardinality(Spent(l, "UserTimer")')
      BY <1>9, SpentGrows
    <2>3. CASE l = k
      BY <1>9, <1>15, <2>1, <2>2, <2>3
    <2>4. CASE l # k
      BY <1>14, <2>1, <2>2, <2>4
    <2> QED BY <2>3, <2>4
  <1>18. ASSUME NEW kind \in Kinds, NEW l \in Keys, Kept(TimeoutOf(kind)), l # k \/ kind = "activity"
         PROVE  Fair(kind, l)
    <2>1. Tasking(kind, l)' \subseteq Tasking(kind, l)
      <3>1. CASE kind = "activity"
        BY <1>2, <1>3, <3>1, TaskingIs
      <3>2. CASE l # k
        <4>1. CASE proc.timer = t
          BY <1>0, <1>3, <1>18, <3>2, <4>1, TaskingIs
        <4>2. CASE proc.pc # "wake"
          BY <1>2, <1>3, <4>2, TaskingIs
        <4>3. proc.pc = "wake" => proc.timer = t
          <5>1. \/ procs'[p] = Continue(procs[p].batch)
                \/ procs'[p].pc = "wake" /\ procs'[p].timer = t
            BY <1>0, FiredEffect, SetsOfTimers
          <5>2. Continue(procs[p].batch).pc # "wake" /\ procs'[p] = proc
            BY <1>3 DEF Continue
          <5> QED BY <5>1, <5>2
        <4> QED BY <4>1, <4>2, <4>3
      <3> QED BY <1>18, <3>1, <3>2
    <2>2. Answers(kind, l)' + Demand(kind, l) <= Answers(kind, l) + Demand(kind, l)'
      BY <1>16, <1>18, CountsAre
    <2>3. Firings(l) \subseteq Firings(l)'
      BY <1>14
    <2> QED BY <1>18, <2>1, <2>2, <2>3, CalmFair
  <1>19. Fair("workflow", k)
    <2> DEFINE T == Tasking("workflow", k)
    <2>1. "workflow" \in Kinds /\ Kept(TimeoutOf("workflow")) /\ k \in Keys
      BY <1>1, <1>6, <1>7, KindsAre DEF TimeoutOf
    <2>2. /\ IsFiniteSet(T) /\ IsFiniteSet(T')
          /\ \A q : q \in T <=> q \in Processors /\ procs[q].timer.key = k /\ procs[q].pc = "wake"
          /\ \A q : q \in T' <=> q \in Processors /\ procs'[q].timer.key = k /\ procs'[q].pc = "wake"
      BY <2>1, TaskingIs
    <2>3. T' \subseteq T \cup {p} /\ p \notin T
      BY <1>1, <1>3, <2>2
    <2> HIDE DEF T
    <2>4. IsFiniteSet(T \cup {p}) /\ Cardinality(T \cup {p}) = Cardinality(T) + 1
      BY <2>2, <2>3, FS_AddElement
    <2>5. Cardinality(T') <= Cardinality(T \cup {p})
      BY <2>3, <2>4, FS_Subset
    <2>6. Called("workflow", k)' = Called("workflow", k) + 1
      <3>1. Demand("workflow", k) \in Nat /\ Demand("workflow", k)' = Demand("workflow", k)
        BY <1>16, <2>1, CountsAre
      <3> QED BY <1>15, <3>1 DEF Called
    <2>7. Answers("workflow", k)' = Answers("workflow", k)
      BY <1>16, <2>1
    <2> QED BY <2>1, <2>4, <2>5, <2>6, <2>7, CountsAre DEF Fair, T
  <1>20. FiringInv'
    <2>1. Kept("WorkflowTaskTimeout")
      BY <1>6, <1>7
    <2>2. \A l \in Keys : Fair("workflow", l)
      BY <1>18, <1>19, <2>1, KindsAre DEF TimeoutOf
    <2>3. ProcessorsAt({"rebuild"})' = {}
      BY <1>2, <1>3, <1>6 DEF ProcessorsAt
    <2>4. \A c \in Callers : NoFiring(calls'[c])
      BY <1>1, <1>6
    <2> QED BY <1>9, <1>17, <2>1, <2>2, <2>3, <2>4, FiringKept
  <1>21. ASSUME RequeueInv
         PROVE  RequeueInv'
    <2>1. OnePlace("ActivityTimeout") /\ \A c \in Callers : NoHeartbeat(calls[c])
      BY <1>21, RequeueInvIs
    <2>2. Kept("ActivityTimeout") /\ \A c \in Callers : NoHeartbeat(calls'[c])
      BY <1>1, <1>7, <2>1
    <2>3. \A l \in Keys : Fair("activity", l)
      BY <1>18, <2>2, KindsAre DEF TimeoutOf
    <2> QED BY <1>21, <2>2, <2>3, RequeueKept
  <1> QED BY <1>20, <1>21

LEMMA FiringStep ==
  ASSUME TimerInv, Counted, Counted', ~Scavenging, [TimerNext]_timerVars, FiringInv
  PROVE  /\ FiringInv'
         /\ RequeueInv /\ "RecordActivityTaskHeartbeat" \notin RPCs => RequeueInv'
  <1>1. CASE HistoryStep \/ UNCHANGED timerVars
    <2>1. [Next]_vars /\ UNCHANGED procs
      BY <1>1 DEF HistoryStep, timerVars
    <2> QED BY <2>1, HandlersFiring
  <1>2. ASSUME NEW p \in Processors, Run(p)
        PROVE  FiringInv' /\ (RequeueInv => RequeueInv')
    <2>1. CommitFired(p) \/ \E proc : Moves(p, proc)
      BY <1>2, RunKinds
    <2> QED BY <2>1, CommitFiring, MoveFiring
  <1>3. CASE RedisRestart \/ \E p \in Processors : ProcessorCrash(p)
    BY <1>3, IncidentFiring
  <1> QED BY <1>1, <1>2, <1>3 DEF TimerNext

LEMMA FiringInit ==
  ASSUME TimerInit, Counted
  PROVE  FiringInv /\ RequeueInv
  <1>1. /\ \A k \in Keys : history[k] = {}
        /\ active = {} /\ fired = {} /\ workflowQueue = <<>> /\ activityQueue = <<>>
        /\ \A c \in Callers : calls[c] = Idle
        /\ \A p \in Processors : procs[p] = Idle
    BY DEF TimerInit, Init, RepositoryInit
  <1>2. Idle.pc = "idle" /\ TimersInHand(Idle) = {} /\ Held(Idle) = {} /\ Hand(Idle) = {}
    BY DEF Idle, TimersInHand, Held, Batching, Hand
  <1>3. ProcessorsAt({"rebuild"}) = {} /\ \A c \in Callers : NoFiring(calls[c]) /\ NoHeartbeat(calls[c])
    BY <1>1, <1>2 DEF ProcessorsAt, NoFiring, NoHeartbeat
  <1>4. \A type : OnePlace(type)
    <2>1. /\ \A c \in Callers : Hands[c] = {}
          /\ \A p \in Processors : Claims[p] = {}
      BY <1>1, <1>2 DEF Hands, Claims
    <2> QED BY <1>1, <2>1, PlacesAre DEF Single
  <1>5. Cardinality({}) = 0 /\ IsFiniteSet({})
    BY FS_EmptySet
  <1>6. FiringsSpent
    <2> SUFFICES ASSUME NEW k \in Keys PROVE Cardinality(Firings(k)) <= Cardinality(Spent(k, "UserTimer"))
      BY DEF FiringsSpent
    <2>1. Firings(k) = {} /\ Spent(k, "UserTimer") = {}
      BY <1>1 DEF Firings, EventsOf, Spent, OfType
    <2> QED BY <1>5, <2>1
  <1>7. ASSUME NEW kind \in Kinds PROVE Justified(kind)
    <2> SUFFICES ASSUME NEW k \in Keys
                 PROVE  Answers(kind, k) + Cardinality(Tasking(kind, k))
                          <= Called(kind, k) + Cardinality(Spent(k, TimeoutOf(kind)))
      BY DEF Justified
    <2>1. Tasking(kind, k) = {}
      BY <1>1, <1>2, TaskingIs
    <2>2. Unpushed(kind, k) = {}
      BY <1>1, <1>2, UnpushedIs
    <2>3. Queued(Queue(kind), k) = 0
      <3>1. Queue(kind) = <<>>
        BY <1>1 DEF Queue
      <3>2. {i \in DOMAIN <<>> : <<>>[i].key = k} = {}
        OBVIOUS
      <3> QED BY <1>5, <3>1, <3>2 DEF Queued
    <2>4. Firings(k) = {} /\ Spent(k, TimeoutOf(kind)) = {} /\ EventsOf(k, CallsFor[kind]) = {}
      BY <1>1 DEF Firings, EventsOf, Spent, OfType
    <2>5. Answers(kind, k) = 0 /\ Called(kind, k) = 0
      BY <1>5, <2>2, <2>3, <2>4 DEF Answers, Called, Demand
    <2> QED BY <1>5, <2>1, <2>4, <2>5
  <1> QED BY <1>3, <1>4, <1>6, <1>7, KindsAre, FiringInvIs, RequeueInvIs

--------------------------------------------------------------------------------
(* What follows of the events and the tasks *)

\* The timer of each processor that is about to fire one is marked, and not spent.
LEMMA OnceFired ==
  ASSUME TimerInv, Counted, FiringInv
  PROVE  FiredOnce
  <1> SUFFICES ASSUME NEW k \in Keys
               PROVE  Cardinality(Firings(k)) + Cardinality(FiringOf(k))
                        <= Cardinality(OfType(fired, k, "UserTimer"))
    BY DEF FiredOnce, Firings
  <1> DEFINE F == OfType(fired, k, "UserTimer")
             S == Spent(k, "UserTimer")
             P == FiringOf(k)
             f == [p \in P |-> procs[p].timer]
  <1>1. /\ IsFiniteSet(F) /\ IsFiniteSet(Firings(k)) /\ S \subseteq F
        /\ Cardinality(Firings(k)) <= Cardinality(S)
    BY FiringInvIs DEF Counted, Spent, FiringsSpent
  <1>2. ASSUME NEW p \in P
        PROVE  p \in Processors /\ procs[p].timer \in F \ S /\ procs[p].timer \in Claims[p]
    <2>1. /\ p \in Processors /\ procs[p].pc \in {"handle", "fire"}
          /\ procs[p].timer.key = k /\ procs[p].timer.type = "UserTimer"
      BY <1>2 DEF FiringOf, ProcessorsAt
    <2>2. procs[p].timer \in fired
      BY <2>1, FitProc DEF ProcFit, Batching
    <2>3. procs[p].timer \in Claims[p]
      BY <2>1 DEF Claims, Held
    <2>4. procs[p].timer \in Pending
      BY <2>1, <2>3, PlacesAre DEF Waits
    <2> QED BY <2>1, <2>2, <2>3, <2>4 DEF Spent, OfType
  <1>3. ASSUME NEW p \in P, NEW q \in P, procs[p].timer = procs[q].timer
        PROVE  p = q
    <2>1. Single("UserTimer", active, Hands, Claims)
      BY FiringInvIs, PlacesAre
    <2>2. procs[p].timer.type = "UserTimer"
      BY <1>3 DEF FiringOf
    <2> QED BY <1>2, <1>3, <2>1, <2>2 DEF Single
  <1>4. IsFiniteSet(F \ S) /\ IsFiniteSet(S) /\ Cardinality(F \ S) = Cardinality(F) - Cardinality(S)
    <2>1. F \cap S = S
      BY <1>1
    <2> QED BY <1>1, <2>1, FS_Difference, FS_Subset
  <1>5. Cardinality(P) <= Cardinality(F \ S) /\ IsFiniteSet(P)
    <2> HIDE DEF F, S, P
    <2>1. f \in Injection(P, F \ S)
      BY <1>2, <1>3 DEF Injection, IsInjective
    <2> QED BY <1>4, <2>1, FS_Injection
  <1> HIDE DEF F, S, P
  <1>6. /\ Cardinality(P) \in Nat /\ Cardinality(F) \in Nat /\ Cardinality(S) \in Nat
        /\ Cardinality(Firings(k)) \in Nat
    BY <1>1, <1>4, <1>5, FS_CardinalityType
  <1> QED BY <1>1, <1>4, <1>5, <1>6 DEF F, P

LEMMA AnswersJustified ==
  ASSUME Counted, FiringInv, RequeueInv
  PROVE  TasksJustified
  <1> SUFFICES ASSUME NEW kind \in Kinds, NEW k \in Keys
               PROVE  Answers(kind, k) + Cardinality(Tasking(kind, k))
                        <= Called(kind, k) + Cardinality(OfType(fired, k, TimeoutOf(kind)))
    BY KindsAre DEF TasksJustified, Answers, Demand, Tasking, TimeoutOf, Called, Queue, CallsFor,
       Wakings, Firings
  <1>1. Answers(kind, k) + Cardinality(Tasking(kind, k))
          <= Called(kind, k) + Cardinality(Spent(k, TimeoutOf(kind)))
    BY KindsAre, FiringInvIs, RequeueInvIs DEF Justified
  <1>2. /\ Cardinality(Spent(k, TimeoutOf(kind))) <= Cardinality(OfType(fired, k, TimeoutOf(kind)))
        /\ Cardinality(Spent(k, TimeoutOf(kind))) \in Nat
        /\ Cardinality(OfType(fired, k, TimeoutOf(kind))) \in Nat
    <2>1. /\ IsFiniteSet(OfType(fired, k, TimeoutOf(kind)))
          /\ Spent(k, TimeoutOf(kind)) \subseteq OfType(fired, k, TimeoutOf(kind))
      BY DEF Counted, Spent
    <2> QED BY <2>1, FS_Subset, FS_CardinalityType
  <1>3. Answers(kind, k) \in Nat /\ Called(kind, k) \in Nat /\ Cardinality(Tasking(kind, k)) \in Nat
    <2>1. IsFiniteSet(Firings(k)) /\ Answers(kind, k) \in Nat /\ Demand(kind, k) \in Nat
      BY DEF Counted
    <2> QED BY <2>1, TaskingIs, FS_CardinalityType DEF Called
  <1> QED BY <1>1, <1>2, <1>3

\* As long as no scavenger runs, every TimerFired event has a timer of its own that was
\* marked before it was written and is out of circulation, whatever crashes, conflicts and
\* replies are lost; and so has every workflow task that no other event calls for.
THEOREM FiringSound ==
  ASSUME ~Scavenging
  PROVE  TimerSpec => []FiringInv
  <1>1. TimerInv => Counted
    BY CountsFinite
  <1>2. TimerInit /\ Counted => FiringInv
    BY FiringInit
  <1>3. TimerInv /\ Counted /\ Counted' /\ [TimerNext]_timerVars /\ FiringInv => FiringInv'
    BY FiringStep
  <1> QED BY TimersSound, <1>1, <1>2, <1>3, PTL DEF TimerSpec

\* However many processors claim at once, a user timer is recorded as fired at most once.
THEOREM FiresOnce ==
  ASSUME ~Scavenging
  PROVE  TimerSpec => []FiredOnce
  <1>1. TimerInv => Counted
    BY CountsFinite
  <1>2. TimerInv /\ Counted /\ FiringInv => FiredOnce
    BY OnceFired
  <1> QED BY TimersSound, FiringSound, <1>1, <1>2, PTL

\* Where no worker sends heartbeats, the activity tasks of the timeouts are counted as well.
THEOREM RequeueSound ==
  ASSUME ~Scavenging, "RecordActivityTaskHeartbeat" \notin RPCs
  PROVE  TimerSpec => []RequeueInv
  <1>1. TimerInv => Counted
    BY CountsFinite
  <1>2. TimerInit /\ Counted => RequeueInv
    BY FiringInit
  <1>3. TimerInv /\ Counted /\ Counted' /\ [TimerNext]_timerVars /\ FiringInv /\ RequeueInv
          => RequeueInv'
    BY FiringStep
  <1> QED BY TimersSound, FiringSound, <1>1, <1>2, <1>3, PTL DEF TimerSpec

\* Each task answers to an event or to a timeout of its own.
THEOREM EveryTaskJustified ==
  ASSUME ~Scavenging, "RecordActivityTaskHeartbeat" \notin RPCs
  PROVE  TimerSpec => []TasksJustified
  <1>1. TimerInv => Counted
    BY CountsFinite
  <1>2. Counted /\ FiringInv /\ RequeueInv => TasksJustified
    BY AnswersJustified
  <1> QED BY TimersSound, FiringSound, RequeueSound, <1>1, <1>2, PTL
================================================================================
