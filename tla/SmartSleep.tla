------------------------------- MODULE SmartSleep -------------------------------
(***************************************************************************)
(* When the timer processors sleep and what wakes them: nextWaitDuration   *)
(* and the select of Run (history/internal/service/timer_processor.go),    *)
(* with the Redis sorted set and wake-up channel they share with the       *)
(* handlers (history/internal/adapters/redis/timer_store.go).              *)
(*                                                                         *)
(* Every Redis command is a step of its own, and the clock is explicit.    *)
(* What a timer does when it fires is the subject of TimerProcessor; here  *)
(* it is marked fired, or, if it watches an activity whose worker is still *)
(* alive, rescheduled.                                                     *)
(***************************************************************************)
EXTENDS Naturals, FiniteSets

CONSTANTS
  Timers,        \* timer_id
  Watchdogs,     \* the timers of type ActivityTimeout
  Processors,    \* one per History process
  BatchSize,     \* timerBatchSize, 10 in the code
  Window,        \* the heartbeat timeout of the watched activities
  Heartbeating,  \* do workers send heartbeats?
  Faults,        \* what may go wrong, see SleepFaultKinds
  MaxTime,       \* bound: the clock stops here
  MaxFireTime,   \* bound on fire times
  MaxMessages,   \* capacity of a subscription; go-redis drops what does not fit
  MaxIncidents   \* bound: how many of these faults happen

\* redis: a command fails, before or after taking effect.  pubsub: a message does not
\* reach a subscriber (late subscription, reconnection).  database: a SELECT fails.
\* crash: a History process dies and restarts.  restart: Redis does.
SleepFaultKinds == {"redis", "pubsub", "database", "crash", "restart"}

ASSUME SleepAssumption ==
  /\ Watchdogs \subseteq Timers
  /\ BatchSize \in Nat \ {0} /\ Window \in Nat \ {0}
  /\ Heartbeating \in BOOLEAN
  /\ Faults \subseteq SleepFaultKinds
  /\ MaxTime \in Nat /\ MaxFireTime \in Nat /\ MaxTime <= MaxFireTime
  /\ MaxMessages \in Nat \ {0} /\ MaxIncidents \in Nat

VARIABLES
  now,          \* the clock all processes share
  fireTime,     \* timers.fire_time; Never: no such row yet
  isFired,      \* the rows whose is_fired is true
  freshUntil,   \* last_heartbeat + timeout of the activity a watchdog watches, or 0
  score,        \* timers:active_set; Never: not a member
  schedules,    \* [Timers -> Schedule]: the handler that is scheduling each timer
  procs,        \* [Processors -> Processor]
  token,        \* [Processors -> BOOLEAN]: the one-place buffer of wakeupCh
  messages,     \* [Processors -> Nat]: published, and not yet read by the subscriber
  incidents     \* how many faults there have been

redisVars == <<score, token, messages>>
rowVars == <<fireTime, isFired, freshUntil>>
sleepVars == <<now, rowVars, redisVars, schedules, procs, incidents>>

--------------------------------------------------------------------------------
Never == MaxFireTime + 1
Times == 0 .. MaxFireTime

Idle == [pc |-> "idle"]

\* ScheduleTimer: ZADD, then ZRANGE 0 0, then PUBLISH if the timer is the earliest.
\* A heartbeat first updates the row.
ScheduleSteps == {"zadd", "check", "publish"}
Schedule == {Idle} \cup [pc : ScheduleSteps \cup {"update"}, at : Times]

\* A processor calls ScheduleTimer to put back a timer it has peeked at, and then
\* sleeps, or to reschedule a watchdog, and then goes on with the batch.
Claiming == [pc : {"claim", "peek"}]
Dispatching == [pc : {"dispatch"}, batch : SUBSET Timers]
LookingUp == [pc : {"lookup"}, timer : Timers]
Scheduling == [pc : ScheduleSteps, timer : Timers, at : Times, peeked : BOOLEAN,
               batch : SUBSET Timers]
Sleeping == [pc : {"sleep"}, until : Times \cup {Never}]
Rebuilding == [pc : {"rebuild"}, rows : [Timers -> Times \cup {Never}]]

Processor ==
  Claiming \cup Dispatching \cup LookingUp \cup Scheduling \cup Sleeping \cup Rebuilding

SleepTypeOK ==
  /\ now \in 0 .. MaxTime
  /\ fireTime \in [Timers -> Times \cup {Never}]
  /\ isFired \in SUBSET Timers
  /\ freshUntil \in [Timers -> Times]
  /\ score \in [Timers -> Times \cup {Never}]
  /\ schedules \in [Timers -> Schedule]
  /\ procs \in [Processors -> Processor]
  /\ token \in [Processors -> BOOLEAN]
  /\ messages \in [Processors -> 0 .. MaxMessages]
  /\ incidents \in Nat

SleepInit ==
  /\ now = 0
  /\ fireTime = [t \in Timers |-> Never]
  /\ isFired = {}
  /\ freshUntil = [t \in Timers |-> 0]
  /\ score = [t \in Timers |-> Never]
  /\ schedules = [t \in Timers |-> Idle]
  /\ procs = [p \in Processors |-> [pc |-> "claim"]]
  /\ token = [p \in Processors |-> FALSE]
  /\ messages = [p \in Processors |-> 0]
  /\ incidents = 0

--------------------------------------------------------------------------------
(* The sorted set and the channel *)

Members == {t \in Timers : score[t] # Never}

ZAdd(t, at) == score' = [score EXCEPT ![t] = at]
ZRem(S) == score' = [t \in Timers |-> IF t \in S THEN Never ELSE score[t]]

\* Members with equal scores are ordered by their names, here in some arbitrary way.
Rank == CHOOSE f \in [Timers -> 1 .. Cardinality(Timers)] :
          \A t, u \in Timers : f[t] = f[u] => t = u

Precedes(t, u) == score[t] < score[u] \/ (score[t] = score[u] /\ Rank[t] < Rank[u])

\* Mutant: publishes only for the first member of an empty set.
OnlyMember(t) == Members = {t}

\* ZRANGE 0 0.
IsEarliest(t) == t \in Members /\ \A u \in Members \ {t} : Precedes(t, u)

\* Mutant: nothing is ever dropped.
PublishUnbounded == messages' = [p \in Processors |-> messages[p] + 1]

Publish ==
  messages' = [p \in Processors |->
    IF messages[p] < MaxMessages THEN messages[p] + 1 ELSE messages[p]]

Incident(fault) ==
  /\ fault \in Faults
  /\ incidents < MaxIncidents
  /\ incidents' = incidents + 1

\* The goroutine of Subscribe: a message becomes the token, if there is none yet.
Deliver(p) ==
  /\ messages[p] > 0
  /\ messages' = [messages EXCEPT ![p] = @ - 1]
  /\ token' = [token EXCEPT ![p] = TRUE]
  /\ UNCHANGED <<now, rowVars, score, schedules, procs, incidents>>

MessageLost(p) ==
  /\ Incident("pubsub")
  /\ messages[p] > 0
  /\ messages' = [messages EXCEPT ![p] = @ - 1]
  /\ UNCHANGED <<now, rowVars, score, token, schedules, procs>>

--------------------------------------------------------------------------------
(* The handlers *)

\* A handler commits a timer that is due at f and goes on to schedule it.
CreateTimer(t, f) ==
  /\ fireTime[t] = Never
  /\ f >= now
  /\ fireTime' = [fireTime EXCEPT ![t] = f]
  /\ schedules' = [schedules EXCEPT ![t] = [pc |-> "zadd", at |-> f]]
  /\ UNCHANGED <<now, isFired, freshUntil, redisVars, procs, incidents>>

\* RecordActivityTaskStarted sets last_heartbeat, and leaves the timer alone.
ActivityStarted(t) ==
  /\ t \in Watchdogs /\ fireTime[t] # Never /\ freshUntil[t] = 0
  /\ now + Window <= MaxFireTime                                          \* bound
  /\ freshUntil' = [freshUntil EXCEPT ![t] = now + Window]
  /\ UNCHANGED <<now, fireTime, isFired, redisVars, schedules, procs, incidents>>

\* RecordActivityTaskHeartbeat: last_heartbeat first, then the unfired timer it finds.
Heartbeat(t) ==
  /\ Heartbeating
  /\ t \in Watchdogs /\ fireTime[t] # Never /\ schedules[t] = Idle
  /\ now + Window <= MaxFireTime                                          \* bound
  /\ freshUntil' = [freshUntil EXCEPT ![t] = now + Window]
  /\ schedules' = [schedules EXCEPT ![t] =
       IF t \in isFired THEN Idle ELSE [pc |-> "update", at |-> now + Window]]
  /\ UNCHANGED <<now, fireTime, isFired, redisVars, procs, incidents>>

UpdateTimerFireTime(t) ==
  /\ schedules[t].pc = "update"
  /\ fireTime' = [fireTime EXCEPT ![t] = schedules[t].at]
  /\ schedules' = [schedules EXCEPT ![t].pc = "zadd"]
  /\ UNCHANGED <<now, isFired, freshUntil, redisVars, procs, incidents>>

\* The three commands of ScheduleTimer, called by a handler.
HandlerSchedules(t) ==
  /\ \/ /\ schedules[t].pc = "zadd"
        /\ ZAdd(t, schedules[t].at)
        /\ schedules' = [schedules EXCEPT ![t].pc = "check"]
        /\ UNCHANGED messages
     \/ /\ schedules[t].pc = "check"
        /\ schedules' = [schedules EXCEPT ![t] =
             IF IsEarliest(t) THEN [@ EXCEPT !.pc = "publish"] ELSE Idle]
        /\ UNCHANGED <<score, messages>>
     \/ /\ schedules[t].pc = "publish"
        /\ Publish
        /\ schedules' = [schedules EXCEPT ![t] = Idle]
        /\ UNCHANGED score
  /\ UNCHANGED <<now, rowVars, token, procs, incidents>>

\* A command fails, perhaps after taking effect: a warning is logged.
HandlerFails(t) ==
  /\ Incident("redis")
  /\ schedules[t].pc \in ScheduleSteps
  /\ \/ UNCHANGED score
     \/ schedules[t].pc = "zadd" /\ ZAdd(t, schedules[t].at)
  /\ schedules' = [schedules EXCEPT ![t] = Idle]
  /\ UNCHANGED <<now, rowVars, token, messages, procs>>

--------------------------------------------------------------------------------
(* A processor awake *)

Become(p, state) == procs' = [procs EXCEPT ![p] = state]

Continue(batch) == IF batch = {} THEN [pc |-> "peek"] ELSE [pc |-> "dispatch", batch |-> batch]

\* The BatchSize earliest of the expired timers.
Expired == {t \in Members : score[t] <= now}
Claimable ==
  {S \in SUBSET Expired :
     /\ Cardinality(S) = BatchSize \/ (S = Expired /\ Cardinality(S) < BatchSize)
     /\ \A t \in S, u \in Expired \ S : Precedes(t, u)}

ClaimExpired(p) ==
  /\ procs[p].pc = "claim"
  /\ \E S \in Claimable :
       /\ ZRem(S)
       /\ Become(p, Continue(S))
  /\ UNCHANGED <<now, rowVars, token, messages, schedules, incidents>>

\* The script runs and its reply is lost, or it does not run.
ClaimFails(p) ==
  /\ Incident("redis")
  /\ \/ /\ procs[p].pc = "claim"
        /\ \E S \in Claimable \cup {{}} : ZRem(S)
        /\ Become(p, [pc |-> "peek"])
     \/ /\ procs[p].pc = "peek"
        /\ UNCHANGED score \/ \E t \in Members : IsEarliest(t) /\ ZRem({t})
        /\ Become(p, [pc |-> "sleep", until |-> Never])
  /\ UNCHANGED <<now, rowVars, token, messages, schedules>>

\* dispatch: the timer is marked fired and done with, unless it watches a worker that
\* is still within its window.
Dispatch(p, t) ==
  /\ procs[p].pc = "dispatch"
  /\ t \in procs[p].batch
  /\ isFired' = isFired \cup {t}
  /\ LET rest == procs[p].batch \ {t}
     IN  Become(p, IF freshUntil[t] > now
                   THEN [pc |-> "zadd", timer |-> t, at |-> freshUntil[t], peeked |-> FALSE,
                         batch |-> rest]
                   ELSE Continue(rest))
  /\ UNCHANGED <<now, fireTime, freshUntil, redisVars, schedules, incidents>>

\* nextWaitDuration: ClaimExpired with a batch of one and a deadline in the future.
PeekNext(p) ==
  /\ procs[p].pc = "peek"
  /\ \/ \E t \in Members :
          /\ IsEarliest(t)
          /\ ZRem({t})
          /\ Become(p, [pc |-> "lookup", timer |-> t])
     \/ /\ Members = {}
        /\ Become(p, [pc |-> "sleep", until |-> Never])
        /\ UNCHANGED score
  /\ UNCHANGED <<now, rowVars, token, messages, schedules, incidents>>

\* Mutant: the peeked timer is not put back.
PeekedAndKept(p) ==
  /\ procs[p].pc = "lookup"
  /\ Become(p, [pc |-> "sleep", until |-> fireTime[procs[p].timer]])
  /\ UNCHANGED <<now, rowVars, redisVars, schedules, incidents>>

\* GetTimerByID tells how long to wait, and with which score to put the timer back.
GetTimerByID(p) ==
  /\ procs[p].pc = "lookup"
  /\ LET t == procs[p].timer
     IN  Become(p, [pc |-> "zadd", timer |-> t, at |-> fireTime[t], peeked |-> TRUE,
                    batch |-> {}])
  /\ UNCHANGED <<now, rowVars, redisVars, schedules, incidents>>

\* If it fails the timer is dropped.
GetTimerByIDFails(p) ==
  /\ Incident("database")
  /\ procs[p].pc = "lookup"
  /\ Become(p, [pc |-> "sleep", until |-> Never])
  /\ UNCHANGED <<now, rowVars, redisVars, schedules>>

\* What follows ScheduleTimer.
Scheduled(s) == IF s.peeked THEN [pc |-> "sleep", until |-> s.at] ELSE Continue(s.batch)

\* The three commands of ScheduleTimer, called by a processor.
ProcessorSchedules(p) ==
  LET s == procs[p]
  IN  /\ \/ /\ s.pc = "zadd"
            /\ ZAdd(s.timer, s.at)
            /\ Become(p, [s EXCEPT !.pc = "check"])
            /\ UNCHANGED messages
         \/ /\ s.pc = "check"
            /\ Become(p, IF IsEarliest(s.timer) THEN [s EXCEPT !.pc = "publish"]
                         ELSE Scheduled(s))
            /\ UNCHANGED <<score, messages>>
         \/ /\ s.pc = "publish"
            /\ Publish
            /\ Become(p, Scheduled(s))
            /\ UNCHANGED score
      /\ UNCHANGED <<now, rowVars, token, schedules, incidents>>

ProcessorFails(p) ==
  /\ Incident("redis")
  /\ procs[p].pc \in ScheduleSteps
  /\ \/ UNCHANGED score
     \/ procs[p].pc = "zadd" /\ ZAdd(procs[p].timer, procs[p].at)
  /\ Become(p, Scheduled(procs[p]))
  /\ UNCHANGED <<now, rowVars, token, messages, schedules>>

--------------------------------------------------------------------------------
(* The select of Run *)

TimeIsUp(p) ==
  /\ procs[p].pc = "sleep"
  /\ procs[p].until <= now
  /\ Become(p, [pc |-> "claim"])
  /\ UNCHANGED <<now, rowVars, redisVars, schedules, incidents>>

WokenUp(p) ==
  /\ procs[p].pc = "sleep"
  /\ token[p]
  /\ token' = [token EXCEPT ![p] = FALSE]
  /\ Become(p, [pc |-> "claim"])
  /\ UNCHANGED <<now, rowVars, score, messages, schedules, incidents>>

\* Mutant: WHERE is_fired = true.
ScavengeFired(p) ==
  /\ procs[p].pc = "sleep"
  /\ Become(p, [pc |-> "rebuild",
                rows |-> [t \in Timers |-> IF t \in isFired THEN fireTime[t] ELSE Never]])
  /\ UNCHANGED <<now, rowVars, redisVars, schedules, incidents>>

\* The ticker may tick at any time; scavenge reads the rows that are not fired.
ScavengerTick(p) ==
  /\ procs[p].pc = "sleep"
  /\ Become(p, [pc |-> "rebuild",
                rows |-> [t \in Timers |-> IF t \in isFired THEN Never ELSE fireTime[t]]])
  /\ UNCHANGED <<now, rowVars, redisVars, schedules, incidents>>

\* RebuildFromDB publishes nothing.
RebuildFromDB(p) ==
  /\ procs[p].pc = "rebuild"
  /\ score' = [t \in Timers |-> IF procs[p].rows[t] = Never THEN score[t] ELSE procs[p].rows[t]]
  /\ Become(p, [pc |-> "claim"])
  /\ UNCHANGED <<now, rowVars, token, messages, schedules, incidents>>

--------------------------------------------------------------------------------
\* A History process dies and restarts, with its subscription; the handlers it ran are gone.
Crash(p) ==
  /\ Incident("crash")
  /\ Become(p, [pc |-> "claim"])
  /\ token' = [token EXCEPT ![p] = FALSE]
  /\ messages' = [messages EXCEPT ![p] = 0]
  /\ \E gone \in SUBSET Timers :
       schedules' = [t \in Timers |-> IF t \in gone THEN Idle ELSE schedules[t]]
  /\ UNCHANGED <<now, rowVars, score>>

\* Redis crashes and loses its in-memory sorted set.
RedisRestart ==
  /\ Incident("restart")
  /\ ZRem(Timers)
  /\ UNCHANGED <<now, rowVars, token, messages, schedules, procs>>

ClockAdvances ==
  /\ now < MaxTime
  /\ now' = now + 1
  /\ UNCHANGED <<rowVars, redisVars, schedules, procs, incidents>>

Handle(t) ==
  \/ \E f \in Times : CreateTimer(t, f)
  \/ ActivityStarted(t) \/ Heartbeat(t)
  \/ UpdateTimerFireTime(t) \/ HandlerSchedules(t) \/ HandlerFails(t)

Awake(p) ==
  \/ ClaimExpired(p)
  \/ procs[p].pc = "dispatch" /\ \E t \in procs[p].batch : Dispatch(p, t)
  \/ PeekNext(p) \/ GetTimerByID(p)
  \/ ProcessorSchedules(p) \/ RebuildFromDB(p)

SleepNext ==
  \/ \E t \in Timers : Handle(t)
  \/ \E p \in Processors :
       \/ Awake(p) \/ TimeIsUp(p) \/ WokenUp(p) \/ ScavengerTick(p) \/ Deliver(p)
       \/ ClaimFails(p) \/ GetTimerByIDFails(p) \/ ProcessorFails(p)
       \/ MessageLost(p) \/ Crash(p)
  \/ RedisRestart
  \/ ClockAdvances

SleepSpec == SleepInit /\ [][SleepNext]_sleepVars

\* Goroutines take the steps they can take, and the clock and the ticker tick.  A
\* processor that keeps waking up still takes the ticker's case of its select in the
\* end: select chooses at random among the cases that are ready.
SleepFairSpec ==
  /\ SleepSpec
  /\ WF_sleepVars(ClockAdvances)
  /\ \A p \in Processors :
       /\ WF_sleepVars(Awake(p))
       /\ WF_sleepVars(TimeIsUp(p) \/ WokenUp(p))
       /\ WF_sleepVars(Deliver(p))
       /\ SF_sleepVars(ScavengerTick(p))
================================================================================
