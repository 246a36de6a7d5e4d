------------------------------ MODULE SleepProofs ------------------------------
(***************************************************************************)
(* What the commands of Smart Sleep keep, in any interleaving: a timer in  *)
(* hand or in Redis is a row of the table (SleepInv), an unfired timer is  *)
(* never dropped (NoTimerLost), and a timer earlier than a sleep ends it   *)
(* (EarlierTimerWakes).                                                    *)
(***************************************************************************)
EXTENDS SleepProperties, FiniteSetTheorems, FunctionTheorems, TLAPS

--------------------------------------------------------------------------------
(* The states a processor goes through *)

HasBatch(s) == s.pc = "dispatch" \/ s.pc \in ScheduleSteps
HasTimer(s) == s.pc = "lookup" \/ s.pc \in ScheduleSteps

LEMMA TimesAreNaturals == MaxFireTime \in Nat /\ Times \subseteq Nat /\ Never \in Nat /\ Never \notin Times
  BY SleepAssumption DEF Times, Never

LEMMA ProcessorFields ==
  ASSUME NEW s \in Processor
  PROVE  /\ s.pc \in {"claim", "peek", "dispatch", "lookup", "zadd", "check", "publish",
                      "sleep", "rebuild"}
         /\ HasBatch(s) => s.batch \in SUBSET Timers
         /\ HasTimer(s) => s.timer \in Timers
         /\ s.pc \in ScheduleSteps =>
              s.at \in Times /\ s.peeked \in BOOLEAN /\ s \in Scheduling
         /\ s.pc = "sleep" => s.until \in Times \cup {Never}
         /\ s.pc = "rebuild" => s.rows \in [Timers -> Times \cup {Never}]
  <1>1. CASE s \in Claiming
    BY <1>1 DEF Claiming, HasBatch, HasTimer, ScheduleSteps
  <1>2. CASE s \in Dispatching
    BY <1>2 DEF Dispatching, HasBatch, HasTimer, ScheduleSteps
  <1>3. CASE s \in LookingUp
    BY <1>3 DEF LookingUp, HasBatch, HasTimer, ScheduleSteps
  <1>4. CASE s \in Scheduling
    BY <1>4 DEF Scheduling, HasBatch, HasTimer, ScheduleSteps
  <1>5. CASE s \in Sleeping
    BY <1>5 DEF Sleeping, HasBatch, HasTimer, ScheduleSteps
  <1>6. CASE s \in Rebuilding
    BY <1>6 DEF Rebuilding, HasBatch, HasTimer, ScheduleSteps
  <1> QED BY <1>1, <1>2, <1>3, <1>4, <1>5, <1>6 DEF Processor

\* A call of ScheduleTimer moves on to its next command.
LEMMA NextCommand ==
  ASSUME NEW s \in Scheduling, NEW step \in ScheduleSteps
  PROVE  /\ [s EXCEPT !.pc = step] \in Scheduling
         /\ [s EXCEPT !.pc = step].pc = step
         /\ [s EXCEPT !.pc = step].timer = s.timer
         /\ [s EXCEPT !.pc = step].at = s.at
         /\ [s EXCEPT !.pc = step].peeked = s.peeked
         /\ [s EXCEPT !.pc = step].batch = s.batch
  BY DEF Scheduling

LEMMA ContinueIs ==
  ASSUME NEW batch \in SUBSET Timers
  PROVE  /\ Continue(batch) \in Processor
         /\ Continue(batch).pc \in {"peek", "dispatch"}
         /\ Continue(batch).pc = "dispatch" => Continue(batch).batch = batch
         /\ batch # {} => Continue(batch).pc = "dispatch"
  BY DEF Continue, Processor, Claiming, Dispatching

LEMMA ScheduledIs ==
  ASSUME NEW s \in Scheduling
  PROVE  /\ Scheduled(s) \in Processor
         /\ s.peeked => Scheduled(s).pc = "sleep" /\ Scheduled(s).until = s.at
         /\ ~s.peeked =>
              /\ Scheduled(s).pc \in {"peek", "dispatch"}
              /\ Scheduled(s).pc = "dispatch" => Scheduled(s).batch = s.batch
              /\ s.batch # {} => Scheduled(s).pc = "dispatch"
  <1>1. CASE s.peeked
    BY <1>1 DEF Scheduled, Scheduling, Processor, Sleeping
  <1>2. CASE ~s.peeked
    <2>1. s.batch \in SUBSET Timers
      BY DEF Scheduling
    <2>2. Scheduled(s) = Continue(s.batch)
      BY <1>2 DEF Scheduled
    <2> QED BY <1>2, <2>1, <2>2, ContinueIs
  <1> QED BY <1>1, <1>2

--------------------------------------------------------------------------------
(* A timer in hand or in Redis is a row of the table *)

Known(t) == fireTime[t] # Never

KnownProc(s) ==
  /\ HasBatch(s) => \A t \in s.batch : Known(t)
  /\ HasTimer(s) => Known(s.timer)
  /\ s.pc = "rebuild" => \A t \in Timers : s.rows[t] # Never => Known(t)
  /\ s.pc \in ScheduleSteps => (s.peeked => s.batch = {})

KnownTimers ==
  \A t \in Timers : t \in Members \/ schedules[t] # Idle \/ freshUntil[t] # 0 => Known(t)

\* The inductive invariant: what GetTimerByID reads is there to be read.
SleepInv ==
  /\ SleepTypeOK
  /\ KnownTimers
  /\ \A p \in Processors : KnownProc(procs[p])

LEMMA SleepInitInv == SleepInit => SleepInv
  <1> SUFFICES ASSUME SleepInit PROVE SleepInv
    OBVIOUS
  <1>1. SleepTypeOK
    BY SleepAssumption, TimesAreNaturals
       DEF SleepInit, SleepTypeOK, Times, Schedule, Processor, Claiming
  <1>2. KnownTimers
    BY DEF SleepInit, KnownTimers, Members
  <1>3. \A p \in Processors : KnownProc(procs[p])
    BY DEF SleepInit, KnownProc, HasBatch, HasTimer, ScheduleSteps
  <1> QED BY <1>1, <1>2, <1>3 DEF SleepInv

\* A step of a processor: it moves on, and writes Redis and the flags of the rows.
LEMMA ProcessorMoves ==
  ASSUME SleepInv, NEW p \in Processors, NEW state \in Processor, KnownProc(state),
         Become(p, state), UNCHANGED <<now, fireTime, freshUntil>>,
         \A t \in Timers : schedules'[t] = schedules[t] \/ schedules'[t] = Idle,
         schedules' \in [Timers -> Schedule],
         isFired' \in SUBSET Timers, incidents' \in Nat,
         score' \in [Timers -> Times \cup {Never}],
         \A t \in Timers : score'[t] # Never => Known(t),
         token' \in [Processors -> BOOLEAN], messages' \in [Processors -> 0 .. MaxMessages]
  PROVE  SleepInv'
  <1>1. SleepTypeOK'
    BY DEF SleepInv, SleepTypeOK, Become
  <1>2. KnownTimers'
    BY DEF SleepInv, KnownTimers, Members, Known
  <1>3. ASSUME NEW q \in Processors
        PROVE  KnownProc(procs[q])'
    <2>1. procs'[q] = IF q = p THEN state ELSE procs[q]
      BY DEF SleepInv, SleepTypeOK, Become
    <2>2. KnownProc(procs'[q])
      BY <2>1 DEF SleepInv
    <2> QED BY <2>2 DEF KnownProc, Known
  <1> QED BY <1>1, <1>2, <1>3 DEF SleepInv

LEMMA MembersAreKnown ==
  ASSUME SleepInv PROVE \A t \in Timers : score[t] # Never => Known(t)
  BY DEF SleepInv, KnownTimers, Members

LEMMA RemovedMembers ==
  ASSUME SleepInv, NEW S, ZRem(S)
  PROVE  /\ score' \in [Timers -> Times \cup {Never}]
         /\ \A t \in Timers : score'[t] # Never => Known(t)
  BY MembersAreKnown DEF SleepInv, SleepTypeOK, ZRem

LEMMA AddedMember ==
  ASSUME SleepInv, NEW t \in Timers, Known(t), NEW at \in Times, ZAdd(t, at)
  PROVE  /\ score' \in [Timers -> Times \cup {Never}]
         /\ \A u \in Timers : score'[u] # Never => Known(u)
  BY MembersAreKnown DEF SleepInv, SleepTypeOK, ZAdd

LEMMA PublishedType ==
  ASSUME SleepInv, Publish
  PROVE  messages' \in [Processors -> 0 .. MaxMessages]
  BY SleepAssumption DEF SleepInv, SleepTypeOK, Publish

LEMMA ClaimablesAreTimers ==
  ASSUME NEW S \in Claimable \cup {{}}
  PROVE  S \in SUBSET Timers /\ S \subseteq Members /\ \A t \in S : score[t] <= now
  BY DEF Claimable, Expired, Members

\* States that hold no timer.
LEMMA HoldsNoTimer ==
  /\ \A s \in {"claim", "peek"} : [pc |-> s] \in Processor /\ KnownProc([pc |-> s])
  /\ \A u \in Times \cup {Never} :
       [pc |-> "sleep", until |-> u] \in Processor /\ KnownProc([pc |-> "sleep", until |-> u])
  BY DEF Processor, Claiming, Sleeping, KnownProc, HasBatch, HasTimer, ScheduleSteps

LEMMA KnownContinues ==
  ASSUME NEW batch \in SUBSET Timers, \A t \in batch : Known(t)
  PROVE  Continue(batch) \in Processor /\ KnownProc(Continue(batch))
  BY ContinueIs DEF KnownProc, HasBatch, HasTimer, ScheduleSteps

LEMMA KnownScheduled ==
  ASSUME NEW s \in Scheduling, KnownProc(s)
  PROVE  Scheduled(s) \in Processor /\ KnownProc(Scheduled(s))
  <1>1. s.pc \in ScheduleSteps /\ s.peeked \in BOOLEAN
    BY DEF Scheduling
  <1> QED BY <1>1, ScheduledIs DEF KnownProc, HasBatch, HasTimer, ScheduleSteps

LEMMA KnownNextCommand ==
  ASSUME NEW s \in Scheduling, NEW step \in ScheduleSteps, KnownProc(s)
  PROVE  [s EXCEPT !.pc = step] \in Processor /\ KnownProc([s EXCEPT !.pc = step])
  <1>1. s.pc \in ScheduleSteps
    BY DEF Scheduling
  <1>2. [s EXCEPT !.pc = step] \in Processor
    BY NextCommand DEF Processor
  <1>3. step # "rebuild"
    BY DEF ScheduleSteps
  <1> QED BY <1>1, <1>2, <1>3, NextCommand DEF KnownProc, HasBatch, HasTimer

--------------------------------------------------------------------------------
(* Each action keeps the timers known *)

LEMMA ClaimKeepsKnown ==
  ASSUME SleepInv, NEW p \in Processors, ClaimExpired(p) \/ ClaimFails(p) \/ PeekNext(p)
  PROVE  SleepInv'
  <1> USE DEF SleepInv, SleepTypeOK
  <1>1. CASE ClaimExpired(p)
    <2>1. PICK S \in Claimable : ZRem(S) /\ Become(p, Continue(S))
      BY <1>1 DEF ClaimExpired
    <2>2. S \in SUBSET Timers /\ \A t \in S : Known(t)
      BY <2>1, ClaimablesAreTimers, MembersAreKnown DEF Members
    <2>3. Continue(S) \in Processor /\ KnownProc(Continue(S))
      BY <2>2, KnownContinues
    <2> QED BY <1>1, <2>1, <2>3, RemovedMembers, ProcessorMoves DEF ClaimExpired, rowVars
  <1>2. CASE ClaimFails(p)
    <2>1. incidents' \in Nat
      BY <1>2 DEF ClaimFails, Incident
    <2>2. /\ score' \in [Timers -> Times \cup {Never}]
          /\ \A t \in Timers : score'[t] # Never => Known(t)
      BY <1>2, RemovedMembers, MembersAreKnown DEF ClaimFails
    <2>3. PICK state \in {[pc |-> "peek"], [pc |-> "sleep", until |-> Never]} : Become(p, state)
      BY <1>2 DEF ClaimFails
    <2> QED BY <1>2, <2>1, <2>2, <2>3, HoldsNoTimer, ProcessorMoves DEF ClaimFails, rowVars
  <1>3. CASE PeekNext(p)
    <2>1. CASE \E t \in Members : IsEarliest(t) /\ ZRem({t})
                                   /\ Become(p, [pc |-> "lookup", timer |-> t])
      <3>1. PICK t \in Timers : /\ t \in Members /\ ZRem({t})
                                /\ Become(p, [pc |-> "lookup", timer |-> t])
        BY <2>1 DEF Members
      <3> DEFINE state == [pc |-> "lookup", timer |-> t]
      <3>2. state \in Processor
        BY DEF Processor, LookingUp
      <3>3. KnownProc(state)
        BY <3>1, MembersAreKnown DEF KnownProc, HasBatch, HasTimer, ScheduleSteps, Members
      <3> HIDE DEF state
      <3>4. Become(p, state)
        BY <3>1 DEF state
      <3> QED BY <1>3, <3>1, <3>2, <3>3, <3>4, RemovedMembers, ProcessorMoves
              DEF PeekNext, rowVars
    <2>2. CASE Become(p, [pc |-> "sleep", until |-> Never]) /\ UNCHANGED score
      BY <1>3, <2>2, HoldsNoTimer, MembersAreKnown, ProcessorMoves DEF PeekNext, rowVars
    <2> QED BY <1>3, <2>1, <2>2 DEF PeekNext
  <1> QED BY <1>1, <1>2, <1>3

LEMMA DispatchKeepsKnown ==
  ASSUME SleepInv, NEW p \in Processors, NEW t \in procs[p].batch, Dispatch(p, t)
  PROVE  SleepInv'
  <1> USE DEF SleepInv, SleepTypeOK
  <1>1. procs[p].pc = "dispatch" /\ HasBatch(procs[p])
    BY DEF Dispatch, HasBatch
  <1>2. /\ procs[p].batch \in SUBSET Timers
        /\ \A u \in procs[p].batch : Known(u)
    BY <1>1, ProcessorFields DEF KnownProc
  <1> DEFINE rest == procs[p].batch \ {t}
             busy == [pc |-> "zadd", timer |-> t, at |-> freshUntil[t], peeked |-> FALSE,
                      batch |-> rest]
  <1>3. Continue(rest) \in Processor /\ KnownProc(Continue(rest))
    BY <1>2, KnownContinues
  <1>4. busy \in Processor /\ KnownProc(busy)
    <2>1. busy \in Scheduling
      BY <1>2 DEF Scheduling, ScheduleSteps
    <2>2. KnownProc(busy)
      BY <1>2 DEF KnownProc, HasBatch, HasTimer, ScheduleSteps
    <2> QED BY <2>1, <2>2 DEF Processor
  <1> HIDE DEF busy
  <1>5. PICK state \in {busy, Continue(rest)} : Become(p, state)
    BY DEF Dispatch, busy
  <1>6. isFired' \in SUBSET Timers
    BY <1>2 DEF Dispatch
  <1> QED BY <1>3, <1>4, <1>5, <1>6, MembersAreKnown, ProcessorMoves
          DEF Dispatch, redisVars

LEMMA LookupKeepsKnown ==
  ASSUME SleepInv, NEW p \in Processors, GetTimerByID(p) \/ GetTimerByIDFails(p)
  PROVE  SleepInv'
  <1> USE DEF SleepInv, SleepTypeOK
  <1>1. CASE GetTimerByID(p)
    <2>1. procs[p].pc = "lookup" /\ HasTimer(procs[p])
      BY <1>1 DEF GetTimerByID, HasTimer
    <2>2. procs[p].timer \in Timers /\ Known(procs[p].timer)
      BY <2>1, ProcessorFields DEF KnownProc
    <2> DEFINE state == [pc |-> "zadd", timer |-> procs[p].timer,
                         at |-> fireTime[procs[p].timer], peeked |-> TRUE, batch |-> {}]
    <2>3. state \in Processor
      BY <2>2 DEF Processor, Scheduling, ScheduleSteps, Known
    <2>4. KnownProc(state)
      BY <2>2 DEF KnownProc, HasBatch, HasTimer, ScheduleSteps
    <2>5. Become(p, state)
      BY <1>1 DEF GetTimerByID
    <2> HIDE DEF state
    <2> QED BY <1>1, <2>3, <2>4, <2>5, MembersAreKnown, ProcessorMoves
            DEF GetTimerByID, rowVars, redisVars
  <1>2. CASE GetTimerByIDFails(p)
    <2>1. incidents' \in Nat
      BY <1>2 DEF GetTimerByIDFails, Incident
    <2> QED BY <1>2, <2>1, HoldsNoTimer, MembersAreKnown, ProcessorMoves
            DEF GetTimerByIDFails, rowVars, redisVars
  <1> QED BY <1>1, <1>2

LEMMA SchedulesKeepsKnown ==
  ASSUME SleepInv, NEW p \in Processors, ProcessorSchedules(p) \/ ProcessorFails(p)
  PROVE  SleepInv'
  <1> USE DEF SleepInv, SleepTypeOK
  <1>1. procs[p].pc \in ScheduleSteps /\ HasTimer(procs[p])
    BY DEF ProcessorSchedules, ProcessorFails, ScheduleSteps, HasTimer
  <1>2. /\ procs[p] \in Scheduling /\ procs[p].timer \in Timers /\ procs[p].at \in Times
        /\ KnownProc(procs[p]) /\ Known(procs[p].timer)
    BY <1>1, ProcessorFields DEF KnownProc
  <1>3. Scheduled(procs[p]) \in Processor /\ KnownProc(Scheduled(procs[p]))
    BY <1>2, KnownScheduled
  <1>4. \A step \in ScheduleSteps : /\ [procs[p] EXCEPT !.pc = step] \in Processor
                                    /\ KnownProc([procs[p] EXCEPT !.pc = step])
    BY <1>2, KnownNextCommand
  <1>5. PICK state \in {Scheduled(procs[p]), [procs[p] EXCEPT !.pc = "check"],
                        [procs[p] EXCEPT !.pc = "publish"]} : Become(p, state)
    BY DEF ProcessorSchedules, ProcessorFails
  <1>6. state \in Processor /\ KnownProc(state)
    BY <1>3, <1>4 DEF ScheduleSteps
  <1>7. /\ score' \in [Timers -> Times \cup {Never}]
        /\ \A t \in Timers : score'[t] # Never => Known(t)
    <2>1. CASE UNCHANGED score
      BY <2>1, MembersAreKnown
    <2>2. CASE ZAdd(procs[p].timer, procs[p].at)
      BY <1>2, <2>2, AddedMember
    <2> QED BY <2>1, <2>2 DEF ProcessorSchedules, ProcessorFails
  <1>8. messages' \in [Processors -> 0 .. MaxMessages]
    BY PublishedType DEF ProcessorSchedules, ProcessorFails
  <1>9. /\ UNCHANGED <<now, fireTime, isFired, freshUntil, schedules, token>>
        /\ incidents' \in Nat
    BY DEF ProcessorSchedules, ProcessorFails, Incident, rowVars
  <1> QED BY <1>5, <1>6, <1>7, <1>8, <1>9, ProcessorMoves

LEMMA SelectKeepsKnown ==
  ASSUME SleepInv, NEW p \in Processors, TimeIsUp(p) \/ WokenUp(p) \/ Crash(p)
  PROVE  SleepInv'
  <1> USE DEF SleepInv, SleepTypeOK
  <1>1. Become(p, [pc |-> "claim"])
    BY DEF TimeIsUp, WokenUp, Crash
  <1>2. token' \in [Processors -> BOOLEAN]
    <2>1. token' = token \/ token' = [token EXCEPT ![p] = FALSE]
      BY DEF TimeIsUp, WokenUp, Crash, redisVars
    <2> QED BY <2>1
  <1>3. messages' \in [Processors -> 0 .. MaxMessages]
    <2>1. messages' = messages \/ messages' = [messages EXCEPT ![p] = 0]
      BY DEF TimeIsUp, WokenUp, Crash, redisVars
    <2> QED BY <2>1, SleepAssumption
  <1>4. /\ schedules' \in [Timers -> Schedule]
        /\ \A t \in Timers : schedules'[t] = schedules[t] \/ schedules'[t] = Idle
    BY DEF TimeIsUp, WokenUp, Crash, Schedule
  <1>5. UNCHANGED <<now, rowVars, score>> /\ incidents' \in Nat
    BY DEF TimeIsUp, WokenUp, Crash, Incident, redisVars
  <1> QED BY <1>1, <1>2, <1>3, <1>4, <1>5, HoldsNoTimer, MembersAreKnown, ProcessorMoves DEF rowVars

LEMMA ScavengerKeepsKnown ==
  ASSUME SleepInv, NEW p \in Processors, ScavengerTick(p) \/ RebuildFromDB(p)
  PROVE  SleepInv'
  <1> USE DEF SleepInv, SleepTypeOK
  <1>1. CASE ScavengerTick(p)
    <2> DEFINE read == [t \in Timers |-> IF t \in isFired THEN Never ELSE fireTime[t]]
               state == [pc |-> "rebuild", rows |-> read]
    <2>1. state \in Processor
      BY DEF Processor, Rebuilding
    <2>2. KnownProc(state)
      BY DEF KnownProc, HasBatch, HasTimer, ScheduleSteps, Known
    <2>3. Become(p, state)
      BY <1>1 DEF ScavengerTick
    <2> HIDE DEF state
    <2> QED BY <1>1, <2>1, <2>2, <2>3, MembersAreKnown, ProcessorMoves
            DEF ScavengerTick, rowVars, redisVars
  <1>2. CASE RebuildFromDB(p)
    <2>1. procs[p].pc = "rebuild" /\ KnownProc(procs[p]) /\ procs[p] \in Processor
      BY <1>2 DEF RebuildFromDB
    <2>2. procs[p].rows \in [Timers -> Times \cup {Never}]
      BY <2>1, ProcessorFields
    <2>3. score' \in [Timers -> Times \cup {Never}]
      BY <1>2, <2>2 DEF RebuildFromDB
    <2>4. \A t \in Timers : score'[t] # Never => Known(t)
      BY <1>2, <2>1, MembersAreKnown DEF RebuildFromDB, KnownProc
    <2> QED BY <1>2, <2>3, <2>4, HoldsNoTimer, ProcessorMoves DEF RebuildFromDB, rowVars
  <1> QED BY <1>1, <1>2

--------------------------------------------------------------------------------
(* The handlers, the messages and the clock *)

\* A step of a handler, which moves no processor.
LEMMA HandlerMoves ==
  ASSUME SleepInv, UNCHANGED <<procs, token, isFired>>,
         now' \in 0 .. MaxTime, incidents' \in Nat,
         fireTime' \in [Timers -> Times \cup {Never}],
         freshUntil' \in [Timers -> Times],
         score' \in [Timers -> Times \cup {Never}],
         schedules' \in [Timers -> Schedule],
         messages' \in [Processors -> 0 .. MaxMessages],
         \A t \in Timers : Known(t) => Known(t)',
         \A t \in Timers : score'[t] # Never \/ schedules'[t] # Idle \/ freshUntil'[t] # 0
                             => Known(t)'
  PROVE  SleepInv'
  <1>1. SleepTypeOK'
    BY DEF SleepInv, SleepTypeOK
  <1>2. KnownTimers'
    BY DEF KnownTimers, Members
  <1>3. ASSUME NEW q \in Processors
        PROVE  KnownProc(procs[q])'
    <2>1. procs[q] \in Processor /\ KnownProc(procs[q]) /\ procs'[q] = procs[q]
      BY DEF SleepInv, SleepTypeOK
    <2>2. /\ HasBatch(procs[q]) => procs[q].batch \in SUBSET Timers
          /\ HasTimer(procs[q]) => procs[q].timer \in Timers
      BY <2>1, ProcessorFields
    <2> QED BY <2>1, <2>2 DEF KnownProc, HasBatch, HasTimer
  <1> QED BY <1>1, <1>2, <1>3 DEF SleepInv

LEMMA ScheduleFields ==
  ASSUME SleepInv, NEW t \in Timers, schedules[t] # Idle
  PROVE  /\ schedules[t].pc \in ScheduleSteps \cup {"update"} /\ schedules[t].at \in Times
         /\ \A step \in ScheduleSteps :
              /\ [schedules[t] EXCEPT !.pc = step] \in Schedule \ {Idle}
              /\ [schedules[t] EXCEPT !.pc = step].pc = step
              /\ [schedules[t] EXCEPT !.pc = step].at = schedules[t].at
         /\ Known(t)
  <1>1. schedules[t] \in [pc : ScheduleSteps \cup {"update"}, at : Times]
    BY DEF SleepInv, SleepTypeOK, Schedule
  <1>2. Known(t)
    BY DEF SleepInv, KnownTimers
  <1>3. ASSUME NEW step \in ScheduleSteps
        PROVE  /\ [schedules[t] EXCEPT !.pc = step] \in Schedule \ {Idle}
               /\ [schedules[t] EXCEPT !.pc = step].pc = step
               /\ [schedules[t] EXCEPT !.pc = step].at = schedules[t].at
    <2>1. [schedules[t] EXCEPT !.pc = step].pc = step
      BY <1>1
    <2>2. [schedules[t] EXCEPT !.pc = step] # Idle
      BY <2>1 DEF Idle, ScheduleSteps
    <2> QED BY <1>1, <2>1, <2>2 DEF Schedule
  <1> QED BY <1>1, <1>2, <1>3

\* What a pc other than that of Idle tells of a schedule.
LEMMA NotIdle ==
  ASSUME NEW s, s.pc # "idle"
  PROVE  s # Idle
  BY DEF Idle

LEMMA CreateKeepsKnown ==
  ASSUME SleepInv, NEW t \in Timers, NEW f \in Times, CreateTimer(t, f)
  PROVE  SleepInv'
  <1> USE DEF SleepInv, SleepTypeOK
  <1>1. fireTime' = [fireTime EXCEPT ![t] = f] /\ f # Never
    BY TimesAreNaturals DEF CreateTimer
  <1>2. [pc |-> "zadd", at |-> f] \in Schedule
    BY DEF Schedule, ScheduleSteps
  <1>3. schedules' \in [Timers -> Schedule]
    BY <1>2 DEF CreateTimer
  <1>4. \A u \in Timers : u # t => schedules'[u] = schedules[u]
    BY DEF CreateTimer
  <1>5. \A u \in Timers : Known(u) => Known(u)'
    BY <1>1 DEF Known
  <1>6. \A u \in Timers : score'[u] # Never \/ schedules'[u] # Idle \/ freshUntil'[u] # 0
                            => Known(u)'
    BY <1>1, <1>4, <1>5 DEF CreateTimer, redisVars, KnownTimers, Members, Known
  <1> QED BY <1>1, <1>3, <1>5, <1>6, HandlerMoves DEF CreateTimer, redisVars

LEMMA HeartbeatKeepsKnown ==
  ASSUME SleepInv, NEW t \in Timers, ActivityStarted(t) \/ Heartbeat(t)
  PROVE  SleepInv'
  <1> USE DEF SleepInv, SleepTypeOK
  <1>1. Known(t) /\ now + Window \in Times
    BY SleepAssumption DEF ActivityStarted, Heartbeat, Known, Times
  <1>2. [pc |-> "update", at |-> now + Window] \in Schedule /\ Idle \in Schedule
    BY <1>1 DEF Schedule
  <1>3. /\ schedules' \in [Timers -> Schedule]
        /\ \A u \in Timers : u # t => schedules'[u] = schedules[u]
    <2>1. schedules' = schedules \/
          \E s \in Schedule : schedules' = [schedules EXCEPT ![t] = s]
      BY <1>2 DEF ActivityStarted, Heartbeat
    <2> QED BY <2>1
  <1>4. freshUntil' = [freshUntil EXCEPT ![t] = now + Window]
    BY DEF ActivityStarted, Heartbeat
  <1>5. UNCHANGED <<now, fireTime, isFired, redisVars, procs, incidents>>
    BY DEF ActivityStarted, Heartbeat
  <1>6. \A u \in Timers : score'[u] # Never \/ schedules'[u] # Idle \/ freshUntil'[u] # 0
                            => Known(u)'
    BY <1>1, <1>3, <1>4, <1>5 DEF redisVars, KnownTimers, Members, Known
  <1> QED BY <1>1, <1>3, <1>4, <1>5, <1>6, HandlerMoves DEF redisVars, Known

LEMMA UpdateKeepsKnown ==
  ASSUME SleepInv, NEW t \in Timers, UpdateTimerFireTime(t)
  PROVE  SleepInv'
  <1> USE DEF SleepInv, SleepTypeOK
  <1>1. schedules[t] # Idle
    BY NotIdle DEF UpdateTimerFireTime
  <1>2. /\ schedules[t].at \in Times /\ Known(t)
        /\ [schedules[t] EXCEPT !.pc = "zadd"] \in Schedule
    BY <1>1, ScheduleFields DEF ScheduleSteps
  <1>3. fireTime' = [fireTime EXCEPT ![t] = schedules[t].at]
    BY DEF UpdateTimerFireTime
  <1>4. schedules' = [schedules EXCEPT ![t] = [schedules[t] EXCEPT !.pc = "zadd"]]
    BY DEF UpdateTimerFireTime
  <1>5. \A u \in Timers : Known(u) => Known(u)'
    BY <1>2, <1>3, TimesAreNaturals DEF Known
  <1>6. \A u \in Timers : score'[u] # Never \/ schedules'[u] # Idle \/ freshUntil'[u] # 0
                            => Known(u)'
    BY <1>2, <1>4, <1>5 DEF UpdateTimerFireTime, redisVars, KnownTimers, Members
  <1> QED BY <1>2, <1>3, <1>4, <1>5, <1>6, HandlerMoves DEF UpdateTimerFireTime, redisVars

LEMMA HandlerKeepsKnown ==
  ASSUME SleepInv, NEW t \in Timers, HandlerSchedules(t) \/ HandlerFails(t)
  PROVE  SleepInv'
  <1> USE DEF SleepInv, SleepTypeOK
  <1>1. schedules[t] # Idle
    BY NotIdle DEF HandlerSchedules, HandlerFails, ScheduleSteps
  <1>2. schedules[t].at \in Times /\ Known(t)
    BY <1>1, ScheduleFields
  <1>3. \E s \in Schedule : schedules' = [schedules EXCEPT ![t] = s]
    <2>1. \A step \in ScheduleSteps : [schedules[t] EXCEPT !.pc = step] \in Schedule
      BY <1>1, ScheduleFields
    <2>2. Idle \in Schedule
      BY DEF Schedule
    <2>3. \/ schedules' = [schedules EXCEPT ![t] = [schedules[t] EXCEPT !.pc = "check"]]
          \/ schedules' = [schedules EXCEPT ![t] = [schedules[t] EXCEPT !.pc = "publish"]]
          \/ schedules' = [schedules EXCEPT ![t] = Idle]
      BY DEF HandlerSchedules, HandlerFails
    <2> QED BY <2>1, <2>2, <2>3 DEF ScheduleSteps
  <1>4. /\ schedules' \in [Timers -> Schedule]
        /\ \A u \in Timers : u # t => schedules'[u] = schedules[u]
    BY <1>3
  <1>5. /\ score' \in [Timers -> Times \cup {Never}]
        /\ \A u \in Timers : score'[u] # Never => Known(u)
    <2>1. CASE UNCHANGED score
      BY <2>1, MembersAreKnown
    <2>2. CASE ZAdd(t, schedules[t].at)
      BY <1>2, <2>2, AddedMember
    <2> QED BY <2>1, <2>2 DEF HandlerSchedules, HandlerFails
  <1>6. messages' \in [Processors -> 0 .. MaxMessages]
    BY PublishedType DEF HandlerSchedules, HandlerFails
  <1>7. UNCHANGED <<now, rowVars, token, procs>> /\ incidents' \in Nat
    BY DEF HandlerSchedules, HandlerFails, Incident
  <1>8. \A u \in Timers : score'[u] # Never \/ schedules'[u] # Idle \/ freshUntil'[u] # 0
                            => Known(u)'
    BY <1>2, <1>4, <1>5, <1>7 DEF rowVars, KnownTimers, Known
  <1> QED BY <1>4, <1>5, <1>6, <1>7, <1>8, HandlerMoves DEF rowVars, Known

LEMMA OthersKeepKnown ==
  ASSUME SleepInv,
         \/ \E p \in Processors : Deliver(p) \/ MessageLost(p)
         \/ RedisRestart \/ ClockAdvances \/ UNCHANGED sleepVars
  PROVE  SleepInv'
  <1> USE DEF SleepInv, SleepTypeOK
  <1>1. CASE \E p \in Processors : Deliver(p) \/ MessageLost(p)
    <2>1. PICK p \in Processors : Deliver(p) \/ MessageLost(p)
      BY <1>1
    <2>2. messages' = [messages EXCEPT ![p] = messages[p] - 1] /\ messages[p] > 0
      BY <2>1 DEF Deliver, MessageLost
    <2>3. messages' \in [Processors -> 0 .. MaxMessages]
      BY <2>2, SleepAssumption
    <2>4. token' = token \/ token' = [token EXCEPT ![p] = TRUE]
      BY <2>1 DEF Deliver, MessageLost
    <2>5. token' \in [Processors -> BOOLEAN]
      BY <2>4
    <2>6. UNCHANGED <<now, rowVars, score, schedules, procs>> /\ incidents' \in Nat
      BY <2>1 DEF Deliver, MessageLost, Incident
    <2>7. SleepTypeOK'
      BY <2>3, <2>5, <2>6 DEF rowVars
    <2>8. KnownTimers'
      BY <2>6 DEF rowVars, KnownTimers, Members, Known
    <2>9. \A q \in Processors : KnownProc(procs[q])'
      BY <2>6 DEF rowVars, KnownProc, Known
    <2> QED BY <2>7, <2>8, <2>9
  <1>2. CASE RedisRestart
    <2>1. incidents' \in Nat
      BY <1>2 DEF RedisRestart, Incident
    <2>2. /\ score' \in [Timers -> Times \cup {Never}]
          /\ \A t \in Timers : score'[t] # Never => Known(t)
      BY <1>2, RemovedMembers DEF RedisRestart
    <2>3. \A u \in Timers : score'[u] # Never \/ schedules'[u] # Idle \/ freshUntil'[u] # 0
                              => Known(u)'
      BY <1>2, <2>2 DEF RedisRestart, rowVars, KnownTimers, Known
    <2> QED BY <1>2, <2>1, <2>2, <2>3, HandlerMoves DEF RedisRestart, rowVars, Known
  <1>3. CASE ClockAdvances
    <2>1. now' \in 0 .. MaxTime
      BY <1>3, SleepAssumption DEF ClockAdvances
    <2>2. \A u \in Timers : score'[u] # Never \/ schedules'[u] # Idle \/ freshUntil'[u] # 0
                              => Known(u)'
      BY <1>3 DEF ClockAdvances, rowVars, redisVars, KnownTimers, Members, Known
    <2> QED BY <1>3, <2>1, <2>2, HandlerMoves DEF ClockAdvances, rowVars, redisVars, Known
  <1>4. CASE UNCHANGED sleepVars
    <2>1. \A u \in Timers : score'[u] # Never \/ schedules'[u] # Idle \/ freshUntil'[u] # 0
                              => Known(u)'
      BY <1>4 DEF sleepVars, rowVars, redisVars, KnownTimers, Members, Known
    <2> QED BY <1>4, <2>1, HandlerMoves DEF sleepVars, rowVars, redisVars, Known
  <1> QED BY <1>1, <1>2, <1>3, <1>4

LEMMA SleepInvStep ==
  ASSUME SleepInv, [SleepNext]_sleepVars
  PROVE  SleepInv'
  <1>1. ASSUME NEW t \in Timers, Handle(t) PROVE SleepInv'
    BY <1>1, CreateKeepsKnown, HeartbeatKeepsKnown, UpdateKeepsKnown, HandlerKeepsKnown
       DEF Handle
  <1>2. ASSUME NEW p \in Processors, Awake(p) PROVE SleepInv'
    BY <1>2, ClaimKeepsKnown, DispatchKeepsKnown, LookupKeepsKnown, SchedulesKeepsKnown,
       ScavengerKeepsKnown DEF Awake
  <1>3. ASSUME NEW p \in Processors,
               \/ TimeIsUp(p) \/ WokenUp(p) \/ ScavengerTick(p) \/ Deliver(p)
               \/ ClaimFails(p) \/ GetTimerByIDFails(p) \/ ProcessorFails(p)
               \/ MessageLost(p) \/ Crash(p)
        PROVE  SleepInv'
    BY <1>3, ClaimKeepsKnown, LookupKeepsKnown, SchedulesKeepsKnown, SelectKeepsKnown,
       ScavengerKeepsKnown, OthersKeepKnown
  <1> QED BY <1>1, <1>2, <1>3, OthersKeepKnown DEF SleepNext

\* Every read of a timer by a processor finds its row, and every variable keeps its type,
\* with any number of timers and processors and with every fault.
THEOREM SleepTypes == SleepSpec => []SleepTypeOK
  <1>1. SleepInv /\ [SleepNext]_sleepVars => SleepInv'
    BY SleepInvStep
  <1>2. SleepInv => SleepTypeOK
    BY DEF SleepInv
  <1> QED BY SleepInitInv, <1>1, <1>2, PTL DEF SleepSpec

--------------------------------------------------------------------------------
(* No unfired timer is dropped *)

\* Where the timer is: NoTimerLost says that an unfired one is somewhere.
Somewhere(t) ==
  t \in Members \/ schedules[t].pc = "zadd" \/ \E p \in Processors : Holds(p, t)

LEMMA NoTimerLostIs ==
  NoTimerLost <=> \A t \in Timers : Known(t) /\ t \notin isFired => Somewhere(t)
  BY DEF NoTimerLost, Known, Somewhere

\* Only the processor that moves may let go of a timer, and it must not.
LEMMA ProcessorKeeps ==
  ASSUME SleepInv, NoTimerLost, NEW p \in Processors, NEW state, Become(p, state),
         UNCHANGED <<fireTime, schedules>>, isFired \subseteq isFired',
         \A t \in Timers : t \in Members \/ Holds(p, t) =>
           t \in Members' \/ Holds(p, t)' \/ t \in isFired'
  PROVE  NoTimerLost'
  <1>1. \A q \in Processors : q # p => procs'[q] = procs[q]
    BY DEF SleepInv, SleepTypeOK, Become
  <1>2. ASSUME NEW t \in Timers, Known(t)', t \notin isFired'
        PROVE  Somewhere(t)'
    <2>1. Somewhere(t)
      BY <1>2, NoTimerLostIs DEF Known
    <2>2. CASE t \in Members \/ Holds(p, t)
      BY <1>2, <2>2 DEF Somewhere
    <2>3. CASE schedules[t].pc = "zadd"
      BY <2>3 DEF Somewhere
    <2>4. CASE \E q \in Processors : q # p /\ Holds(q, t)
      BY <1>1, <2>4 DEF Somewhere, Holds
    <2> QED BY <2>1, <2>2, <2>3, <2>4 DEF Somewhere
  <1>3. \A t \in Timers : Known(t)' /\ t \notin isFired' => Somewhere(t)'
    BY <1>2
  <1> QED BY <1>3 DEF NoTimerLost, Known, Somewhere

LEMMA BecomeIs ==
  ASSUME SleepInv, NEW p \in Processors, NEW state, Become(p, state)
  PROVE  procs'[p] = state
  BY DEF SleepInv, SleepTypeOK, Become

LEMMA ClaimKeepsTimers ==
  ASSUME SleepInv, NoTimerLost, NEW p \in Processors, ClaimExpired(p)
  PROVE  NoTimerLost'
  <1>1. PICK S \in Claimable : ZRem(S) /\ Become(p, Continue(S))
    BY DEF ClaimExpired
  <1>2. procs'[p] = Continue(S) /\ S \in SUBSET Timers
    BY <1>1, BecomeIs, ClaimablesAreTimers
  <1>3. \A t \in Timers : ~Holds(p, t)
    BY DEF ClaimExpired, Holds, ScheduleSteps
  <1>4. \A t \in S : Holds(p, t)'
    BY <1>2, ContinueIs DEF Holds
  <1>5. \A t \in Members : t \notin S => t \in Members'
    BY <1>1 DEF Members, ZRem
  <1> QED BY <1>1, <1>3, <1>4, <1>5, ProcessorKeeps DEF ClaimExpired, rowVars

LEMMA DispatchKeepsTimers ==
  ASSUME SleepInv, NoTimerLost, NEW p \in Processors, NEW t \in procs[p].batch, Dispatch(p, t)
  PROVE  NoTimerLost'
  <1> DEFINE rest == procs[p].batch \ {t}
             busy == [pc |-> "zadd", timer |-> t, at |-> freshUntil[t], peeked |-> FALSE,
                      batch |-> rest]
  <1>1. procs[p].batch \in SUBSET Timers
    BY ProcessorFields DEF Dispatch, HasBatch, SleepInv, SleepTypeOK
  <1>2. PICK state \in {busy, Continue(rest)} : Become(p, state)
    BY DEF Dispatch
  <1>3. \A u \in rest : Holds(p, u)'
    <2>1. procs'[p] = state
      BY <1>2, BecomeIs
    <2>2. CASE state = busy
      BY <2>1, <2>2 DEF Holds, ScheduleSteps
    <2>3. CASE state = Continue(rest)
      <3>1. \A u \in rest : state.pc = "dispatch" /\ state.batch = rest
        BY <1>1, <2>3, ContinueIs
      <3> QED BY <2>1, <3>1 DEF Holds
    <2> QED BY <2>2, <2>3
  <1>4. \A u \in Timers : Holds(p, u) => u \in procs[p].batch
    BY DEF Dispatch, Holds, ScheduleSteps
  <1>5. \A u \in Timers : Holds(p, u) => u \in rest \/ u \in isFired'
    BY <1>4 DEF Dispatch
  <1>6. Members' = Members
    BY DEF Dispatch, Members, redisVars
  <1>7. UNCHANGED <<fireTime, schedules>> /\ isFired \subseteq isFired'
    BY DEF Dispatch
  <1> HIDE DEF rest, busy
  <1> QED BY <1>2, <1>3, <1>5, <1>6, <1>7, ProcessorKeeps

LEMMA LookupKeepsTimers ==
  ASSUME SleepInv, NoTimerLost, NEW p \in Processors, PeekNext(p) \/ GetTimerByID(p)
  PROVE  NoTimerLost'
  <1>1. CASE PeekNext(p)
    <2>1. \A t \in Timers : ~Holds(p, t)
      BY <1>1 DEF PeekNext, Holds, ScheduleSteps
    <2>2. CASE \E t \in Members : ZRem({t}) /\ Become(p, [pc |-> "lookup", timer |-> t])
      <3>1. PICK t \in Members : ZRem({t}) /\ Become(p, [pc |-> "lookup", timer |-> t])
        BY <2>2
      <3>2. procs'[p] = [pc |-> "lookup", timer |-> t]
        BY <3>1, BecomeIs
      <3>3. Holds(p, t)'
        BY <3>2 DEF Holds
      <3>4. \A u \in Members : u = t \/ u \in Members'
        BY <3>1 DEF Members, ZRem
      <3> HIDE DEF Holds
      <3> QED BY <1>1, <2>1, <3>1, <3>3, <3>4, ProcessorKeeps DEF PeekNext, rowVars
    <2>3. CASE UNCHANGED score /\ Become(p, [pc |-> "sleep", until |-> Never])
      BY <1>1, <2>1, <2>3, ProcessorKeeps DEF PeekNext, rowVars, Members
    <2> QED BY <1>1, <2>2, <2>3 DEF PeekNext
  <1>2. CASE GetTimerByID(p)
    <2>1. PICK state :
            /\ Become(p, state) /\ state.pc = "zadd" /\ state.timer = procs[p].timer
      BY <1>2 DEF GetTimerByID
    <2>2. \A t \in Timers : Holds(p, t) => t = procs[p].timer
      BY <1>2 DEF GetTimerByID, Holds, ScheduleSteps
    <2>3. \A t \in Timers : Holds(p, t) => Holds(p, t)'
      <3> SUFFICES ASSUME NEW t \in Timers, Holds(p, t) PROVE Holds(p, t)'
        OBVIOUS
      <3>1. procs'[p].pc = "zadd" /\ procs'[p].timer = t
        BY <2>1, <2>2, BecomeIs
      <3> QED BY <3>1 DEF Holds
    <2>4. Members' = Members
      BY <1>2 DEF GetTimerByID, redisVars, Members
    <2> QED BY <1>2, <2>1, <2>3, <2>4, ProcessorKeeps DEF GetTimerByID, rowVars
  <1> QED BY <1>1, <1>2

LEMMA SchedulesKeepsTimers ==
  ASSUME SleepInv, NoTimerLost, NEW p \in Processors, ProcessorSchedules(p)
  PROVE  NoTimerLost'
  <1> DEFINE s == procs[p]
  <1>1. s.pc \in ScheduleSteps /\ HasTimer(s) /\ HasBatch(s)
    BY DEF ProcessorSchedules, ScheduleSteps, HasTimer, HasBatch
  <1>2. /\ s \in Scheduling /\ s.timer \in Timers /\ s.batch \in SUBSET Timers
        /\ s.at \in Times /\ s.peeked \in BOOLEAN
        /\ s.peeked => s.batch = {}
    BY <1>1, ProcessorFields DEF SleepInv, SleepTypeOK, KnownProc
  <1>3. \A t \in Timers : Holds(p, t) => t \in s.batch \/ (s.pc = "zadd" /\ t = s.timer)
    BY <1>1 DEF Holds, ScheduleSteps
  <1>4. PICK state \in {Scheduled(s), [s EXCEPT !.pc = "check"], [s EXCEPT !.pc = "publish"]} :
          Become(p, state)
    BY DEF ProcessorSchedules
  <1>5. /\ state.pc \in ScheduleSteps => state.batch = s.batch
        /\ s.batch # {} => \/ state.pc = "dispatch" /\ state.batch = s.batch
                           \/ state.pc \in ScheduleSteps
    <2>1. CASE state = Scheduled(s)
      BY <1>2, <2>1, ScheduledIs DEF ScheduleSteps
    <2>2. CASE state = [s EXCEPT !.pc = "check"]
      BY <1>2, <2>2, NextCommand DEF ScheduleSteps
    <2>3. CASE state = [s EXCEPT !.pc = "publish"]
      BY <1>2, <2>3, NextCommand DEF ScheduleSteps
    <2> QED BY <2>1, <2>2, <2>3
  <1>6. procs'[p] = state
    BY <1>4, BecomeIs
  <1>7. ASSUME NEW t \in s.batch PROVE Holds(p, t)'
    BY <1>5, <1>6 DEF Holds
  <1>8. \A t \in Members : t \in Members'
    <2>1. CASE UNCHANGED score
      BY <2>1 DEF Members
    <2>2. CASE ZAdd(s.timer, s.at)
      BY <1>2, <2>2, TimesAreNaturals DEF Members, ZAdd, SleepInv, SleepTypeOK
    <2> QED BY <2>1, <2>2 DEF ProcessorSchedules
  <1>9. s.pc = "zadd" => s.timer \in Members'
    BY <1>2, TimesAreNaturals DEF ProcessorSchedules, Members, ZAdd, SleepInv, SleepTypeOK
  <1> HIDE DEF s
  <1>10. \A t \in Timers : t \in Members \/ Holds(p, t) => t \in Members' \/ Holds(p, t)'
    BY <1>3, <1>7, <1>8, <1>9
  <1> QED BY <1>4, <1>10, ProcessorKeeps DEF ProcessorSchedules, rowVars

LEMMA SelectKeepsTimers ==
  ASSUME SleepInv, NoTimerLost, NEW p \in Processors,
         TimeIsUp(p) \/ WokenUp(p) \/ ScavengerTick(p) \/ RebuildFromDB(p)
  PROVE  NoTimerLost'
  <1>1. \A t \in Timers : ~Holds(p, t)
    BY DEF TimeIsUp, WokenUp, ScavengerTick, RebuildFromDB, Holds, ScheduleSteps
  <1>2. \A t \in Members : t \in Members'
    BY DEF TimeIsUp, WokenUp, ScavengerTick, RebuildFromDB, redisVars, Members
  <1>3. \E state : Become(p, state)
    BY DEF TimeIsUp, WokenUp, ScavengerTick, RebuildFromDB
  <1>4. UNCHANGED <<fireTime, isFired, schedules>>
    BY DEF TimeIsUp, WokenUp, ScavengerTick, RebuildFromDB, rowVars
  <1> QED BY <1>1, <1>2, <1>3, <1>4, ProcessorKeeps

\* A handler may touch the schedule of its own timer only, and moves no processor.
LEMMA HandlerKeeps ==
  ASSUME SleepInv, NoTimerLost, NEW t \in Timers, UNCHANGED <<procs, isFired>>,
         \A u \in Timers \ {t} : /\ fireTime'[u] = fireTime[u] /\ score'[u] = score[u]
                                 /\ schedules'[u] = schedules[u],
         \/ schedules'[t].pc = "zadd" \/ t \in Members'
         \/ fireTime'[t] = fireTime[t] /\ schedules[t].pc # "zadd" /\ score' = score
  PROVE  NoTimerLost'
  <1>1. ASSUME NEW u \in Timers, Known(u)', u \notin isFired'
        PROVE  Somewhere(u)'
    <2>1. CASE schedules'[u].pc = "zadd" \/ u \in Members'
      BY <2>1 DEF Somewhere
    <2>2. CASE fireTime'[u] = fireTime[u] /\ score'[u] = score[u]
                /\ (schedules[u].pc = "zadd" => schedules'[u].pc = "zadd")
      <3>1. Somewhere(u)
        BY <1>1, <2>2, NoTimerLostIs DEF Known
      <3> QED BY <2>2, <3>1 DEF Somewhere, Members, Holds
    <2> QED BY <2>1, <2>2
  <1>2. \A u \in Timers : Known(u)' /\ u \notin isFired' => Somewhere(u)'
    BY <1>1
  <1> QED BY <1>2 DEF NoTimerLost, Known, Somewhere

LEMMA HandleKeepsTimers ==
  ASSUME SleepInv, NoTimerLost, Faults = {}, NEW t \in Timers, Handle(t)
  PROVE  NoTimerLost'
  <1> USE DEF SleepInv, SleepTypeOK
  <1>1. CASE \E f \in Times : CreateTimer(t, f)
    BY <1>1, HandlerKeeps DEF CreateTimer, redisVars
  <1>2. CASE ActivityStarted(t)
    BY <1>2 DEF ActivityStarted, redisVars, NoTimerLost, Members, Holds
  <1>3. CASE Heartbeat(t)
    <2>1. schedules[t].pc # "zadd"
      BY <1>3 DEF Heartbeat, Idle
    <2> QED BY <1>3, <2>1, HandlerKeeps DEF Heartbeat, redisVars
  <1>4. CASE UpdateTimerFireTime(t)
    <2>1. schedules[t] # Idle
      BY <1>4, NotIdle DEF UpdateTimerFireTime
    <2>2. schedules'[t].pc = "zadd"
      BY <1>4, <2>1, ScheduleFields DEF UpdateTimerFireTime, ScheduleSteps
    <2> QED BY <1>4, <2>2, HandlerKeeps DEF UpdateTimerFireTime, redisVars
  <1>5. CASE HandlerSchedules(t)
    <2>1. schedules[t] # Idle
      BY <1>5, NotIdle DEF HandlerSchedules
    <2>2. schedules[t].at \in Times
      BY <2>1, ScheduleFields
    <2>3. \A u \in Timers \ {t} : score'[u] = score[u] /\ schedules'[u] = schedules[u]
      BY <1>5 DEF HandlerSchedules, ZAdd
    <2>4. schedules[t].pc = "zadd" => t \in Members'
      BY <1>5, <2>2, TimesAreNaturals DEF HandlerSchedules, ZAdd, Members
    <2>5. schedules[t].pc # "zadd" => UNCHANGED score
      BY <1>5 DEF HandlerSchedules
    <2> QED BY <1>5, <2>3, <2>4, <2>5, HandlerKeeps DEF HandlerSchedules, rowVars
  <1>6. ~HandlerFails(t)
    BY DEF HandlerFails, Incident
  <1> QED BY <1>1, <1>2, <1>3, <1>4, <1>5, <1>6 DEF Handle

LEMMA NoFault ==
  ASSUME Faults = {}, SleepNext
  PROVE  \/ \E t \in Timers : Handle(t)
         \/ \E p \in Processors :
              Awake(p) \/ TimeIsUp(p) \/ WokenUp(p) \/ ScavengerTick(p) \/ Deliver(p)
         \/ ClockAdvances
  BY DEF SleepNext, ClaimFails, GetTimerByIDFails, ProcessorFails, MessageLost, Crash,
         RedisRestart, Incident

\* Without faults a timer that has not fired is never dropped, however many processors
\* claim, peek, put back and rebuild at once, and whatever heartbeats reschedule.
THEOREM NoTimerIsLost ==
  ASSUME Faults = {}
  PROVE  SleepSpec => []NoTimerLost
  <1>1. SleepInit => NoTimerLost
    BY DEF SleepInit, NoTimerLost
  <1>2. SleepInv /\ NoTimerLost /\ [SleepNext]_sleepVars => NoTimerLost'
    <2> SUFFICES ASSUME SleepInv, NoTimerLost, [SleepNext]_sleepVars PROVE NoTimerLost'
      OBVIOUS
    <2>1. ASSUME NEW p \in Processors, Awake(p) PROVE NoTimerLost'
      BY <2>1, ClaimKeepsTimers, DispatchKeepsTimers, LookupKeepsTimers, SchedulesKeepsTimers,
         SelectKeepsTimers DEF Awake
    <2>2. ASSUME NEW p \in Processors, TimeIsUp(p) \/ WokenUp(p) \/ ScavengerTick(p)
          PROVE  NoTimerLost'
      BY <2>2, SelectKeepsTimers
    <2>3. CASE (\E p \in Processors : Deliver(p)) \/ ClockAdvances \/ UNCHANGED sleepVars
      <3>1. UNCHANGED <<rowVars, score, schedules, procs>>
        BY <2>3 DEF Deliver, ClockAdvances, sleepVars, redisVars
      <3> QED BY <3>1 DEF rowVars, NoTimerLost, Members, Holds
    <2> QED BY <2>1, <2>2, <2>3, HandleKeepsTimers, NoFault
  <1>3. SleepInv /\ [SleepNext]_sleepVars => SleepInv'
    BY SleepInvStep
  <1> QED BY SleepInitInv, <1>1, <1>2, <1>3, PTL DEF SleepSpec

--------------------------------------------------------------------------------
(* Times: nothing is due before it is looked at *)

TimelyProc(s) ==
  /\ HasBatch(s) => \A t \in s.batch : fireTime[t] <= now
  /\ s.pc \in ScheduleSteps => fireTime[s.timer] <= s.at
  /\ s.pc \in ScheduleSteps => (s.peeked => s.at = fireTime[s.timer])
  /\ s.pc = "rebuild" => \A t \in Timers : s.rows[t] # Never => s.rows[t] = fireTime[t]

\* While fire times are not moved, a score is never earlier than the fire time.
TimeInv ==
  /\ \A t \in Members : fireTime[t] <= score[t]
  /\ \A t \in Timers : schedules[t] # Idle =>
       schedules[t].pc \in ScheduleSteps /\ schedules[t].at = fireTime[t]
  /\ \A p \in Processors : TimelyProc(procs[p])

LEMMA SleepNumbers ==
  ASSUME SleepInv
  PROVE  /\ now \in Nat
         /\ \A t \in Timers : fireTime[t] \in Nat /\ score[t] \in Nat /\ freshUntil[t] \in Nat
  <1>1. now \in Nat
    BY SleepAssumption DEF SleepInv, SleepTypeOK
  <1>2. Times \cup {Never} \subseteq Nat
    BY TimesAreNaturals
  <1>3. /\ fireTime \in [Timers -> Times \cup {Never}]
        /\ score \in [Timers -> Times \cup {Never}]
        /\ freshUntil \in [Timers -> Times]
    BY DEF SleepInv, SleepTypeOK
  <1> QED BY <1>1, <1>2, <1>3

LEMMA TimelyMoves ==
  ASSUME SleepInv, TimeInv, NEW p \in Processors, NEW state, Become(p, state),
         TimelyProc(state), UNCHANGED <<now, fireTime, schedules>>,
         \A t \in Timers : \/ score'[t] = score[t] \/ score'[t] = Never
                           \/ fireTime[t] <= score'[t]
  PROVE  TimeInv'
  <1>1. \A t \in Members' : fireTime'[t] <= score'[t]
    BY DEF TimeInv, Members
  <1>2. ASSUME NEW q \in Processors PROVE TimelyProc(procs[q])'
    <2>1. procs'[q] = IF q = p THEN state ELSE procs[q]
      BY DEF SleepInv, SleepTypeOK, Become
    <2>2. TimelyProc(procs'[q])
      BY <2>1 DEF TimeInv
    <2> QED BY <2>2 DEF TimelyProc
  <1>3. \A t \in Timers : (schedules[t] # Idle)' =>
          (schedules[t].pc \in ScheduleSteps /\ schedules[t].at = fireTime[t])'
    BY DEF TimeInv
  <1> QED BY <1>1, <1>2, <1>3 DEF TimeInv

LEMMA TimelyStates ==
  /\ \A s \in {"claim", "peek"} : TimelyProc([pc |-> s])
  /\ \A u \in Times \cup {Never} : TimelyProc([pc |-> "sleep", until |-> u])
  /\ \A t \in Timers : TimelyProc([pc |-> "lookup", timer |-> t])
  BY DEF TimelyProc, HasBatch, ScheduleSteps

LEMMA TimelyContinues ==
  ASSUME NEW batch \in SUBSET Timers, \A t \in batch : fireTime[t] <= now
  PROVE  TimelyProc(Continue(batch))
  BY ContinueIs DEF TimelyProc, HasBatch, ScheduleSteps

LEMMA TimelyProcessor ==
  ASSUME SleepInv, TimeInv, NEW p \in Processors, Awake(p)
  PROVE  TimeInv'
  <1> USE DEF SleepInv, SleepTypeOK
  <1>1. CASE ClaimExpired(p)
    <2>1. PICK S \in Claimable : ZRem(S) /\ Become(p, Continue(S))
      BY <1>1 DEF ClaimExpired
    <2>2. S \in SUBSET Timers /\ \A t \in S : fireTime[t] <= now
      <3>1. S \in SUBSET Timers /\ \A t \in S : fireTime[t] <= score[t] /\ score[t] <= now
        BY ClaimablesAreTimers DEF TimeInv
      <3> QED BY <3>1, SleepNumbers
    <2>3. TimelyProc(Continue(S))
      BY <2>2, TimelyContinues
    <2> QED BY <1>1, <2>1, <2>3, TimelyMoves DEF ClaimExpired, rowVars, ZRem
  <1>2. ASSUME NEW t \in procs[p].batch, Dispatch(p, t)
        PROVE  TimeInv'
    <2> DEFINE rest == procs[p].batch \ {t}
               busy == [pc |-> "zadd", timer |-> t, at |-> freshUntil[t], peeked |-> FALSE,
                        batch |-> rest]
    <2>1. /\ procs[p].batch \in SUBSET Timers
          /\ \A u \in procs[p].batch : fireTime[u] <= now
      BY <1>2, ProcessorFields DEF Dispatch, HasBatch, TimeInv, TimelyProc
    <2>2. TimelyProc(Continue(rest))
      BY <2>1, TimelyContinues
    <2>3. freshUntil[t] > now => TimelyProc(busy)
      BY <2>1, SleepNumbers DEF TimelyProc, HasBatch, ScheduleSteps
    <2>4. Become(p, IF freshUntil[t] > now THEN busy ELSE Continue(rest))
      BY <1>2 DEF Dispatch
    <2>5. UNCHANGED <<now, fireTime, schedules, score>>
      BY <1>2 DEF Dispatch, redisVars
    <2> HIDE DEF busy, rest
    <2> QED BY <2>2, <2>3, <2>4, <2>5, TimelyMoves
  <1>3. CASE PeekNext(p)
    <2>1. PICK state : Become(p, state) /\ TimelyProc(state)
      BY <1>3, TimelyStates DEF PeekNext, Members
    <2> QED BY <1>3, <2>1, TimelyMoves DEF PeekNext, rowVars, ZRem
  <1>4. CASE GetTimerByID(p)
    <2> DEFINE state == [pc |-> "zadd", timer |-> procs[p].timer,
                         at |-> fireTime[procs[p].timer], peeked |-> TRUE, batch |-> {}]
    <2>1. procs[p].timer \in Timers
      BY <1>4, ProcessorFields DEF GetTimerByID, HasTimer
    <2>2. TimelyProc(state)
      BY <2>1, SleepNumbers DEF TimelyProc, HasBatch, ScheduleSteps
    <2>3. Become(p, state) /\ UNCHANGED <<now, fireTime, schedules, score>>
      BY <1>4 DEF GetTimerByID, rowVars, redisVars
    <2> HIDE DEF state
    <2> QED BY <2>2, <2>3, TimelyMoves
  <1>5. CASE ProcessorSchedules(p)
    <2>1. procs[p].pc \in ScheduleSteps /\ HasBatch(procs[p]) /\ HasTimer(procs[p])
      BY <1>5 DEF ProcessorSchedules, ScheduleSteps, HasBatch, HasTimer
    <2>2. /\ procs[p] \in Scheduling /\ procs[p].timer \in Timers
          /\ procs[p].at \in Times /\ procs[p].peeked \in BOOLEAN
          /\ procs[p].batch \in SUBSET Timers
      BY <2>1, ProcessorFields
    <2>3. /\ fireTime[procs[p].timer] <= procs[p].at
          /\ procs[p].peeked => procs[p].at = fireTime[procs[p].timer]
          /\ \A t \in procs[p].batch : fireTime[t] <= now
      BY <2>1 DEF TimeInv, TimelyProc
    <2>4. TimelyProc(Scheduled(procs[p]))
      <3>1. CASE procs[p].peeked
        BY <2>2, <3>1, ScheduledIs DEF TimelyProc, HasBatch, ScheduleSteps
      <3>2. CASE ~procs[p].peeked
        BY <2>2, <2>3, <3>2, TimelyContinues DEF Scheduled
      <3> QED BY <3>1, <3>2
    <2>5. ASSUME NEW step \in ScheduleSteps
          PROVE  TimelyProc([procs[p] EXCEPT !.pc = step])
      <3>1. step # "rebuild"
        BY DEF ScheduleSteps
      <3> QED BY <2>2, <2>3, <3>1, NextCommand DEF TimelyProc
    <2>6. \E state : Become(p, state) /\ TimelyProc(state)
      <3>1. \/ Become(p, Scheduled(procs[p]))
            \/ \E step \in ScheduleSteps : Become(p, [procs[p] EXCEPT !.pc = step])
        BY <1>5 DEF ProcessorSchedules, ScheduleSteps
      <3> QED BY <2>4, <2>5, <3>1
    <2>7. \A t \in Timers : score'[t] = score[t] \/ fireTime[t] <= score'[t]
      BY <1>5, <2>2, <2>3 DEF ProcessorSchedules, ZAdd
    <2> QED BY <1>5, <2>6, <2>7, TimelyMoves DEF ProcessorSchedules, rowVars
  <1>6. CASE RebuildFromDB(p)
    <2>1. \A t \in Timers : score'[t] = score[t] \/ fireTime[t] <= score'[t]
      BY <1>6, SleepNumbers DEF RebuildFromDB, TimeInv, TimelyProc
    <2> QED BY <1>6, <2>1, TimelyStates, TimelyMoves DEF RebuildFromDB, rowVars
  <1> QED BY <1>1, <1>2, <1>3, <1>4, <1>5, <1>6 DEF Awake

LEMMA TimelySelect ==
  ASSUME SleepInv, TimeInv, NEW p \in Processors, TimeIsUp(p) \/ WokenUp(p) \/ ScavengerTick(p)
  PROVE  TimeInv'
  <1>1. CASE TimeIsUp(p) \/ WokenUp(p)
    BY <1>1, TimelyStates, TimelyMoves DEF TimeIsUp, WokenUp, rowVars, redisVars
  <1>2. CASE ScavengerTick(p)
    <2> DEFINE read == [t \in Timers |-> IF t \in isFired THEN Never ELSE fireTime[t]]
               state == [pc |-> "rebuild", rows |-> read]
    <2>1. TimelyProc(state)
      BY DEF TimelyProc, HasBatch, ScheduleSteps
    <2>2. Become(p, state) /\ UNCHANGED <<now, fireTime, schedules, score>>
      BY <1>2 DEF ScavengerTick, rowVars, redisVars
    <2> HIDE DEF state
    <2> QED BY <2>1, <2>2, TimelyMoves
  <1> QED BY <1>1, <1>2

\* A handler moves no processor, and at most creates a timer nobody knows of yet.
LEMMA TimelyHandler ==
  ASSUME SleepInv, TimeInv, UNCHANGED procs, now <= now', now' \in Nat,
         \A t \in Timers : Known(t) => fireTime'[t] = fireTime[t],
         \A t \in Timers : score'[t] = score[t] \/ (Known(t) /\ fireTime[t] <= score'[t]),
         \A t \in Timers : schedules'[t] # Idle =>
           schedules'[t].pc \in ScheduleSteps /\ schedules'[t].at = fireTime'[t]
  PROVE  TimeInv'
  <1>1. ASSUME NEW t \in Members' PROVE fireTime'[t] <= score'[t]
    BY MembersAreKnown DEF TimeInv, Members
  <1>2. ASSUME NEW q \in Processors PROVE TimelyProc(procs[q])'
    <2>1. PICK s \in Processor : s = procs[q] /\ KnownProc(s) /\ TimelyProc(s)
      BY DEF SleepInv, SleepTypeOK, TimeInv
    <2>2. HasBatch(s) => \A t \in s.batch : t \in Timers /\ Known(t) /\ fireTime[t] <= now
      BY <2>1, ProcessorFields DEF KnownProc, TimelyProc
    <2>3. HasBatch(s) => \A t \in s.batch : fireTime'[t] <= now'
      BY <2>2, SleepNumbers
    <2>4. s.pc \in ScheduleSteps => s.timer \in Timers /\ Known(s.timer)
      BY <2>1, ProcessorFields DEF KnownProc, HasTimer
    <2>5. s.pc = "rebuild" => \A t \in Timers : s.rows[t] # Never => Known(t)
      BY <2>1 DEF KnownProc
    <2>6. TimelyProc(s)'
      BY <2>1, <2>3, <2>4, <2>5 DEF TimelyProc, HasBatch
    <2> QED BY <2>1, <2>6
  <1> QED BY <1>1, <1>2 DEF TimeInv

LEMMA TimelyHandle ==
  ASSUME SleepInv, TimeInv, Faults = {}, ~Heartbeating, NEW t \in Timers, Handle(t)
  PROVE  TimeInv'
  <1> USE DEF SleepInv, SleepTypeOK
  <1>1. ASSUME NEW f \in Times, CreateTimer(t, f)
        PROVE  TimeInv'
    <2>1. \A u \in Timers : schedules'[u] # Idle =>
            schedules'[u].pc \in ScheduleSteps /\ schedules'[u].at = fireTime'[u]
      <3>1. schedules'[t] = [pc |-> "zadd", at |-> f] /\ fireTime'[t] = f
        BY <1>1 DEF CreateTimer
      <3>2. \A u \in Timers : u # t =>
              schedules'[u] = schedules[u] /\ fireTime'[u] = fireTime[u]
        BY <1>1 DEF CreateTimer
      <3> QED BY <3>1, <3>2 DEF TimeInv, ScheduleSteps
    <2>2. \A u \in Timers : Known(u) => fireTime'[u] = fireTime[u]
      BY <1>1 DEF CreateTimer, Known
    <2> QED BY <1>1, <2>1, <2>2, SleepNumbers, TimelyHandler DEF CreateTimer, redisVars
  <1>2. CASE ActivityStarted(t)
    BY <1>2, SleepNumbers, TimelyHandler DEF ActivityStarted, redisVars, TimeInv
  <1>3. ~Heartbeat(t) /\ ~HandlerFails(t)
    BY DEF Heartbeat, HandlerFails, Incident
  <1>4. ~UpdateTimerFireTime(t)
    <2>1. schedules[t].pc = "update" => schedules[t] # Idle
      BY NotIdle
    <2> QED BY <2>1 DEF UpdateTimerFireTime, TimeInv, ScheduleSteps
  <1>5. CASE HandlerSchedules(t)
    <2>1. schedules[t] # Idle
      BY <1>5, NotIdle DEF HandlerSchedules
    <2>2. /\ schedules[t].at = fireTime[t] /\ Known(t)
          /\ \A step \in ScheduleSteps :
               /\ [schedules[t] EXCEPT !.pc = step].pc = step
               /\ [schedules[t] EXCEPT !.pc = step].at = schedules[t].at
      BY <2>1, ScheduleFields DEF TimeInv
    <2>3. schedules'[t] # Idle =>
            schedules'[t].pc \in ScheduleSteps /\ schedules'[t].at = fireTime[t]
      <3>1. \/ schedules'[t] = Idle
            \/ \E step \in ScheduleSteps : schedules'[t] = [schedules[t] EXCEPT !.pc = step]
        BY <1>5 DEF HandlerSchedules, ScheduleSteps
      <3> QED BY <2>2, <3>1
    <2>4. \A u \in Timers : u # t => schedules'[u] = schedules[u]
      BY <1>5 DEF HandlerSchedules
    <2>5. \A u \in Timers : score'[u] = score[u] \/ (Known(u) /\ fireTime[u] <= score'[u])
      BY <1>5, <2>2, SleepNumbers DEF HandlerSchedules, ZAdd
    <2>6. \A u \in Timers : schedules'[u] # Idle =>
            schedules'[u].pc \in ScheduleSteps /\ schedules'[u].at = fireTime[u]
      BY <2>3, <2>4 DEF TimeInv
    <2> QED BY <1>5, <2>5, <2>6, SleepNumbers, TimelyHandler DEF HandlerSchedules, rowVars
  <1> QED BY <1>1, <1>2, <1>3, <1>4, <1>5 DEF Handle

LEMMA TimeInvStep ==
  ASSUME SleepInv, TimeInv, Faults = {}, ~Heartbeating, [SleepNext]_sleepVars
  PROVE  TimeInv'
  <1>1. CASE ClockAdvances
    <2>1. /\ now' \in Nat /\ now <= now'
          /\ UNCHANGED <<fireTime, score, schedules, procs>>
      BY <1>1, SleepNumbers DEF ClockAdvances, rowVars, redisVars
    <2> QED BY <2>1, TimelyHandler DEF TimeInv
  <1>2. CASE (\E p \in Processors : Deliver(p)) \/ UNCHANGED sleepVars
    <2>1. UNCHANGED <<now, fireTime, score, schedules, procs>>
      BY <1>2 DEF Deliver, sleepVars, rowVars, redisVars
    <2> QED BY <2>1, SleepNumbers, TimelyHandler DEF TimeInv
  <1> QED BY <1>1, <1>2, NoFault, TimelyProcessor, TimelySelect, TimelyHandle

--------------------------------------------------------------------------------
(* A timer earlier than a sleep ends it *)

\* A handler is about to find that its timer is the earliest.
CheckWillWake == \E u \in Timers : schedules[u].pc = "check" /\ IsEarliest(u)

Watched(s) ==
  \/ \E u \in Timers : schedules[u].pc = "publish" /\ schedules[u].at <= s
  \/ \E p \in Processors : WillLook(p, s)

AllWatched == \A t \in Members : Watched(score[t])

\* The inductive invariant.  A handler that checks may stand in for a processor only while
\* its timer is the earliest, for otherwise it publishes nothing.
WakeInv == CheckWillWake \/ AllWatched

LEMMA WakeInvImplies ==
  ASSUME SleepInv, TimeInv, WakeInv
  PROVE  EarlierTimerWakes
  <1>1. CASE CheckWillWake
    <2>1. PICK u \in Timers : schedules[u].pc = "check" /\ IsEarliest(u)
      BY <1>1 DEF CheckWillWake
    <2>2. schedules[u].at <= score[u]
      <3>1. schedules[u] # Idle /\ u \in Members
        BY <2>1, NotIdle DEF IsEarliest
      <3> QED BY <3>1 DEF TimeInv
    <2>3. schedules[u].at \in Nat
      <3>1. schedules[u] # Idle
        BY <2>1, NotIdle
      <3> QED BY <3>1, ScheduleFields, TimesAreNaturals
    <2>4. \A t \in Members : score[u] <= score[t]
      BY <2>1, SleepNumbers DEF IsEarliest, Precedes, Members
    <2>5. \A t \in Members : schedules[u].at <= score[t]
      BY <2>2, <2>3, <2>4, SleepNumbers DEF Members
    <2> QED BY <2>1, <2>5 DEF EarlierTimerWakes, WillPublish
  <1>2. CASE AllWatched
    BY <1>2 DEF AllWatched, Watched, EarlierTimerWakes, WillPublish
  <1> QED BY <1>1, <1>2 DEF WakeInv

\* A processor that looks at the sorted set whatever happens.
Alert(p) ==
  \/ token[p] \/ messages[p] > 0
  \/ procs[p].pc # "lookup" /\ ~AboutToSleep(p)

LEMMA AlertWatches ==
  ASSUME NEW p \in Processors, Alert(p)'
  PROVE  WakeInv'
  BY DEF Alert, WakeInv, AllWatched, Watched, WillLook

LEMMA AlertStates ==
  ASSUME SleepInv, NEW p \in Processors, NEW state, Become(p, state),
         \/ state.pc \in {"claim", "peek", "dispatch", "rebuild"}
         \/ state.pc \in ScheduleSteps /\ ~state.peeked
  PROVE  WakeInv'
  <1>1. procs'[p] = state
    BY BecomeIs
  <1>2. procs'[p].pc # "lookup" /\ ~AboutToSleep(p)'
    BY <1>1 DEF AboutToSleep, ScheduleSteps
  <1> QED BY <1>2, AlertWatches DEF Alert

LEMMA PublishWakesAll ==
  ASSUME SleepInv, Publish, Processors # {}
  PROVE  WakeInv'
  <1>1. PICK p \in Processors : TRUE
    OBVIOUS
  <1>2. messages'[p] > 0
    BY <1>1, SleepAssumption DEF Publish, SleepInv, SleepTypeOK
  <1> QED BY <1>2, AlertWatches DEF Alert

\* What a processor watches depends on its own state and the row it looks up.
LEMMA SameLook ==
  ASSUME NEW p, NEW s, procs'[p] = procs[p], token'[p] = token[p], messages'[p] = messages[p],
         procs[p].pc = "lookup" => fireTime'[procs[p].timer] = fireTime[procs[p].timer],
         WillLook(p, s)
  PROVE  WillLook(p, s)'
  BY DEF WillLook, AboutToSleep, SleepsUntil

LEMMA WillLookLater ==
  ASSUME SleepInv, NEW p \in Processors, NEW s \in Nat, NEW r \in Nat, s <= r, WillLook(p, s)
  PROVE  WillLook(p, r)
  <1>1. procs[p] \in Processor
    BY DEF SleepInv, SleepTypeOK
  <1>2. procs[p].pc = "lookup" => fireTime[procs[p].timer] \in Nat
    BY <1>1, ProcessorFields, SleepNumbers DEF HasTimer
  <1>3. AboutToSleep(p) => SleepsUntil(p) \in Nat
    BY <1>1, ProcessorFields, TimesAreNaturals DEF AboutToSleep, SleepsUntil, ScheduleSteps
  <1> QED BY <1>2, <1>3 DEF WillLook

LEMMA WatchedLater ==
  ASSUME SleepInv, NEW s \in Nat, NEW r \in Nat, s <= r, Watched(s)
  PROVE  Watched(r)
  <1>1. ASSUME NEW u \in Timers, schedules[u].pc = "publish", schedules[u].at <= s
        PROVE  schedules[u].at <= r
    <2>1. schedules[u].at \in Nat
      <3>1. schedules[u] # Idle
        BY <1>1, NotIdle
      <3> QED BY <3>1, ScheduleFields, TimesAreNaturals
    <2> QED BY <1>1, <2>1
  <1> QED BY <1>1, WillLookLater DEF Watched

\* Names order the members whose scores are equal.
LEMMA RankIsInjective ==
  ASSUME IsFiniteSet(Timers)
  PROVE  /\ Rank \in [Timers -> 1 .. Cardinality(Timers)]
         /\ \A t, u \in Timers : Rank[t] = Rank[u] => t = u
         /\ Cardinality(Timers) \in Nat
  <1>1. Cardinality(Timers) \in Nat
    BY FS_CardinalityType
  <1>2. ExistsBijection(Timers, 1 .. Cardinality(Timers))
    BY FS_CardinalityType, Fun_ExistsBijSymmetric
  <1>3. \E f \in [Timers -> 1 .. Cardinality(Timers)] :
          \A t, u \in Timers : f[t] = f[u] => t = u
    BY <1>2 DEF ExistsBijection, Bijection, Injection, IsInjective
  <1> QED BY <1>1, <1>3 DEF Rank

\* The members were all watched at the scores they have now, and watches go on.
LEMMA StayWatched ==
  ASSUME \A t \in Timers : score'[t] \in Nat,
         \A t \in Members' : Watched(score'[t]),
         \A n \in Nat : Watched(n) => Watched(n)'
  PROVE  WakeInv'
  <1>1. ASSUME NEW t \in Timers, t \in Members' PROVE Watched(score[t])'
    <2>1. PICK n \in Nat : n = score'[t]
      OBVIOUS
    <2>2. Watched(n)
      BY <1>1, <2>1
    <2>3. Watched(n)'
      BY <2>2
    <2> QED BY <2>1, <2>3 DEF Watched, WillLook, AboutToSleep, SleepsUntil
  <1> QED BY <1>1 DEF AllWatched, WakeInv, Members

LEMMA StillWatched ==
  ASSUME SleepInv, NEW n,
         \A u \in Timers : schedules[u].pc = "publish" => schedules'[u] = schedules[u],
         \A p \in Processors : WillLook(p, n) => WillLook(p, n)',
         Watched(n)
  PROVE  Watched(n)'
  BY DEF Watched

\* Nothing a sleeper depends on changes, and the sorted set is the same.
LEMMA SameWatch ==
  ASSUME SleepInv, WakeInv, UNCHANGED <<score, procs, token, messages>>,
         \A t \in Timers : Known(t) => fireTime'[t] = fireTime[t],
         \A u \in Timers : schedules[u].pc \in {"check", "publish"} => schedules'[u] = schedules[u]
  PROVE  WakeInv'
  <1>1. ASSUME NEW p \in Processors, NEW s, WillLook(p, s)
        PROVE  WillLook(p, s)'
    <2>1. procs[p] \in Processor /\ KnownProc(procs[p])
      BY DEF SleepInv, SleepTypeOK
    <2>2. procs[p].pc = "lookup" => fireTime'[procs[p].timer] = fireTime[procs[p].timer]
      BY <2>1, ProcessorFields DEF KnownProc, HasTimer
    <2> QED BY <1>1, <2>2, SameLook
  <1>2. CASE CheckWillWake
    BY <1>2 DEF CheckWillWake, WakeInv, IsEarliest, Members, Precedes
  <1>3. CASE AllWatched
    <2>1. \A t \in Members' : Watched(score'[t])
      BY <1>3 DEF AllWatched, Members
    <2>2. \A n \in Nat : Watched(n) => Watched(n)'
      BY <1>1, StillWatched
    <2> QED BY <2>1, <2>2, SleepNumbers, StayWatched
  <1> QED BY <1>2, <1>3 DEF WakeInv

LEMMA CreateWakes ==
  ASSUME SleepInv, WakeInv, NEW t \in Timers, NEW f \in Times,
         CreateTimer(t, f) \/ ActivityStarted(t)
  PROVE  WakeInv'
  <1>1. \A u \in Timers : Known(u) => fireTime'[u] = fireTime[u]
    BY DEF CreateTimer, ActivityStarted, Known, SleepInv, SleepTypeOK
  <1>2. ~Known(t) => schedules[t] = Idle
    BY DEF SleepInv, KnownTimers
  <1>3. CreateTimer(t, f) => schedules[t].pc = "idle"
    BY <1>2 DEF CreateTimer, Known, Idle
  <1>4. \A u \in Timers : schedules[u].pc \in {"check", "publish"} => schedules'[u] = schedules[u]
    BY <1>3 DEF CreateTimer, ActivityStarted, SleepInv, SleepTypeOK
  <1> QED BY <1>1, <1>4, SameWatch DEF CreateTimer, ActivityStarted, redisVars

\* The ZADD of a handler: either its timer is the earliest now, or an earlier one was
\* watched already, and still is.
LEMMA HandlerAddsWakes ==
  ASSUME SleepInv, WakeInv, IsFiniteSet(Timers), NEW t \in Timers, schedules[t].pc = "zadd",
         HandlerSchedules(t)
  PROVE  WakeInv'
  <1> USE DEF SleepInv, SleepTypeOK
  <1>1. /\ score' = [score EXCEPT ![t] = schedules[t].at]
        /\ schedules' = [schedules EXCEPT ![t] = [schedules[t] EXCEPT !.pc = "check"]]
        /\ UNCHANGED <<fireTime, procs, token, messages>>
    BY DEF HandlerSchedules, ZAdd, rowVars
  <1>2. schedules[t] # Idle
    BY NotIdle
  <1>3. schedules[t].at \in Times /\ schedules'[t].pc = "check"
    BY <1>1, <1>2, ScheduleFields DEF ScheduleSteps
  <1>4. t \in Members' /\ \A u \in Timers : u # t => (u \in Members' <=> u \in Members)
    BY <1>1, <1>3, TimesAreNaturals DEF Members
  <1>5. \A u \in Timers : score[u] \in Nat /\ score'[u] \in Nat
    BY <1>1, <1>3, SleepNumbers, TimesAreNaturals
  <1>6. CASE IsEarliest(t)'
    BY <1>3, <1>6 DEF WakeInv, CheckWillWake
  <1>7. CASE ~IsEarliest(t)'
    <2>1. PICK e \in Timers : e \in Members' /\ e # t /\ ~Precedes(t, e)'
      BY <1>4, <1>7 DEF IsEarliest, Members
    <2>2. /\ e \in Members /\ score[e] <= score'[t]
          /\ score[e] = score'[t] => ~(Rank[t] < Rank[e])
      BY <1>1, <1>4, <1>5, <2>1 DEF Precedes
    <2>3. CASE CheckWillWake
      <3>1. PICK u \in Timers : schedules[u].pc = "check" /\ IsEarliest(u)
        BY <2>3 DEF CheckWillWake
      <3>2. u # t /\ u \in Members /\ schedules'[u].pc = "check"
        BY <1>1, <3>1 DEF IsEarliest
      <3>3. u = e \/ Precedes(u, e)
        BY <2>2, <3>1 DEF IsEarliest
      <3>4. /\ Rank[u] \in Nat /\ Rank[e] \in Nat /\ Rank[t] \in Nat
            /\ Rank[u] # Rank[t] /\ Rank[e] # Rank[t]
        BY <2>1, <3>2, RankIsInjective
      <3>5. score[u] < score'[t] \/ (score[u] = score'[t] /\ Rank[u] < Rank[t])
        BY <1>5, <2>2, <3>3, <3>4 DEF Precedes
      <3>6. Precedes(u, t)'
        BY <1>1, <3>2, <3>5 DEF Precedes
      <3>7. \A v \in Timers : v \in Members /\ v # u /\ v # t => Precedes(u, v)'
        BY <1>1, <3>1, <3>2 DEF IsEarliest, Precedes
      <3>8. IsEarliest(u)'
        BY <1>4, <3>2, <3>6, <3>7 DEF IsEarliest, Members
      <3> QED BY <3>2, <3>8 DEF WakeInv, CheckWillWake
    <2>4. CASE AllWatched
      <3>1. ASSUME NEW n \in Nat, Watched(n) PROVE Watched(n)'
        <4>1. \A u \in Timers : schedules[u].pc = "publish" => schedules'[u] = schedules[u]
          BY <1>1
        <4>2. \A p \in Processors : WillLook(p, n) => WillLook(p, n)'
          BY <1>1, SameLook
        <4> QED BY <3>1, <4>1, <4>2, StillWatched
      <3>2. Watched(score'[t])
        <4>1. Watched(score[e])
          BY <2>2, <2>4 DEF AllWatched
        <4> QED BY <1>5, <2>1, <2>2, <4>1, WatchedLater
      <3>3. \A u \in Members' : Watched(score'[u])
        BY <1>1, <1>4, <2>4, <3>2 DEF AllWatched, Members
      <3> QED BY <1>5, <3>1, <3>3, StayWatched
    <2> QED BY <2>3, <2>4 DEF WakeInv
  <1> QED BY <1>6, <1>7

LEMMA HandlerChecksWakes ==
  ASSUME SleepInv, TimeInv, WakeInv, NEW t \in Timers, schedules[t].pc = "check",
         HandlerSchedules(t)
  PROVE  WakeInv'
  <1> USE DEF SleepInv, SleepTypeOK
  <1>1. UNCHANGED <<score, fireTime, procs, token, messages>>
    BY DEF HandlerSchedules, rowVars
  <1>2. schedules[t] # Idle
    BY NotIdle
  <1>3. \A u \in Timers : u # t => schedules'[u] = schedules[u]
    BY DEF HandlerSchedules
  <1>4. CASE IsEarliest(t)
    <2>1. schedules'[t].pc = "publish" /\ schedules'[t].at = schedules[t].at
      BY <1>2, <1>4, ScheduleFields DEF HandlerSchedules, ScheduleSteps
    <2>2. schedules[t].at = fireTime[t] /\ fireTime[t] <= score[t]
      BY <1>2, <1>4 DEF TimeInv, IsEarliest
    <2>3. \A u \in Members : score[t] <= score[u]
      BY <1>4, SleepNumbers DEF IsEarliest, Precedes, Members
    <2>4. \A u \in Members' : u \in Timers /\ schedules'[t].at <= score'[u]
      BY <1>1, <2>1, <2>2, <2>3, SleepNumbers DEF Members
    <2> QED BY <2>1, <2>4 DEF WakeInv, AllWatched, Watched
  <1>5. CASE ~IsEarliest(t)
    <2>1. CASE CheckWillWake
      <3>1. PICK u \in Timers : schedules[u].pc = "check" /\ IsEarliest(u)
        BY <2>1 DEF CheckWillWake
      <3>2. schedules'[u].pc = "check"
        BY <1>3, <1>5, <3>1
      <3>3. IsEarliest(u)'
        BY <1>1, <3>1 DEF IsEarliest, Members, Precedes
      <3> QED BY <3>2, <3>3 DEF WakeInv, CheckWillWake
    <2>2. CASE AllWatched
      <3>1. ASSUME NEW n \in Nat, Watched(n) PROVE Watched(n)'
        <4>1. \A u \in Timers : schedules[u].pc = "publish" => schedules'[u] = schedules[u]
          BY <1>3
        <4>2. \A p \in Processors : WillLook(p, n) => WillLook(p, n)'
          BY <1>1, SameLook
        <4> QED BY <3>1, <4>1, <4>2, StillWatched
      <3>2. \A u \in Members' : Watched(score'[u])
        BY <1>1, <2>2 DEF AllWatched, Members
      <3> QED BY <1>1, <3>1, <3>2, SleepNumbers, StayWatched
    <2> QED BY <2>1, <2>2 DEF WakeInv
  <1> QED BY <1>4, <1>5

LEMMA HandleWakes ==
  ASSUME SleepInv, TimeInv, WakeInv, Faults = {}, ~Heartbeating, Processors # {},
         IsFiniteSet(Timers), NEW t \in Timers, Handle(t)
  PROVE  WakeInv'
  <1>1. CASE (\E f \in Times : CreateTimer(t, f)) \/ ActivityStarted(t)
    <2>1. 0 \in Times
      BY SleepAssumption DEF Times
    <2> QED BY <1>1, <2>1, CreateWakes
  <1>2. ~Heartbeat(t) /\ ~HandlerFails(t)
    BY DEF Heartbeat, HandlerFails, Incident
  <1>3. ~UpdateTimerFireTime(t)
    <2>1. schedules[t].pc = "update" => schedules[t] # Idle
      BY NotIdle
    <2> QED BY <2>1 DEF UpdateTimerFireTime, TimeInv, ScheduleSteps
  <1>4. CASE HandlerSchedules(t)
    <2>1. schedules[t].pc \in {"zadd", "check"} \/ Publish
      BY <1>4 DEF HandlerSchedules
    <2> QED BY <1>4, <2>1, HandlerAddsWakes, HandlerChecksWakes, PublishWakesAll
  <1> QED BY <1>1, <1>2, <1>3, <1>4 DEF Handle

\* A processor looks until it peeks: it leaves the dispatching, the claiming and the
\* rebuilding for states in which it will look again.
LEMMA AwakeIsAlert ==
  ASSUME SleepInv, NEW p \in Processors,
         \/ ClaimExpired(p) \/ RebuildFromDB(p)
         \/ \E t \in procs[p].batch : Dispatch(p, t)
         \/ TimeIsUp(p) \/ WokenUp(p) \/ ScavengerTick(p) \/ Deliver(p)
  PROVE  WakeInv'
  <1>1. CASE ClaimExpired(p)
    <2>1. PICK S \in Claimable : Become(p, Continue(S))
      BY <1>1 DEF ClaimExpired
    <2> QED BY <2>1, ClaimablesAreTimers, ContinueIs, AlertStates
  <1>2. CASE \E t \in procs[p].batch : Dispatch(p, t)
    <2>1. PICK t \in procs[p].batch : Dispatch(p, t)
      BY <1>2
    <2>2. procs[p].batch \in SUBSET Timers
      BY <2>1, ProcessorFields DEF Dispatch, HasBatch, SleepInv, SleepTypeOK
    <2>3. PICK state : /\ Become(p, state)
                       /\ \/ state.pc \in {"peek", "dispatch"}
                          \/ state.pc = "zadd" /\ ~state.peeked
      <3>1. Continue(procs[p].batch \ {t}).pc \in {"peek", "dispatch"}
        BY <2>2, ContinueIs
      <3> QED BY <2>1, <3>1 DEF Dispatch
    <2> QED BY <2>3, AlertStates DEF ScheduleSteps
  <1>3. CASE RebuildFromDB(p) \/ TimeIsUp(p) \/ WokenUp(p) \/ ScavengerTick(p)
    <2>1. \E state : Become(p, state) /\ state.pc \in {"claim", "rebuild"}
      BY <1>3 DEF RebuildFromDB, TimeIsUp, WokenUp, ScavengerTick
    <2> QED BY <2>1, AlertStates
  <1>4. CASE Deliver(p)
    <2>1. token'[p]
      BY <1>4 DEF Deliver, SleepInv, SleepTypeOK
    <2> QED BY <2>1, AlertWatches DEF Alert
  <1> QED BY <1>1, <1>2, <1>3, <1>4

\* The timer a processor has peeked at is due no later than the others, so that the
\* processor will not oversleep any of them.
LEMMA PeekWakes ==
  ASSUME SleepInv, TimeInv, WakeInv, NEW p \in Processors, PeekNext(p)
  PROVE  WakeInv'
  <1>1. CASE Members = {} /\ UNCHANGED score
    BY <1>1 DEF WakeInv, AllWatched, Members
  <1>2. CASE \E t \in Members : /\ IsEarliest(t) /\ ZRem({t})
                                /\ Become(p, [pc |-> "lookup", timer |-> t])
    <2>1. PICK t \in Timers : /\ t \in Members /\ IsEarliest(t) /\ ZRem({t})
                              /\ Become(p, [pc |-> "lookup", timer |-> t])
      BY <1>2 DEF Members
    <2>2. procs'[p].pc = "lookup" /\ procs'[p].timer = t
      BY <2>1, BecomeIs
    <2>3. \A u \in Members' : u \in Timers /\ u \in Members /\ u # t /\ score'[u] = score[u]
      BY <2>1 DEF Members, ZRem
    <2>4. fireTime[t] <= score[t] /\ fireTime' = fireTime
      BY <2>1 DEF TimeInv, PeekNext, rowVars
    <2>5. \A u \in Members' : fireTime'[t] <= score'[u]
      <3>1. \A u \in Members' : score[t] <= score[u]
        BY <2>1, <2>3, SleepNumbers DEF IsEarliest, Precedes
      <3> QED BY <2>3, <2>4, <3>1, SleepNumbers
    <2>6. \A u \in Members' : WillLook(p, score[u])'
      BY <2>2, <2>5 DEF WillLook
    <2> QED BY <2>6 DEF WakeInv, AllWatched, Watched
  <1> QED BY <1>1, <1>2 DEF PeekNext

\* The processor goes on and watches what it watched, in the same sorted set.
LEMMA MovesAndWatches ==
  ASSUME SleepInv, WakeInv, NEW p \in Processors, NEW state, Become(p, state),
         UNCHANGED <<score, schedules, fireTime, token, messages>>,
         \A n \in Nat : WillLook(p, n) => WillLook(p, n)'
  PROVE  WakeInv'
  <1>1. \A q \in Processors : q # p => procs'[q] = procs[q]
    BY DEF SleepInv, SleepTypeOK, Become
  <1>2. CASE CheckWillWake
    BY <1>2 DEF CheckWillWake, WakeInv, IsEarliest, Members, Precedes
  <1>3. CASE AllWatched
    <2>1. ASSUME NEW n \in Nat, Watched(n) PROVE Watched(n)'
      <3>1. \A q \in Processors : WillLook(q, n) => WillLook(q, n)'
        BY <1>1, SameLook
      <3> QED BY <2>1, <3>1, StillWatched
    <2>2. \A u \in Members' : Watched(score'[u])
      BY <1>3 DEF AllWatched, Members
    <2> QED BY <2>1, <2>2, SleepNumbers, StayWatched
  <1> QED BY <1>2, <1>3 DEF WakeInv

LEMMA LookupWakes ==
  ASSUME SleepInv, WakeInv, NEW p \in Processors, GetTimerByID(p)
  PROVE  WakeInv'
  <1>1. PICK state : /\ Become(p, state) /\ state.pc = "zadd" /\ state.peeked
                     /\ state.at = fireTime[procs[p].timer]
    BY DEF GetTimerByID
  <1>2. procs'[p] = state /\ procs[p].pc = "lookup"
    BY <1>1, BecomeIs DEF GetTimerByID
  <1>3. UNCHANGED <<score, schedules, fireTime, token, messages>>
    BY DEF GetTimerByID, rowVars, redisVars
  <1>4. ASSUME NEW n \in Nat, WillLook(p, n) PROVE WillLook(p, n)'
    BY <1>1, <1>2, <1>3, <1>4 DEF WillLook, AboutToSleep, SleepsUntil, ScheduleSteps
  <1> QED BY <1>1, <1>3, <1>4, MovesAndWatches

\* A processor puts back the timer it has peeked at, and will sleep until then.
LEMMA PutBackWakes ==
  ASSUME SleepInv, TimeInv, WakeInv, NEW p \in Processors, NEW state, NEW s \in Scheduling,
         s = procs[p], s.pc = "zadd", s.peeked, ZAdd(s.timer, s.at), Become(p, state),
         state.pc = "check", state.peeked, state.at = s.at,
         UNCHANGED <<schedules, fireTime, token, messages>>
  PROVE  WakeInv'
  <1> USE DEF SleepInv, SleepTypeOK
  <1>1. procs'[p] = state /\ \A q \in Processors : q # p => procs'[q] = procs[q]
    BY DEF Become
  <1>2. PICK t \in Timers : t = s.timer
    BY DEF Scheduling
  <1>3. s.at \in Nat /\ s.at \in Times /\ s.at # Never
    BY TimesAreNaturals DEF Scheduling
  <1>4. /\ score'[t] = s.at /\ t \in Members'
        /\ \A u \in Timers : u # t => /\ score'[u] = score[u]
                                      /\ u \in Members' <=> u \in Members
    BY <1>2, <1>3 DEF ZAdd, Members
  <1>5. \A u \in Timers : score[u] \in Nat /\ score'[u] \in Nat
    BY <1>3, <1>4, SleepNumbers
  <1>6. s.at = fireTime[t]
    BY <1>2 DEF TimeInv, TimelyProc, ScheduleSteps
  <1>7. CASE \A u \in Members' : s.at <= score'[u]
    <2>1. \A u \in Members' : WillLook(p, score[u])'
      BY <1>1, <1>7 DEF WillLook, AboutToSleep, SleepsUntil, ScheduleSteps
    <2> QED BY <2>1 DEF WakeInv, AllWatched, Watched
  <1>8. CASE ~(\A u \in Members' : s.at <= score'[u])
    <2>1. PICK e \in Timers : e \in Members' /\ score'[e] < s.at
      BY <1>3, <1>5, <1>8 DEF Members
    <2>2. e # t /\ e \in Members /\ score[e] < s.at
      BY <1>3, <1>4, <2>1
    <2>3. CASE CheckWillWake
      <3>1. PICK u \in Timers : schedules[u].pc = "check" /\ IsEarliest(u)
        BY <2>3 DEF CheckWillWake
      <3>2. u \in Members /\ \A v \in Members : score[u] <= score[v]
        BY <1>5, <3>1 DEF IsEarliest, Precedes, Members
      <3>3. u # t
        <4>1. t \in Members => fireTime[t] <= score[t]
          BY DEF TimeInv
        <4> QED BY <1>3, <1>5, <1>6, <2>2, <3>2, <4>1
      <3>4. score'[u] < score'[t]
        BY <1>3, <1>4, <1>5, <2>2, <3>2, <3>3
      <3>5. \A v \in Timers : v \in Members /\ v # u /\ v # t => Precedes(u, v)'
        BY <1>4, <3>1, <3>3 DEF IsEarliest, Precedes
      <3>6. IsEarliest(u)'
        BY <1>4, <3>2, <3>3, <3>4, <3>5 DEF IsEarliest, Precedes, Members
      <3> QED BY <3>1, <3>6 DEF WakeInv, CheckWillWake
    <2>4. CASE AllWatched
      <3>1. ASSUME NEW n \in Nat, Watched(n) PROVE Watched(n)'
        <4>1. \A q \in Processors : q # p => (WillLook(q, n) => WillLook(q, n)')
          BY <1>1, SameLook
        <4>2. WillLook(p, n) => WillLook(p, n)'
          BY <1>1 DEF WillLook, AboutToSleep, SleepsUntil, ScheduleSteps
        <4> QED BY <3>1, <4>1, <4>2, StillWatched
      <3>2. Watched(score'[t])
        <4>1. WillLook(p, s.at)
          BY <1>3 DEF WillLook, AboutToSleep, SleepsUntil, ScheduleSteps
        <4> QED BY <1>4, <4>1 DEF Watched
      <3>3. \A u \in Members' : Watched(score'[u])
        BY <1>4, <2>4, <3>2 DEF AllWatched, Members
      <3> QED BY <1>5, <3>1, <3>3, StayWatched
    <2> QED BY <2>3, <2>4 DEF WakeInv
  <1> QED BY <1>7, <1>8

LEMMA SchedulesWakes ==
  ASSUME SleepInv, TimeInv, WakeInv, Processors # {}, NEW p \in Processors, ProcessorSchedules(p)
  PROVE  WakeInv'
  <1>1. procs[p].pc \in ScheduleSteps /\ procs[p] \in Processor
    BY DEF ProcessorSchedules, ScheduleSteps, SleepInv, SleepTypeOK
  <1>2. PICK s \in Scheduling : s = procs[p]
    BY <1>1, ProcessorFields
  <1>3. s.peeked \in BOOLEAN
    BY DEF Scheduling
  <1>4. CASE s.pc = "publish"
    BY <1>2, <1>4, PublishWakesAll DEF ProcessorSchedules
  <1>5. PICK state : /\ Become(p, state)
                     /\ s.pc # "publish" =>
                          \/ \E step \in ScheduleSteps : state = [s EXCEPT !.pc = step]
                          \/ s.pc = "check" /\ state = Scheduled(s)
                     /\ s.pc = "zadd" => state = [s EXCEPT !.pc = "check"]
    BY <1>2 DEF ProcessorSchedules, ScheduleSteps
  <1>6. ASSUME NEW step \in ScheduleSteps, state = [s EXCEPT !.pc = step]
        PROVE  state.pc = step /\ state.peeked = s.peeked /\ state.at = s.at
    BY <1>6, NextCommand
  <1>7. CASE s.pc # "publish" /\ ~s.peeked
    <2>1. \/ state.pc \in {"peek", "dispatch"}
          \/ state.pc \in ScheduleSteps /\ ~state.peeked
      BY <1>5, <1>6, <1>7, ScheduledIs
    <2> QED BY <1>5, <2>1, AlertStates
  <1>8. CASE s.pc = "zadd" /\ s.peeked
    <2>1. state.pc = "check" /\ state.peeked /\ state.at = s.at
      BY <1>5, <1>6, <1>8 DEF ScheduleSteps
    <2>2. /\ ZAdd(s.timer, s.at)
          /\ UNCHANGED <<schedules, fireTime, token, messages>>
      BY <1>2, <1>8 DEF ProcessorSchedules, rowVars
    <2> QED BY <1>2, <1>5, <1>8, <2>1, <2>2, PutBackWakes
  <1>9. CASE s.pc = "check" /\ s.peeked
    <2>1. \/ state.pc \in ScheduleSteps /\ state.peeked /\ state.at = s.at
          \/ state.pc = "sleep" /\ state.until = s.at
      BY <1>3, <1>5, <1>6, <1>9, ScheduledIs
    <2>2. procs'[p] = state
      BY <1>5, BecomeIs
    <2>3. UNCHANGED <<score, schedules, fireTime, token, messages>>
      BY <1>2, <1>9 DEF ProcessorSchedules, rowVars
    <2>4. ASSUME NEW n \in Nat, WillLook(p, n) PROVE WillLook(p, n)'
      <3>1. token[p] \/ messages[p] > 0 \/ s.at <= n
        BY <1>2, <1>9, <2>4 DEF WillLook, AboutToSleep, SleepsUntil, ScheduleSteps
      <3> QED BY <2>1, <2>2, <2>3, <3>1
              DEF WillLook, AboutToSleep, SleepsUntil, ScheduleSteps
    <2> QED BY <1>5, <2>3, <2>4, MovesAndWatches
  <1> QED BY <1>1, <1>2, <1>3, <1>4, <1>7, <1>8, <1>9 DEF ScheduleSteps

\* Without faults and heartbeats Smart Sleep keeps its promise, with any number of timers,
\* of processors and of names with equal scores, and any capacity of the subscription:
\* every timer in Redis has a processor that is awake, or asleep no longer than it, or is
\* going to be woken.
THEOREM EarlierTimersWake ==
  ASSUME Faults = {}, ~Heartbeating, Processors # {}, IsFiniteSet(Timers)
  PROVE  SleepSpec => []EarlierTimerWakes
  <1>1. SleepInit => TimeInv /\ WakeInv
    <2> SUFFICES ASSUME SleepInit PROVE TimeInv /\ WakeInv
      OBVIOUS
    <2>1. Members = {}
      BY DEF SleepInit, Members
    <2> QED BY <2>1 DEF SleepInit, TimeInv, WakeInv, AllWatched, TimelyProc, HasBatch, ScheduleSteps
  <1>2. SleepInv /\ [SleepNext]_sleepVars => SleepInv'
    BY SleepInvStep
  <1>3. SleepInv /\ TimeInv /\ [SleepNext]_sleepVars => TimeInv'
    BY TimeInvStep
  <1>4. SleepInv /\ TimeInv /\ WakeInv /\ [SleepNext]_sleepVars => WakeInv'
    <2> SUFFICES ASSUME SleepInv, TimeInv, WakeInv, [SleepNext]_sleepVars PROVE WakeInv'
      OBVIOUS
    <2>1. ASSUME NEW p \in Processors, Awake(p) PROVE WakeInv'
      BY <2>1, AwakeIsAlert, PeekWakes, LookupWakes, SchedulesWakes DEF Awake
    <2>2. ASSUME NEW p \in Processors,
                 TimeIsUp(p) \/ WokenUp(p) \/ ScavengerTick(p) \/ Deliver(p)
          PROVE  WakeInv'
      BY <2>2, AwakeIsAlert
    <2>3. CASE ClockAdvances \/ UNCHANGED sleepVars
      BY <2>3, SameWatch DEF ClockAdvances, sleepVars, rowVars, redisVars
    <2> QED BY <2>1, <2>2, <2>3, HandleWakes, NoFault
  <1>5. SleepInv /\ TimeInv /\ WakeInv => EarlierTimerWakes
    BY WakeInvImplies
  <1> QED BY SleepInitInv, <1>1, <1>2, <1>3, <1>4, <1>5, PTL DEF SleepSpec
================================================================================
