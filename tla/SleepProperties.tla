----------------------------- MODULE SleepProperties -----------------------------
(***************************************************************************)
(* What Smart Sleep promises: no timer waits for a processor that sleeps   *)
(* past it, no timer is lost, and nobody is woken for nothing.             *)
(***************************************************************************)
EXTENDS SmartSleep

\* The processor sleeps, or is about to sleep, until the timer it has peeked at.
SleepsUntil(p) == IF procs[p].pc = "sleep" THEN procs[p].until ELSE procs[p].at

AboutToSleep(p) ==
  procs[p].pc = "sleep" \/ (procs[p].pc \in ScheduleSteps /\ procs[p].peeked)

\* The processor looks at the sorted set again no later than at time s.
WillLook(p, s) ==
  \/ token[p] \/ messages[p] > 0
  \/ IF procs[p].pc = "lookup" THEN fireTime[procs[p].timer] <= s
     ELSE AboutToSleep(p) => SleepsUntil(p) <= s

\* A handler that has added a timer due by s has yet to see whether to wake the others.
WillPublish(s) ==
  \E u \in Timers : schedules[u].pc \in {"check", "publish"} /\ schedules[u].at <= s

\* "If a user schedules a brand new timer that fires earlier than the timestamp the worker
\* is currently sleeping for, Redis triggers an immediate Pub/Sub signal" (README): each
\* timer in Redis has a processor that is awake, or asleep no longer than it, or is going
\* to be woken, although scheduling, peeking and putting back are all several commands.
EarlierTimerWakes ==
  \A t \in Members : WillPublish(score[t]) \/ \E p \in Processors : WillLook(p, score[t])

Holds(p, t) ==
  \/ procs[p].pc = "dispatch" /\ t \in procs[p].batch
  \/ procs[p].pc = "lookup" /\ procs[p].timer = t
  \/ procs[p].pc \in ScheduleSteps /\ t \in procs[p].batch
  \/ procs[p].pc = "zadd" /\ procs[p].timer = t

\* Without faults a timer that has not fired is in Redis, or about to be added by the
\* handler that created it, or in the hands of a processor: peeking at a timer by
\* claiming it does not lose it, whatever other processors claim meanwhile.
NoTimerLost ==
  \A t \in Timers : fireTime[t] # Never /\ t \notin isFired =>
    t \in Members \/ schedules[t].pc = "zadd" \/ \E p \in Processors : Holds(p, t)

\* Every timer is eventually marked fired, whatever Redis forgets, fails to do or fails to
\* deliver, and whoever dies: the scavenger sees to it.
EventuallyServed == \A t \in Timers : fireTime[t] <= MaxTime ~> t \in isFired

--------------------------------------------------------------------------------
(* What is said and not kept *)

\* "We ensure the CPU and Redis are completely idle when there is no work to do" (README):
\* when no more timers are scheduled, processors are eventually not woken by messages.
EventuallyUndisturbed == \A p \in Processors : <>[][~WokenUp(p)]_sleepVars
================================================================================
