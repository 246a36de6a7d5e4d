------------------------------ MODULE HistoryReaders -----------------------------
(***************************************************************************)
(* Those who read a history while handlers write it: a workflow worker is  *)
(* given one with its task, a client asks for one.  Both end in            *)
(* GetWorkflowExecutionHistory, one SELECT outside of every transaction.   *)
(* A query goes the same way, and its answer has nothing to do with the    *)
(* history it has read.                                                    *)
(***************************************************************************)
EXTENDS TimerProperties

CONSTANTS Readers   \* clients, and Frontend handlers serving workflow polls

VARIABLES
  views       \* [Readers -> View]: the request of each reader, or what the last reply
              \* has told it of a history

readerVars == <<timerVars, views>>

--------------------------------------------------------------------------------
View ==
  {Idle}
  \cup [pc : {"asked"}, rpc : {"history", "query"}, key : Keys]
  \cup [pc : {"answered"}, key : Keys, seen : SUBSET Event]

ReadersTypeOK ==
  /\ TimerTypeOK
  /\ views \in [Readers -> View]

ReadersInit ==
  /\ TimerInit
  /\ views = [r \in Readers |-> Idle]

Show(r, view) == views' = [views EXCEPT ![r] = view]

\* Frontend forwards both requests as they come.
Ask(r, rpc, k) ==
  /\ views[r].pc # "asked"
  /\ Show(r, [pc |-> "asked", rpc |-> rpc, key |-> k])
  /\ UNCHANGED timerVars

\* Mutant: a LIMIT that drops the oldest events.
RecentHistory(r) ==
  /\ views[r].pc = "asked" /\ views[r].rpc = "history"
  /\ LET k == views[r].key
     IN  Show(r, [pc |-> "answered", key |-> k,
                  seen |-> {e \in GetHistoryEvents(k) : e.id + 2 >= executions[k].next}])
  /\ UNCHANGED timerVars

\* A run that does not exist has an empty history; it is not an error.
GetWorkflowExecutionHistory(r) ==
  /\ views[r].pc = "asked" /\ views[r].rpc = "history"
  /\ LET k == views[r].key
     IN  Show(r, [pc |-> "answered", key |-> k,
                  seen |-> GetHistoryEvents(k)])
  /\ UNCHANGED timerVars

\* The events are read, and the result is the query's arguments.
QueryWorkflowExecution(r) ==
  /\ views[r].pc = "asked" /\ views[r].rpc = "query"
  /\ Show(r, [pc |-> "answered", key |-> views[r].key, seen |-> {}])
  /\ UNCHANGED timerVars

ReadFails(r) ==
  /\ "database" \in Faults
  /\ views[r].pc = "asked"
  /\ Show(r, [pc |-> "answered", key |-> views[r].key, seen |-> {}])
  /\ UNCHANGED timerVars

ReadersNext ==
  \/ TimerNext /\ UNCHANGED views
  \/ \E r \in Readers :
       \/ \E rpc \in {"history", "query"}, k \in Keys : Ask(r, rpc, k)
       \/ GetWorkflowExecutionHistory(r) \/ QueryWorkflowExecution(r) \/ ReadFails(r)

ReadersSpec == ReadersInit /\ [][ReadersNext]_readerVars
--------------------------------------------------------------------------------
(* Properties *)

\* What a worker replays stays true: the history it was given, however old by now, is
\* still the beginning of the history, complete and without gaps, whatever handlers and
\* processors raced, conflicted or crashed since.  Replay is deterministic only on such.
ViewsArePrefixes ==
  \A r \in Readers : views[r].pc = "answered" =>
    LET seen == views[r].seen
    IN  /\ seen \subseteq history[views[r].key]
        /\ {e.id : e \in seen} = 1 .. Cardinality(seen)
================================================================================
