------------------------------ MODULE WorkflowLog ------------------------------
(***************************************************************************)
(* What the event store promises to a reader of a run's history: an        *)
(* append-only log of numbered events that is opened once, grows by whole  *)
(* batches while the run is open, and is closed once, by a batch that      *)
(* records one outcome.  Nothing is said of versions, snapshots, callers   *)
(* or conflicts.                                                           *)
(***************************************************************************)
EXTENDS Naturals

CONSTANT Keys, OutcomeOf   \* OutcomeOf: closing event type -> final status

VARIABLES
  status,   \* [Keys -> "Absent", "Running" or a final status]
  length,   \* [Keys -> Nat]: the number of events
  log       \* [Keys -> set of events, each with an id and a type]

logVars == <<status, length, log>>

Init ==
  /\ status = [k \in Keys |-> "Absent"]
  /\ length = [k \in Keys |-> 0]
  /\ log = [k \in Keys |-> {}]

\* The events a step adds to run k.
Added(k) == log'[k] \ log[k]

\* A batch of new events, numbered from length + 1 without gap or duplicate, joins
\* the log of run k; the other runs keep theirs.
Extend(k) ==
  /\ length'[k] > length[k]
  /\ log[k] \subseteq log'[k]
  /\ {e.id : e \in Added(k)} = length[k] + 1 .. length'[k]
  /\ \A e, f \in Added(k) : e.id = f.id => e = f
  /\ \A l \in Keys \ {k} : length'[l] = length[l] /\ log'[l] = log[l]

Outcomes(k) == {OutcomeOf[e.type] : e \in {f \in Added(k) : f.type \in DOMAIN OutcomeOf}}

Start(k) ==
  /\ status[k] = "Absent"
  /\ status' = [status EXCEPT ![k] = "Running"]
  /\ Extend(k)
  /\ \A e \in Added(k) : e.type = "WorkflowExecutionStarted"

Append(k) ==
  /\ status[k] = "Running"
  /\ status' = status
  /\ Extend(k)
  /\ Outcomes(k) = {}

Close(k) ==
  /\ status[k] = "Running"
  /\ Extend(k)
  /\ Outcomes(k) = {status'[k]}
  /\ status' = [status EXCEPT ![k] = status'[k]]

Next == \E k \in Keys : Start(k) \/ Append(k) \/ Close(k)

Spec == Init /\ [][Next]_logVars
================================================================================
