------------------------------- MODULE TaskBroker --------------------------------
(***************************************************************************)
(* What the Matching service promises to those who add tasks: each task is *)
(* queued once, taken in the order of its queue, and received at most once *)
(* by a worker.  A task that has been taken may be lost; it never comes    *)
(* back.  Nothing is said of Redis, of polls or of who waits for whom.     *)
(***************************************************************************)
EXTENDS Sequences

CONSTANTS Tasks, Keys

VARIABLES
  status,   \* [Tasks -> "new", "refused", "queued", "taken", "received" or "lost"]
  queue     \* [Keys -> Seq(Tasks)]

brokerVars == <<status, queue>>

Init ==
  /\ status = [t \in Tasks |-> "new"]
  /\ queue = [k \in Keys |-> <<>>]

Becomes(t, from, to) == status[t] = from /\ status' = [status EXCEPT ![t] = to]

Put(t, k) == Becomes(t, "new", "queued") /\ queue' = [queue EXCEPT ![k] = Append(@, t)]

\* A worker was already waiting.
PutThrough(t, k) == Becomes(t, "new", "taken") /\ queue[k] = <<>> /\ UNCHANGED queue

Take(t, k) ==
  /\ queue[k] # <<>> /\ t = Head(queue[k])
  /\ Becomes(t, "queued", "taken")
  /\ queue' = [queue EXCEPT ![k] = Tail(@)]

Receive(t) == Becomes(t, "taken", "received") /\ UNCHANGED queue

\* Tasks may be refused, and tasks that have been taken may be lost, several at once.
Drop(refused, lost) ==
  /\ \A t \in refused : status[t] = "new"
  /\ \A t \in lost : status[t] = "taken"
  /\ status' = [t \in Tasks |-> CASE t \in refused -> "refused" [] t \in lost -> "lost"
                                 [] OTHER -> status[t]]
  /\ UNCHANGED queue

Next ==
  \/ \E t \in Tasks : Receive(t)
  \/ \E t \in Tasks, k \in Keys : Put(t, k) \/ PutThrough(t, k) \/ Take(t, k)
  \/ \E refused, lost \in SUBSET Tasks : Drop(refused, lost)

Spec == Init /\ [][Next]_brokerVars
================================================================================
