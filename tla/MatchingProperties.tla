--------------------------- MODULE MatchingProperties ----------------------------
(* What becomes of the tasks that are added to the Matching service. *)
EXTENDS Matching

Listed(t) == \E k \in Keys : \E i \in DOMAIN lists[k] : lists[k][i] = t
Has(p, t) == polls[p].pc = "popped" /\ polls[p].task = t
Popped(t) == \E p \in Polls : Has(p, t)

\* Pushed, and nowhere to be found.
Lost == {t \in Tasks : adds[t].pc = "pushed" /\ ~Listed(t) /\ ~Popped(t) /\ t \notin received}

\* At most one task is lost for each poll that lost its caller, and none otherwise:
\* BRPOP takes a task off the list before anybody has it, but a task that is in a
\* list survives callers that give up, and the process that serves them.
LossAccounted == Cardinality(Lost) <= cutOff

\* A worker gets tasks of the queue and of the kind it has asked for.
TasksMatchPolls ==
  \A p \in Polls : polls[p].pc = "popped" =>
    adds[polls[p].task].queue = polls[p].queue /\ adds[polls[p].task].kind = polls[p].kind

\* Each task is in one place: once in one list, or handed to one poll, however many wait
\* for it or give up waiting, or with the caller it has reached.
InOnePlace ==
  /\ \A k, l \in Keys : \A i \in DOMAIN lists[k], j \in DOMAIN lists[l] :
       lists[k][i] = lists[l][j] => k = l /\ i = j
  /\ \A t \in Tasks :
       /\ \A p, q \in Polls : Has(p, t) /\ Has(q, t) => p = q
       /\ ~(Listed(t) /\ Popped(t))
       /\ t \in received => ~Listed(t) /\ ~Popped(t)
       /\ Listed(t) \/ Popped(t) \/ t \in received => adds[t].pc = "pushed"

\* No task waits in a list while a worker waits for it, whatever order they came in.
NobodyWaits == \A k \in Keys : blocked[k] # <<>> => lists[k] = <<>>

\* The inductive invariant: a list holds the tasks that were added to it, and each
\* client Redis has blocked is a poll of that list, once.
ListsMatch ==
  \A k \in Keys : \A i \in DOMAIN lists[k] :
    LET add == adds[lists[k][i]]
    IN  add.pc = "pushed" /\ k = QueueKey(add.queue, add.kind)

BlockedMatch ==
  \A k \in Keys : \A i \in DOMAIN blocked[k] :
    LET poll == polls[blocked[k][i]]
    IN  /\ poll.pc = "blocked" /\ k = QueueKey(poll.queue, poll.kind)
        /\ \A j \in DOMAIN blocked[k] : blocked[k][i] = blocked[k][j] => i = j

MatchingInv ==
  MatchingTypeOK /\ ListsMatch /\ BlockedMatch /\ TasksMatchPolls /\ InOnePlace

\* Where a task stands for those who add and take it.
Standing(t) ==
  CASE adds[t].pc \in {"new", "push"}       -> "new"
    [] adds[t].pc \in {"refused", "failed"} -> "refused"
    [] t \in received                       -> "received"
    [] Listed(t)                            -> "queued"
    [] Popped(t)                            -> "taken"
    [] OTHER                                -> "lost"

Broker == INSTANCE TaskBroker WITH
  queue <- lists, status <- [t \in Tasks |-> Standing(t)]

\* The Matching service implements TaskBroker: what the callers of its four RPCs see is
\* a queue, whatever happens to their deadlines and to the process.
ImplementsBroker == Broker!Spec

\* Every task that was pushed is received, or lost with a poll that lost its caller: FIFO
\* lists and blocked clients starve nobody, though polls time out all the time and
\* processes die.
EventuallyReceived ==
  \A t \in Tasks : adds[t].pc = "pushed" ~> (t \in received \/ t \in Lost)
================================================================================
