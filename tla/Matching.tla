--------------------------------- MODULE Matching --------------------------------
(***************************************************************************)
(* The Matching service (matching/internal/service/matching.go): one Redis *)
(* list per task queue and kind.  Adding a task is LPUSH; a poll is BRPOP, *)
(* which blocks in Redis until a task comes or poll_timeout_seconds pass.  *)
(*                                                                         *)
(* The caller of a poll gives up by a deadline of its own                  *)
(* (frontend/internal/interceptor/timeout.go), of the same length and      *)
(* started earlier; nothing then withdraws the BRPOP it has caused.        *)
(***************************************************************************)
EXTENDS Naturals, Sequences, FiniteSets

CONSTANTS
  Tasks,        \* the AddWorkflowTask and AddActivityTask requests of a behaviour
  TaskQueues,   \* names of task queues
  NoQueue,      \* the empty name
  Polls,        \* concurrent poll requests
  Faults,       \* {"deadline", "crash", "redis"}: a caller gives up, the process dies,
                \* a command fails
  MaxCutOff     \* bound: how many polls lose their caller

ASSUME MatchingAssumption ==
  /\ NoQueue \notin TaskQueues
  /\ IsFiniteSet(Polls)
  /\ Faults \subseteq {"deadline", "crash", "redis"}
  /\ MaxCutOff \in Nat

VARIABLES
  adds,      \* [Tasks -> Add]
  lists,     \* [Keys -> Seq(Tasks)]: the Redis lists, the next to be popped first
  blocked,   \* [Keys -> Seq(Polls)]: the clients Redis has blocked, longest first
  polls,     \* [Polls -> Poll]
  received,  \* the tasks whose reply has reached the caller of the poll
  cutOff     \* how many polls have lost their caller before they replied

matchingVars == <<adds, lists, blocked, polls, received, cutOff>>

--------------------------------------------------------------------------------
Kinds == {"workflow", "activity"}

\* Mutant: one list for both kinds.
QueueKeyWithoutKind(tq, kind) == <<tq, "workflow">>

\* queueKey: task_queue:default:<name>:<kind>
QueueKey(tq, kind) == <<tq, kind>>

Keys == TaskQueues \X Kinds

Idle == [pc |-> "idle"]

\* A task on its way: not yet added, being pushed, in Redis (or further), or never.
Add == [pc : {"new", "refused", "failed"}]
       \cup [pc : {"push", "pushed"}, queue : TaskQueues, kind : Kinds]

\* "open": the caller is still there.
Poll == {Idle}
        \cup [pc : {"blocked"}, queue : TaskQueues, kind : Kinds, open : BOOLEAN]
        \cup [pc : {"popped"}, queue : TaskQueues, kind : Kinds, open : BOOLEAN, task : Tasks]

MatchingTypeOK ==
  /\ adds \in [Tasks -> Add]
  /\ lists \in [Keys -> Seq(Tasks)]
  /\ blocked \in [Keys -> Seq(Polls)]
  /\ polls \in [Polls -> Poll]
  /\ received \in SUBSET Tasks
  /\ cutOff \in Nat

MatchingInit ==
  /\ adds = [t \in Tasks |-> [pc |-> "new"]]
  /\ lists = [k \in Keys |-> <<>>]
  /\ blocked = [k \in Keys |-> <<>>]
  /\ polls = [p \in Polls |-> Idle]
  /\ received = {}
  /\ cutOff = 0

--------------------------------------------------------------------------------
(* Adding *)

\* Mutant: the name of the task queue is not checked.
AddTaskUnchecked(t, tq, kind) ==
  /\ adds[t].pc = "new"
  /\ adds' = [adds EXCEPT ![t] = [pc |-> "push", queue |-> tq, kind |-> kind]]
  /\ UNCHANGED <<lists, blocked, polls, received, cutOff>>

\* AddWorkflowTask, AddActivityTask.
AddTask(t, tq, kind) ==
  /\ adds[t].pc = "new"
  /\ adds' = [adds EXCEPT ![t] = IF tq = NoQueue THEN [pc |-> "refused"]
                                 ELSE [pc |-> "push", queue |-> tq, kind |-> kind]]
  /\ UNCHANGED <<lists, blocked, polls, received, cutOff>>

\* LPUSH, and what Redis does with it: the client blocked longest gets the task.
Push(t) ==
  /\ adds[t].pc = "push"
  /\ adds' = [adds EXCEPT ![t].pc = "pushed"]
  /\ LET k == QueueKey(adds[t].queue, adds[t].kind)
     IN  \/ /\ blocked[k] = <<>>
            /\ lists' = [lists EXCEPT ![k] = Append(@, t)]
            /\ UNCHANGED <<blocked, polls>>
         \/ /\ blocked[k] # <<>>
            /\ LET p == Head(blocked[k])
               IN  polls' = [polls EXCEPT ![p] =
                     [pc |-> "popped", queue |-> @.queue, kind |-> @.kind, open |-> @.open,
                      task |-> t]]
            /\ blocked' = [blocked EXCEPT ![k] = Tail(@)]
            /\ UNCHANGED lists
  /\ UNCHANGED <<received, cutOff>>

PushFails(t) ==
  /\ "redis" \in Faults
  /\ adds[t].pc = "push"
  /\ adds' = [adds EXCEPT ![t] = [pc |-> "failed"]]
  /\ UNCHANGED <<lists, blocked, polls, received, cutOff>>

--------------------------------------------------------------------------------
(* Polling *)

\* Mutant: the task is read, and left in the list.
PeekInsteadOfPop(p, tq, kind) ==
  /\ polls[p] = Idle
  /\ LET k == QueueKey(tq, kind)
     IN  \/ /\ lists[k] # <<>>
            /\ polls' = [polls EXCEPT ![p] = [pc |-> "popped", queue |-> tq, kind |-> kind,
                                              open |-> TRUE, task |-> Head(lists[k])]]
            /\ UNCHANGED blocked
         \/ /\ lists[k] = <<>>
            /\ polls' = [polls EXCEPT ![p] = [pc |-> "blocked", queue |-> tq, kind |-> kind,
                                              open |-> TRUE]]
            /\ blocked' = [blocked EXCEPT ![k] = Append(@, p)]
  /\ UNCHANGED <<adds, lists, received, cutOff>>

\* Mutant: the client is blocked before the list is looked at.
BlockAtOnce(p, tq, kind) ==
  /\ polls[p] = Idle
  /\ polls' = [polls EXCEPT ![p] = [pc |-> "blocked", queue |-> tq, kind |-> kind, open |-> TRUE]]
  /\ blocked' = [blocked EXCEPT ![QueueKey(tq, kind)] = Append(@, p)]
  /\ UNCHANGED <<adds, lists, received, cutOff>>

\* PollWorkflowTaskQueue, PollActivityTaskQueue: BRPOP pops at once, or blocks.
PollTaskQueue(p, tq, kind) ==
  /\ polls[p] = Idle
  /\ LET k == QueueKey(tq, kind)
     IN  \/ /\ lists[k] # <<>>
            /\ polls' = [polls EXCEPT ![p] = [pc |-> "popped", queue |-> tq, kind |-> kind,
                                              open |-> TRUE, task |-> Head(lists[k])]]
            /\ lists' = [lists EXCEPT ![k] = Tail(@)]
            /\ UNCHANGED blocked
         \/ /\ lists[k] = <<>>
            /\ polls' = [polls EXCEPT ![p] = [pc |-> "blocked", queue |-> tq, kind |-> kind,
                                              open |-> TRUE]]
            /\ blocked' = [blocked EXCEPT ![k] = Append(@, p)]
            /\ UNCHANGED lists
  /\ UNCHANGED <<adds, received, cutOff>>

\* Redis no longer blocks p.
Unblock(p) ==
  LET k == QueueKey(polls[p].queue, polls[p].kind)
  IN  \E i \in DOMAIN blocked[k] :
        /\ blocked[k][i] = p
        /\ blocked' = [blocked EXCEPT ![k] =
             [j \in 1 .. Len(@) - 1 |-> IF j < i THEN @[j] ELSE @[j + 1]]]

\* Mutant: the timeout wins over a task that has come.
TimeoutWins(p) ==
  /\ polls' = [polls EXCEPT ![p] = Idle]
  /\ \/ polls[p].pc = "blocked" /\ Unblock(p)
     \/ polls[p].pc = "popped" /\ UNCHANGED blocked
  /\ UNCHANGED <<adds, lists, received, cutOff>>

\* BRPOP returns nil, "no workflow task available"; or it fails.
PopTimesOut(p) ==
  /\ polls[p].pc = "blocked"
  /\ polls' = [polls EXCEPT ![p] = Idle]
  /\ Unblock(p)
  /\ UNCHANGED <<adds, lists, received, cutOff>>

\* The reply with the task arrives.
ReplyArrives(p) ==
  /\ polls[p].pc = "popped"
  /\ polls[p].open
  /\ received' = received \cup {polls[p].task}
  /\ polls' = [polls EXCEPT ![p] = Idle]
  /\ UNCHANGED <<adds, lists, blocked, cutOff>>

\* It has nowhere to go.
ReplyIsLost(p) ==
  /\ polls[p].pc = "popped"
  /\ ~polls[p].open
  /\ polls' = [polls EXCEPT ![p] = Idle]
  /\ UNCHANGED <<adds, lists, blocked, received, cutOff>>

\* The deadline of the caller passes, and the caller makes an empty reply of it
\* (isTimeout); or the caller goes away.  BRPOP stays.
CallerGivesUp(p) ==
  /\ "deadline" \in Faults
  /\ cutOff < MaxCutOff
  /\ polls[p] # Idle /\ polls[p].open
  /\ polls' = [polls EXCEPT ![p].open = FALSE]
  /\ cutOff' = cutOff + 1
  /\ UNCHANGED <<adds, lists, blocked, received>>

\* The process dies: Redis closes its connections and unblocks its clients.
MatchingCrash ==
  /\ "crash" \in Faults
  /\ LET open == {p \in Polls : polls[p] # Idle /\ polls[p].open}
     IN  /\ cutOff + Cardinality(open) <= MaxCutOff
         /\ cutOff' = cutOff + Cardinality(open)
  /\ polls' = [p \in Polls |-> Idle]
  /\ blocked' = [k \in Keys |-> <<>>]
  /\ adds' = [t \in Tasks |-> IF adds[t].pc = "push" THEN [pc |-> "failed"] ELSE adds[t]]
  /\ UNCHANGED <<lists, received>>

--------------------------------------------------------------------------------
Serve(p) == PopTimesOut(p) \/ ReplyArrives(p) \/ ReplyIsLost(p)

MatchingNext ==
  \/ \E t \in Tasks :
       \/ \E tq \in TaskQueues \cup {NoQueue}, kind \in Kinds : AddTask(t, tq, kind)
       \/ Push(t) \/ PushFails(t)
  \/ \E p \in Polls :
       \/ \E tq \in TaskQueues, kind \in Kinds : PollTaskQueue(p, tq, kind)
       \/ Serve(p) \/ CallerGivesUp(p)
  \/ MatchingCrash

MatchingSpec == MatchingInit /\ [][MatchingNext]_matchingVars

\* The service takes its steps, BRPOP times out, and the workers of every queue poll
\* again and again.
MatchingFairSpec ==
  /\ MatchingSpec
  /\ \A t \in Tasks : WF_matchingVars(Push(t))
  /\ \A p \in Polls : WF_matchingVars(Serve(p))
  /\ \A tq \in TaskQueues, kind \in Kinds :
       SF_matchingVars(\E p \in Polls : PollTaskQueue(p, tq, kind))
================================================================================
