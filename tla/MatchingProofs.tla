----------------------------- MODULE MatchingProofs ------------------------------
(***************************************************************************)
(* For any number of tasks, queues and polls: a task is in one place, a    *)
(* poll gets the tasks it has asked for, and the Matching service          *)
(* implements the abstract broker.                                         *)
(***************************************************************************)
EXTENDS MatchingProperties, FiniteSetTheorems, TLAPS

LEMMA QueueKeyType ==
  \A tq \in TaskQueues, kind \in Kinds : QueueKey(tq, kind) \in Keys
  BY DEF QueueKey, Keys

--------------------------------------------------------------------------------
(* Type correctness *)

LEMMA MatchingInitType == MatchingInit => MatchingTypeOK
  BY MatchingAssumption DEF MatchingInit, MatchingTypeOK, Add, Poll, Idle

\* A poll that is blocked or has popped knows what it asked for.
LEMMA PollShape ==
  ASSUME MatchingTypeOK, NEW p \in Polls
  PROVE  /\ polls[p].pc = "blocked" =>
              polls[p] \in [pc : {"blocked"}, queue : TaskQueues, kind : Kinds, open : BOOLEAN]
         /\ polls[p].pc = "popped" =>
              polls[p] \in [pc : {"popped"}, queue : TaskQueues, kind : Kinds, open : BOOLEAN,
                            task : Tasks]
         /\ polls[p] # Idle => polls[p].pc \in {"blocked", "popped"}
  BY DEF MatchingTypeOK, Poll, Idle

LEMMA AddShape ==
  ASSUME MatchingTypeOK, NEW t \in Tasks
  PROVE  adds[t].pc \in {"push", "pushed"} =>
           adds[t] \in [pc : {"push", "pushed"}, queue : TaskQueues, kind : Kinds]
  BY DEF MatchingTypeOK, Add

LEMMA AddTaskType ==
  ASSUME MatchingTypeOK, NEW t \in Tasks, NEW tq \in TaskQueues \cup {NoQueue},
         NEW kind \in Kinds, AddTask(t, tq, kind)
  PROVE  MatchingTypeOK'
  BY DEF AddTask, MatchingTypeOK, Add

LEMMA PushType ==
  ASSUME MatchingTypeOK, BlockedMatch, NEW t \in Tasks, Push(t)
  PROVE  MatchingTypeOK'
  <1> DEFINE k == QueueKey(adds[t].queue, adds[t].kind)
  <1>1. adds[t] \in [pc : {"push", "pushed"}, queue : TaskQueues, kind : Kinds] /\ k \in Keys
    BY AddShape, QueueKeyType DEF Push
  <1>2. adds' \in [Tasks -> Add]
    BY <1>1 DEF Push, MatchingTypeOK, Add
  <1>3. CASE blocked[k] = <<>>
    <2>1. lists' = [lists EXCEPT ![k] = Append(@, t)] /\ UNCHANGED <<blocked, polls>>
      BY <1>3 DEF Push
    <2>2. lists' \in [Keys -> Seq(Tasks)]
      BY <2>1, <1>1 DEF MatchingTypeOK
    <2> QED BY <1>2, <2>1, <2>2 DEF Push, MatchingTypeOK
  <1>4. CASE blocked[k] # <<>>
    <2> DEFINE p == Head(blocked[k])
    <2>1. /\ blocked[k] \in Seq(Polls) /\ p \in Polls /\ p = blocked[k][1]
          /\ 1 \in DOMAIN blocked[k] /\ Tail(blocked[k]) \in Seq(Polls)
      BY <1>1, <1>4 DEF MatchingTypeOK
    <2>2. polls[p] \in [pc : {"blocked"}, queue : TaskQueues, kind : Kinds, open : BOOLEAN]
      BY <1>1, <2>1, PollShape DEF BlockedMatch
    <2>3. /\ polls' = [polls EXCEPT ![p] =
                [pc |-> "popped", queue |-> polls[p].queue, kind |-> polls[p].kind,
                 open |-> polls[p].open, task |-> t]]
          /\ blocked' = [blocked EXCEPT ![k] = Tail(blocked[k])] /\ UNCHANGED lists
      BY <1>4 DEF Push
    <2> HIDE DEF p, k
    <2>4. polls' \in [Polls -> Poll]
      BY <2>1, <2>2, <2>3 DEF MatchingTypeOK, Poll
    <2>5. blocked' \in [Keys -> Seq(Polls)]
      BY <1>1, <2>1, <2>3 DEF MatchingTypeOK
    <2> QED BY <1>2, <2>3, <2>4, <2>5 DEF Push, MatchingTypeOK
  <1> QED BY <1>3, <1>4

LEMMA PollType ==
  ASSUME MatchingTypeOK, NEW p \in Polls, NEW tq \in TaskQueues, NEW kind \in Kinds,
         PollTaskQueue(p, tq, kind)
  PROVE  MatchingTypeOK'
  <1> DEFINE k == QueueKey(tq, kind)
  <1>1. k \in Keys /\ lists[k] \in Seq(Tasks) /\ blocked[k] \in Seq(Polls)
    BY QueueKeyType DEF MatchingTypeOK
  <1>2. CASE lists[k] # <<>>
    <2> DEFINE poll == [pc |-> "popped", queue |-> tq, kind |-> kind, open |-> TRUE,
                        task |-> Head(lists[k])]
    <2>1. Head(lists[k]) \in Tasks /\ Tail(lists[k]) \in Seq(Tasks)
      BY <1>1, <1>2
    <2>2. poll \in Poll
      BY <2>1 DEF Poll
    <2>3. /\ polls' = [polls EXCEPT ![p] = poll]
          /\ lists' = [lists EXCEPT ![k] = Tail(lists[k])] /\ UNCHANGED blocked
      BY <1>2 DEF PollTaskQueue
    <2> HIDE DEF poll, k
    <2> QED BY <1>1, <2>1, <2>2, <2>3 DEF PollTaskQueue, MatchingTypeOK
  <1>3. CASE lists[k] = <<>>
    <2> DEFINE poll == [pc |-> "blocked", queue |-> tq, kind |-> kind, open |-> TRUE]
    <2>1. poll \in Poll
      BY DEF Poll
    <2>2. /\ polls' = [polls EXCEPT ![p] = poll]
          /\ blocked' = [blocked EXCEPT ![k] = Append(blocked[k], p)] /\ UNCHANGED lists
      BY <1>3 DEF PollTaskQueue
    <2>3. Append(blocked[k], p) \in Seq(Polls)
      BY <1>1
    <2> HIDE DEF poll, k
    <2> QED BY <1>1, <2>1, <2>2, <2>3 DEF PollTaskQueue, MatchingTypeOK
  <1> QED BY <1>2, <1>3

LEMMA ServeType ==
  ASSUME MatchingTypeOK, NEW p \in Polls, Serve(p)
  PROVE  MatchingTypeOK'
  <1>1. polls' \in [Polls -> Poll]
    BY DEF Serve, PopTimesOut, ReplyArrives, ReplyIsLost, MatchingTypeOK, Poll
  <1>2. CASE PopTimesOut(p)
    <2> DEFINE k == QueueKey(polls[p].queue, polls[p].kind)
    <2>1. k \in Keys /\ blocked[k] \in Seq(Polls)
      BY <1>2, PollShape, QueueKeyType DEF PopTimesOut, MatchingTypeOK
    <2>2. PICK i \in DOMAIN blocked[k] : blocked' = [blocked EXCEPT ![k] =
             [j \in 1 .. Len(@) - 1 |-> IF j < i THEN @[j] ELSE @[j + 1]]]
      BY <1>2 DEF PopTimesOut, Unblock
    <2> DEFINE rest == [j \in 1 .. Len(blocked[k]) - 1 |->
                          IF j < i THEN blocked[k][j] ELSE blocked[k][j + 1]]
    <2>3. rest \in Seq(Polls)
      BY <2>1
    <2>4. blocked' = [blocked EXCEPT ![k] = rest]
      BY <2>1, <2>2 DEF MatchingTypeOK
    <2> HIDE DEF rest, k
    <2>5. blocked' \in [Keys -> Seq(Polls)]
      BY <2>1, <2>3, <2>4 DEF MatchingTypeOK
    <2> QED BY <1>1, <1>2, <2>5 DEF PopTimesOut, MatchingTypeOK
  <1>3. CASE ReplyArrives(p)
    BY <1>1, <1>3, PollShape DEF ReplyArrives, MatchingTypeOK
  <1>4. CASE ReplyIsLost(p)
    BY <1>1, <1>4 DEF ReplyIsLost, MatchingTypeOK
  <1> QED BY <1>2, <1>3, <1>4 DEF Serve

LEMMA GivesUpType ==
  ASSUME MatchingTypeOK, NEW p \in Polls, CallerGivesUp(p)
  PROVE  MatchingTypeOK'
  <1>1. [polls[p] EXCEPT !.open = FALSE] \in Poll
    BY PollShape DEF CallerGivesUp, Poll
  <1>2. polls' \in [Polls -> Poll]
    BY <1>1 DEF CallerGivesUp, MatchingTypeOK
  <1> QED BY <1>2 DEF CallerGivesUp, MatchingTypeOK

LEMMA MatchingCrashType ==
  ASSUME MatchingTypeOK, MatchingCrash
  PROVE  MatchingTypeOK'
  <1> DEFINE open == {p \in Polls : polls[p] # Idle /\ polls[p].open}
  <1>1. Cardinality(open) \in Nat
    BY MatchingAssumption, FS_Subset, FS_CardinalityType
  <1>2. cutOff' \in Nat
    BY <1>1 DEF MatchingCrash, MatchingTypeOK
  <1>3. adds' \in [Tasks -> Add]
    BY DEF MatchingCrash, MatchingTypeOK, Add
  <1> QED BY <1>2, <1>3 DEF MatchingCrash, MatchingTypeOK, Poll, Idle

--------------------------------------------------------------------------------
(* The inductive invariant *)

\* What adding does: only a task that is in no list, no poll and no reply changes.
LEMMA AddsInv ==
  ASSUME MatchingInv, MatchingTypeOK', NEW t \in Tasks,
         UNCHANGED <<lists, blocked, polls, received>>, adds[t].pc \in {"new", "push"},
         \A u \in Tasks \ {t} : adds'[u] = adds[u]
  PROVE  MatchingInv'
  <1>1. ~Listed(t) /\ ~Popped(t) /\ t \notin received
    BY DEF MatchingInv, InOnePlace
  <1>2. \A k \in Keys : \A i \in DOMAIN lists[k] : lists[k][i] \in Tasks \ {t}
    BY <1>1 DEF MatchingInv, MatchingTypeOK, Listed
  <1>3. \A p \in Polls : polls[p].pc = "popped" => polls[p].task \in Tasks \ {t}
    BY <1>1, PollShape DEF MatchingInv, Popped, Has
  <1>4. ListsMatch'
    BY <1>2 DEF MatchingInv, ListsMatch
  <1>5. BlockedMatch'
    BY DEF MatchingInv, BlockedMatch
  <1>6. TasksMatchPolls'
    BY <1>3 DEF MatchingInv, TasksMatchPolls
  <1>7. InOnePlace'
    BY <1>1 DEF MatchingInv, InOnePlace, Listed, Popped, Has
  <1> QED BY <1>4, <1>5, <1>6, <1>7 DEF MatchingInv

LEMMA PushInv ==
  ASSUME MatchingInv, NEW t \in Tasks, Push(t)
  PROVE  MatchingInv'
  <1> DEFINE k == QueueKey(adds[t].queue, adds[t].kind)
  <1>1. MatchingTypeOK /\ MatchingTypeOK'
    BY PushType DEF MatchingInv
  <1>2. adds[t] \in [pc : {"push", "pushed"}, queue : TaskQueues, kind : Kinds] /\ k \in Keys
    BY <1>1, AddShape, QueueKeyType DEF Push
  <1>3. ~Listed(t) /\ ~Popped(t) /\ t \notin received
    BY DEF MatchingInv, InOnePlace, Push
  <1>4. /\ adds'[t].pc = "pushed" /\ adds'[t].queue = adds[t].queue /\ adds'[t].kind = adds[t].kind
        /\ \A u \in Tasks \ {t} : adds'[u] = adds[u]
        /\ received' = received /\ k = QueueKey(adds'[t].queue, adds'[t].kind)
    BY <1>1, <1>2 DEF Push, MatchingTypeOK
  <1>5. CASE blocked[k] = <<>>
    <2>1. lists' = [lists EXCEPT ![k] = Append(lists[k], t)] /\ UNCHANGED <<blocked, polls>>
      BY <1>5 DEF Push
    <2> DEFINE n == Len(lists[k])
    <2>2. lists[k] \in Seq(Tasks) /\ n \in Nat /\ DOMAIN lists[k] = 1 .. n
      BY <1>1, <1>2 DEF MatchingTypeOK
    <2>3. /\ DOMAIN lists'[k] = 1 .. n + 1 /\ lists'[k][n + 1] = t
          /\ \A i \in 1 .. n : lists'[k][i] = lists[k][i]
          /\ \A l \in Keys \ {k} : lists'[l] = lists[l]
      BY <1>1, <1>2, <2>1, <2>2 DEF MatchingTypeOK
    <2> HIDE DEF n
    <2>4. \A l \in Keys : \A i \in DOMAIN lists'[l] :
            \/ l = k /\ i = n + 1 /\ lists'[l][i] = t
            \/ i \in DOMAIN lists[l] /\ lists'[l][i] = lists[l][i] /\ lists[l][i] # t
      BY <1>3, <2>2, <2>3 DEF Listed
    <2>5. ListsMatch'
      <3> HIDE DEF k
      <3> SUFFICES ASSUME NEW l \in Keys, NEW i \in DOMAIN lists'[l]
                   PROVE  /\ adds'[lists'[l][i]].pc = "pushed"
                          /\ l = QueueKey(adds'[lists'[l][i]].queue, adds'[lists'[l][i]].kind)
        BY DEF ListsMatch
      <3>1. CASE lists'[l][i] = t /\ l = k
        BY <1>4, <3>1
      <3>2. CASE i \in DOMAIN lists[l] /\ lists'[l][i] = lists[l][i] /\ lists[l][i] # t
        <4>1. lists[l][i] \in Tasks
          BY <1>1, <3>2 DEF MatchingTypeOK
        <4> QED BY <1>4, <3>2, <4>1 DEF MatchingInv, ListsMatch
      <3> QED BY <2>4, <3>1, <3>2
    <2>6. BlockedMatch'
      BY <2>1 DEF MatchingInv, BlockedMatch
    <2>7. \A p \in Polls : polls[p].pc = "popped" => polls[p].task \in Tasks \ {t}
      BY <1>1, <1>3, PollShape DEF Popped, Has
    <2>8. TasksMatchPolls'
      BY <1>4, <2>1, <2>7 DEF MatchingInv, TasksMatchPolls
    <2>9. \A u \in Tasks : (Listed(u)' => u = t \/ Listed(u)) /\ (Popped(u)' <=> Popped(u))
      <3>1. \A u \in Tasks : Listed(u)' => u = t \/ Listed(u)
        BY <2>4 DEF Listed
      <3>2. \A u \in Tasks : Popped(u)' <=> Popped(u)
        BY <2>1 DEF Popped, Has
      <3> QED BY <3>1, <3>2
    <2>10. \A l, m \in Keys : \A i \in DOMAIN lists'[l], j \in DOMAIN lists'[m] :
             lists'[l][i] = lists'[m][j] => l = m /\ i = j
      BY <2>4 DEF MatchingInv, InOnePlace
    <2>11. InOnePlace'
      <3>1. \A u \in Tasks : \A q, r \in Polls : Has(q, u)' /\ Has(r, u)' => q = r
        BY <2>1 DEF MatchingInv, InOnePlace, Has
      <3> QED BY <1>3, <1>4, <2>9, <2>10, <3>1 DEF MatchingInv, InOnePlace
    <2> QED BY <1>1, <2>5, <2>6, <2>8, <2>11 DEF MatchingInv
  <1>6. CASE blocked[k] # <<>>
    <2> DEFINE p == Head(blocked[k])
    <2>1. /\ blocked[k] \in Seq(Polls) /\ p \in Polls /\ p = blocked[k][1]
          /\ 1 \in DOMAIN blocked[k]
      BY <1>1, <1>2, <1>6 DEF MatchingTypeOK
    <2>2. polls[p].pc = "blocked" /\ k = QueueKey(polls[p].queue, polls[p].kind)
      BY <1>2, <2>1 DEF MatchingInv, BlockedMatch
    <2>3. /\ polls'[p].pc = "popped" /\ polls'[p].task = t
          /\ polls'[p].queue = polls[p].queue /\ polls'[p].kind = polls[p].kind
          /\ \A q \in Polls \ {p} : polls'[q] = polls[q]
          /\ blocked' = [blocked EXCEPT ![k] = Tail(blocked[k])] /\ UNCHANGED lists
      <3> DEFINE poll == [pc |-> "popped", queue |-> polls[p].queue, kind |-> polls[p].kind,
                          open |-> polls[p].open, task |-> t]
      <3>1. /\ polls' = [polls EXCEPT ![p] = poll]
            /\ blocked' = [blocked EXCEPT ![k] = Tail(blocked[k])] /\ UNCHANGED lists
        BY <1>6 DEF Push
      <3>2. /\ poll.pc = "popped" /\ poll.task = t
            /\ poll.queue = polls[p].queue /\ poll.kind = polls[p].kind
        OBVIOUS
      <3> HIDE DEF poll, p, k
      <3> QED BY <1>1, <2>1, <3>1, <3>2 DEF MatchingTypeOK
    <2> HIDE DEF p
    <2>4. \A l \in Keys : \A i \in DOMAIN lists[l] : lists[l][i] \in Tasks \ {t}
      BY <1>1, <1>3 DEF MatchingTypeOK, Listed
    <2>5. ListsMatch'
      BY <1>4, <2>3, <2>4 DEF MatchingInv, ListsMatch
    <2>6. \A l \in Keys : \A i \in DOMAIN blocked'[l] :
            \E j \in DOMAIN blocked[l] :
              /\ blocked'[l][i] = blocked[l][j] /\ blocked[l][j] # p
              /\ j = IF l = k THEN i + 1 ELSE i
      <3> SUFFICES ASSUME NEW l \in Keys, NEW i \in DOMAIN blocked'[l]
                   PROVE  \E j \in DOMAIN blocked[l] :
                            /\ blocked'[l][i] = blocked[l][j] /\ blocked[l][j] # p
                            /\ j = IF l = k THEN i + 1 ELSE i
        OBVIOUS
      <3>1. CASE l = k
        <4> HIDE DEF k
        <4>1. blocked'[l] = Tail(blocked[k])
          BY <1>1, <1>2, <2>3, <3>1 DEF MatchingTypeOK
        <4>2. i + 1 \in DOMAIN blocked[k] /\ i + 1 # 1 /\ Tail(blocked[k])[i] = blocked[k][i + 1]
          BY <1>6, <2>1, <3>1, <4>1
        <4>3. blocked[k][i + 1] # p
          BY <1>2, <2>1, <4>2 DEF MatchingInv, BlockedMatch
        <4> QED BY <3>1, <4>1, <4>2, <4>3
      <3>2. CASE l # k
        <4>1. blocked'[l] = blocked[l]
          BY <1>1, <1>2, <2>3, <3>2 DEF MatchingTypeOK
        <4>2. blocked[l][i] # p
          BY <2>2, <3>2, <4>1 DEF MatchingInv, BlockedMatch
        <4> QED BY <3>2, <4>1, <4>2
      <3> QED BY <3>1, <3>2
    <2>7. BlockedMatch'
      <3> HIDE DEF k
      <3> SUFFICES ASSUME NEW l \in Keys, NEW i \in DOMAIN blocked'[l]
                   PROVE  /\ polls'[blocked'[l][i]].pc = "blocked"
                          /\ l = QueueKey(polls'[blocked'[l][i]].queue, polls'[blocked'[l][i]].kind)
                          /\ \A j \in DOMAIN blocked'[l] : blocked'[l][i] = blocked'[l][j] => i = j
        BY DEF BlockedMatch
      <3>1. blocked'[l] \in Seq(Polls) /\ blocked'[l][i] \in Polls
        BY <1>1 DEF MatchingTypeOK
      <3> QED BY <2>3, <2>6, <3>1 DEF MatchingInv, BlockedMatch
    <2>8. TasksMatchPolls'
      <3>1. \A q \in Polls : polls[q].pc = "popped" => polls[q].task \in Tasks \ {t}
        BY <1>1, <1>3, PollShape DEF Popped, Has
      <3>2. adds[t].queue = polls[p].queue /\ adds[t].kind = polls[p].kind
        BY <2>2 DEF QueueKey
      <3> HIDE DEF k
      <3>3. \A q \in Polls \ {p} : polls[q].pc = "popped" => adds'[polls[q].task] = adds[polls[q].task]
        BY <1>4, <3>1
      <3>4. \A q \in Polls \ {p} : polls[q].pc = "popped" =>
              adds'[polls[q].task].queue = polls[q].queue /\ adds'[polls[q].task].kind = polls[q].kind
        BY <3>3 DEF MatchingInv, TasksMatchPolls
      <3>5. adds'[t].queue = polls'[p].queue /\ adds'[t].kind = polls'[p].kind
        BY <1>4, <2>3, <3>2
      <3> QED BY <2>3, <3>4, <3>5 DEF TasksMatchPolls
    <2>9. \A q \in Polls, u \in Tasks : Has(q, u)' <=> IF q = p THEN u = t ELSE Has(q, u)
      BY <2>3 DEF Has
    <2>10. \A u \in Tasks : (Listed(u)' <=> Listed(u)) /\ (Popped(u)' <=> u = t \/ Popped(u))
      BY <2>1, <2>2, <2>3, <2>9 DEF Listed, Popped, Has
    <2>11. InOnePlace'
      BY <1>3, <1>4, <2>3, <2>9, <2>10 DEF MatchingInv, InOnePlace, Popped
    <2> QED BY <1>1, <2>5, <2>7, <2>8, <2>11 DEF MatchingInv
  <1> QED BY <1>5, <1>6

\* A poll that finds a task takes the first one.
LEMMA PollPopsInv ==
  ASSUME MatchingInv, NEW p \in Polls, NEW tq \in TaskQueues, NEW kind \in Kinds,
         PollTaskQueue(p, tq, kind), lists[QueueKey(tq, kind)] # <<>>
  PROVE  MatchingInv'
  <1> DEFINE k == QueueKey(tq, kind)
             t == Head(lists[k])
  <1>1. MatchingTypeOK /\ MatchingTypeOK'
    BY PollType DEF MatchingInv
  <1>2. /\ k \in Keys /\ lists[k] \in Seq(Tasks) /\ t \in Tasks
        /\ 1 \in DOMAIN lists[k] /\ lists[k][1] = t
    BY <1>1, QueueKeyType DEF MatchingTypeOK
  <1>3. /\ polls[p] = Idle /\ polls' = [polls EXCEPT ![p] =
             [pc |-> "popped", queue |-> tq, kind |-> kind, open |-> TRUE, task |-> t]]
        /\ lists' = [lists EXCEPT ![k] = Tail(lists[k])] /\ UNCHANGED <<blocked, adds, received>>
    BY DEF PollTaskQueue
  <1>4. adds[t].pc = "pushed" /\ k = QueueKey(adds[t].queue, adds[t].kind)
    BY <1>2 DEF MatchingInv, ListsMatch
  <1>5. adds[t].queue = tq /\ adds[t].kind = kind
    BY <1>4 DEF QueueKey
  <1> HIDE DEF k, t
  <1>6. Listed(t) /\ ~Popped(t) /\ t \notin received
    BY <1>2 DEF MatchingInv, InOnePlace, Listed
  <1>7. /\ polls'[p].pc = "popped" /\ polls'[p].task = t
        /\ polls'[p].queue = tq /\ polls'[p].kind = kind
        /\ \A q \in Polls \ {p} : polls'[q] = polls[q]
    BY <1>1, <1>3 DEF MatchingTypeOK
  <1>8. \A l \in Keys : \A i \in DOMAIN lists'[l] :
          \E j \in DOMAIN lists[l] :
            /\ lists'[l][i] = lists[l][j] /\ lists[l][j] # t
            /\ j = IF l = k THEN i + 1 ELSE i
    <2> SUFFICES ASSUME NEW l \in Keys, NEW i \in DOMAIN lists'[l]
                 PROVE  \E j \in DOMAIN lists[l] :
                          /\ lists'[l][i] = lists[l][j] /\ lists[l][j] # t
                          /\ j = IF l = k THEN i + 1 ELSE i
      OBVIOUS
    <2>1. CASE l = k
      <3>1. lists'[l] = Tail(lists[k])
        BY <1>1, <1>2, <1>3, <2>1 DEF MatchingTypeOK
      <3>2. i + 1 \in DOMAIN lists[k] /\ i + 1 # 1 /\ Tail(lists[k])[i] = lists[k][i + 1]
        BY <1>2, <3>1
      <3>3. lists[k][i + 1] # t
        BY <1>2, <3>2 DEF MatchingInv, InOnePlace
      <3> QED BY <2>1, <3>1, <3>2, <3>3
    <2>2. CASE l # k
      <3>1. lists'[l] = lists[l]
        BY <1>1, <1>2, <1>3, <2>2 DEF MatchingTypeOK
      <3>2. lists[l][i] # t
        BY <1>2, <2>2, <3>1 DEF MatchingInv, InOnePlace
      <3> QED BY <2>2, <3>1, <3>2
    <2> QED BY <2>1, <2>2
  <1>9. ListsMatch'
    <2> SUFFICES ASSUME NEW l \in Keys, NEW i \in DOMAIN lists'[l]
                 PROVE  /\ adds[lists'[l][i]].pc = "pushed"
                        /\ l = QueueKey(adds[lists'[l][i]].queue, adds[lists'[l][i]].kind)
      BY <1>3 DEF ListsMatch
    <2> QED BY <1>8 DEF MatchingInv, ListsMatch
  <1>10. BlockedMatch'
    <2>1. \A l \in Keys : \A i \in DOMAIN blocked[l] : blocked[l][i] \in Polls \ {p}
      BY <1>1, <1>3 DEF MatchingInv, BlockedMatch, MatchingTypeOK, Idle
    <2> QED BY <1>3, <1>7, <2>1 DEF MatchingInv, BlockedMatch
  <1>11. TasksMatchPolls'
    BY <1>3, <1>5, <1>7 DEF MatchingInv, TasksMatchPolls
  <1>12. \A q \in Polls, u \in Tasks : Has(q, u)' <=> IF q = p THEN u = t ELSE Has(q, u)
    BY <1>7 DEF Has
  <1>13. \A u \in Tasks : /\ Listed(u)' => Listed(u) /\ u # t
                          /\ Popped(u)' => u = t \/ Popped(u)
    <2>1. \A u \in Tasks : Listed(u)' => Listed(u) /\ u # t
      BY <1>8 DEF Listed
    <2>2. \A u \in Tasks : Popped(u)' => u = t \/ Popped(u)
      BY <1>12 DEF Popped
    <2> QED BY <2>1, <2>2
  <1>14. InOnePlace'
    <2>1. \A l, m \in Keys : \A i \in DOMAIN lists'[l], j \in DOMAIN lists'[m] :
            lists'[l][i] = lists'[m][j] => l = m /\ i = j
      <3> SUFFICES ASSUME NEW l \in Keys, NEW m \in Keys, NEW i \in DOMAIN lists'[l],
                          NEW j \in DOMAIN lists'[m], lists'[l][i] = lists'[m][j]
                   PROVE  l = m /\ i = j
        OBVIOUS
      <3>1. PICK h \in DOMAIN lists[l] :
              lists'[l][i] = lists[l][h] /\ h = IF l = k THEN i + 1 ELSE i
        BY <1>8
      <3>2. PICK n \in DOMAIN lists[m] :
              lists'[m][j] = lists[m][n] /\ n = IF m = k THEN j + 1 ELSE j
        BY <1>8
      <3>3. l = m /\ h = n
        <4>1. lists[l][h] = lists[m][n]
          BY <3>1, <3>2
        <4>2. \A x, y \in Keys : \A f \in DOMAIN lists[x], g \in DOMAIN lists[y] :
                lists[x][f] = lists[y][g] => x = y /\ f = g
          BY DEF MatchingInv, InOnePlace
        <4> QED BY <4>1, <4>2
      <3>4. i \in Nat /\ j \in Nat
        BY <1>1 DEF MatchingTypeOK
      <3> QED BY <3>1, <3>2, <3>3, <3>4
    <2>2. \A u \in Tasks : \A q, r \in Polls : Has(q, u)' /\ Has(r, u)' => q = r
      BY <1>6, <1>12 DEF MatchingInv, InOnePlace, Popped
    <2> QED BY <1>3, <1>4, <1>6, <1>13, <2>1, <2>2 DEF MatchingInv, InOnePlace
  <1> QED BY <1>1, <1>9, <1>10, <1>11, <1>14 DEF MatchingInv

\* A poll that finds none is blocked behind the others.
LEMMA PollBlocksInv ==
  ASSUME MatchingInv, NEW p \in Polls, NEW tq \in TaskQueues, NEW kind \in Kinds,
         PollTaskQueue(p, tq, kind), lists[QueueKey(tq, kind)] = <<>>
  PROVE  MatchingInv'
  <1> DEFINE k == QueueKey(tq, kind)
             n == Len(blocked[k])
  <1>1. MatchingTypeOK /\ MatchingTypeOK'
    BY PollType DEF MatchingInv
  <1>2. /\ k \in Keys /\ blocked[k] \in Seq(Polls)
        /\ n \in Nat /\ DOMAIN blocked[k] = 1 .. n
    BY <1>1, QueueKeyType DEF MatchingTypeOK
  <1>3. /\ polls[p] = Idle /\ polls' = [polls EXCEPT ![p] =
             [pc |-> "blocked", queue |-> tq, kind |-> kind, open |-> TRUE]]
        /\ blocked' = [blocked EXCEPT ![k] = Append(blocked[k], p)]
        /\ UNCHANGED <<lists, adds, received>>
    BY DEF PollTaskQueue
  <1>4. /\ polls'[p].pc = "blocked" /\ k = QueueKey(polls'[p].queue, polls'[p].kind)
        /\ \A q \in Polls \ {p} : polls'[q] = polls[q]
    BY <1>1, <1>3 DEF MatchingTypeOK
  <1> HIDE DEF k, n
  <1>5. \A l \in Keys : \A i \in DOMAIN blocked'[l] :
          \/ l = k /\ i = n + 1 /\ blocked'[l][i] = p
          \/ i \in DOMAIN blocked[l] /\ blocked'[l][i] = blocked[l][i] /\ blocked[l][i] # p
    <2>1. \A l \in Keys : \A i \in DOMAIN blocked[l] : blocked[l][i] # p
      BY <1>3 DEF MatchingInv, BlockedMatch, Idle
    <2>2. /\ DOMAIN blocked'[k] = 1 .. n + 1 /\ blocked'[k][n + 1] = p
          /\ \A i \in 1 .. n : blocked'[k][i] = blocked[k][i]
          /\ \A l \in Keys \ {k} : blocked'[l] = blocked[l]
      BY <1>1, <1>2, <1>3 DEF MatchingTypeOK, n
    <2>3. \A i \in 1 .. n + 1 : i = n + 1 \/ i \in 1 .. n
      BY <1>2
    <2> QED BY <1>2, <2>1, <2>2, <2>3
  <1>6. BlockedMatch'
    <2> SUFFICES ASSUME NEW l \in Keys, NEW i \in DOMAIN blocked'[l]
                 PROVE  /\ polls'[blocked'[l][i]].pc = "blocked"
                        /\ l = QueueKey(polls'[blocked'[l][i]].queue, polls'[blocked'[l][i]].kind)
                        /\ \A j \in DOMAIN blocked'[l] : blocked'[l][i] = blocked'[l][j] => i = j
      BY DEF BlockedMatch
    <2>1. CASE l = k /\ i = n + 1 /\ blocked'[l][i] = p
      BY <1>4, <1>5, <2>1
    <2>2. CASE i \in DOMAIN blocked[l] /\ blocked'[l][i] = blocked[l][i] /\ blocked[l][i] # p
      <3>1. blocked[l][i] \in Polls
        BY <1>1, <2>2 DEF MatchingTypeOK
      <3> QED BY <1>4, <1>5, <2>2, <3>1 DEF MatchingInv, BlockedMatch
    <2> QED BY <1>5, <2>1, <2>2
  <1>7. \A q \in Polls, u \in Tasks : Has(q, u)' <=> Has(q, u)
    BY <1>3, <1>4 DEF Has, Idle
  <1>8. TasksMatchPolls'
    BY <1>3, <1>4 DEF MatchingInv, TasksMatchPolls
  <1>9. \A u \in Tasks : (Listed(u)' <=> Listed(u)) /\ (Popped(u)' <=> Popped(u))
    BY <1>3, <1>7 DEF Listed, Popped
  <1>10. ListsMatch'
    BY <1>3 DEF MatchingInv, ListsMatch
  <1>11. InOnePlace'
    BY <1>3, <1>7, <1>9 DEF MatchingInv, InOnePlace
  <1> QED BY <1>1, <1>6, <1>8, <1>10, <1>11 DEF MatchingInv

LEMMA PopTimesOutInv ==
  ASSUME MatchingInv, NEW p \in Polls, PopTimesOut(p)
  PROVE  MatchingInv'
  <1> DEFINE k == QueueKey(polls[p].queue, polls[p].kind)
             n == Len(blocked[k])
  <1>1. MatchingTypeOK /\ MatchingTypeOK'
    BY ServeType DEF MatchingInv, Serve
  <1>2. k \in Keys /\ blocked[k] \in Seq(Polls) /\ n \in Nat /\ DOMAIN blocked[k] = 1 .. n
    BY <1>1, PollShape, QueueKeyType DEF PopTimesOut, MatchingTypeOK
  <1>3. /\ polls[p].pc = "blocked" /\ polls' = [polls EXCEPT ![p] = Idle]
        /\ UNCHANGED <<adds, lists, received>>
    BY DEF PopTimesOut
  <1>4. /\ polls'[p].pc = "idle" /\ \A q \in Polls \ {p} : polls'[q] = polls[q]
    BY <1>1, <1>3 DEF MatchingTypeOK, Idle
  <1>5. PICK h \in 1 .. n :
          /\ blocked[k][h] = p
          /\ blocked' = [blocked EXCEPT ![k] = [j \in 1 .. Len(blocked[k]) - 1 |->
                           IF j < h THEN blocked[k][j] ELSE blocked[k][j + 1]]]
    BY <1>2 DEF PopTimesOut, Unblock
  <1> HIDE DEF k, n
  <1>6. \A l \in Keys : \A i \in DOMAIN blocked'[l] :
          \E j \in DOMAIN blocked[l] :
            /\ blocked'[l][i] = blocked[l][j] /\ blocked[l][j] # p
            /\ j = IF l = k /\ i >= h THEN i + 1 ELSE i
    <2> SUFFICES ASSUME NEW l \in Keys, NEW i \in DOMAIN blocked'[l]
                 PROVE  \E j \in DOMAIN blocked[l] :
                          /\ blocked'[l][i] = blocked[l][j] /\ blocked[l][j] # p
                          /\ j = IF l = k /\ i >= h THEN i + 1 ELSE i
      OBVIOUS
    <2>1. CASE l = k
      <3> DEFINE j == IF i < h THEN i ELSE i + 1
      <3>1. i \in 1 .. n - 1 /\ blocked'[l][i] = IF i < h THEN blocked[k][i] ELSE blocked[k][i + 1]
        BY <1>1, <1>2, <1>5, <2>1 DEF MatchingTypeOK, n
      <3>2. j \in DOMAIN blocked[k] /\ j # h /\ blocked'[l][i] = blocked[k][j]
        BY <1>2, <3>1
      <3>3. blocked[k][j] # p
        BY <1>2, <1>5, <3>2 DEF MatchingInv, BlockedMatch
      <3> QED BY <1>2, <2>1, <3>1, <3>2, <3>3
    <2>2. CASE l # k
      <3>1. blocked'[l] = blocked[l]
        BY <1>1, <1>2, <1>5, <2>2 DEF MatchingTypeOK
      <3>2. blocked[l][i] # p
        BY <2>2, <3>1 DEF MatchingInv, BlockedMatch, k
      <3> QED BY <2>2, <3>1, <3>2
    <2> QED BY <2>1, <2>2
  <1>7. BlockedMatch'
    <2> SUFFICES ASSUME NEW l \in Keys, NEW i \in DOMAIN blocked'[l]
                 PROVE  /\ polls'[blocked'[l][i]].pc = "blocked"
                        /\ l = QueueKey(polls'[blocked'[l][i]].queue, polls'[blocked'[l][i]].kind)
                        /\ \A j \in DOMAIN blocked'[l] : blocked'[l][i] = blocked'[l][j] => i = j
      BY DEF BlockedMatch
    <2>1. PICK g \in DOMAIN blocked[l] :
            /\ blocked'[l][i] = blocked[l][g] /\ blocked[l][g] # p
            /\ g = IF l = k /\ i >= h THEN i + 1 ELSE i
      BY <1>6
    <2>2. blocked[l][g] \in Polls \ {p}
      BY <1>1, <2>1 DEF MatchingTypeOK
    <2>3. /\ polls'[blocked'[l][i]].pc = "blocked"
          /\ l = QueueKey(polls'[blocked'[l][i]].queue, polls'[blocked'[l][i]].kind)
      BY <1>4, <2>1, <2>2 DEF MatchingInv, BlockedMatch
    <2>4. ASSUME NEW j \in DOMAIN blocked'[l], blocked'[l][i] = blocked'[l][j]
          PROVE  i = j
      <3>1. PICK f \in DOMAIN blocked[l] :
              /\ blocked'[l][j] = blocked[l][f]
              /\ f = IF l = k /\ j >= h THEN j + 1 ELSE j
        BY <1>6
      <3>2. f = g
        BY <2>1, <2>4, <3>1 DEF MatchingInv, BlockedMatch
      <3>3. i \in Nat /\ j \in Nat
        BY <1>1 DEF MatchingTypeOK
      <3> QED BY <2>1, <3>1, <3>2, <3>3
    <2> QED BY <2>3, <2>4
  <1>8. \A q \in Polls, u \in Tasks : Has(q, u)' <=> Has(q, u)
    BY <1>3, <1>4 DEF Has
  <1>9. TasksMatchPolls'
    BY <1>3, <1>4 DEF MatchingInv, TasksMatchPolls
  <1>10. \A u \in Tasks : (Listed(u)' <=> Listed(u)) /\ (Popped(u)' <=> Popped(u))
    BY <1>3, <1>8 DEF Listed, Popped
  <1>11. ListsMatch'
    BY <1>3 DEF MatchingInv, ListsMatch
  <1>12. InOnePlace'
    BY <1>3, <1>8, <1>10 DEF MatchingInv, InOnePlace
  <1> QED BY <1>1, <1>7, <1>9, <1>11, <1>12 DEF MatchingInv

\* A poll that has popped a task comes to its end.
LEMMA ReplyInv ==
  ASSUME MatchingInv, NEW p \in Polls, ReplyArrives(p) \/ ReplyIsLost(p)
  PROVE  MatchingInv'
  <1>1. MatchingTypeOK /\ MatchingTypeOK'
    BY ServeType DEF MatchingInv, Serve
  <1>2. PICK t \in Tasks :
        /\ polls[p].pc = "popped" /\ Has(p, t)
        /\ polls' = [polls EXCEPT ![p] = Idle]
        /\ received' \in {received, received \cup {t}} /\ UNCHANGED <<adds, lists, blocked>>
    BY <1>1, PollShape DEF ReplyArrives, ReplyIsLost, Has
  <1>3. polls'[p].pc = "idle" /\ \A q \in Polls \ {p} : polls'[q] = polls[q]
    BY <1>1, <1>2 DEF MatchingTypeOK, Idle
  <1>4. \A q \in Polls, u \in Tasks : Has(q, u)' <=> q # p /\ Has(q, u)
    BY <1>3 DEF Has
  <1>5. /\ \A u \in Tasks : (Listed(u)' <=> Listed(u)) /\ (Popped(u)' => Popped(u))
        /\ ~Popped(t)' /\ Popped(t)
    <2>1. \A u \in Tasks : Listed(u)' <=> Listed(u)
      BY <1>2 DEF Listed
    <2>2. \A u \in Tasks : Popped(u)' => Popped(u)
      BY <1>4 DEF Popped
    <2>3. ~Popped(t)'
      <3>1. \A q \in Polls : Has(q, t) => q = p
        BY <1>2 DEF MatchingInv, InOnePlace
      <3>2. \A q \in Polls : ~Has(q, t)'
        BY <1>2, <1>4, <3>1
      <3> QED BY <3>2 DEF Popped
    <2> QED BY <1>2, <2>1, <2>2, <2>3 DEF Popped
  <1>6. BlockedMatch'
    <2>1. \A l \in Keys : \A i \in DOMAIN blocked[l] : blocked[l][i] \in Polls \ {p}
      BY <1>1, <1>2 DEF MatchingInv, BlockedMatch, MatchingTypeOK
    <2> QED BY <1>2, <1>3, <2>1 DEF MatchingInv, BlockedMatch
  <1>7. TasksMatchPolls'
    BY <1>2, <1>3 DEF MatchingInv, TasksMatchPolls
  <1>8. ListsMatch'
    BY <1>2 DEF MatchingInv, ListsMatch
  <1>9. InOnePlace'
    <2>1. \A l, m \in Keys : \A i \in DOMAIN lists'[l], j \in DOMAIN lists'[m] :
            lists'[l][i] = lists'[m][j] => l = m /\ i = j
      BY <1>2 DEF MatchingInv, InOnePlace
    <2>2. \A u \in Tasks : \A q, r \in Polls : Has(q, u)' /\ Has(r, u)' => q = r
      BY <1>4 DEF MatchingInv, InOnePlace
    <2>3. \A u \in Tasks :
            /\ ~(Listed(u) /\ Popped(u)) /\ (u \in received => ~Listed(u) /\ ~Popped(u))
            /\ (Listed(u) \/ Popped(u) \/ u \in received => adds[u].pc = "pushed")
      BY DEF MatchingInv, InOnePlace
    <2>4. \A u \in Tasks :
            /\ ~(Listed(u) /\ Popped(u))' /\ (u \in received' => ~Listed(u)' /\ ~Popped(u)')
            /\ (Listed(u)' \/ Popped(u)' \/ u \in received' => adds'[u].pc = "pushed")
      BY <1>2, <1>5, <2>3
    <2> QED BY <2>1, <2>2, <2>4 DEF InOnePlace
  <1> QED BY <1>1, <1>6, <1>7, <1>8, <1>9 DEF MatchingInv

LEMMA GivesUpInv ==
  ASSUME MatchingInv, NEW p \in Polls, CallerGivesUp(p)
  PROVE  MatchingInv'
  <1>1. MatchingTypeOK /\ MatchingTypeOK'
    BY GivesUpType DEF MatchingInv
  <1>2. \A q \in Polls : /\ polls'[q].pc = polls[q].pc
                         /\ polls[q].pc \in {"blocked", "popped"} =>
                              polls'[q].queue = polls[q].queue /\ polls'[q].kind = polls[q].kind
                         /\ polls[q].pc = "popped" => polls'[q].task = polls[q].task
    <2>1. polls' = [polls EXCEPT ![p] = [polls[p] EXCEPT !.open = FALSE]]
      BY DEF CallerGivesUp
    <2> QED BY <1>1, <2>1, PollShape DEF CallerGivesUp, MatchingTypeOK
  <1>3. UNCHANGED <<adds, lists, blocked, received>>
    BY DEF CallerGivesUp
  <1>4. \A q \in Polls, u \in Tasks : Has(q, u)' <=> Has(q, u)
    BY <1>2 DEF Has
  <1>5. BlockedMatch'
    <2>1. \A l \in Keys : \A i \in DOMAIN blocked[l] : blocked[l][i] \in Polls
      BY <1>1 DEF MatchingTypeOK
    <2> QED BY <1>2, <1>3, <2>1 DEF MatchingInv, BlockedMatch
  <1>6. TasksMatchPolls'
    BY <1>2, <1>3 DEF MatchingInv, TasksMatchPolls
  <1>7. \A u \in Tasks : (Listed(u)' <=> Listed(u)) /\ (Popped(u)' <=> Popped(u))
    BY <1>3, <1>4 DEF Listed, Popped
  <1>8. ListsMatch'
    BY <1>3 DEF MatchingInv, ListsMatch
  <1>9. InOnePlace'
    BY <1>3, <1>4, <1>7 DEF MatchingInv, InOnePlace
  <1> QED BY <1>1, <1>5, <1>6, <1>8, <1>9 DEF MatchingInv

LEMMA MatchingCrashInv ==
  ASSUME MatchingInv, MatchingCrash
  PROVE  MatchingInv'
  <1>1. MatchingTypeOK /\ MatchingTypeOK'
    BY MatchingCrashType DEF MatchingInv
  <1>2. /\ \A q \in Polls : polls'[q].pc = "idle"
        /\ \A l \in Keys : DOMAIN blocked'[l] = {}
        /\ \A u \in Tasks : adds[u].pc = "pushed" => adds'[u] = adds[u]
        /\ UNCHANGED <<lists, received>>
    BY DEF MatchingCrash, Idle, MatchingTypeOK
  <1>3. BlockedMatch' /\ TasksMatchPolls'
    BY <1>2 DEF BlockedMatch, TasksMatchPolls
  <1>4. ListsMatch'
    <2>1. \A l \in Keys : \A i \in DOMAIN lists[l] : lists[l][i] \in Tasks
      BY <1>1 DEF MatchingTypeOK
    <2> QED BY <1>2, <2>1 DEF MatchingInv, ListsMatch
  <1>5. \A u \in Tasks : (Listed(u)' <=> Listed(u)) /\ ~Popped(u)'
    BY <1>2 DEF Listed, Popped, Has
  <1>6. InOnePlace'
    <2>1. \A u \in Tasks : \A q, r \in Polls : ~Has(q, u)'
      BY <1>2 DEF Has
    <2>2. \A u \in Tasks : Listed(u) \/ u \in received => adds[u].pc = "pushed" /\ adds'[u] = adds[u]
      BY <1>2 DEF MatchingInv, InOnePlace
    <2>3. \A u \in Tasks : u \in received => ~Listed(u)
      BY DEF MatchingInv, InOnePlace
    <2>4. \A l, m \in Keys : \A i \in DOMAIN lists'[l], j \in DOMAIN lists'[m] :
            lists'[l][i] = lists'[m][j] => l = m /\ i = j
      BY <1>2 DEF MatchingInv, InOnePlace
    <2> QED BY <1>2, <1>5, <2>1, <2>2, <2>3, <2>4 DEF InOnePlace
  <1> QED BY <1>1, <1>3, <1>4, <1>6 DEF MatchingInv

LEMMA MatchingStepInv ==
  ASSUME MatchingInv, [MatchingNext]_matchingVars
  PROVE  MatchingInv'
  <1>0. MatchingTypeOK
    BY DEF MatchingInv
  <1>1. ASSUME NEW t \in Tasks, NEW tq \in TaskQueues \cup {NoQueue}, NEW kind \in Kinds,
               AddTask(t, tq, kind)
        PROVE  MatchingInv'
    <2>1. MatchingTypeOK'
      BY <1>0, <1>1, AddTaskType
    <2>2. \A u \in Tasks \ {t} : adds'[u] = adds[u]
      BY <1>0, <1>1 DEF AddTask, MatchingTypeOK
    <2> QED BY <1>1, <2>1, <2>2, AddsInv DEF AddTask
  <1>2. ASSUME NEW t \in Tasks, PushFails(t)
        PROVE  MatchingInv'
    <2>1. adds' = [adds EXCEPT ![t] = [pc |-> "failed"]]
      BY <1>2 DEF PushFails
    <2>2. MatchingTypeOK'
      BY <1>0, <1>2, <2>1 DEF PushFails, MatchingTypeOK, Add
    <2>3. \A u \in Tasks \ {t} : adds'[u] = adds[u]
      BY <1>0, <2>1 DEF MatchingTypeOK
    <2> QED BY <1>2, <2>2, <2>3, AddsInv DEF PushFails
  <1>3. ASSUME NEW p \in Polls, NEW tq \in TaskQueues, NEW kind \in Kinds,
               PollTaskQueue(p, tq, kind)
        PROVE  MatchingInv'
    BY <1>3, PollPopsInv, PollBlocksInv
  <1>4. CASE UNCHANGED matchingVars
    BY <1>4 DEF matchingVars, MatchingInv, MatchingTypeOK, ListsMatch, BlockedMatch,
                TasksMatchPolls, InOnePlace, Listed, Popped, Has
  <1> QED BY <1>1, <1>2, <1>3, <1>4, PushInv, PopTimesOutInv, ReplyInv, GivesUpInv,
             MatchingCrashInv DEF MatchingNext, Serve

LEMMA MatchingInitInv == MatchingInit => MatchingInv
  <1> SUFFICES ASSUME MatchingInit PROVE MatchingInv
    OBVIOUS
  <1>1. \A k \in Keys : DOMAIN lists[k] = {} /\ DOMAIN blocked[k] = {}
    BY DEF MatchingInit
  <1>2. \A p \in Polls : polls[p].pc = "idle"
    BY DEF MatchingInit, Idle
  <1>3. received = {}
    BY DEF MatchingInit
  <1> QED BY <1>1, <1>2, <1>3, MatchingInitType
          DEF MatchingInv, ListsMatch, BlockedMatch, TasksMatchPolls, InOnePlace, Listed, Popped, Has

\* Each list holds tasks that were added to it, each blocked client is a poll of its list,
\* each task is in one place: the invariant holds in every reachable state.
THEOREM MatchingInvariant == MatchingSpec => []MatchingInv
  <1>1. MatchingInv /\ [MatchingNext]_matchingVars => MatchingInv'
    BY MatchingStepInv
  <1> QED BY <1>1, MatchingInitInv, PTL DEF MatchingSpec

\* A task is once in one list, or with one poll, or received: it is never handed out
\* twice, and never both handed out and kept.
THEOREM TasksInOnePlace == MatchingSpec => []InOnePlace
  <1>1. MatchingInv => InOnePlace
    BY DEF MatchingInv
  <1> QED BY <1>1, MatchingInvariant, PTL

\* Polls get tasks of the queue and of the kind they have asked for.
THEOREM PollsGetTheirTasks == MatchingSpec => []TasksMatchPolls
  <1>1. MatchingInv => TasksMatchPolls
    BY DEF MatchingInv
  <1> QED BY <1>1, MatchingInvariant, PTL

--------------------------------------------------------------------------------
(* Nobody waits for a task that is there *)

LEMMA NobodyWaitsStep ==
  ASSUME MatchingInv, NobodyWaits, [MatchingNext]_matchingVars
  PROVE  NobodyWaits'
  <1>0. MatchingTypeOK
    BY DEF MatchingInv
  <1>1. ASSUME NEW t \in Tasks, Push(t)
        PROVE  NobodyWaits'
    <2> DEFINE k == QueueKey(adds[t].queue, adds[t].kind)
    <2>1. k \in Keys
      BY <1>0, <1>1, AddShape, QueueKeyType DEF Push
    <2>2. \/ blocked[k] = <<>> /\ lists' = [lists EXCEPT ![k] = Append(@, t)] /\ UNCHANGED blocked
          \/ /\ blocked[k] # <<>> /\ UNCHANGED lists
             /\ blocked' = [blocked EXCEPT ![k] = Tail(@)]
      BY <1>1 DEF Push
    <2> HIDE DEF k
    <2> QED BY <1>0, <2>1, <2>2 DEF NobodyWaits, MatchingTypeOK
  <1>2. ASSUME NEW p \in Polls, NEW tq \in TaskQueues, NEW kind \in Kinds,
               PollTaskQueue(p, tq, kind)
        PROVE  NobodyWaits'
    <2> DEFINE k == QueueKey(tq, kind)
    <2>1. k \in Keys
      BY QueueKeyType
    <2>2. \/ lists[k] # <<>> /\ lists' = [lists EXCEPT ![k] = Tail(@)] /\ UNCHANGED blocked
          \/ /\ lists[k] = <<>> /\ UNCHANGED lists
             /\ blocked' = [blocked EXCEPT ![k] = Append(@, p)]
      BY <1>2 DEF PollTaskQueue
    <2> HIDE DEF k
    <2> QED BY <1>0, <2>1, <2>2 DEF NobodyWaits, MatchingTypeOK
  <1>3. ASSUME NEW p \in Polls, PopTimesOut(p)
        PROVE  NobodyWaits'
    <2> DEFINE k == QueueKey(polls[p].queue, polls[p].kind)
    <2>1. PICK i \in DOMAIN blocked[k] : blocked' = [blocked EXCEPT ![k] =
             [j \in 1 .. Len(@) - 1 |-> IF j < i THEN @[j] ELSE @[j + 1]]]
      BY <1>3 DEF PopTimesOut, Unblock
    <2>2. k \in Keys /\ UNCHANGED lists
      BY <1>0, <1>3, PollShape, QueueKeyType DEF PopTimesOut
    <2> HIDE DEF k
    <2>3. \A l \in Keys : blocked[l] = <<>> => blocked'[l] = <<>>
      BY <1>0, <2>1, <2>2 DEF MatchingTypeOK
    <2> QED BY <2>2, <2>3 DEF NobodyWaits
  <1>4. CASE MatchingCrash
    BY <1>4 DEF MatchingCrash, NobodyWaits
  <1>5. CASE UNCHANGED <<lists, blocked>>
    BY <1>5 DEF NobodyWaits
  <1> QED BY <1>1, <1>2, <1>3, <1>4, <1>5 DEF MatchingNext, Serve, AddTask, PushFails,
             ReplyArrives, ReplyIsLost, CallerGivesUp, matchingVars

\* No task waits in a list while a worker waits for it.
THEOREM NobodyEverWaits == MatchingSpec => []NobodyWaits
  <1>1. MatchingInit => NobodyWaits
    BY DEF MatchingInit, NobodyWaits
  <1>2. MatchingInv /\ NobodyWaits /\ [MatchingNext]_matchingVars => NobodyWaits'
    BY NobodyWaitsStep
  <1> QED BY <1>1, <1>2, MatchingInvariant, PTL DEF MatchingSpec

--------------------------------------------------------------------------------
(* Refinement *)

\* Where a task stands tells where it is.
LEMMA StandingOf ==
  MatchingInv =>
    \A t \in Tasks :
      /\ Standing(t) = "new" <=> adds[t].pc \in {"new", "push"}
      /\ Standing(t) = "refused" <=> adds[t].pc \in {"refused", "failed"}
      /\ Standing(t) = "received" <=> t \in received
      /\ Standing(t) = "queued" <=> Listed(t)
      /\ Standing(t) = "taken" <=> Popped(t)
  <1> SUFFICES ASSUME MatchingInv, NEW t \in Tasks
               PROVE  /\ Standing(t) = "new" <=> adds[t].pc \in {"new", "push"}
                      /\ Standing(t) = "refused" <=> adds[t].pc \in {"refused", "failed"}
                      /\ Standing(t) = "received" <=> t \in received
                      /\ Standing(t) = "queued" <=> Listed(t)
                      /\ Standing(t) = "taken" <=> Popped(t)
    OBVIOUS
  <1>1. /\ ~(Listed(t) /\ Popped(t))
        /\ t \in received => ~Listed(t) /\ ~Popped(t)
        /\ Listed(t) \/ Popped(t) \/ t \in received => adds[t].pc = "pushed"
    BY DEF MatchingInv, InOnePlace
  <1>2. adds[t].pc \in {"new", "refused", "failed", "push", "pushed"}
    BY DEF MatchingInv, MatchingTypeOK, Add
  <1> QED BY <1>1, <1>2 DEF Standing

LEMMA StandingNext ==
  ASSUME MatchingInv'
  PROVE  \A t \in Tasks :
      /\ Standing(t)' = "new" <=> adds'[t].pc \in {"new", "push"}
      /\ Standing(t)' = "refused" <=> adds'[t].pc \in {"refused", "failed"}
      /\ Standing(t)' = "received" <=> t \in received'
      /\ Standing(t)' = "queued" <=> Listed(t)'
      /\ Standing(t)' = "taken" <=> Popped(t)'
  <1>1. (MatchingInv =>
    \A t \in Tasks :
      /\ Standing(t) = "new" <=> adds[t].pc \in {"new", "push"}
      /\ Standing(t) = "refused" <=> adds[t].pc \in {"refused", "failed"}
      /\ Standing(t) = "received" <=> t \in received
      /\ Standing(t) = "queued" <=> Listed(t)
      /\ Standing(t) = "taken" <=> Popped(t))'
    BY StandingOf, PTL
  <1> QED BY <1>1

\* A task stays where it is.
LEMMA SameStanding ==
  ASSUME NEW t \in Tasks, Listed(t)' <=> Listed(t), Popped(t)' <=> Popped(t),
         t \in received' <=> t \in received, adds'[t].pc = adds[t].pc
  PROVE  Standing(t)' = Standing(t)
  BY DEF Standing

\* A step that moves one task is a step of the broker for that task.
LEMMA OneMoves ==
  ASSUME NEW t \in Tasks, NEW from, NEW to, Standing(t) = from, Standing(t)' = to,
         \A u \in Tasks \ {t} : Standing(u)' = Standing(u)
  PROVE  Broker!Becomes(t, from, to)
  BY DEF Broker!Becomes

LEMMA ListedAfterAppend ==
  ASSUME MatchingTypeOK, NEW k \in Keys, NEW t \in Tasks,
         lists' = [lists EXCEPT ![k] = Append(@, t)]
  PROVE  \A u \in Tasks \ {t} : Listed(u)' <=> Listed(u)
  <1>1. lists[k] \in Seq(Tasks) /\ lists'[k] = Append(lists[k], t)
    BY DEF MatchingTypeOK
  <1>2. \A l \in Keys \ {k} : lists'[l] = lists[l]
    BY DEF MatchingTypeOK
  <1> TAKE u \in Tasks \ {t}
  <1>3. (\E i \in DOMAIN lists'[k] : lists'[k][i] = u)
           <=> (\E i \in DOMAIN lists[k] : lists[k][i] = u)
    BY <1>1
  <1> QED BY <1>2, <1>3 DEF Listed

LEMMA TailIs ==
  ASSUME NEW S, NEW s \in Seq(S), s # <<>>
  PROVE  /\ DOMAIN s = 1 .. Len(s) /\ DOMAIN Tail(s) = 1 .. Len(s) - 1
         /\ \A i \in 1 .. Len(s) - 1 : Tail(s)[i] = s[i + 1]
  <1>1. Len(Tail(s)) = Len(s) - 1 /\ Tail(s) \in Seq(S) /\ DOMAIN s = 1 .. Len(s)
    OBVIOUS
  <1>2. DOMAIN Tail(s) = 1 .. Len(Tail(s))
    BY <1>1
  <1> QED BY <1>1, <1>2

LEMMA ListedAfterTail ==
  ASSUME MatchingTypeOK, NEW k \in Keys, lists[k] # <<>>,
         lists' = [lists EXCEPT ![k] = Tail(@)]
  PROVE  \A u \in Tasks \ {Head(lists[k])} : Listed(u)' <=> Listed(u)
  <1>1. lists[k] \in Seq(Tasks) /\ lists'[k] = Tail(lists[k])
    BY DEF MatchingTypeOK
  <1>2. \A l \in Keys \ {k} : lists'[l] = lists[l]
    BY DEF MatchingTypeOK
  <1> TAKE u \in Tasks \ {Head(lists[k])}
  <1>3. PICK n \in Nat :
           /\ DOMAIN lists[k] = 1 .. n + 1 /\ DOMAIN lists'[k] = 1 .. n
           /\ \A i \in 1 .. n : lists'[k][i] = lists[k][i + 1]
    <2>1. Len(lists[k]) \in Nat \ {0} /\ Len(lists[k]) - 1 \in Nat
      BY <1>1
    <2>2. /\ DOMAIN lists[k] = 1 .. Len(lists[k])
          /\ DOMAIN lists'[k] = 1 .. Len(lists[k]) - 1
          /\ \A i \in 1 .. Len(lists[k]) - 1 : lists'[k][i] = lists[k][i + 1]
      BY <1>1, TailIs
    <2> QED BY <2>1, <2>2
  <1>4. lists[k][1] # u
    BY <1>1
  <1>5. ASSUME NEW i \in DOMAIN lists[k], lists[k][i] = u
        PROVE  \E j \in DOMAIN lists'[k] : lists'[k][j] = u
    <2>1. i - 1 \in 1 .. n /\ (i - 1) + 1 = i
      BY <1>3, <1>4, <1>5
    <2> QED BY <1>3, <1>5, <2>1
  <1>6. ASSUME NEW i \in DOMAIN lists'[k], lists'[k][i] = u
        PROVE  \E j \in DOMAIN lists[k] : lists[k][j] = u
    <2>1. i + 1 \in 1 .. n + 1
      BY <1>3
    <2> QED BY <1>3, <1>6, <2>1
  <1>7. Listed(u) => Listed(u)'
    BY <1>2, <1>5 DEF Listed
  <1>8. Listed(u)' => Listed(u)
    BY <1>2, <1>6 DEF Listed
  <1> QED BY <1>7, <1>8

LEMMA PushRefines ==
  ASSUME MatchingInv, MatchingInv', NobodyWaits, NEW t \in Tasks, Push(t)
  PROVE  \E k \in Keys : Broker!Put(t, k) \/ Broker!PutThrough(t, k)
  <1>0. MatchingTypeOK /\ MatchingTypeOK' /\ InOnePlace /\ InOnePlace' /\ BlockedMatch
    BY DEF MatchingInv
  <1>1. PICK k \in Keys : k = QueueKey(adds[t].queue, adds[t].kind)
    BY <1>0, AddShape, QueueKeyType DEF Push
  <1>2. /\ Standing(t) = "new" /\ received' = received
        /\ \A u \in Tasks \ {t} : adds'[u] = adds[u]
    BY <1>0, StandingOf DEF Push, MatchingTypeOK
  <1>3. CASE blocked[k] = <<>>
    <2>1. lists' = [lists EXCEPT ![k] = Append(@, t)] /\ polls' = polls
      BY <1>1, <1>3 DEF Push
    <2>2. \A u \in Tasks : Popped(u)' <=> Popped(u)
      BY <2>1 DEF Popped, Has
    <2>3. \A u \in Tasks \ {t} : Standing(u)' = Standing(u)
      BY <1>0, <1>2, <2>1, <2>2, ListedAfterAppend, SameStanding
    <2>4. Listed(t)'
      <3>1. lists'[k] = Append(lists[k], t) /\ lists[k] \in Seq(Tasks)
        BY <1>0, <2>1 DEF MatchingTypeOK
      <3>2. Len(lists[k]) + 1 \in DOMAIN lists'[k] /\ lists'[k][Len(lists[k]) + 1] = t
        BY <3>1
      <3> QED BY <3>2 DEF Listed
    <2>5. Broker!Becomes(t, "new", "queued")
      BY <1>2, <2>3, <2>4, OneMoves, StandingNext
    <2> QED BY <2>1, <2>5 DEF Broker!Put
  <1>4. CASE blocked[k] # <<>>
    <2>1. PICK p \in Polls : p = blocked[k][1] /\ p = Head(blocked[k]) /\ 1 \in DOMAIN blocked[k]
      BY <1>0, <1>4 DEF MatchingTypeOK
    <2>2. polls[p].pc = "blocked"
      BY <1>0, <2>1 DEF BlockedMatch
    <2>3. /\ polls' = [polls EXCEPT ![p] =
                [pc |-> "popped", queue |-> polls[p].queue, kind |-> polls[p].kind,
                 open |-> polls[p].open, task |-> t]]
          /\ UNCHANGED lists
      BY <1>1, <1>4, <2>1 DEF Push
    <2>4. /\ polls'[p].pc = "popped" /\ polls'[p].task = t
          /\ \A q \in Polls \ {p} : polls'[q] = polls[q]
      BY <1>0, <2>3 DEF MatchingTypeOK
    <2>5. \A u \in Tasks \ {t} : Popped(u)' <=> Popped(u)
      BY <2>2, <2>4 DEF Popped, Has
    <2>6. \A u \in Tasks \ {t} : Standing(u)' = Standing(u)
      BY <1>2, <2>3, <2>5, SameStanding DEF Listed
    <2>7. Popped(t)'
      BY <2>4 DEF Popped, Has
    <2>8. Broker!Becomes(t, "new", "taken")
      BY <1>2, <2>6, <2>7, OneMoves, StandingNext
    <2>9. lists[k] = <<>>
      BY <1>4 DEF NobodyWaits
    <2> QED BY <2>3, <2>8, <2>9 DEF Broker!PutThrough
  <1> QED BY <1>3, <1>4

LEMMA PollPopsRefines ==
  ASSUME MatchingInv, MatchingInv', NEW p \in Polls, NEW tq \in TaskQueues, NEW kind \in Kinds,
         PollTaskQueue(p, tq, kind), lists[QueueKey(tq, kind)] # <<>>
  PROVE  \E t \in Tasks, k \in Keys : Broker!Take(t, k)
  <1>0. MatchingTypeOK
    BY DEF MatchingInv
  <1>1. PICK k \in Keys : k = QueueKey(tq, kind)
    BY QueueKeyType
  <1>2. PICK t \in Tasks : t = Head(lists[k]) /\ lists[k][1] = t /\ 1 \in DOMAIN lists[k]
    BY <1>0, <1>1 DEF MatchingTypeOK
  <1>3. /\ polls[p] = Idle /\ lists[k] # <<>>
        /\ polls' = [polls EXCEPT ![p] = [pc |-> "popped", queue |-> tq, kind |-> kind,
                                          open |-> TRUE, task |-> t]]
        /\ lists' = [lists EXCEPT ![k] = Tail(@)]
        /\ UNCHANGED <<adds, received>>
    BY <1>1, <1>2 DEF PollTaskQueue
  <1>4. /\ polls'[p].pc = "popped" /\ polls'[p].task = t /\ polls[p].pc = "idle"
        /\ \A q \in Polls \ {p} : polls'[q] = polls[q]
    BY <1>0, <1>3 DEF MatchingTypeOK, Idle
  <1>5. \A u \in Tasks \ {t} : Popped(u)' <=> Popped(u)
    BY <1>4 DEF Popped, Has
  <1>6. \A u \in Tasks \ {t} : Standing(u)' = Standing(u)
    BY <1>0, <1>2, <1>3, <1>5, ListedAfterTail, SameStanding
  <1>7. Listed(t) /\ Popped(t)'
    BY <1>2, <1>4 DEF Listed, Popped, Has
  <1>8. Broker!Becomes(t, "queued", "taken")
    BY <1>6, <1>7, OneMoves, StandingOf, StandingNext
  <1> QED BY <1>2, <1>3, <1>8 DEF Broker!Take

\* A poll that blocks, times out or loses its caller is nothing to the broker.
LEMMA PollStepsStutter ==
  ASSUME UNCHANGED <<adds, lists, received>>, \A t \in Tasks : Popped(t)' <=> Popped(t)
  PROVE  UNCHANGED Broker!brokerVars
  <1>1. \A t \in Tasks : Standing(t)' = Standing(t)
    BY SameStanding DEF Listed
  <1> QED BY <1>1 DEF Broker!brokerVars

LEMMA ReplyRefines ==
  ASSUME MatchingInv, MatchingInv', NEW p \in Polls, ReplyArrives(p)
  PROVE  \E t \in Tasks : Broker!Receive(t)
  <1>0. MatchingTypeOK /\ InOnePlace
    BY DEF MatchingInv
  <1>1. PICK t \in Tasks : t = polls[p].task /\ Has(p, t)
    BY <1>0, PollShape DEF ReplyArrives, Has
  <1>2. /\ received' = received \cup {t} /\ UNCHANGED <<adds, lists>>
        /\ polls'[p].pc = "idle" /\ \A q \in Polls \ {p} : polls'[q] = polls[q]
    BY <1>0, <1>1 DEF ReplyArrives, MatchingTypeOK, Idle
  <1>3. \A u \in Tasks \ {t} : Popped(u)' <=> Popped(u)
    BY <1>1, <1>2 DEF Popped, Has
  <1>4. \A u \in Tasks \ {t} : Standing(u)' = Standing(u)
    BY <1>2, <1>3, SameStanding DEF Listed
  <1>5. Standing(t) = "taken" /\ Standing(t)' = "received"
    BY <1>1, <1>2, StandingOf, StandingNext DEF Popped
  <1> QED BY <1>2, <1>4, <1>5, OneMoves DEF Broker!Receive

\* Tasks that are refused and tasks that are lost.
LEMMA DropsRefine ==
  ASSUME NEW refused \in SUBSET Tasks, NEW lost \in SUBSET Tasks, refused \cap lost = {},
         \A t \in refused : Standing(t) = "new" /\ Standing(t)' = "refused",
         \A t \in lost : Standing(t) = "taken" /\ Standing(t)' = "lost",
         \A t \in Tasks \ (refused \cup lost) : Standing(t)' = Standing(t),
         UNCHANGED lists
  PROVE  Broker!Drop(refused, lost)
  BY DEF Broker!Drop

LEMMA LostIs ==
  ASSUME MatchingInv', NEW t \in Tasks, adds'[t].pc = "pushed", t \notin received',
         ~Listed(t)', ~Popped(t)'
  PROVE  Standing(t)' = "lost"
  BY DEF Standing

LEMMA ReplyIsLostRefines ==
  ASSUME MatchingInv, MatchingInv', NEW p \in Polls, ReplyIsLost(p)
  PROVE  \E r, l \in SUBSET Tasks : Broker!Drop(r, l)
  <1>0. MatchingTypeOK /\ InOnePlace
    BY DEF MatchingInv
  <1>1. PICK t \in Tasks : t = polls[p].task /\ Has(p, t)
    BY <1>0, PollShape DEF ReplyIsLost, Has
  <1>2. /\ UNCHANGED <<adds, lists, received>>
        /\ polls'[p].pc = "idle" /\ \A q \in Polls \ {p} : polls'[q] = polls[q]
    BY <1>0 DEF ReplyIsLost, MatchingTypeOK, Idle
  <1>3. \A u \in Tasks \ {t} : Popped(u)' <=> Popped(u)
    BY <1>1, <1>2 DEF Popped, Has
  <1>4. \A u \in Tasks \ {t} : Standing(u)' = Standing(u)
    BY <1>2, <1>3, SameStanding DEF Listed
  <1>5. Popped(t) /\ ~Popped(t)'
    BY <1>0, <1>1, <1>2 DEF Popped, Has, InOnePlace
  <1>6. adds[t].pc = "pushed" /\ ~Listed(t) /\ t \notin received
    BY <1>0, <1>5 DEF InOnePlace
  <1>7. Standing(t) = "taken" /\ Standing(t)' = "lost"
    BY <1>2, <1>5, <1>6, StandingOf, LostIs DEF Listed
  <1>8. Broker!Drop({}, {t})
    <2>1. /\ {} \in SUBSET Tasks /\ {t} \in SUBSET Tasks /\ {} \cap {t} = {}
          /\ \A u \in {} : Standing(u) = "new" /\ Standing(u)' = "refused"
          /\ \A u \in {t} : Standing(u) = "taken" /\ Standing(u)' = "lost"
          /\ \A u \in Tasks \ ({} \cup {t}) : Standing(u)' = Standing(u)
      BY <1>4, <1>7
    <2> QED BY <1>2, <2>1, DropsRefine
  <1>9. {} \in SUBSET Tasks /\ {t} \in SUBSET Tasks
    OBVIOUS
  <1> QED BY <1>8, <1>9

LEMMA AddTaskRefines ==
  ASSUME MatchingInv, MatchingInv', NEW t \in Tasks, NEW tq \in TaskQueues \cup {NoQueue},
         NEW kind \in Kinds, AddTask(t, tq, kind)
  PROVE  Broker!Drop({t}, {}) \/ UNCHANGED Broker!brokerVars
  <1>0. MatchingTypeOK
    BY DEF MatchingInv
  <1>1. /\ adds[t].pc = "new" /\ UNCHANGED <<lists, polls, received>>
        /\ adds'[t].pc \in {"refused", "push"}
        /\ \A u \in Tasks \ {t} : adds'[u] = adds[u]
    BY <1>0 DEF AddTask, MatchingTypeOK
  <1>2. \A u \in Tasks : (Listed(u)' <=> Listed(u)) /\ (Popped(u)' <=> Popped(u))
    BY <1>1 DEF Listed, Popped, Has
  <1>3. \A u \in Tasks \ {t} : Standing(u)' = Standing(u)
    BY <1>1, <1>2, SameStanding
  <1>4. Standing(t) = "new" /\ Standing(t)' \in {"new", "refused"}
    BY <1>1, StandingOf, StandingNext
  <1>5. CASE Standing(t)' = "new"
    <2>1. \A u \in Tasks : Standing(u)' = Standing(u)
      BY <1>3, <1>4, <1>5
    <2> QED BY <1>1, <2>1 DEF Broker!brokerVars
  <1>6. CASE Standing(t)' = "refused"
    <2>1. /\ {} \in SUBSET Tasks /\ {t} \in SUBSET Tasks /\ {t} \cap {} = {}
          /\ \A u \in {t} : Standing(u) = "new" /\ Standing(u)' = "refused"
          /\ \A u \in {} : Standing(u) = "taken" /\ Standing(u)' = "lost"
          /\ \A u \in Tasks \ ({t} \cup {}) : Standing(u)' = Standing(u)
      BY <1>3, <1>4, <1>6
    <2> QED BY <1>1, <2>1, DropsRefine
  <1> QED BY <1>4, <1>5, <1>6

LEMMA PushFailsRefines ==
  ASSUME MatchingInv, MatchingInv', NEW t \in Tasks, PushFails(t)
  PROVE  Broker!Drop({t}, {})
  <1>0. MatchingTypeOK
    BY DEF MatchingInv
  <1>1. /\ adds[t].pc = "push" /\ UNCHANGED <<lists, polls, received>>
        /\ adds'[t].pc = "failed"
        /\ \A u \in Tasks \ {t} : adds'[u] = adds[u]
    BY <1>0 DEF PushFails, MatchingTypeOK
  <1>2. \A u \in Tasks : (Listed(u)' <=> Listed(u)) /\ (Popped(u)' <=> Popped(u))
    BY <1>1 DEF Listed, Popped, Has
  <1>3. \A u \in Tasks \ {t} : Standing(u)' = Standing(u)
    BY <1>1, <1>2, SameStanding
  <1>4. Standing(t) = "new" /\ Standing(t)' = "refused"
    BY <1>1, StandingOf, StandingNext
  <1>5. /\ {} \in SUBSET Tasks /\ {t} \in SUBSET Tasks /\ {t} \cap {} = {}
        /\ \A u \in {t} : Standing(u) = "new" /\ Standing(u)' = "refused"
        /\ \A u \in {} : Standing(u) = "taken" /\ Standing(u)' = "lost"
        /\ \A u \in Tasks \ ({t} \cup {}) : Standing(u)' = Standing(u)
    BY <1>3, <1>4
  <1> QED BY <1>1, <1>5, DropsRefine

\* The process dies with the pushes it had not made and the replies it had not sent.
LEMMA CrashRefines ==
  ASSUME MatchingInv, MatchingInv', MatchingCrash
  PROVE  \E r, l \in SUBSET Tasks : Broker!Drop(r, l)
  <1>0. MatchingTypeOK /\ InOnePlace
    BY DEF MatchingInv
  <1>1. PICK r \in SUBSET Tasks : r = {t \in Tasks : adds[t].pc = "push"}
    OBVIOUS
  <1>2. PICK l \in SUBSET Tasks : l = {t \in Tasks : Popped(t)}
    OBVIOUS
  <1>3. /\ UNCHANGED <<lists, received>>
        /\ \A p \in Polls : polls'[p].pc = "idle"
        /\ \A t \in r : adds'[t].pc = "failed"
        /\ \A t \in Tasks \ r : adds'[t] = adds[t]
    BY <1>1 DEF MatchingCrash, Idle
  <1>4. \A t \in Tasks : ~Popped(t)' /\ (Listed(t)' <=> Listed(t))
    BY <1>3 DEF Popped, Has, Listed
  <1>5. \A t \in r : Standing(t) = "new" /\ Standing(t)' = "refused"
    BY <1>1, <1>3, StandingOf, StandingNext
  <1>6. \A t \in l : adds[t].pc = "pushed" /\ ~Listed(t) /\ t \notin received /\ t \notin r
    BY <1>0, <1>1, <1>2 DEF InOnePlace
  <1>7. \A t \in l : Standing(t) = "taken" /\ Standing(t)' = "lost"
    BY <1>2, <1>3, <1>4, <1>6, StandingOf, LostIs
  <1>8. \A t \in Tasks \ (r \cup l) : Standing(t)' = Standing(t)
    BY <1>2, <1>3, <1>4, SameStanding
  <1>9. Broker!Drop(r, l)
    BY <1>3, <1>5, <1>6, <1>7, <1>8, DropsRefine
  <1> QED BY <1>9

LEMMA PollBlocksStutters ==
  ASSUME MatchingInv, NEW p \in Polls, NEW tq \in TaskQueues, NEW kind \in Kinds,
         PollTaskQueue(p, tq, kind), lists[QueueKey(tq, kind)] = <<>>
  PROVE  UNCHANGED Broker!brokerVars
  <1>1. /\ polls[p].pc = "idle" /\ polls'[p].pc = "blocked"
        /\ \A q \in Polls \ {p} : polls'[q] = polls[q]
        /\ UNCHANGED <<adds, lists, received>>
    BY DEF PollTaskQueue, MatchingInv, MatchingTypeOK, Idle
  <1> QED BY <1>1, PollStepsStutter DEF Popped, Has

LEMMA PopTimesOutStutters ==
  ASSUME MatchingInv, NEW p \in Polls, PopTimesOut(p)
  PROVE  UNCHANGED Broker!brokerVars
  <1>1. /\ polls[p].pc = "blocked" /\ polls'[p].pc = "idle"
        /\ \A q \in Polls \ {p} : polls'[q] = polls[q]
        /\ UNCHANGED <<adds, lists, received>>
    BY DEF PopTimesOut, MatchingInv, MatchingTypeOK, Idle
  <1> QED BY <1>1, PollStepsStutter DEF Popped, Has

LEMMA GivesUpStutters ==
  ASSUME MatchingInv, NEW p \in Polls, CallerGivesUp(p)
  PROVE  /\ UNCHANGED Broker!brokerVars
         /\ polls'[p].pc = polls[p].pc /\ \A q \in Polls \ {p} : polls'[q] = polls[q]
  <1>1. polls[p] \in Poll \ {Idle} /\ polls' = [polls EXCEPT ![p].open = FALSE] /\ MatchingTypeOK
    BY DEF CallerGivesUp, MatchingInv, MatchingTypeOK
  <1>2. /\ polls'[p].pc = polls[p].pc
        /\ polls[p].pc = "popped" => polls'[p].task = polls[p].task
        /\ \A q \in Polls \ {p} : polls'[q] = polls[q]
    BY <1>1, PollShape DEF MatchingTypeOK
  <1>3. UNCHANGED <<adds, lists, received>>
    BY DEF CallerGivesUp
  <1>4. UNCHANGED Broker!brokerVars
    BY <1>2, <1>3, PollStepsStutter DEF Popped, Has
  <1> QED BY <1>2, <1>4

LEMMA MatchingStepRefines ==
  ASSUME MatchingInv, MatchingInv', NobodyWaits, [MatchingNext]_matchingVars
  PROVE  [Broker!Next]_(Broker!brokerVars)
  <1>1. ASSUME UNCHANGED matchingVars
        PROVE  UNCHANGED Broker!brokerVars
    BY <1>1, PollStepsStutter DEF matchingVars, Popped, Has
  <1>2. ASSUME NEW t \in Tasks, Broker!Drop({t}, {})
        PROVE  Broker!Next
    <2>1. {t} \in SUBSET Tasks /\ {} \in SUBSET Tasks
      OBVIOUS
    <2> QED BY <1>2, <2>1 DEF Broker!Next
  <1> QED BY <1>1, <1>2, AddTaskRefines, PushRefines, PushFailsRefines, PollBlocksStutters,
             PollPopsRefines, PopTimesOutStutters, GivesUpStutters, ReplyRefines,
             ReplyIsLostRefines, CrashRefines
          DEF MatchingNext, Serve, Broker!Next

LEMMA MatchingInitRefines == MatchingInit => Broker!Init
  <1> SUFFICES ASSUME MatchingInit PROVE Broker!Init
    OBVIOUS
  <1>1. \A t \in Tasks : adds[t].pc = "new"
    BY DEF MatchingInit
  <1>2. \A t \in Tasks : Standing(t) = "new"
    BY <1>1, MatchingInitInv, StandingOf
  <1> QED BY <1>2 DEF MatchingInit, Broker!Init

\* The Matching service implements the abstract broker: to those who add and take tasks
\* it is one queue per key that hands each task out once, and loses only what it has
\* handed out.
THEOREM MatchingImplementsBroker == MatchingSpec => ImplementsBroker
  <1>1. MatchingInv /\ MatchingInv' /\ NobodyWaits /\ [MatchingNext]_matchingVars
          => [Broker!Next]_(Broker!brokerVars)
    BY MatchingStepRefines
  <1> QED BY <1>1, MatchingInitRefines, MatchingInvariant, NobodyEverWaits, PTL
          DEF MatchingSpec, ImplementsBroker, Broker!Spec

--------------------------------------------------------------------------------
(* What is lost *)

\* The polls under way whose caller has gone.
Closed == {p \in Polls : polls[p].pc # "idle" /\ ~polls[p].open}

\* Each poll that has lost its caller has lost a task, or may still do so, or has come to
\* its end without one.
LossInv == IsFiniteSet(Lost) /\ Cardinality(Lost) + Cardinality(Closed) <= cutOff

LEMMA LostStanding ==
  /\ MatchingInv => \A t \in Tasks : t \in Lost <=> Standing(t) = "lost"
  /\ MatchingInv' => \A t \in Tasks : t \in Lost' <=> Standing(t)' = "lost"
  <1>1. ASSUME MatchingInv PROVE \A t \in Tasks : t \in Lost <=> Standing(t) = "lost"
    <2>1. \A t \in Tasks : adds[t].pc \in {"new", "refused", "failed", "push", "pushed"}
      BY <1>1 DEF MatchingInv, MatchingTypeOK, Add
    <2> QED BY <2>1 DEF Standing, Lost
  <1>2. ASSUME MatchingInv' PROVE \A t \in Tasks : t \in Lost' <=> Standing(t)' = "lost"
    <2>1. \A t \in Tasks : adds'[t].pc \in {"new", "refused", "failed", "push", "pushed"}
      BY <1>2 DEF MatchingInv, MatchingTypeOK, Add
    <2> QED BY <2>1 DEF Standing, Lost
  <1> QED BY <1>1, <1>2

\* A step of the broker that loses no task.
LEMMA NothingLost ==
  ASSUME MatchingInv, MatchingInv',
         \/ \E t \in Tasks : \E from, to : to # "lost" /\ Broker!Becomes(t, from, to)
         \/ \E t \in Tasks : Broker!Drop({t}, {})
         \/ UNCHANGED Broker!brokerVars
  PROVE  Lost' \subseteq Lost
  <1>1. \A u \in Tasks : Standing(u)' = "lost" => Standing(u) = "lost"
    BY DEF Broker!Becomes, Broker!Drop, Broker!brokerVars
  <1> QED BY <1>1, LostStanding DEF Lost

LEMMA FewerLost ==
  ASSUME MatchingTypeOK, LossInv, Lost' \subseteq Lost, Closed' \subseteq Closed, UNCHANGED cutOff
  PROVE  LossInv'
  <1>1. IsFiniteSet(Lost) /\ IsFiniteSet(Closed) /\ cutOff \in Nat
    BY MatchingAssumption, FS_Subset DEF LossInv, Closed, MatchingTypeOK
  <1>2. /\ IsFiniteSet(Lost') /\ Cardinality(Lost') <= Cardinality(Lost)
        /\ IsFiniteSet(Closed') /\ Cardinality(Closed') <= Cardinality(Closed)
    BY <1>1, FS_Subset
  <1>3. /\ Cardinality(Lost') \in Nat /\ Cardinality(Lost) \in Nat
        /\ Cardinality(Closed') \in Nat /\ Cardinality(Closed) \in Nat
    BY <1>1, <1>2, FS_CardinalityType
  <1> QED BY <1>1, <1>2, <1>3 DEF LossInv

\* One more poll loses its caller.
LEMMA GivesUpLoss ==
  ASSUME MatchingInv, MatchingInv', LossInv, NEW p \in Polls, CallerGivesUp(p)
  PROVE  LossInv'
  <1>1. Lost' \subseteq Lost
    BY GivesUpStutters, NothingLost
  <1>2. Closed' \subseteq Closed \cup {p} /\ cutOff' = cutOff + 1 /\ cutOff \in Nat
    BY GivesUpStutters DEF Closed, CallerGivesUp, MatchingInv, MatchingTypeOK
  <1>3. IsFiniteSet(Lost) /\ IsFiniteSet(Closed)
    BY MatchingAssumption, FS_Subset DEF LossInv, Closed
  <1>4. /\ IsFiniteSet(Closed \cup {p})
        /\ Cardinality(Closed \cup {p}) = IF p \in Closed THEN Cardinality(Closed) ELSE Cardinality(Closed) + 1
    BY <1>3, FS_AddElement
  <1>5. /\ IsFiniteSet(Lost') /\ Cardinality(Lost') <= Cardinality(Lost)
        /\ IsFiniteSet(Closed') /\ Cardinality(Closed') <= Cardinality(Closed \cup {p})
    BY <1>1, <1>2, <1>3, <1>4, FS_Subset
  <1>6. /\ Cardinality(Lost') \in Nat /\ Cardinality(Lost) \in Nat
        /\ Cardinality(Closed') \in Nat /\ Cardinality(Closed) \in Nat
    BY <1>3, <1>5, FS_CardinalityType
  <1> QED BY <1>2, <1>4, <1>5, <1>6 DEF LossInv

\* A poll without a caller ends, and takes its task with it.
LEMMA ReplyIsLostLoss ==
  ASSUME MatchingInv, MatchingInv', LossInv, NEW p \in Polls, ReplyIsLost(p)
  PROVE  LossInv'
  <1>0. MatchingTypeOK
    BY DEF MatchingInv
  <1>1. PICK t \in Tasks : t = polls[p].task /\ Has(p, t)
    BY <1>0, PollShape DEF ReplyIsLost, Has
  <1>2. /\ UNCHANGED <<adds, lists, received, cutOff>>
        /\ polls'[p].pc = "idle" /\ \A q \in Polls \ {p} : polls'[q] = polls[q]
        /\ p \in Closed
    BY <1>0 DEF ReplyIsLost, MatchingTypeOK, Idle, Closed
  <1>3. \A u \in Tasks \ {t} : Popped(u)' <=> Popped(u)
    BY <1>1, <1>2 DEF Popped, Has
  <1>4. Lost' \subseteq Lost \cup {t}
    BY <1>2, <1>3 DEF Lost, Listed
  <1>5. Closed' \subseteq Closed \ {p}
    BY <1>2 DEF Closed
  <1>6. IsFiniteSet(Lost) /\ IsFiniteSet(Closed) /\ cutOff \in Nat
    BY <1>0, MatchingAssumption, FS_Subset DEF LossInv, Closed, MatchingTypeOK
  <1>7. /\ IsFiniteSet(Lost \cup {t}) /\ IsFiniteSet(Closed \ {p})
        /\ Cardinality(Lost \cup {t}) = IF t \in Lost THEN Cardinality(Lost) ELSE Cardinality(Lost) + 1
        /\ Cardinality(Closed \ {p}) = Cardinality(Closed) - 1
    BY <1>2, <1>6, FS_AddElement, FS_RemoveElement
  <1>8. /\ IsFiniteSet(Lost') /\ Cardinality(Lost') <= Cardinality(Lost \cup {t})
        /\ IsFiniteSet(Closed') /\ Cardinality(Closed') <= Cardinality(Closed \ {p})
    BY <1>4, <1>5, <1>7, FS_Subset
  <1>9. /\ Cardinality(Lost') \in Nat /\ Cardinality(Lost) \in Nat
        /\ Cardinality(Closed') \in Nat /\ Cardinality(Closed) \in Nat
    BY <1>6, <1>8, FS_CardinalityType
  <1> QED BY <1>2, <1>6, <1>7, <1>8, <1>9 DEF LossInv

\* The process dies with its polls, each of which had one task or none.
LEMMA CrashLoss ==
  ASSUME MatchingInv, MatchingInv', LossInv, MatchingCrash
  PROVE  LossInv'
  <1> DEFINE taken == {t \in Tasks : Popped(t)}
             open == {p \in Polls : polls[p] # Idle /\ polls[p].open}
             f == [t \in taken |-> CHOOSE p \in Polls : Has(p, t)]
  <1>1. /\ UNCHANGED <<lists, received>> /\ cutOff' = cutOff + Cardinality(open)
        /\ \A p \in Polls : polls'[p].pc = "idle"
        /\ \A t \in Tasks : adds'[t].pc = "pushed" => adds[t].pc = "pushed"
        /\ cutOff \in Nat
    BY DEF MatchingCrash, Idle, MatchingInv, MatchingTypeOK
  <1>2. Lost' \subseteq Lost \cup taken
    BY <1>1 DEF Lost, Listed
  <1>3. Closed' = {}
    BY <1>1 DEF Closed
  <1>4. /\ IsFiniteSet(Lost) /\ IsFiniteSet(Closed) /\ IsFiniteSet(open)
    BY MatchingAssumption, FS_Subset DEF LossInv, Closed
  <1>5. Cardinality(taken) <= Cardinality(open \cup Closed) /\ IsFiniteSet(taken)
    <2>1. \A t \in taken : f[t] \in Polls /\ Has(f[t], t)
      BY DEF Popped
    <2>2. \A t \in taken : f[t] \in open \cup Closed
      BY <2>1 DEF Has, Closed, Idle
    <2>3. \A t, u \in taken : f[t] = f[u] => t = u
      BY <2>1 DEF Has
    <2>4. IsFiniteSet(open \cup Closed)
      BY <1>4, FS_Union
    <2>5. f \in [taken -> open \cup Closed]
      BY <2>2
    <2> HIDE DEF f, taken, open
    <2>6. f \in Injection(taken, open \cup Closed)
      BY <2>3, <2>5 DEF Injection, IsInjective
    <2> QED BY <2>4, <2>6, FS_Injection
  <1> HIDE DEF taken, open, f
  <1>6. /\ IsFiniteSet(open \cup Closed) /\ IsFiniteSet(open \cap Closed)
        /\ Cardinality(open \cup Closed) = Cardinality(open) + Cardinality(Closed) - Cardinality(open \cap Closed)
    BY <1>4, FS_Union, FS_Subset
  <1>7. /\ IsFiniteSet(Lost \cup taken) /\ IsFiniteSet(Lost \cap taken)
        /\ Cardinality(Lost \cup taken) = Cardinality(Lost) + Cardinality(taken) - Cardinality(Lost \cap taken)
    BY <1>4, <1>5, FS_Union, FS_Subset
  <1>8. IsFiniteSet(Lost') /\ Cardinality(Lost') <= Cardinality(Lost \cup taken)
    BY <1>2, <1>7, FS_Subset
  <1>9. Cardinality(Closed') = 0
    BY <1>3, FS_EmptySet
  <1>10. /\ Cardinality(Lost') \in Nat /\ Cardinality(Lost) \in Nat /\ Cardinality(taken) \in Nat
         /\ Cardinality(open) \in Nat /\ Cardinality(Closed) \in Nat
         /\ Cardinality(open \cap Closed) \in Nat /\ Cardinality(Lost \cap taken) \in Nat
         /\ Cardinality(Lost \cup taken) \in Nat
    BY <1>4, <1>5, <1>6, <1>7, <1>8, FS_CardinalityType
  <1>11. Cardinality(Lost) + Cardinality(Closed) <= cutOff
    BY DEF LossInv
  <1> QED BY <1>1, <1>5, <1>6, <1>7, <1>8, <1>9, <1>10, <1>11 DEF LossInv

LEMMA LossStep ==
  ASSUME MatchingInv, MatchingInv', NobodyWaits, LossInv, [MatchingNext]_matchingVars
  PROVE  LossInv'
  <1>0. MatchingTypeOK
    BY DEF MatchingInv
  <1>1. ASSUME NEW t \in Tasks, NEW tq \in TaskQueues \cup {NoQueue}, NEW kind \in Kinds,
               AddTask(t, tq, kind)
        PROVE  LossInv'
    <2>1. Lost' \subseteq Lost
      BY <1>1, AddTaskRefines, NothingLost
    <2> QED BY <1>0, <1>1, <2>1, FewerLost DEF AddTask, Closed
  <1>2. ASSUME NEW t \in Tasks, Push(t)
        PROVE  LossInv'
    <2>1. \E to \in {"queued", "taken"} : Broker!Becomes(t, "new", to)
      BY <1>2, PushRefines DEF Broker!Put, Broker!PutThrough
    <2>2. Lost' \subseteq Lost
      BY <2>1, NothingLost
    <2>3. Closed' \subseteq Closed
      <3> DEFINE k == QueueKey(adds[t].queue, adds[t].kind)
      <3>1. CASE UNCHANGED polls
        BY <3>1 DEF Closed
      <3>2. CASE blocked[k] # <<>>
        <4>1. k \in Keys
          BY <1>0, <1>2, AddShape, QueueKeyType DEF Push
        <4>2. PICK p \in Polls : p = Head(blocked[k]) /\ p = blocked[k][1] /\ 1 \in DOMAIN blocked[k]
          BY <1>0, <3>2, <4>1 DEF MatchingTypeOK
        <4>3. polls' = [polls EXCEPT ![p] = [pc |-> "popped", queue |-> polls[p].queue,
                                             kind |-> polls[p].kind, open |-> polls[p].open, task |-> t]]
          BY <1>2, <3>2, <4>2 DEF Push
        <4>4. polls[p].pc = "blocked"
          BY <4>1, <4>2 DEF MatchingInv, BlockedMatch
        <4>5. polls'[p].open = polls[p].open /\ \A q \in Polls \ {p} : polls'[q] = polls[q]
          BY <1>0, <4>3 DEF MatchingTypeOK
        <4> QED BY <4>4, <4>5 DEF Closed
      <3> QED BY <1>2, <3>1, <3>2 DEF Push
    <2> QED BY <1>0, <1>2, <2>2, <2>3, FewerLost DEF Push
  <1>3. ASSUME NEW t \in Tasks, PushFails(t)
        PROVE  LossInv'
    <2>1. Lost' \subseteq Lost
      BY <1>3, PushFailsRefines, NothingLost
    <2> QED BY <1>0, <1>3, <2>1, FewerLost DEF PushFails, Closed
  <1>4. ASSUME NEW p \in Polls, NEW tq \in TaskQueues, NEW kind \in Kinds,
               PollTaskQueue(p, tq, kind)
        PROVE  LossInv'
    <2>1. Lost' \subseteq Lost
      <3>1. CASE lists[QueueKey(tq, kind)] = <<>>
        BY <1>4, <3>1, PollBlocksStutters, NothingLost
      <3>2. CASE lists[QueueKey(tq, kind)] # <<>>
        <4>1. \E t \in Tasks : Broker!Becomes(t, "queued", "taken")
          BY <1>4, <3>2, PollPopsRefines DEF Broker!Take
        <4> QED BY <4>1, NothingLost
      <3> QED BY <3>1, <3>2
    <2>2. Closed' \subseteq Closed
      <3>1. polls'[p].open /\ \A q \in Polls \ {p} : polls'[q] = polls[q]
        BY <1>0, <1>4 DEF PollTaskQueue, MatchingTypeOK
      <3> QED BY <3>1 DEF Closed
    <2> QED BY <1>0, <1>4, <2>1, <2>2, FewerLost DEF PollTaskQueue
  <1>5. ASSUME NEW p \in Polls, PopTimesOut(p) \/ ReplyArrives(p)
        PROVE  LossInv'
    <2>1. Lost' \subseteq Lost
      <3>1. CASE PopTimesOut(p)
        BY <3>1, PopTimesOutStutters, NothingLost
      <3>2. CASE ReplyArrives(p)
        <4>1. \E t \in Tasks : Broker!Becomes(t, "taken", "received")
          BY <3>2, ReplyRefines DEF Broker!Receive
        <4> QED BY <4>1, NothingLost
      <3> QED BY <1>5, <3>1, <3>2
    <2>2. Closed' \subseteq Closed
      <3>1. polls'[p].pc = "idle" /\ \A q \in Polls \ {p} : polls'[q] = polls[q]
        BY <1>0, <1>5 DEF PopTimesOut, ReplyArrives, MatchingTypeOK, Idle
      <3> QED BY <3>1 DEF Closed
    <2> QED BY <1>0, <1>5, <2>1, <2>2, FewerLost DEF PopTimesOut, ReplyArrives
  <1>6. CASE UNCHANGED matchingVars
    BY <1>6 DEF matchingVars, LossInv, Lost, Closed, Listed, Popped, Has
  <1> QED BY <1>1, <1>2, <1>3, <1>4, <1>5, <1>6, GivesUpLoss, ReplyIsLostLoss, CrashLoss
          DEF MatchingNext, Serve

\* A task is lost only with a poll that has lost its caller, and each such poll loses one
\* task at most.
THEOREM LossesAccounted == MatchingSpec => []LossAccounted
  <1>1. MatchingInit => LossInv
    <2> SUFFICES ASSUME MatchingInit PROVE LossInv
      OBVIOUS
    <2>1. Lost = {} /\ Closed = {} /\ cutOff = 0
      BY DEF MatchingInit, Lost, Closed, Idle
    <2>2. IsFiniteSet({}) /\ Cardinality({}) = 0
      BY FS_EmptySet
    <2> QED BY <2>1, <2>2 DEF LossInv
  <1>2. MatchingInv /\ MatchingInv' /\ NobodyWaits /\ LossInv /\ [MatchingNext]_matchingVars => LossInv'
    BY LossStep
  <1>3. MatchingInv /\ LossInv => LossAccounted
    <2> SUFFICES ASSUME MatchingInv, LossInv PROVE LossAccounted
      OBVIOUS
    <2>1. IsFiniteSet(Lost) /\ IsFiniteSet(Closed) /\ cutOff \in Nat
      BY MatchingAssumption, FS_Subset DEF LossInv, Closed, MatchingInv, MatchingTypeOK
    <2>2. Cardinality(Lost) \in Nat /\ Cardinality(Closed) \in Nat
      BY <2>1, FS_CardinalityType
    <2> QED BY <2>1, <2>2 DEF LossInv, LossAccounted
  <1> QED BY <1>1, <1>2, <1>3, MatchingInvariant, NobodyEverWaits, PTL DEF MatchingSpec
================================================================================
