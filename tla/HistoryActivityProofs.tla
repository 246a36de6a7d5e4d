-------------------------- MODULE HistoryActivityProofs --------------------------
(***************************************************************************)
(* The row of an activity agrees with its history, and its failures are    *)
(* retried as often as they should be, under every interleaving of late,   *)
(* repeated and overlapping reports.                                       *)
(***************************************************************************)
EXTENDS HistoryEffectProofs

--------------------------------------------------------------------------------
(* Appending events to a history *)

Follows(H, N) == \A h \in H, e \in N : h.id < e.id

LEMMA LargestNatural ==
  ASSUME NEW S \in SUBSET Nat, S # {}, IsFiniteSet(S)
  PROVE  \E m \in S : \A x \in S : x <= m
  <1> DEFINE above(x) == {y \in S : x <= y}
             R == StrictSubsetOrdering(S)
             T == {above(x) : x \in S}
  <1>1. IsWellFoundedOn(R, SUBSET S)
    BY FS_StrictSubsetOrderingWellFounded, FS_FiniteSubsetsOfFinite
  <1>2. T \in SUBSET (SUBSET S) /\ T # {}
    OBVIOUS
  <1> HIDE DEF T, R
  <1>3. PICK A \in T : \A B \in T : <<B, A>> \notin R
    BY <1>1, <1>2, WFMin
  <1>4. PICK m \in S : A = above(m)
    BY <1>3 DEF T
  <1>5. ASSUME NEW x \in S, ~(x <= m)
        PROVE  FALSE
    <2>0. x \in Nat /\ m \in Nat /\ \A y \in S : y \in Nat
      OBVIOUS
    <2>1. above(x) \subseteq above(m) /\ m \in above(m) \ above(x)
      <3>1. \A y \in Nat : x <= y => m <= y
        BY <1>5, <2>0
      <3>2. m <= m
        BY <2>0
      <3> QED BY <1>5, <2>0, <3>1, <3>2
    <2>2. <<above(x), above(m)>> \in R
      BY <2>1 DEF R, StrictSubsetOrdering
    <2>3. above(x) \in T
      BY <1>5 DEF T
    <2> QED BY <1>3, <1>4, <2>2, <2>3
  <1> QED BY <1>5

\* Events about other activities change neither the row nor the retries of this one.
LEMMA OtherActivity ==
  ASSUME NEW H, NEW N, NEW a, About(N, a) = {}
  PROVE  /\ About(H \cup N, a) = About(H, a)
         /\ Retries(H \cup N, a) = Retries(H, a)
         /\ \A row : RowFollows(H \cup N, a, row) <=> RowFollows(H, a, row)
  <1>1. About(H \cup N, a) = About(H, a)
    BY DEF About
  <1>2. Retries(H \cup N, a) = Retries(H, a)
    BY <1>1 DEF Retries
  <1> QED BY <1>1, <1>2 DEF RowFollows

\* What precedes an event stays as it is when later events are appended.
LEMMA LimitAppend ==
  ASSUME NEW H \in SUBSET Event, NEW N \in SUBSET Event, Follows(H, N), RetriesWithinLimit(H),
         \A e \in N :
           LET retries == Cardinality(Retries(Before(H \cup N, e.id), e.act))
           IN  /\ e.type = "ActivityTaskFailed" => retries < MaxActivityAttempts - 1
               /\ e.type = "ActivityTaskFailedFinally" => retries = MaxActivityAttempts - 1
  PROVE  RetriesWithinLimit(H \cup N)
  <1>1. ASSUME NEW h \in H
        PROVE  Before(H \cup N, h.id) = Before(H, h.id)
    <2>1. \A e \in N : ~(e.id < h.id)
      BY DEF Follows, Event
    <2> QED BY <2>1 DEF Before
  <1> QED BY <1>1 DEF RetriesWithinLimit

\* Events that reset the activities they are about, or are about none.
LEMMA ResetsSound ==
  ASSUME NEW H \in SUBSET Event, NEW N \in SUBSET Event, Follows(H, N),
         NEW rows, NEW ups, SoundActivities(H, rows),
         \A e \in N : e.type \notin {"ActivityTaskFailed", "ActivityTaskFailedFinally"},
         \A a \in Activities : \A e \in About(N, a) : e.type \in ResetTypes,
         \A a \in Activities :
           IF About(N, a) = {} THEN ups[a].status = "Absent"
           ELSE /\ ups[a].status # "Absent" /\ ups[a].attempt = 1
                /\ \E e \in About(N, a) : /\ \A f \in About(N, a) : f.id <= e.id
                                          /\ ups[a].status = StatusAfter[e.type]
  PROVE  SoundActivities(H \cup N, Upserted(rows, ups))
  <1>1. RetriesWithinLimit(H \cup N)
    BY LimitAppend DEF SoundActivities
  <1>2. ASSUME NEW a \in Activities
        PROVE  /\ RowFollows(H \cup N, a, Upserted(rows, ups)[a])
               /\ Upserted(rows, ups)[a].attempt <= MaxActivityAttempts
    <2>1. CASE About(N, a) = {}
      <3>1. Upserted(rows, ups)[a] = rows[a]
        BY <2>1 DEF Upserted
      <3> QED BY <2>1, <3>1, OtherActivity DEF SoundActivities
    <2>2. CASE About(N, a) # {}
      <3>1. Upserted(rows, ups)[a] = ups[a] /\ ups[a].attempt = 1
        BY <2>2 DEF Upserted
      <3>2. PICK e \in About(N, a) : /\ \A f \in About(N, a) : f.id <= e.id
                                     /\ ups[a].status = StatusAfter[e.type]
        BY <2>2
      <3>3. About(H \cup N, a) = About(H, a) \cup About(N, a)
        BY DEF About
      <3>4. \A f \in About(H, a) : f.id <= e.id
        BY <3>2 DEF Follows, About, Event
      <3>5. Retries(H \cup N, a) = {}
        <4> SUFFICES ASSUME NEW f \in Retries(H \cup N, a) PROVE FALSE
          OBVIOUS
        <4>1. f \in About(H, a)
          BY <3>3 DEF Retries, About
        <4>2. e.id < f.id
          BY <3>2, <3>3 DEF Retries
        <4> QED BY <3>2, <4>1, <4>2 DEF Follows, About, Event
      <3>6. Cardinality(Retries(H \cup N, a)) = 0
        BY <3>5, FS_EmptySet
      <3>7. e \in About(H \cup N, a) /\ \A f \in About(H \cup N, a) : f.id <= e.id
        BY <3>2, <3>3, <3>4
      <3>8. RowFollows(H \cup N, a, ups[a])
        <4>1. ups[a].attempt = 1 + Cardinality(Retries(H \cup N, a))
          BY <3>1, <3>6
        <4>2. \E f \in About(H \cup N, a) : /\ \A g \in About(H \cup N, a) : g.id <= f.id
                                            /\ ups[a].status = StatusAfter[f.type]
          BY <3>2, <3>7, Zenon
        <4>3. About(H \cup N, a) # {}
          BY <3>7
        <4> QED BY <4>1, <4>2, <4>3, Zenon DEF RowFollows
      <3> QED BY <3>1, <3>8 DEF MaxActivityAttempts
    <2> QED BY <2>1, <2>2
  <1> QED BY <1>1, <1>2 DEF SoundActivities

\* A failure report appends one event, of either kind.
LEMMA FailureSound ==
  ASSUME NEW H \in SUBSET Event, IsFiniteSet(H), NEW e \in Event, Follows(H, {e}),
         NEW rows \in [Activities -> Activity], NEW ups, SoundActivities(H, rows),
         NEW a \in Activities, e.act = a, rows[a].status # "Absent",
         ups = [NoUpserts EXCEPT ![a] = ups[a]], ups[a].status = "Failed",
         \/ /\ e.type = "ActivityTaskFailed"
            /\ rows[a].attempt < MaxActivityAttempts
            /\ ups[a].attempt = rows[a].attempt + 1
         \/ /\ e.type = "ActivityTaskFailedFinally"
            /\ ~(rows[a].attempt < MaxActivityAttempts)
            /\ ups[a].attempt = rows[a].attempt
  PROVE  SoundActivities(H \cup {e}, Upserted(rows, ups))
  <1> DEFINE G == H \cup {e}
             n == Cardinality(Retries(H, a))
  <1>1. /\ rows[a].attempt \in Nat /\ rows[a].attempt <= MaxActivityAttempts
        /\ rows[a].attempt = 1 + n
    BY DEF SoundActivities, RowFollows, NoActivityState, Activity
  <1>2. IsFiniteSet(Retries(H, a)) /\ n \in Nat
    BY FS_Subset, FS_CardinalityType DEF Retries, About
  <1>3. Before(G, e.id) = H
    BY DEF Before, Follows, Event
  <1>4. RetriesWithinLimit(G)
    BY <1>1, <1>2, <1>3, LimitAppend DEF SoundActivities, MaxActivityAttempts
  <1>5. ASSUME NEW b \in Activities, b # a
        PROVE  RowFollows(G, b, Upserted(rows, ups)[b]) /\ Upserted(rows, ups)[b].attempt <= MaxActivityAttempts
    <2>1. ups[b] = NoActivityState
      BY <1>5 DEF NoUpserts
    <2>2. Upserted(rows, ups)[b] = rows[b]
      BY <2>1 DEF Upserted, NoActivityState
    <2>3. About({e}, b) = {}
      BY <1>5 DEF About
    <2> QED BY <2>2, <2>3, OtherActivity DEF SoundActivities
  <1>6. Upserted(rows, ups)[a] = ups[a]
    BY DEF Upserted
  <1>7. About(G, a) = About(H, a) \cup {e}
    BY DEF About
  <1>8. \A f \in About(G, a) : f.id <= e.id
    BY <1>7 DEF About, Follows, Event
  <1>9. ups[a].status = StatusAfter[e.type]
    BY DEF StatusAfter
  <1>10. e.type \notin ResetTypes
    BY DEF ResetTypes
  <1>11. \A f \in About(H, a) : f.id < e.id /\ f # e
    BY DEF About, Follows, Event
  <1>12. /\ ups[a].attempt = 1 + Cardinality(Retries(G, a))
         /\ ups[a].attempt <= MaxActivityAttempts
    <2>1. CASE e.type = "ActivityTaskFailed"
      <3>1. Retries(G, a) = Retries(H, a) \cup {e}
        BY <1>7, <1>10, <1>11, <2>1 DEF Retries
      <3>2. e \notin Retries(H, a)
        BY <1>11 DEF Retries
      <3>3. Cardinality(Retries(H, a) \cup {e}) = n + 1
        BY <1>2, <3>2, FS_AddElement
      <3>4. Cardinality(Retries(G, a)) = n + 1
        BY <3>1, <3>3
      <3> QED BY <1>1, <1>2, <2>1, <3>4 DEF MaxActivityAttempts
    <2>2. CASE e.type = "ActivityTaskFailedFinally"
      <3>1. Retries(G, a) = Retries(H, a)
        BY <1>7, <1>10, <2>2 DEF Retries
      <3> QED BY <1>1, <1>2, <2>2, <3>1
    <2> QED BY <2>1, <2>2
  <1>13. RowFollows(G, a, ups[a])
    BY <1>7, <1>8, <1>9, <1>12 DEF RowFollows
  <1> QED BY <1>4, <1>5, <1>6, <1>12, <1>13 DEF SoundActivities

--------------------------------------------------------------------------------
(* The transactions of the handlers *)

LEMMA QuietSound ==
  ASSUME NEW H \in SUBSET Event, NEW N \in SUBSET Event, Follows(H, N), NEW rows,
         SoundActivities(H, rows),
         \A e \in N : /\ e.act \notin Activities
                      /\ e.type \notin {"ActivityTaskFailed", "ActivityTaskFailedFinally"}
  PROVE  SoundActivities(H \cup N, Upserted(rows, NoUpserts))
  <1>1. \A a \in Activities : About(N, a) = {} /\ NoUpserts[a].status = "Absent"
    BY DEF About, NoUpserts, NoActivityState
  <1> QED BY <1>1, ResetsSound

LEMMA ResetSound ==
  ASSUME NEW H \in SUBSET Event, NEW e \in Event, Follows(H, {e}), NEW rows,
         SoundActivities(H, rows), NEW a \in Activities, e.act = a, e.type \in ResetTypes, NEW arow,
         arow.status = StatusAfter[e.type], arow.attempt = 1
  PROVE  SoundActivities(H \cup {e}, Upserted(rows, [NoUpserts EXCEPT ![a] = arow]))
  <1> DEFINE ups == [NoUpserts EXCEPT ![a] = arow]
  <1>1. ups[a] = arow /\ \A b \in Activities : b # a => ups[b].status = "Absent"
    BY DEF NoUpserts, NoActivityState
  <1>2. About({e}, a) = {e} /\ \A b \in Activities : b # a => About({e}, b) = {}
    BY DEF About
  <1>3. StatusAfter[e.type] # "Absent" /\ e.type \notin {"ActivityTaskFailed", "ActivityTaskFailedFinally"}
    BY DEF StatusAfter, ResetTypes
  <1>4. e.id <= e.id
    BY DEF Event
  <1> HIDE DEF ups
  <1>5. \A b \in Activities :
          IF About({e}, b) = {} THEN ups[b].status = "Absent"
          ELSE /\ ups[b].status # "Absent" /\ ups[b].attempt = 1
               /\ \E g \in About({e}, b) : /\ \A f \in About({e}, b) : f.id <= g.id
                                           /\ ups[b].status = StatusAfter[g.type]
    BY <1>1, <1>2, <1>3, <1>4
  <1>6. \A b \in Activities : \A g \in About({e}, b) : g.type \in ResetTypes
    BY DEF About
  <1>7. SoundActivities(H \cup {e}, Upserted(rows, ups))
    BY <1>3, <1>5, <1>6, ResetsSound
  <1> QED BY <1>7 DEF ups

LEMMA HeartbeatSound ==
  ASSUME NEW H, NEW rows \in [Activities -> Activity], SoundActivities(H, rows), NEW row,
         NEW a \in Activities
  PROVE  SoundActivities(H \cup HeartbeatTxn(row, a, rows[a]).events,
                         Upserted(rows, HeartbeatTxn(row, a, rows[a]).upserts))
  <1> DEFINE txn == HeartbeatTxn(row, a, rows[a])
  <1>1. txn.events = {} /\ txn.upserts = [NoUpserts EXCEPT ![a] = [rows[a] EXCEPT !.lastHeartbeat = "set"]]
    BY DEF HeartbeatTxn
  <1>2. ASSUME NEW b \in Activities
        PROVE  /\ Upserted(rows, txn.upserts)[b].status = rows[b].status
               /\ Upserted(rows, txn.upserts)[b].attempt = rows[b].attempt
               /\ rows[b] = NoActivityState => Upserted(rows, txn.upserts)[b] = rows[b]
    BY <1>1 DEF Upserted, NoUpserts, NoActivityState, Activity
  <1>3. H \cup txn.events = H
    BY <1>1
  <1> HIDE DEF txn
  <1>4. ASSUME NEW b \in Activities
        PROVE  /\ RowFollows(H, b, Upserted(rows, txn.upserts)[b])
               /\ Upserted(rows, txn.upserts)[b].attempt <= MaxActivityAttempts
    <2>1. RowFollows(H, b, rows[b]) /\ rows[b].attempt <= MaxActivityAttempts
      BY DEF SoundActivities
    <2> QED BY <1>2, <2>1 DEF RowFollows
  <1>5. SoundActivities(H, Upserted(rows, txn.upserts))
    BY <1>4 DEF SoundActivities
  <1> QED BY <1>3, <1>5 DEF txn

LEMMA WorkflowTaskCompletedSound ==
  ASSUME NEW H \in SUBSET Event, NEW k \in Keys, NEW row \in Execution, \A h \in H : h.id < row.next,
         NEW rows, SoundActivities(H, rows), NEW cmds \in Batches
  PROVE  LET txn == WorkflowTaskCompletedTxn(k, row, cmds)
         IN  SoundActivities(H \cup txn.events, Upserted(rows, txn.upserts))
  <1> DEFINE txn == WorkflowTaskCompletedTxn(k, row, cmds)
             n == Len(cmds)
             first == NewEvent(row.next, "WorkflowTaskCompleted", NoActivity)
             event(i) == NewEvent(row.next + i, CommandEvent[cmds[i].type], cmds[i].act)
             mine(a) == {i \in Scheduled(cmds) : cmds[i].act = a}
             N == txn.events
  <1>1. row.next \in Nat /\ n \in Nat /\ DOMAIN cmds = 1 .. n /\ Scheduled(cmds) \subseteq 1 .. n
    <2>1. cmds \in Seq(Command)
      BY ServiceAssumption
    <2> QED BY <2>1 DEF Execution, Scheduled
  <1>2. \A i \in 1 .. n : /\ cmds[i].type \in CommandTypes
                          /\ i \in Scheduled(cmds) <=> cmds[i].act \in Activities
                          /\ i \in Scheduled(cmds) <=> cmds[i].type = "ScheduleActivityTask"
    <2>1. cmds \in Seq(Command)
      BY ServiceAssumption
    <2>2. \A i \in 1 .. n : cmds[i] \in Command
      BY <2>1
    <2> QED BY <1>1, <2>2, ServiceAssumption DEF Command, Scheduled
  <1>3. N = {first} \cup {event(i) : i \in 1 .. n}
    BY <1>1 DEF WorkflowTaskCompletedTxn
  <1>4. first.id = row.next /\ first.type = "WorkflowTaskCompleted" /\ first.act = NoActivity
    BY DEF NewEvent
  <1>5. \A i \in 1 .. n : /\ event(i).id = row.next + i
                          /\ event(i).type = CommandEvent[cmds[i].type]
                          /\ event(i).act = cmds[i].act
    BY DEF NewEvent
  <1>6. N \in SUBSET Event
    BY WorkflowTaskCompletedType DEF Transaction
  <1> HIDE DEF first, event, n, N
  <1>7. Follows(H, N)
    <2>1. \A h \in H : h.id \in Nat
      BY DEF Event
    <2> QED BY <1>1, <1>3, <1>4, <1>5, <2>1 DEF Follows
  <1>8. \A i \in 1 .. n : i \in Scheduled(cmds) <=> event(i).type = "ActivityTaskScheduled"
    BY <1>2, <1>5 DEF CommandEvent, CommandTypes
  <1>9. \A e \in N : e.type \notin {"ActivityTaskFailed", "ActivityTaskFailedFinally"}
    BY <1>2, <1>3, <1>4, <1>5 DEF CommandEvent, CommandTypes
  <1>10. \A a \in Activities : About(N, a) = {event(i) : i \in mine(a)}
    <2> SUFFICES ASSUME NEW a \in Activities PROVE About(N, a) = {event(i) : i \in mine(a)}
      OBVIOUS
    <2>1. first.act # a
      BY <1>4, RepositoryAssumption
    <2> QED BY <1>1, <1>2, <1>3, <1>5, <2>1 DEF About
  <1>11. \A a \in Activities : \A e \in About(N, a) : e.type = "ActivityTaskScheduled"
    BY <1>1, <1>8, <1>10
  <1>12. ASSUME NEW a \in Activities
         PROVE  IF About(N, a) = {} THEN txn.upserts[a].status = "Absent"
                ELSE /\ txn.upserts[a].status # "Absent" /\ txn.upserts[a].attempt = 1
                     /\ \E e \in About(N, a) : /\ \A f \in About(N, a) : f.id <= e.id
                                               /\ txn.upserts[a].status = StatusAfter[e.type]
    <2>1. txn.upserts[a] = IF mine(a) # {} THEN ScheduledActivity(cmds, row, a) ELSE NoActivityState
      BY DEF WorkflowTaskCompletedTxn
    <2>2. CASE mine(a) = {}
      BY <1>10, <2>1, <2>2 DEF NoActivityState
    <2>3. CASE mine(a) # {}
      <3>1. txn.upserts[a].status = "Scheduled" /\ txn.upserts[a].attempt = 1
        BY <2>1, <2>3 DEF ScheduledActivity
      <3>2. IsFiniteSet(1 .. n) /\ mine(a) \subseteq 1 .. n
        BY <1>1, FS_Interval
      <3>3. IsFiniteSet(mine(a)) /\ mine(a) \in SUBSET Nat
        BY <1>1, <3>2, FS_Subset
      <3>4. PICK m \in mine(a) : \A i \in mine(a) : i <= m
        BY <2>3, <3>3, LargestNatural
      <3>5. event(m) \in About(N, a) /\ \A f \in About(N, a) : f.id <= event(m).id
        BY <1>1, <1>5, <1>10, <3>2, <3>4
      <3>6. StatusAfter[event(m).type] = "Scheduled"
        BY <1>11, <3>5 DEF StatusAfter
      <3> HIDE DEF txn
      <3> QED BY <3>1, <3>5, <3>6
    <2> QED BY <2>2, <2>3
  <1>13. SoundActivities(H \cup N, Upserted(rows, txn.upserts))
    <2> HIDE DEF txn
    <2>1. \A a \in Activities : \A e \in About(N, a) : e.type \in ResetTypes
      BY <1>11 DEF ResetTypes
    <2> QED BY <1>6, <1>7, <1>9, <1>12, <2>1, ResetsSound
  <1> QED BY <1>13 DEF N

LEMMA RequestSound ==
  ASSUME NEW H \in SUBSET Event, NEW k \in Keys, NEW row \in Execution, \A h \in H : h.id < row.next,
         NEW rows, SoundActivities(H, rows), NEW txn, RequestTxn(k, row, txn)
  PROVE  SoundActivities(H \cup txn.events, Upserted(rows, txn.upserts))
  <1>1. row.next \in Nat
    BY DEF Execution
  <1>2. ASSUME NEW N \in SUBSET Event, \A e \in N : row.next <= e.id
        PROVE  Follows(H, N)
    BY <1>1, <1>2 DEF Follows, Event
  <1>3. ASSUME NEW type \in EventTypes,
               type \notin {"ActivityTaskFailed", "ActivityTaskFailedFinally"},
               txn.events = {NewEvent(row.next, type, NoActivity)}, txn.upserts = NoUpserts
        PROVE  SoundActivities(H \cup txn.events, Upserted(rows, txn.upserts))
    <2>1. txn.events \in SUBSET Event
      BY <1>1, <1>3, NewEventType
    <2>2. \A e \in txn.events : e.id = row.next /\ e.act = NoActivity /\ e.type = type
      BY <1>3 DEF NewEvent
    <2>3. Follows(H, txn.events)
      BY <1>1, <1>2, <2>1, <2>2
    <2> QED BY <1>3, <2>1, <2>2, <2>3, QuietSound, RepositoryAssumption
  <1>4. CASE txn = WorkflowTaskStartedTxn(k, row)
    <2>1. /\ txn.events = {NewEvent(row.next, "WorkflowTaskStarted", NoActivity)}
          /\ txn.upserts = NoUpserts
      BY <1>4 DEF WorkflowTaskStartedTxn, AppendEvent
    <2> QED BY <1>3, <2>1 DEF EventTypes
  <1>5. CASE \E cmds \in Batches : txn = WorkflowTaskCompletedTxn(k, row, cmds)
    BY <1>5, WorkflowTaskCompletedSound
  <1>6. CASE txn = WorkflowTaskFailedTxn(row)
    <2> DEFINE first == NewEvent(row.next, "WorkflowTaskFailed", NoActivity)
               second == NewEvent(row.next + 1, "WorkflowExecutionFailed", NoActivity)
    <2>1. txn.events = {first, second} /\ txn.upserts = NoUpserts
      BY <1>6 DEF WorkflowTaskFailedTxn, AppendEvent
    <2>2. first \in Event /\ second \in Event
      BY <1>1, NewEventType DEF EventTypes
    <2>3. /\ first.id = row.next /\ second.id = row.next + 1
          /\ first.act = NoActivity /\ second.act = NoActivity
          /\ first.type = "WorkflowTaskFailed" /\ second.type = "WorkflowExecutionFailed"
      BY DEF NewEvent
    <2> HIDE DEF first, second
    <2>4. txn.events \in SUBSET Event /\ \A e \in txn.events : row.next <= e.id
      BY <1>1, <2>1, <2>2, <2>3
    <2>5. Follows(H, txn.events)
      BY <1>2, <2>4
    <2>6. \A e \in txn.events : /\ e.act \notin Activities
                                /\ e.type \notin {"ActivityTaskFailed", "ActivityTaskFailedFinally"}
      BY <2>1, <2>3, RepositoryAssumption
    <2> QED BY <2>1, <2>4, <2>5, <2>6, QuietSound
  <1>7. CASE \E a \in Activities : txn = ActivityTaskStartedTxn(row, a)
    <2>1. PICK a \in Activities : txn = ActivityTaskStartedTxn(row, a)
      BY <1>7
    <2> DEFINE e == NewEvent(row.next, "ActivityTaskStarted", a)
               arow == [status |-> "Started", attempt |-> 1, taskQueue |-> "empty",
                        lastHeartbeat |-> "set"]
    <2>2. txn.events = {e} /\ txn.upserts = [NoUpserts EXCEPT ![a] = arow]
      BY <2>1 DEF ActivityTaskStartedTxn, AppendEvent
    <2>3. e \in Event
      BY <1>1, NewEventType DEF EventTypes
    <2>4. e.id = row.next /\ e.act = a /\ e.type = "ActivityTaskStarted"
      BY DEF NewEvent
    <2>5. /\ arow.status = StatusAfter["ActivityTaskStarted"] /\ arow.attempt = 1
          /\ "ActivityTaskStarted" \in ResetTypes
      BY DEF StatusAfter, ResetTypes
    <2> HIDE DEF e, arow
    <2>6. Follows(H, {e})
      BY <1>1, <1>2, <2>3, <2>4
    <2>7. SoundActivities(H \cup {e}, Upserted(rows, [NoUpserts EXCEPT ![a] = arow]))
      BY <2>3, <2>4, <2>5, <2>6, ResetSound
    <2> QED BY <2>2, <2>7
  <1>8. CASE txn = SignalTxn(k, row)
    <2>1. /\ txn.events = {NewEvent(row.next, "WorkflowExecutionSignaled", NoActivity)}
          /\ txn.upserts = NoUpserts
      BY <1>8 DEF SignalTxn, AppendEvent
    <2> QED BY <1>3, <2>1 DEF EventTypes
  <1> QED BY <1>4, <1>5, <1>6, <1>7, <1>8 DEF RequestTxn

LEMMA ReportSound ==
  ASSUME NEW H \in SUBSET Event, IsFiniteSet(H), NEW k \in Keys, NEW row \in Execution,
         \A h \in H : h.id < row.next, NEW rows \in [Activities -> Activity],
         SoundActivities(H, rows), NEW a \in Activities, rows[a].status # "Absent",
         NEW rpc \in ActivityRPCs
  PROVE  LET txn == ActivityTxn(rpc, k, row, a, rows[a])
         IN  SoundActivities(H \cup txn.events, Upserted(rows, txn.upserts))
  <1>1. row.next \in Nat /\ rows[a] \in Activity
    BY DEF Execution
  <1>2. ASSUME NEW type \in EventTypes
        PROVE  LET e == NewEvent(row.next, type, a)
               IN  e \in Event /\ e.act = a /\ e.type = type /\ Follows(H, {e})
    <2> DEFINE e == NewEvent(row.next, type, a)
    <2>1. e \in Event
      BY <1>1, NewEventType
    <2>2. e.id = row.next /\ e.act = a /\ e.type = type
      BY DEF NewEvent
    <2> HIDE DEF e
    <2>3. Follows(H, {e})
      BY <2>2 DEF Follows
    <2> QED BY <2>1, <2>2, <2>3 DEF e
  <1>3. CASE rpc = "RecordActivityTaskCompleted"
    <2> DEFINE e == NewEvent(row.next, "ActivityTaskCompleted", a)
               arow == [rows[a] EXCEPT !.status = "Completed", !.attempt = 1]
               txn == ActivityTxn(rpc, k, row, a, rows[a])
    <2>1. txn.events = {e} /\ txn.upserts = [NoUpserts EXCEPT ![a] = arow]
      BY <1>3 DEF ActivityTxn, ActivityTaskCompletedTxn, AppendEvent
    <2>2. e \in Event /\ e.act = a /\ e.type = "ActivityTaskCompleted" /\ Follows(H, {e})
      BY <1>2 DEF EventTypes
    <2>3. /\ arow.status = StatusAfter["ActivityTaskCompleted"] /\ arow.attempt = 1
          /\ "ActivityTaskCompleted" \in ResetTypes
      BY <1>1 DEF StatusAfter, ResetTypes, Activity
    <2> HIDE DEF e, arow, txn
    <2>4. SoundActivities(H \cup {e}, Upserted(rows, [NoUpserts EXCEPT ![a] = arow]))
      BY <2>2, <2>3, ResetSound
    <2>5. SoundActivities(H \cup txn.events, Upserted(rows, txn.upserts))
      BY <2>1, <2>4
    <2> QED BY <2>5 DEF txn
  <1>4. CASE rpc = "RecordActivityTaskFailed" /\ rows[a].attempt < MaxActivityAttempts
    <2> DEFINE e == NewEvent(row.next, "ActivityTaskFailed", a)
               arow == [rows[a] EXCEPT !.status = "Failed", !.attempt = @ + 1]
               ups == [NoUpserts EXCEPT ![a] = arow]
               txn == ActivityTxn(rpc, k, row, a, rows[a])
    <2>1. txn.events = {e} /\ txn.upserts = ups
      BY <1>4 DEF ActivityTxn, ActivityTaskFailedTxn, RetryActivityTxn, AppendEvent
    <2>2. e \in Event /\ e.act = a /\ e.type = "ActivityTaskFailed" /\ Follows(H, {e})
      BY <1>2 DEF EventTypes
    <2>3. arow.status = "Failed" /\ arow.attempt = rows[a].attempt + 1
      BY <1>1 DEF Activity
    <2> HIDE DEF e, arow, txn
    <2>4. ups = [NoUpserts EXCEPT ![a] = ups[a]] /\ ups[a] = arow
      BY DEF NoUpserts
    <2> HIDE DEF ups
    <2>5. SoundActivities(H \cup {e}, Upserted(rows, ups))
      BY <1>4, <2>2, <2>3, <2>4, FailureSound
    <2>6. SoundActivities(H \cup txn.events, Upserted(rows, txn.upserts))
      BY <2>1, <2>5
    <2> QED BY <2>6 DEF txn
  <1>5. CASE rpc = "RecordActivityTaskFailed" /\ ~(rows[a].attempt < MaxActivityAttempts)
    <2> DEFINE e == NewEvent(row.next, "ActivityTaskFailedFinally", a)
               arow == [rows[a] EXCEPT !.status = "Failed"]
               ups == [NoUpserts EXCEPT ![a] = arow]
               txn == ActivityTxn(rpc, k, row, a, rows[a])
    <2>1. txn.events = {e} /\ txn.upserts = ups
      BY <1>5 DEF ActivityTxn, ActivityTaskFailedTxn, FailActivityTxn, AppendEvent
    <2>2. e \in Event /\ e.act = a /\ e.type = "ActivityTaskFailedFinally" /\ Follows(H, {e})
      BY <1>2 DEF EventTypes
    <2>3. arow.status = "Failed" /\ arow.attempt = rows[a].attempt
      BY <1>1 DEF Activity
    <2> HIDE DEF e, arow, txn
    <2>4. ups = [NoUpserts EXCEPT ![a] = ups[a]] /\ ups[a] = arow
      BY DEF NoUpserts
    <2> HIDE DEF ups
    <2>5. SoundActivities(H \cup {e}, Upserted(rows, ups))
      BY <1>5, <2>2, <2>3, <2>4, FailureSound
    <2>6. SoundActivities(H \cup txn.events, Upserted(rows, txn.upserts))
      BY <2>1, <2>5
    <2> QED BY <2>6 DEF txn
  <1>6. CASE rpc = "RecordActivityTaskHeartbeat"
    BY <1>6, HeartbeatSound DEF ActivityTxn
  <1> QED BY <1>3, <1>4, <1>5, <1>6 DEF ActivityRPCs

--------------------------------------------------------------------------------
(* The steps *)

\* What ActivityInv says of a call that is about to commit.
PendingSound(cl) ==
  cl.pc = "update" /\ cl.row.version = executions[cl.key].version =>
    SoundActivities(history[cl.key] \cup cl.txn.events,
                    Upserted(activities[cl.key], cl.txn.upserts))

LEMMA IdsBelowNext ==
  ASSUME HistoryInv, NEW k \in Keys
  PROVE  \A h \in history[k] : h.id < executions[k].next
  <1>1. \A h \in history[k] : h.id \in 1 .. executions[k].next - 1
    BY DEF HistoryInv, EventIDsContiguous
  <1> QED BY <1>1 DEF HistoryInv, TypeOK, RepositoryTypeOK, Execution

LEMMA CallsOnlyActivity ==
  ASSUME ActivityInv, UNCHANGED dbVars,
         \A d \in Callers : calls'[d] = calls[d] \/ PendingSound(calls'[d])
  PROVE  ActivityInv'
  <1>1. \A k \in Keys : SoundActivities(history'[k], activities'[k])
    BY DEF ActivityInv, dbVars
  <1>2. \A d \in Callers : PendingSound(calls'[d])
    BY DEF ActivityInv, PendingSound
  <1> QED BY <1>1, <1>2 DEF ActivityInv, PendingSound, dbVars

LEMMA RequestPending ==
  ASSUME HistoryInv, ActivityInv, NEW c \in Callers, Request(c)
  PROVE  \E call : Enter(c, call) /\ PendingSound(call)
  <1>1. PICK k \in Keys : \E call : Enter(c, call) /\ Admitted(k, call)
    BY RequestShape
  <1>6. PICK call : Enter(c, call) /\ Admitted(k, call)
    BY <1>1
  <1>2. executions[k] \in Execution /\ history[k] \in SUBSET Event
    BY DEF HistoryInv, TypeOK, RepositoryTypeOK
  <1>3. SoundActivities(history[k], activities[k])
    BY DEF ActivityInv
  <1>4. ASSUME NEW txn, call = Update(k, txn, "publish"), RequestTxn(k, executions[k], txn)
        PROVE  PendingSound(call)
    <2>1. SoundActivities(history[k] \cup txn.events, Upserted(activities[k], txn.upserts))
      BY <1>2, <1>3, <1>4, IdsBelowNext, RequestSound
    <2> QED BY <1>4, <2>1 DEF PendingSound, Update
  <1>5. PendingSound(call)
    <2>1. \/ call.pc # "update"
          \/ \E txn : call = Update(k, txn, "publish") /\ RequestTxn(k, executions[k], txn)
      BY <1>6 DEF Admitted
    <2>2. call.pc # "update" => PendingSound(call)
      BY DEF PendingSound
    <2> QED BY <1>4, <2>1, <2>2
  <1> QED BY <1>5, <1>6

LEMMA GetActivityStatePending ==
  ASSUME HistoryInv, ActivityInv, NEW c \in Callers, GetActivityState(c)
  PROVE  \E call : calls' = [calls EXCEPT ![c] = call] /\ PendingSound(call)
  <1> DEFINE cl == calls[c]
             arow == activities[cl.key][cl.act]
             txn == ActivityTxn(cl.rpc, cl.key, cl.row, cl.act, arow)
  <1>1. cl.pc = "read" /\ cl \in Reading
    BY CallShape DEF HistoryInv, GetActivityState
  <1>2. cl.key \in Keys /\ cl.act \in Activities /\ cl.rpc \in ActivityRPCs /\ cl.row \in Execution
    BY <1>1 DEF Reading
  <1>3. PICK call : /\ calls' = [calls EXCEPT ![c] = call]
                    /\ \/ call = Idle
                       \/ /\ arow.status # "Absent"
                          /\ call = [pc |-> "update", key |-> cl.key, row |-> cl.row, txn |-> txn,
                                     then |-> IF cl.rpc = "RecordActivityTaskHeartbeat" THEN "peek"
                                              ELSE "publish"]
    BY DEF GetActivityState
  <1>4. ASSUME arow.status # "Absent", cl.row.version = executions[cl.key].version
        PROVE  SoundActivities(history[cl.key] \cup txn.events,
                               Upserted(activities[cl.key], txn.upserts))
    <2>1. cl.row = executions[cl.key]
      BY <1>1, <1>4 DEF HistoryInv, SnapshotCurrent
    <2>2. /\ history[cl.key] \in SUBSET Event /\ activities[cl.key] \in [Activities -> Activity]
          /\ IsFiniteSet(history[cl.key]) /\ SoundActivities(history[cl.key], activities[cl.key])
          /\ \A h \in history[cl.key] : h.id < cl.row.next
      BY <1>2, <2>1, FiniteHistory, IdsBelowNext DEF HistoryInv, TypeOK, RepositoryTypeOK, ActivityInv
    <2> QED BY <1>2, <1>4, <2>2, ReportSound
  <1> HIDE DEF txn
  <1>5. PendingSound(call)
    <2>1. PendingSound(Idle)
      BY DEF PendingSound, Idle
    <2>2. ASSUME call = [pc |-> "update", key |-> cl.key, row |-> cl.row, txn |-> txn,
                         then |-> IF cl.rpc = "RecordActivityTaskHeartbeat" THEN "peek"
                                  ELSE "publish"],
                 arow.status # "Absent"
          PROVE  PendingSound(call)
      <3>1. call.row = cl.row /\ call.key = cl.key /\ call.txn = txn
        BY <2>2
      <3> QED BY <1>4, <2>2, <3>1 DEF PendingSound
    <2> QED BY <1>3, <2>1, <2>2
  <1> QED BY <1>3, <1>5

\* Steps that do not write leave each pending transaction as it is, or prepare a sound one.
LEMMA PendingStep ==
  ASSUME HistoryInv, ActivityInv, [Next]_vars
  PROVE  \/ \A d \in Callers : calls'[d] = calls[d] \/ PendingSound(calls'[d])
         \/ \E c \in Callers : InsertExecution(c) \/ CommitUpdate(c)
  <1> DEFINE Kept == \A d \in Callers : calls'[d] = calls[d] \/ PendingSound(calls'[d])
  <1>1. calls \in [Callers -> Call]
    BY DEF HistoryInv, TypeOK
  <1>2. ASSUME NEW c \in Callers, NEW call, calls' = [calls EXCEPT ![c] = call], PendingSound(call)
        PROVE  Kept
    BY <1>1, <1>2
  <1>3. PendingSound(Idle) /\ \A T, W : PendingSound(Publish(T, W))
    BY DEF PendingSound, Publish, Idle
  <1>4. ASSUME NEW c \in Callers, Request(c)
        PROVE  Kept
    BY <1>2, <1>4, RequestPending DEF Enter
  <1>5. ASSUME NEW c \in Callers, GetActivityState(c)
        PROVE  Kept
    BY <1>2, <1>5, GetActivityStatePending
  <1>6. ASSUME NEW c \in Callers, RollbackUpdate(c) \/ StatementFails(c) \/ PeekTimeoutTimer(c)
        PROVE  Kept
    BY <1>2, <1>3, <1>6 DEF RollbackUpdate, StatementFails, PeekTimeoutTimer
  <1>7. ASSUME NEW c \in Callers, NEW t, ScheduleTimer(c, t) \/ AddTask(c, t)
        PROVE  Kept
    BY <1>2, <1>3, <1>7 DEF ScheduleTimer, AddTask
  <1>8. ASSUME Crash PROVE Kept
    BY <1>3, <1>8 DEF Crash
  <1>9. ASSUME UNCHANGED vars PROVE Kept
    BY <1>9 DEF vars
  <1> HIDE DEF Kept
  <1>10. ASSUME NEW c \in Callers, Proceed(c)
         PROVE  Kept \/ InsertExecution(c) \/ CommitUpdate(c)
    BY <1>5, <1>6, <1>7, <1>10, Zenon DEF Proceed
  <1>11. Kept \/ \E c \in Callers : InsertExecution(c) \/ CommitUpdate(c)
    BY <1>4, <1>6, <1>8, <1>9, <1>10, Zenon DEF Next
  <1> QED BY <1>11 DEF Kept

\* A transaction prepared from a row that is written meanwhile can no longer commit.
LEMMA OthersPending ==
  ASSUME HistoryInv, ActivityInv, NEW c \in Callers, InsertExecution(c) \/ CommitUpdate(c),
         NEW k \in Keys, executions'[k].version = executions[k].version + 1,
         \A l \in Keys \ {k} : /\ executions'[l] = executions[l] /\ history'[l] = history[l]
                               /\ activities'[l] = activities[l],
         SoundActivities(history'[k], activities'[k])
  PROVE  ActivityInv'
  <1>1. ASSUME NEW l \in Keys
        PROVE  SoundActivities(history'[l], activities'[l])
    BY DEF ActivityInv
  <1>2. ASSUME NEW d \in Callers, calls'[d].pc = "update",
               calls'[d].row.version = executions'[calls'[d].key].version
        PROVE  SoundActivities(history'[calls'[d].key] \cup calls'[d].txn.events,
                               Upserted(activities'[calls'[d].key], calls'[d].txn.upserts))
    <2>1. calls'[d] = calls[d]
      BY <1>2, CommittedCalls
    <2>2. calls[d].pc = "update" /\ calls[d] \in Updating
      BY <1>2, <2>1, CallShape DEF HistoryInv
    <2>3. calls[d].key \in Keys /\ calls[d].row \in Execution
      BY <2>2 DEF Updating
    <2>4. calls[d].row.version <= executions[calls[d].key].version
      BY <2>2 DEF HistoryInv, SnapshotCurrent
    <2>5. executions[k].version \in Nat /\ calls[d].row.version \in Nat
      BY <2>3 DEF HistoryInv, TypeOK, RepositoryTypeOK, Execution
    <2>6. calls[d].key # k
      BY <1>2, <2>1, <2>4, <2>5
    <2>7. /\ executions'[calls[d].key] = executions[calls[d].key]
          /\ history'[calls[d].key] = history[calls[d].key]
          /\ activities'[calls[d].key] = activities[calls[d].key]
      BY <2>3, <2>6
    <2>8. SoundActivities(history[calls[d].key] \cup calls[d].txn.events,
                          Upserted(activities[calls[d].key], calls[d].txn.upserts))
      BY <1>2, <2>1, <2>2, <2>7 DEF ActivityInv
    <2> QED BY <2>1, <2>7, <2>8
  <1> QED BY <1>1, <1>2 DEF ActivityInv

LEMMA InsertActivity ==
  ASSUME HistoryInv, ActivityInv, NEW c \in Callers, InsertExecution(c)
  PROVE  ActivityInv'
  <1> DEFINE e == NewEvent(1, "WorkflowExecutionStarted", NoActivity)
  <1>1. PICK k \in Keys :
          /\ executions[k] = NoExecution /\ history[k] = {}
          /\ executions'[k].version = 1 /\ history'[k] = {e}
          /\ \A l \in Keys \ {k} : executions'[l] = executions[l] /\ history'[l] = history[l]
          /\ activities' = activities
    BY InsertEffect
  <1>2. e \in Event /\ e.act \notin Activities /\ e.type = "WorkflowExecutionStarted"
    BY NewEventType, RepositoryAssumption DEF NewEvent, EventTypes
  <1>3. executions[k].version = 0
    BY <1>1 DEF NoExecution
  <1> HIDE DEF e
  <1>4. SoundActivities({} \cup {e}, Upserted(activities[k], NoUpserts))
    <2>1. SoundActivities({}, activities[k])
      BY <1>1 DEF ActivityInv
    <2>2. Follows({}, {e})
      BY DEF Follows
    <2> QED BY <1>2, <2>1, <2>2, QuietSound
  <1>5. Upserted(activities[k], NoUpserts) = activities[k]
    <2>1. activities[k] \in [Activities -> Activity]
      BY DEF HistoryInv, TypeOK, RepositoryTypeOK
    <2>2. Upserted(activities[k], NoUpserts) = [a \in Activities |-> activities[k][a]]
      BY DEF Upserted, NoUpserts, NoActivityState
    <2> QED BY <2>1, <2>2
  <1>6. SoundActivities({e}, activities[k])
    <2>1. {} \cup {e} = {e}
      OBVIOUS
    <2> QED BY <1>4, <1>5, <2>1
  <1>7. SoundActivities(history'[k], activities'[k])
    BY <1>1, <1>6
  <1>8. executions'[k].version = executions[k].version + 1
    BY <1>1, <1>3
  <1> QED BY <1>1, <1>7, <1>8, OthersPending

LEMMA CommitActivity ==
  ASSUME HistoryInv, ActivityInv, NEW c \in Callers, CommitUpdate(c)
  PROVE  ActivityInv'
  <1> DEFINE k == calls[c].key
             txn == calls[c].txn
  <1>1. calls[c].pc = "update" /\ calls[c] \in Updating
    BY CallShape DEF HistoryInv, CommitUpdate
  <1>2. /\ k \in Keys /\ calls[c].row.version = executions[k].version
        /\ executions' = [executions EXCEPT ![k] = WriteRow(k, txn, executions[k].version + 1)]
        /\ history' = [history EXCEPT ![k] = history[k] \cup txn.events]
        /\ activities' = [activities EXCEPT ![k] = Upserted(activities[k], txn.upserts)]
    BY <1>1 DEF CommitUpdate, UpdateWorkflowExecution, WriteTables, Updating, Upserted
  <1>3. executions \in [Keys -> Execution] /\ DOMAIN history = Keys /\ DOMAIN activities = Keys
    BY DEF HistoryInv, TypeOK, RepositoryTypeOK
  <1>4. SoundActivities(history[k] \cup txn.events, Upserted(activities[k], txn.upserts))
    BY <1>1, <1>2 DEF ActivityInv
  <1>5. /\ executions'[k].version = executions[k].version + 1
        /\ history'[k] = history[k] \cup txn.events
        /\ activities'[k] = Upserted(activities[k], txn.upserts)
        /\ \A l \in Keys \ {k} : /\ executions'[l] = executions[l] /\ history'[l] = history[l]
                                 /\ activities'[l] = activities[l]
    BY <1>2, <1>3 DEF WriteRow
  <1>6. SoundActivities(history'[k], activities'[k])
    BY <1>4, <1>5
  <1> HIDE DEF k, txn
  <1> QED BY <1>2, <1>5, <1>6, OthersPending

LEMMA ActivityStep ==
  ASSUME HistoryInv, ActivityInv, [Next]_vars
  PROVE  ActivityInv'
  <1>1. CASE \E c \in Callers : InsertExecution(c) \/ CommitUpdate(c)
    BY <1>1, InsertActivity, CommitActivity
  <1>2. CASE ~\E c \in Callers : InsertExecution(c) \/ CommitUpdate(c)
    <2>1. UNCHANGED dbVars
      BY <1>2, StepKinds
    <2>2. \A d \in Callers : calls'[d] = calls[d] \/ PendingSound(calls'[d])
      BY <1>2, PendingStep
    <2> QED BY <2>1, <2>2, CallsOnlyActivity
  <1> QED BY <1>1, <1>2

LEMMA ActivityInit == Init => ActivityInv
  <1> SUFFICES ASSUME Init PROVE ActivityInv
    OBVIOUS
  <1>1. /\ \A k \in Keys : history[k] = {} /\ activities[k] = NoUpserts
        /\ \A c \in Callers : calls[c].pc = "idle"
    BY DEF Init, RepositoryInit, Idle, NoUpserts
  <1>2. SoundActivities({}, NoUpserts)
    BY DEF SoundActivities, RetriesWithinLimit, RowFollows, About, NoUpserts, NoActivityState,
       MaxActivityAttempts
  <1> QED BY <1>1, <1>2 DEF ActivityInv

--------------------------------------------------------------------------------
(* Theorems *)

\* However reports interleave, repeat or come late, every activity row is sound, and so is
\* what each handler that can still commit would make of it.
THEOREM ActivitiesSound == Spec => []ActivityInv
  <1>1. HistoryInv /\ ActivityInv /\ [Next]_vars => (HistoryInv /\ ActivityInv)'
    BY StepKinds, ActivityStep
  <1> QED BY InitInv, ActivityInit, <1>1, PTL DEF Spec

\* The row of every activity is the one its history leaves behind.
THEOREM ActivitiesExact == Spec => []ActivityMatchesHistory
  <1>1. ActivityInv => ActivityMatchesHistory
    BY DEF ActivityInv, SoundActivities, ActivityMatchesHistory
  <1> QED BY ActivitiesSound, <1>1, PTL

\* A failure is retried while fewer than MaxActivityAttempts - 1 retries precede it, and
\* is final after exactly that many.
THEOREM RetriesExact == Spec => []RetriesBounded
  <1>1. ActivityInv => RetriesBounded
    BY DEF ActivityInv, SoundActivities, RetriesBounded
  <1> QED BY ActivitiesSound, <1>1, PTL
================================================================================
