---------------------- MODULE IncidentRefinementProofs ----------------------
(***************************************************************************)
(* The incident engine implements the abstract life of an incident, for    *)
(* every value of the constants: initial states map to initial states, and *)
(* every step of the engine maps to a step of IncidentLifecycle or to no   *)
(* step at all.                                                            *)
(***************************************************************************)
EXTENDS IncidentEngineProofs

\* The variables of the abstraction.
Phase   == [i \in Incidents |-> incident[i].state]
Subject == [i \in Incidents |-> incident[i].topic]
Dead    == {t \in Topics : topic[t].status = "deleted"}
Until   == [i \in Incidents |-> Deadline(i)]

\* The step leaves the row and the timers of i alone.
Kept(i) ==
  /\ incident'[i].state = incident[i].state
  /\ incident'[i].topic = incident[i].topic
  /\ incident'[i].openedAt = incident[i].openedAt
  /\ incident'[i].maxRing = incident[i].maxRing
  /\ incident[i].state = "acked" =>
       \A tm \in timers : tm.inc = i => tm \in timers'

-----------------------------------------------------------------------------
\* The desk timer is the only one of its kind, so the choice is that timer.
LEMMA OnlyOne ==
  ASSUME NEW T, NEW i, NEW tm \in T, tm.inc = i, tm.kind = "desk",
         \A x, y \in T : x.inc = i /\ y.inc = i /\ x.kind = y.kind => x = y
  PROVE  (CHOOSE x \in T : x.inc = i /\ x.kind = "desk") = tm
OBVIOUS

\* An incident whose row and timers are kept has the deadline it had.
LEMMA DeadlineKept ==
  ASSUME IInv, IInv', NEW i \in Incidents, Kept(i)
  PROVE  Deadline(i)' = Deadline(i)
<1>1. CASE incident[i].state = "acked"
  <2>1. PICK tm \in timers : tm.inc = i /\ tm.kind = "desk"
    BY <1>1 DEF IInv, TableInv, TimersMatchState, TimersFor
  <2>2. tm \in timers' BY <1>1, <2>1 DEF Kept
  <2>3. \A x, y \in timers : x.inc = i /\ y.inc = i /\ x.kind = y.kind => x = y
    BY DEF IInv, TableInv, TimersMatchState
  <2>4. \A x, y \in timers' : x.inc = i /\ y.inc = i /\ x.kind = y.kind => x = y
    BY DEF IInv, TableInv, TimersMatchState
  <2>5. (CHOOSE x \in timers : x.inc = i /\ x.kind = "desk") = tm
    BY <2>1, <2>3, OnlyOne
  <2>6. (CHOOSE x \in timers' : x.inc = i /\ x.kind = "desk") = tm
    BY <2>1, <2>2, <2>4, OnlyOne
  <2>7. Deadline(i) = tm.at BY <1>1, <2>5 DEF Deadline
  <2>8. Deadline(i)' = tm.at BY <1>1, <2>6 DEF Deadline, Kept
  <2>9. QED BY <2>7, <2>8
<1>2. CASE incident[i].state # "acked" BY <1>2 DEF Deadline, Kept
<1>3. QED BY <1>1, <1>2

\* Nothing of any incident changes: no step of the abstraction.
LEMMA AllKept ==
  ASSUME IInv, IInv', \A i \in Incidents : Kept(i)
  PROVE  UNCHANGED <<Phase, Subject, Until>>
<1>1. \A i \in Incidents : Deadline(i)' = Deadline(i) BY DeadlineKept
<1>2. UNCHANGED Until BY <1>1 DEF Until
<1>3. QED BY <1>2 DEF Kept, Phase, Subject

\* One incident changes, in its topic.
LEMMA OneChanged ==
  ASSUME IInv, IInv', NEW i \in Incidents, NEW s,
         incident'[i].state = s,
         \A j \in Incidents : j # i => Kept(j)
  PROVE  /\ Phase' = [Phase EXCEPT ![i] = s]
         /\ Subject' = [Subject EXCEPT ![i] = incident'[i].topic]
         /\ Until' = [Until EXCEPT ![i] = Until'[i]]
         /\ Until'[i] = Deadline(i)'
<1>1. \A j \in Incidents : j # i => Deadline(j)' = Deadline(j) BY DeadlineKept
<1>2. Until' = [Until EXCEPT ![i] = Until'[i]] /\ Until'[i] = Deadline(i)'
  BY <1>1 DEF Until
<1>3. QED BY <1>2 DEF Kept, Phase, Subject

\* The empty database maps to the initial state of the life.
LEMMA RefineInit == Init => Lifecycle!Init
<1> SUFFICES ASSUME Init PROVE Lifecycle!Init OBVIOUS
<1>1. \A i \in Incidents : /\ incident[i].state = "none"
                           /\ incident[i].topic = NoTopic
                           /\ Deadline(i) = 0
  BY DEF Init, NoIncident, Deadline
<1>2. \A t \in Topics : topic[t].status = "unused" BY DEF Init, NewTopic
<1>3. QED BY <1>1, <1>2 DEF Init, Lifecycle!Init

-----------------------------------------------------------------------------
(* Steps. *)

\* When the present state of an incident runs out.
LEMMA OpenDeadline ==
  ASSUME NEW i \in Incidents, incident[i].state = "open"
  PROVE  Deadline(i) = incident[i].openedAt + incident[i].maxRing
BY DEF Deadline

\* The deadline of an acked incident is its desk timer.
LEMMA AckedDeadline ==
  ASSUME IInv, NEW i \in Incidents, incident[i].state = "acked",
         NEW tm \in timers, tm.inc = i, tm.kind = "desk"
  PROVE  Deadline(i) = tm.at
<1>1. \A x, y \in timers : x.inc = i /\ y.inc = i /\ x.kind = y.kind => x = y
  BY DEF IInv, TableInv, TimersMatchState
<1>2. (CHOOSE x \in timers : x.inc = i /\ x.kind = "desk") = tm BY <1>1, OnlyOne
<1>3. QED BY <1>2 DEF Deadline

\* A publish that opens an incident is the step Open.
LEMMA RefineOpen ==
  ASSUME IInv, IInv', NEW q \in RequestState, q.topic \in Topics,
         topic[q.topic].status = "live", UNCHANGED <<clock, topic>>,
         NEW i \in Incidents, OpenIncident(q, i)
  PROVE  Lifecycle!Open(i, q.topic)
<1>1. /\ incident'[i].state = "open"
      /\ incident'[i].topic = q.topic
      /\ incident'[i].openedAt = clock
      /\ incident'[i].maxRing = q.maxRing
      /\ \A j \in Incidents : j # i => incident'[j] = incident[j]
      /\ timers \subseteq timers'
  BY DEF OpenIncident, IInv, TypeOK
<1>2. \A j \in Incidents : j # i => Kept(j) BY <1>1 DEF Kept
<1>3. Deadline(i)' = clock + q.maxRing BY <1>1 DEF Deadline
<1>4. clock + q.maxRing > clock BY DEF RequestState, Positive, IInv, TypeOK
<1>5. /\ Phase' = [Phase EXCEPT ![i] = "open"]
      /\ Subject' = [Subject EXCEPT ![i] = q.topic]
      /\ Until' = [Until EXCEPT ![i] = Until'[i]]
      /\ Until'[i] > clock
  BY <1>1, <1>2, <1>3, <1>4, OneChanged
<1>6. Phase[i] = "none" /\ q.topic \notin Dead
  BY DEF OpenIncident, Phase, Dead
<1>7. \A j \in Incidents : Phase[j] \in {"open", "acked"} => Subject[j] # q.topic
  BY DEF OpenIncident, ActiveOf, Active, Phase, Subject
<1>8. UNCHANGED <<clock, Dead>> BY DEF Dead
<1>9. QED
  BY <1>5, <1>6, <1>7, <1>8
  DEF Lifecycle!Open, Lifecycle!Move, Lifecycle!SetDeadline, Lifecycle!Live,
      Phase, Subject, Dead, Until

\* An ack is the step Acknowledge.
LEMMA RefineAck ==
  ASSUME IInv, IInv', NEW i \in Incidents, Acknowledge(i)
  PROVE  Lifecycle!Acknowledge(i)
<1> DEFINE d == clock + topic[incident[i].topic].desk
<1>1. \A j \in Incidents : j # i => incident'[j] = incident[j]
  BY DEF Acknowledge, IInv, TypeOK
<1>2. incident'[i].state = "acked" /\ incident'[i].topic = incident[i].topic
  BY MovedFields DEF Acknowledge, States, IInv, TypeOK
<1>3. \A tm \in timers : tm.inc # i => tm \in timers' BY DEF Acknowledge, TimersOf
<1>4. \A j \in Incidents : j # i => Kept(j) BY <1>1, <1>3 DEF Kept
<1>5. topic[incident[i].topic].desk \in Positive /\ clock \in Nat
  BY DEF Acknowledge, IInv, TableInv, TypeOK, Owned, TopicRow
<1>6. PICK tm \in timers' : tm.inc = i /\ tm.kind = "desk"
  BY <1>2 DEF IInv, TableInv, TimersMatchState, TimersFor
<1>7. tm.at = d BY <1>6 DEF Acknowledge, TimersOf, Timer
<1>8. \A x, y \in timers' : x.inc = i /\ y.inc = i /\ x.kind = y.kind => x = y
  BY DEF IInv, TableInv, TimersMatchState
<1>9. (CHOOSE x \in timers' : x.inc = i /\ x.kind = "desk") = tm BY <1>6, <1>8, OnlyOne
<1>10. Deadline(i)' = tm.at BY <1>2, <1>9 DEF Deadline
<1>11. tm.at > clock BY <1>5, <1>7 DEF Positive
<1>12. /\ Phase' = [Phase EXCEPT ![i] = "acked"]
       /\ Until' = [Until EXCEPT ![i] = Until'[i]]
       /\ Until'[i] > clock
  BY <1>2, <1>4, <1>10, <1>11, OneChanged
<1>13. UNCHANGED <<clock, Subject, Dead>>
  BY <1>1, <1>2 DEF Subject, Dead, Acknowledge
<1>14. Phase[i] = "open" BY DEF Acknowledge, Phase
<1>15. QED
  BY <1>12, <1>13, <1>14
  DEF Lifecycle!Acknowledge, Lifecycle!Move, Lifecycle!SetDeadline,
      Phase, Subject, Dead, Until

\* i moves to closed or expired.
LEMMA OverChanged ==
  ASSUME IInv, IInv', NEW i \in Incidents, NEW s \in {"closed", "expired"},
         incident' = [incident EXCEPT ![i] = Moved(i, s)],
         timers' = timers \ TimersOf(i),
         UNCHANGED <<clock, topic>>
  PROVE  /\ Phase' = [Phase EXCEPT ![i] = s]
         /\ Until' = [Until EXCEPT ![i] = 0]
         /\ UNCHANGED <<clock, Subject, Dead>>
<1>1. incident'[i] = Moved(i, s) /\ \A j \in Incidents : j # i => incident'[j] = incident[j]
  BY DEF IInv, TypeOK
<1>2. incident'[i].state = s /\ incident'[i].topic = incident[i].topic
  BY <1>1, MovedFields DEF States
<1>3. \A tm \in timers : tm.inc # i => tm \in timers' BY DEF TimersOf
<1>4. \A j \in Incidents : j # i => Kept(j) BY <1>1, <1>3 DEF Kept
<1>5. Deadline(i)' = 0 BY <1>2 DEF Deadline
<1>6. Phase' = [Phase EXCEPT ![i] = s] /\ Until' = [Until EXCEPT ![i] = 0]
  BY <1>2, <1>4, <1>5, OneChanged
<1>7. UNCHANGED <<clock, Subject, Dead>> BY <1>1, <1>2 DEF Subject, Dead
<1>8. QED BY <1>6, <1>7

\* A close is the step Close.
LEMMA RefineClose ==
  ASSUME IInv, IInv', NEW i \in Incidents, Close(i)
  PROVE  Lifecycle!Close(i)
<1>1. /\ Phase' = [Phase EXCEPT ![i] = "closed"]
      /\ Until' = [Until EXCEPT ![i] = 0]
      /\ UNCHANGED <<clock, Subject, Dead>>
  BY OverChanged DEF Close
<1>2. Phase[i] = "acked" BY DEF Close, Phase
<1>3. QED
  BY <1>1, <1>2 DEF Lifecycle!Close, Lifecycle!Move, Phase, Subject, Dead, Until

\* The expire timer fires: the step Expire, at the deadline or after.
LEMMA RefineExpire ==
  ASSUME IInv, IInv', NEW row \in scan.due, ProcessTimer(row), ExpireFires(row)
  PROVE  Lifecycle!Expire(row.inc)
<1>1. row.inc \in Incidents /\ RowTimer(row) \in timers
  BY DueRowFacts DEF ExpireFires
<1>2. /\ Phase' = [Phase EXCEPT ![row.inc] = "expired"]
      /\ Until' = [Until EXCEPT ![row.inc] = 0]
      /\ UNCHANGED <<clock, Subject, Dead>>
  BY <1>1, OverChanged DEF ProcessTimer, ExpireFires
<1>3. RowTimer(row).at = incident[row.inc].openedAt + incident[row.inc].maxRing
  BY <1>1 DEF IInv, TableInv, ExpireAtWindowEnd, RowTimer, Timer, ExpireFires
<1>4. Deadline(row.inc) <= clock
  BY <1>1, <1>3, OpenDeadline DEF ExpireFires, IInv, ScanAgrees, RowTimer, Timer
<1>5. clock >= Until[row.inc] /\ Phase[row.inc] = "open"
  <2>1. clock \in Nat /\ Deadline(row.inc) \in Nat
    BY <1>1, OpenDeadline DEF ExpireFires, IInv, TypeOK, IncidentRow
  <2>2. QED BY <1>1, <1>4, <2>1 DEF Until, Phase, ExpireFires
<1>6. QED
  BY <1>2, <1>5 DEF Lifecycle!Expire, Lifecycle!Move, Phase, Subject, Dead, Until

\* The desk timer fires: the step Reopen, at the deadline or after.
LEMMA RefineDesk ==
  ASSUME IInv, IInv', NEW row \in scan.due, ProcessTimer(row), DeskFires(row)
  PROVE  Lifecycle!Reopen(row.inc)
<1> DEFINE i == row.inc
<1>1. i \in Incidents /\ RowTimer(row) \in timers /\ row \in DueRow
  BY DueRowFacts DEF DeskFires
<1>2. /\ incident'[i] = [Moved(i, "open") EXCEPT !.openedAt = clock, !.ackedAt = NoTime]
      /\ \A j \in Incidents : j # i => incident'[j] = incident[j]
  BY <1>1 DEF DeskFires, IInv, TypeOK
<1>3. Moved(i, "open") \in IncidentRow BY <1>1, MovedType DEF IInv, States
<1>4. /\ incident'[i].state = "open"
      /\ incident'[i].topic = incident[i].topic
      /\ incident'[i].maxRing = incident[i].maxRing
      /\ incident'[i].openedAt = clock
  BY <1>1, <1>2, <1>3, MovedFields DEF States, IncidentRow
<1>5. \A tm \in timers : tm.inc # i => tm \in timers' BY DEF DeskFires, TimersOf
<1>6. \A j \in Incidents : j # i => Kept(j) BY <1>2, <1>5 DEF Kept
<1>7. Deadline(i)' = clock + incident[i].maxRing BY <1>4 DEF Deadline
<1>8. clock + incident[i].maxRing > clock
  BY <1>1 DEF DeskFires, IInv, TableInv, TypeOK, Owned, Positive
<1>9. /\ Phase' = [Phase EXCEPT ![i] = "open"]
      /\ Until' = [Until EXCEPT ![i] = Until'[i]]
      /\ Until'[i] > clock
  BY <1>1, <1>4, <1>6, <1>7, <1>8, OneChanged
<1>10. UNCHANGED <<clock, Subject, Dead>>
  BY <1>2, <1>4 DEF Subject, Dead, ProcessTimer
<1>11. clock >= Until[i]
  <2>1. RowTimer(row).inc = i /\ RowTimer(row).kind = "desk" /\ RowTimer(row).at = row.at
    BY DEF RowTimer, Timer, DeskFires
  <2>2. Deadline(i) = row.at BY <1>1, <2>1, AckedDeadline DEF DeskFires
  <2>3. row.at <= clock /\ row.at \in Nat /\ clock \in Nat
    BY <1>1 DEF IInv, TypeOK, ScanAgrees, DueRow
  <2>4. QED BY <1>1, <2>2, <2>3 DEF Until
<1>12. Phase[i] = "acked" BY <1>1 DEF Phase, DeskFires
<1>13. QED
  BY <1>9, <1>10, <1>11, <1>12
  DEF Lifecycle!Reopen, Lifecycle!Move, Lifecycle!SetDeadline, Phase, Subject, Dead, Until

\* The incidents in S leave the table.
LEMMA RefineRemove ==
  ASSUME IInv, IInv', NEW S \in SUBSET Incidents,
         incident' = [i \in Incidents |->
                        IF i \in S THEN [incident[i] EXCEPT !.state = "deleted"]
                        ELSE incident[i]],
         timers' = {tm \in timers : tm.inc \notin S},
         UNCHANGED clock
  PROVE  Lifecycle!Remove(S)
<1>1. \A i \in Incidents : incident[i] \in IncidentRow BY DEF IInv, TypeOK
<1>2. \A i \in S : /\ incident'[i].state = "deleted"
                   /\ incident'[i].topic = incident[i].topic
  BY <1>1 DEF IncidentRow
<1>3. \A i \in Incidents \ S : Kept(i) BY DEF Kept
<1>4. \A i \in Incidents \ S : Deadline(i)' = Deadline(i) BY <1>3, DeadlineKept
<1>5. \A i \in S : Deadline(i)' = 0 BY <1>2 DEF Deadline
<1>6. Phase' = [i \in Incidents |-> IF i \in S THEN "deleted" ELSE Phase[i]]
  BY <1>2, <1>3 DEF Phase, Kept
<1>7. Until' = [i \in Incidents |-> IF i \in S THEN 0 ELSE Until[i]]
  BY <1>4, <1>5 DEF Until
<1>8. Subject' = Subject BY <1>2, <1>3 DEF Subject, Kept
<1>9. QED BY <1>6, <1>7, <1>8 DEF Lifecycle!Remove, Phase, Subject, Until

\* Topics that are deleted take their incidents along: the step DeleteTopics.
LEMMA RefineDrop ==
  ASSUME IInv, IInv', NEW ts \in SUBSET Topics, DropTopics(ts)
  PROVE  Lifecycle!DeleteTopics(ts)
<1>0. PICK S \in SUBSET Incidents : S = {i \in Incidents : incident[i].topic \in ts}
  OBVIOUS
<1>1. incident' = [i \in Incidents |->
                     IF i \in S THEN [incident[i] EXCEPT !.state = "deleted"]
                     ELSE incident[i]]
  BY <1>0 DEF DropTopics
<1>2. timers' = {tm \in timers : tm.inc \notin S}
  BY <1>0 DEF DropTopics, IInv, TypeOK, TimerRow
<1>3. UNCHANGED clock BY DEF DropTopics
<1>4. S = {i \in Incidents : Subject[i] \in ts} BY <1>0 DEF Subject
<1>5. Dead' = Dead \cup ts
  BY DEF DropTopics, Dead, IInv, TypeOK, TopicRow
<1>6. Lifecycle!Remove(S) BY <1>1, <1>2, <1>3, RefineRemove
<1>7. QED
  BY <1>4, <1>5, <1>6 DEF Lifecycle!DeleteTopics, Lifecycle!Remove, Subject, Dead

\* Retention is the step Forget.
LEMMA RefinePrune ==
  ASSUME IInv, IInv', PruneHistory
  PROVE  \E S \in SUBSET Incidents : Lifecycle!Forget(S)
<1>0. PICK S \in SUBSET Incidents : S = {i \in Incidents : Prunable(i)} OBVIOUS
<1>1. incident' = [i \in Incidents |->
                     IF i \in S THEN [incident[i] EXCEPT !.state = "deleted"]
                     ELSE incident[i]]
  BY <1>0 DEF PruneHistory
<1>2. timers' = {tm \in timers : tm.inc \notin S}
  BY <1>0 DEF PruneHistory, IInv, TypeOK, TimerRow
<1>3. UNCHANGED <<clock, Dead>> BY DEF PruneHistory, Dead
<1>4. \A i \in S : Phase[i] \in {"closed", "expired"} BY <1>0 DEF Prunable, Phase
<1>5. Lifecycle!Remove(S) BY <1>1, <1>2, <1>3, RefineRemove
<1>6. Lifecycle!Forget(S)
  BY <1>3, <1>4, <1>5 DEF Lifecycle!Forget, Lifecycle!Over, Phase, Dead
<1>7. QED BY <1>6

-----------------------------------------------------------------------------
(* Every step. *)

\* A step the abstraction does not see.
Hidden == UNCHANGED <<clock, Phase, Subject, Dead, Until>>

\* The abstract state is a function of the incidents and timers, and of the dead topics.
LEMMA TablesKept ==
  ASSUME IInv, IInv', UNCHANGED <<incident, timers>>
  PROVE  UNCHANGED <<Phase, Subject, Until>>
BY AllKept DEF Kept

\* The dead topics change with the topics that are deleted only.
LEMMA DeadKept ==
  ASSUME \A t \in Topics : topic'[t].status = "deleted" <=> topic[t].status = "deleted"
  PROVE  UNCHANGED Dead
BY DEF Dead

\* A step that writes no table is a stutter.
LEMMA HiddenStep ==
  ASSUME IInv, IInv', UNCHANGED <<clock, topic, incident, timers>>
  PROVE  Hidden
BY TablesKept DEF Hidden, Dead

\* Creating or patching a topic is a stutter.
LEMMA RefineTopics ==
  ASSUME IInv, IInv', NEW t \in Topics, NEW c \in BOOLEAN,
         CreateTopic(t, c) \/ \E s \in Settings : PatchTopic(t, c, s)
  PROVE  Hidden
<1>1. \A u \in Topics : topic'[u].status = "deleted" <=> topic[u].status = "deleted"
  <2>1. topic \in [Topics -> TopicRow] BY DEF IInv, TypeOK
  <2>2. CASE CreateTopic(t, c)
    <3>1. topic'[t].status = "live" /\ topic[t].status = "unused"
      BY <2>1, <2>2 DEF CreateTopic, NewTopic
    <3>2. \A u \in Topics : u # t => topic'[u] = topic[u] BY <2>1, <2>2 DEF CreateTopic
    <3>3. QED BY <3>1, <3>2
  <2>3. CASE \E s \in Settings : PatchTopic(t, c, s)
    BY <2>1, <2>3 DEF PatchTopic, TopicRow
  <2>4. QED BY <2>2, <2>3
<1>2. UNCHANGED <<clock, incident, timers>> BY DEF CreateTopic, PatchTopic
<1>3. QED BY <1>1, <1>2, TablesKept, DeadKept DEF Hidden

\* A publish that joins a live incident is a stutter.
LEMMA RefineJoin ==
  ASSUME IInv, IInv', UNCHANGED <<clock, topic>>, NEW q, NEW i \in Incidents, JoinIncident(q, i)
  PROVE  Hidden
<1>1. incident \in [Incidents -> IncidentRow] BY DEF IInv, TypeOK
<1>2. \A j \in Incidents : Kept(j)
  BY <1>1 DEF Kept, JoinIncident, Bumped, IncidentRow
<1>3. QED BY <1>2, AllKept DEF Hidden, Dead

\* A repeat is a stutter: the life does not know the rings.
LEMMA RefineRepeat ==
  ASSUME IInv, IInv', NEW row \in scan.due, ProcessTimer(row), RepeatFires(row)
  PROVE  Hidden
<1>1. row.inc \in Incidents /\ RowTimer(row).inc = row.inc
  BY DueRowFacts DEF RowTimer, Timer
<1>2. \A j \in Incidents : Kept(j)
  <2> SUFFICES ASSUME NEW j \in Incidents PROVE Kept(j) OBVIOUS
  <2>1. CASE j = row.inc BY <2>1 DEF Kept, RepeatFires
  <2>2. CASE j # row.inc BY <1>1, <2>2 DEF Kept, RepeatFires
  <2>3. QED BY <2>1, <2>2
<1>3. QED BY <1>2, AllKept DEF Hidden, Dead, ProcessTimer

\* Every step of the engine is a step of the life or a stutter.
LEMMA RefineNext ==
  ASSUME IInv, IInv', Next
  PROVE  Lifecycle!Next \/ Hidden
<1>1. CASE \E t \in Topics, c \in BOOLEAN :
             CreateTopic(t, c) \/ \E s \in Settings : PatchTopic(t, c, s)
  BY <1>1, RefineTopics
<1>2. ASSUME NEW t \in Topics, DeleteTopic(t)
      PROVE  Lifecycle!Next
  <2>1. {t} \in SUBSET Topics OBVIOUS
  <2>2. Lifecycle!DeleteTopics({t}) BY <1>2, <2>1, RefineDrop DEF DeleteTopic
  <2>3. QED BY <2>1, <2>2 DEF Lifecycle!Next
<1>3. CASE OperatorDelete
  <2>1. Lifecycle!DeleteTopics(Topics) BY <1>3, RefineDrop DEF OperatorDelete
  <2>2. QED BY <2>1 DEF Lifecycle!Next
<1>4. ASSUME NEW r \in Requests, PublishCommit(r)
      PROVE  Lifecycle!Next \/ Hidden
  <2>1. PICK q \in RequestState : q = request[r]
    BY DEF IInv, TypeOK
  <2>2. q.topic \in Topics /\ UNCHANGED <<clock, topic>>
    BY <1>4, <2>1 DEF PublishCommit, IInv, RequestsOwned
  <2>3. ASSUME topic[q.topic].status = "live", NEW i \in Incidents, OpenIncident(q, i)
        PROVE  Lifecycle!Next
    <3>1. Lifecycle!Open(i, q.topic) BY <2>2, <2>3, RefineOpen
    <3>2. QED BY <2>2, <3>1 DEF Lifecycle!Next
  <2>4. ASSUME NEW i \in Incidents, JoinIncident(q, i)
        PROVE  Hidden
    BY <2>2, <2>4, RefineJoin
  <2>5. CASE UNCHANGED <<incident, timers>> BY <2>2, <2>5, HiddenStep
  <2>6. QED BY <1>4, <2>1, <2>3, <2>4, <2>5 DEF PublishCommit
<1>5. ASSUME NEW i \in Incidents, Acknowledge(i)
      PROVE  Lifecycle!Next
  BY <1>5, RefineAck DEF Lifecycle!Next
<1>6. ASSUME NEW i \in Incidents, Close(i)
      PROVE  Lifecycle!Next
  BY <1>6, RefineClose DEF Lifecycle!Next
<1>7. ASSUME NEW row \in scan.due, ProcessTimer(row)
      PROVE  Lifecycle!Next \/ Hidden
  <2>1. row.inc \in Incidents BY DueRowFacts
  <2>2. CASE ExpireFires(row) BY <1>7, <2>1, <2>2, RefineExpire DEF Lifecycle!Next
  <2>3. CASE DeskFires(row) BY <1>7, <2>1, <2>3, RefineDesk DEF Lifecycle!Next
  <2>4. CASE RepeatFires(row) BY <1>7, <2>4, RefineRepeat
  <2>5. CASE StaleTimer(row)
    <3>1. UNCHANGED <<clock, topic, incident, timers>>
      BY <1>7, <2>5, StaleGone DEF StaleTimer, ProcessTimer
    <3>2. QED BY <3>1, HiddenStep
  <2>6. QED BY <1>7, <2>2, <2>3, <2>4, <2>5 DEF ProcessTimer
<1>8. CASE PruneHistory BY <1>8, RefinePrune DEF Lifecycle!Next
<1>9. CASE Tick
  <2>1. UNCHANGED <<topic, incident, timers>> /\ clock' = clock + 1 BY <1>9 DEF Tick
  <2>2. UNCHANGED <<Phase, Subject, Until, Dead>> BY <2>1, TablesKept DEF Dead
  <2>3. Lifecycle!Tick BY <2>1, <2>2 DEF Lifecycle!Tick, Phase, Subject, Until, Dead
  <2>4. QED BY <2>3 DEF Lifecycle!Next
<1>10. CASE UNCHANGED <<clock, topic, incident, timers>> BY <1>10, HiddenStep
<1>11. QED
  BY <1>1, <1>2, <1>3, <1>4, <1>5, <1>6, <1>7, <1>8, <1>9, <1>10
  DEF Next, PublishBegin, PublishAbandon, ScanBegin, ScanEnd, Crash, Restart

\* Every behaviour of the engine is a life of its incidents: no early expiry or
\* re-ring, nothing comes back from closed or expired, one active incident a
\* topic, and an active one leaves the table only with its topic.
THEOREM Refinement == Spec => ImplementsLifecycle
<1>1. IInv /\ IInv' /\ [Next]_vars => [Lifecycle!Next]_(Lifecycle!vars)
  <2> SUFFICES ASSUME IInv, IInv', [Next]_vars
               PROVE  Lifecycle!Next \/ Hidden
    BY DEF Hidden, Phase, Subject, Dead, Until, Lifecycle!vars
  <2>1. CASE Next BY <2>1, RefineNext
  <2>2. CASE UNCHANGED vars BY <2>2, HiddenStep DEF vars
  <2>3. QED BY <2>1, <2>2
<1>2. QED
  BY RefineInit, Invariance, <1>1, PTL DEF Spec, ImplementsLifecycle, Lifecycle!Spec
=============================================================================
