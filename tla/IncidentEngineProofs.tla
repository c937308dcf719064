------------------------ MODULE IncidentEngineProofs ------------------------
(***************************************************************************)
(* Theorems about IncidentEngine, for every set of topics, incidents and   *)
(* requests and every value of the settings and bounds.                    *)
(***************************************************************************)
EXTENDS IncidentEngine, TLAPS

\* An incident that exists, and no other, has a topic; its window has a length.
Owned ==
  \A i \in Incidents :
    IF incident[i].state = "none" THEN incident[i].topic = NoTopic
    ELSE incident[i].topic \in Topics /\ incident[i].maxRing \in Positive

\* A request in flight is for a topic.
RequestsOwned == \A r \in Requests : request[r].busy => request[r].topic \in Topics

\* What the scan has collected so far still tells the truth.
BatchCurrent == \A e \in scan.batch : Current(e)

\* The tables agree with each other.
TableInv ==
  /\ Owned
  /\ OneActivePerTopic
  /\ TimersMatchState
  /\ ExpireAtWindowEnd

\* What every reachable state satisfies and every step keeps.
IInv ==
  /\ TypeOK
  /\ TableInv
  /\ RequestsOwned
  /\ ScanAgrees
  /\ BatchCurrent

-----------------------------------------------------------------------------
(* Facts about the types. *)

\* A timer that a handler sets is a row of the table.
LEMMA TimerType ==
  ASSUME NEW i \in Incidents, NEW k \in TimerKind, NEW at \in Nat
  PROVE  Timer(i, k, at) \in TimerRow
BY DEF Timer, TimerRow

\* A notice that a handler returns is an event.
LEMMA NoticeType ==
  ASSUME NEW k \in EventKind, NEW i \in Incidents, NEW u \in Nat \cup {NoTime},
         NEW c \in BOOLEAN
  PROVE  Notice(k, i, u, c) \in Event
BY DEF Notice, Event

\* A topic that is made has settings of the right types.
LEMMA NewTopicType ==
  ASSUME NEW s \in {"unused", "live", "deleted"}, NEW c \in BOOLEAN
  PROVE  [NewTopic(s) EXCEPT !.critical = c] \in TopicRow
BY SettingsAssumption DEF NewTopic, TopicRow, Positive

\* A timer row belongs to an incident that is open or acked, so it has a topic.
LEMMA TimerOwned ==
  ASSUME IInv, NEW tm \in timers
  PROVE  /\ tm \in TimerRow
         /\ incident[tm.inc].state \in {"open", "acked"}
         /\ incident[tm.inc].topic \in Topics
<1>1. tm \in TimerRow BY DEF IInv, TypeOK
<1>2. tm.inc \in Incidents BY <1>1 DEF TimerRow
<1>3. tm.kind \in TimersFor(incident[tm.inc].state)
  BY <1>2 DEF IInv, TableInv, TimersMatchState
<1>4. incident[tm.inc].state \in {"open", "acked"} BY <1>3 DEF TimersFor
<1>5. QED BY <1>1, <1>2, <1>4 DEF IInv, TableInv, Owned

\* The scan's rows have the type of a row.
LEMMA SelectedType ==
  ASSUME IInv, NEW tm \in timers
  PROVE  Selected(tm) \in DueRow
<1>1. /\ tm \in TimerRow
      /\ incident[tm.inc].topic \in Topics
  BY TimerOwned
<1>2. tm.inc \in Incidents /\ tm.kind \in TimerKind /\ tm.at \in Nat
  BY <1>1 DEF TimerRow
<1>3. incident[tm.inc] \in IncidentRow BY <1>2 DEF IInv, TypeOK
<1>4. topic[incident[tm.inc].topic] \in TopicRow BY <1>1 DEF IInv, TypeOK
<1>5. QED BY <1>2, <1>3, <1>4 DEF Selected, DueRow, IncidentRow, TopicRow

-----------------------------------------------------------------------------
(* Type correctness of each step. *)

\* Rows the handlers write.
LEMMA MovedType ==
  ASSUME TypeOK, NEW i \in Incidents, NEW s \in States
  PROVE  /\ Moved(i, s) \in IncidentRow
         /\ [Moved(i, s) EXCEPT !.ackedAt = clock] \in IncidentRow
         /\ [Moved(i, s) EXCEPT !.openedAt = clock, !.ackedAt = NoTime] \in IncidentRow
<1>1. incident[i] \in IncidentRow BY DEF TypeOK
<1>2. clock \in Nat BY DEF TypeOK
<1>3. Moved(i, s) \in IncidentRow BY <1>1, <1>2 DEF Moved, IncidentRow
<1>4. QED BY <1>2, <1>3 DEF IncidentRow

\* Every action writes values of the types of its columns.
LEMMA TypeStep ==
  ASSUME IInv, Next
  PROVE  TypeOK'
<1> USE DEF IInv, TableInv, TypeOK
<1>1. ASSUME NEW t \in Topics, NEW c \in BOOLEAN, CreateTopic(t, c)
      PROVE  TypeOK'
  <2>1. topic' \in [Topics -> TopicRow]
    BY <1>1, NewTopicType DEF CreateTopic
  <2>2. QED BY <1>1, <2>1 DEF CreateTopic
<1>2. ASSUME NEW t \in Topics, NEW c \in BOOLEAN, NEW s \in Settings, PatchTopic(t, c, s)
      PROVE  TypeOK'
  <2>1. topic' \in [Topics -> TopicRow]
    BY <1>2, SettingsAssumption DEF PatchTopic, TopicRow, Positive
  <2>2. QED BY <1>2, <2>1 DEF PatchTopic
<1>3. ASSUME NEW ts \in SUBSET Topics, DropTopics(ts)
      PROVE  TypeOK'
  <2>1. topic' \in [Topics -> TopicRow]
    BY <1>3 DEF DropTopics, TopicRow
  <2>2. incident' \in [Incidents -> IncidentRow]
    BY <1>3 DEF DropTopics, IncidentRow, States
  <2>3. timers' \subseteq TimerRow BY <1>3 DEF DropTopics
  <2>4. QED BY <1>3, <2>1, <2>2, <2>3 DEF DropTopics
<1>4. ASSUME NEW t \in Topics, DeleteTopic(t)
      PROVE  TypeOK'
  BY <1>3, <1>4, {t} \in SUBSET Topics DEF DeleteTopic
<1>5. CASE OperatorDelete
  BY <1>3, <1>5 DEF OperatorDelete
<1>6. ASSUME NEW r \in Requests, NEW t \in Topics, PublishBegin(r, t)
      PROVE  TypeOK'
  <2>1. request' \in [Requests -> RequestState]
    BY <1>6 DEF PublishBegin, RequestState, TopicRow
  <2>2. QED BY <1>6, <2>1 DEF PublishBegin
<1>7. NoRequest \in RequestState
  BY SettingsAssumption DEF NoRequest, RequestState, Positive
<1>8. ASSUME NEW r \in Requests, PublishCommit(r)
      PROVE  TypeOK'
  <2> DEFINE q == request[r]
  <2>1. q \in RequestState /\ q.topic \in Topics
    BY <1>8 DEF PublishCommit, RequestsOwned
  <2>2. request' \in [Requests -> RequestState]
    BY <1>7, <1>8 DEF PublishCommit
  <2>3. ASSUME NEW i \in Incidents, OpenIncident(q, i)
        PROVE  incident' \in [Incidents -> IncidentRow]
    BY <2>1, <2>3 DEF OpenIncident, IncidentRow, States, RequestState, Positive
  <2>4. ASSUME NEW i \in Incidents, OpenIncident(q, i)
        PROVE  timers' \subseteq TimerRow /\ emitted' \subseteq Event
    <3>1. clock + q.repeat \in Nat /\ clock + q.maxRing \in Nat
      BY <2>1 DEF RequestState, Positive
    <3>2. /\ Timer(i, "repeat", clock + q.repeat) \in TimerRow
          /\ Timer(i, "expire", clock + q.maxRing) \in TimerRow
          /\ Notice("open", i, clock + q.maxRing, TRUE) \in Event
      BY <3>1, TimerType, NoticeType DEF TimerKind, EventKind
    <3>3. QED BY <2>4, <3>2 DEF OpenIncident
  <2>5. ASSUME NEW i \in Incidents, JoinIncident(q, i)
        PROVE  /\ incident' \in [Incidents -> IncidentRow]
               /\ timers' \subseteq TimerRow
               /\ emitted' \subseteq Event
    <3>1. incident[i].openedAt + incident[i].maxRing \in Nat BY DEF IncidentRow
    <3>2. Notice("p5", i, incident[i].openedAt + incident[i].maxRing,
                 incident[i].state # "acked") \in Event
      BY <3>1, NoticeType DEF EventKind
    <3>3. Bumped(i) \in IncidentRow BY DEF Bumped, IncidentRow
    <3>4. QED BY <2>5, <3>2, <3>3 DEF JoinIncident
  <2>6. /\ incident' \in [Incidents -> IncidentRow]
        /\ timers' \subseteq TimerRow
        /\ emitted' \subseteq Event
    BY <1>8, <2>3, <2>4, <2>5 DEF PublishCommit
  <2>7. QED BY <1>8, <2>2, <2>6 DEF PublishCommit
<1>9. ASSUME NEW r \in Requests, PublishAbandon(r)
      PROVE  TypeOK'
  BY <1>7, <1>9 DEF PublishAbandon
<1>10. ASSUME NEW i \in Incidents, Acknowledge(i)
       PROVE  TypeOK'
  <2>1. topic[incident[i].topic] \in TopicRow
    BY <1>10 DEF Acknowledge, Owned
  <2>2. clock + topic[incident[i].topic].desk \in Nat
    BY <2>1 DEF TopicRow, Positive
  <2>3. /\ Timer(i, "desk", clock + topic[incident[i].topic].desk) \in TimerRow
        /\ Notice("ack", i, NoTime, topic[incident[i].topic].critical) \in Event
    BY <2>1, <2>2, TimerType, NoticeType DEF TimerKind, EventKind, TopicRow
  <2>4. incident' \in [Incidents -> IncidentRow]
    BY <1>10, MovedType DEF Acknowledge, States
  <2>5. QED BY <1>10, <2>3, <2>4 DEF Acknowledge
<1>11. ASSUME NEW i \in Incidents, Close(i)
       PROVE  TypeOK'
  <2>1. topic[incident[i].topic] \in TopicRow
    BY <1>11 DEF Close, Owned
  <2>2. Notice("close", i, NoTime, topic[incident[i].topic].critical) \in Event
    BY <2>1, NoticeType DEF EventKind, TopicRow
  <2>3. incident' \in [Incidents -> IncidentRow]
    BY <1>11, MovedType DEF Close, States
  <2>4. QED BY <1>11, <2>2, <2>3 DEF Close
<1>12. CASE ScanBegin
  <2>1. scan'.due \subseteq DueRow BY <1>12, SelectedType DEF ScanBegin
  <2>2. QED BY <1>12, <2>1 DEF ScanBegin
<1>13. ASSUME NEW row \in scan.due, ProcessTimer(row)
       PROVE  TypeOK'
  <2>1. /\ row \in DueRow
        /\ row.inc \in Incidents
        /\ row.critical \in BOOLEAN
        /\ clock + row.repeat \in Nat
        /\ row.openedAt + row.maxRing \in Nat
        /\ clock + row.maxRing \in Nat
        /\ clock + incident[row.inc].maxRing \in Nat
    BY DEF DueRow, Positive, IncidentRow
  <2>2. CASE ExpireFires(row)
    <3>1. Notice("expire", row.inc, NoTime, row.critical) \in Event
      BY <2>1, NoticeType DEF EventKind
    <3>2. incident' \in [Incidents -> IncidentRow]
      BY <2>1, <2>2, MovedType DEF ExpireFires, States
    <3>3. QED BY <1>13, <2>2, <3>1, <3>2 DEF ExpireFires, ProcessTimer
  <2>3. CASE DeskFires(row)
    <3>1. /\ Notice("reopen", row.inc, clock + row.maxRing, row.critical) \in Event
          /\ Timer(row.inc, "repeat", clock + row.repeat) \in TimerRow
          /\ Timer(row.inc, "expire", clock + incident[row.inc].maxRing) \in TimerRow
      BY <2>1, NoticeType, TimerType DEF EventKind, TimerKind
    <3>2. incident' \in [Incidents -> IncidentRow]
      BY <2>1, <2>3, MovedType DEF DeskFires, States
    <3>3. QED BY <1>13, <2>3, <3>1, <3>2 DEF DeskFires, ProcessTimer
  <2>4. CASE RepeatFires(row)
    <3>1. /\ Notice("repeat", row.inc, row.openedAt + row.maxRing, row.critical) \in Event
          /\ Timer(row.inc, "repeat", NextRepeat(row)) \in TimerRow
      BY <2>1, NoticeType, TimerType DEF EventKind, TimerKind, NextRepeat
    <3>2. QED BY <1>13, <2>4, <3>1 DEF RepeatFires, ProcessTimer
  <2>5. CASE StaleTimer(row)
    BY <1>13, <2>5 DEF StaleTimer, ProcessTimer
  <2>6. QED BY <1>13, <2>2, <2>3, <2>4, <2>5 DEF ProcessTimer
<1>14. CASE ScanEnd BY <1>14 DEF ScanEnd, NoScan
<1>15. CASE PruneHistory
  <2>1. incident' \in [Incidents -> IncidentRow]
    BY <1>15 DEF PruneHistory, IncidentRow, States
  <2>2. QED BY <1>15, <2>1 DEF PruneHistory
<1>16. CASE Tick BY <1>16, BoundsAssumption DEF Tick
<1>17. CASE Crash
  <2>1. scan' \in [on: BOOLEAN, due: SUBSET DueRow, batch: SUBSET Event]
    BY <1>17 DEF Crash, NoScan
  <2>2. crashes' \in 0..MaxCrashes BY <1>17, BoundsAssumption DEF Crash
  <2>3. request' \in [Requests -> RequestState] BY <1>7, <1>17 DEF Crash
  <2>4. QED BY <1>17, <2>1, <2>2, <2>3 DEF Crash
<1>18. CASE Restart BY <1>18 DEF Restart
<1>19. QED
  BY <1>1, <1>2, <1>4, <1>5, <1>6, <1>8, <1>9, <1>10, <1>11, <1>12, <1>13, <1>14,
     <1>15, <1>16, <1>17, <1>18 DEF Next

-----------------------------------------------------------------------------
(* The three shapes of a step. *)

\* Shape one: a step that leaves incidents and timers alone.
LEMMA Untouched ==
  ASSUME IInv, UNCHANGED <<incident, timers>>
  PROVE  TableInv'
BY DEF IInv, TableInv, Owned, OneActivePerTopic, TimersMatchState, TimersFor, ExpireAtWindowEnd

\* Shape two: the active incident i takes the row x, and the timers in new
\* replace its own.  x stays in its topic and keeps its window's length.
Replaced(i, x, new) ==
  /\ incident' = [incident EXCEPT ![i] = x]
  /\ timers' = (timers \ TimersOf(i)) \cup new
  /\ x \in IncidentRow
  /\ new \subseteq TimerRow
  /\ incident[i].state \in {"open", "acked"}
  /\ x.topic = incident[i].topic
  /\ x.maxRing = incident[i].maxRing
  /\ x.state # "none"
  /\ \A k \in TimersFor(x.state) : \E tm \in new : tm.kind = k
  /\ \A tm \in new : tm.inc = i /\ tm.kind \in TimersFor(x.state)
  /\ \A tm, other \in new : tm.kind = other.kind => tm = other
  /\ \A tm \in new : tm.kind = "expire" => tm.at = x.openedAt + x.maxRing

\* An incident and its timers are replaced together, and fit: the table stays right.
LEMMA OneReplaced ==
  ASSUME IInv, NEW i \in Incidents, NEW x, NEW new, Replaced(i, x, new)
  PROVE  TableInv'
<1> USE DEF Replaced
<1>1. incident'[i] = x BY DEF IInv, TypeOK
<1>2. \A j \in Incidents : j # i => incident'[j] = incident[j] BY DEF IInv, TypeOK
<1>3. \A tm \in timers' : tm.inc # i => tm \in timers BY DEF TimersOf
<1>4. \A tm \in timers' : tm.inc = i => tm \in new BY DEF TimersOf
<1>5. \A tm \in timers : tm.inc # i => tm \in timers' BY DEF TimersOf
<1>6. Owned' BY <1>1, <1>2 DEF IInv, TableInv, Owned
<1>7. OneActivePerTopic'
  BY <1>1, <1>2 DEF IInv, TableInv, OneActivePerTopic
<1>8. TimersMatchState'
  <2> SUFFICES ASSUME NEW j \in Incidents
               PROVE  /\ \A k \in TimersFor(incident'[j].state) :
                           \E tm \in timers' : tm.inc = j /\ tm.kind = k
                      /\ \A tm \in timers' :
                           tm.inc = j => tm.kind \in TimersFor(incident'[j].state)
                      /\ \A tm, other \in timers' :
                           tm.inc = j /\ other.inc = j /\ tm.kind = other.kind
                           => tm = other
    BY DEF TimersMatchState, TimersFor
  <2>1. CASE j = i BY <1>1, <1>4, <2>1
  <2>2. CASE j # i BY <1>2, <1>3, <1>5, <2>2 DEF IInv, TableInv, TimersMatchState
  <2>3. QED BY <2>1, <2>2
<1>9. ExpireAtWindowEnd'
  <2> SUFFICES ASSUME NEW tm \in timers', tm.kind = "expire"
               PROVE  tm.at = incident'[tm.inc].openedAt + incident'[tm.inc].maxRing
    BY DEF ExpireAtWindowEnd
  <2>1. CASE tm.inc = i BY <1>1, <1>4, <2>1
  <2>2. CASE tm.inc # i
    <3>1. tm \in timers /\ tm.inc \in Incidents
      BY <1>3, <2>2 DEF IInv, TypeOK, TimerRow
    <3>2. QED BY <1>2, <2>2, <3>1 DEF IInv, TableInv, ExpireAtWindowEnd
  <2>3. QED BY <2>1, <2>2
<1>10. QED BY <1>6, <1>7, <1>8, <1>9 DEF TableInv

\* Shape three: the incidents in S leave the table with their timers.
LEMMA Removed ==
  ASSUME IInv, NEW S \in SUBSET Incidents,
         incident' = [i \in Incidents |->
                        IF i \in S THEN [incident[i] EXCEPT !.state = "deleted"]
                        ELSE incident[i]],
         timers' = {tm \in timers : tm.inc \notin S},
         \A i \in S : incident[i].state # "none"
  PROVE  TableInv'
<1>1. \A i \in Incidents : incident[i] \in IncidentRow BY DEF IInv, TypeOK
<1>2. \A i \in S : /\ incident'[i].state = "deleted"
                   /\ incident'[i].topic = incident[i].topic
                   /\ incident'[i].maxRing = incident[i].maxRing
  BY <1>1 DEF IncidentRow
<1>3. \A i \in Incidents \ S : incident'[i] = incident[i] OBVIOUS
<1>4. \A tm \in timers' : tm \in timers /\ tm.inc \in Incidents \ S
  BY DEF IInv, TypeOK, TimerRow
<1>5. Owned' BY <1>2, <1>3 DEF IInv, TableInv, Owned
<1>6. OneActivePerTopic' BY <1>2, <1>3 DEF IInv, TableInv, OneActivePerTopic
<1>7. TimersMatchState'
  <2> SUFFICES ASSUME NEW j \in Incidents
               PROVE  /\ \A k \in TimersFor(incident'[j].state) :
                           \E tm \in timers' : tm.inc = j /\ tm.kind = k
                      /\ \A tm \in timers' :
                           tm.inc = j => tm.kind \in TimersFor(incident'[j].state)
                      /\ \A tm, other \in timers' :
                           tm.inc = j /\ other.inc = j /\ tm.kind = other.kind
                           => tm = other
    BY DEF TimersMatchState, TimersFor
  <2>1. CASE j \in S BY <1>2, <1>4, <2>1 DEF TimersFor
  <2>2. CASE j \notin S BY <1>3, <1>4, <2>2 DEF IInv, TableInv, TimersMatchState
  <2>3. QED BY <2>1, <2>2
<1>8. ExpireAtWindowEnd' BY <1>3, <1>4 DEF IInv, TableInv, ExpireAtWindowEnd
<1>9. QED BY <1>5, <1>6, <1>7, <1>8 DEF TableInv

-----------------------------------------------------------------------------
(* The steps that change incidents or timers keep the table invariants. *)

\* A publish opens an incident with a repeat and an expire timer.
LEMMA OpenStep ==
  ASSUME IInv, NEW q \in RequestState, q.topic \in Topics,
         NEW i \in Incidents, OpenIncident(q, i)
  PROVE  TableInv'
<1> DEFINE x == [state |-> "open", topic |-> q.topic, openedAt |-> clock,
                 ackedAt |-> NoTime, updatedAt |-> clock, maxRing |-> q.maxRing]
           new == {Timer(i, "repeat", clock + q.repeat), Timer(i, "expire", clock + q.maxRing)}
<1>1. incident'[i] = x BY DEF OpenIncident, IInv, TypeOK
<1>2. \A j \in Incidents : j # i => incident'[j] = incident[j]
  BY DEF OpenIncident, IInv, TypeOK
<1>3. \A tm \in timers : tm.inc # i
  BY DEF OpenIncident, IInv, TableInv, TimersMatchState, TimersFor
<1>4. timers' = timers \cup new BY DEF OpenIncident
<1>5. \A tm \in new : tm.inc = i /\ tm.kind \in {"repeat", "expire"} BY DEF Timer
<1>6. Owned' BY <1>1, <1>2 DEF IInv, TableInv, Owned, RequestState
<1>7. OneActivePerTopic'
  <2>1. \A j \in Incidents :
          incident[j].state \in {"open", "acked"} => incident[j].topic # q.topic
    BY DEF OpenIncident, ActiveOf, Active
  <2>2. QED BY <1>1, <1>2, <2>1 DEF IInv, TableInv, OneActivePerTopic
<1>8. TimersMatchState'
  <2> SUFFICES ASSUME NEW j \in Incidents
               PROVE  /\ \A k \in TimersFor(incident'[j].state) :
                           \E tm \in timers' : tm.inc = j /\ tm.kind = k
                      /\ \A tm \in timers' :
                           tm.inc = j => tm.kind \in TimersFor(incident'[j].state)
                      /\ \A tm, other \in timers' :
                           tm.inc = j /\ other.inc = j /\ tm.kind = other.kind
                           => tm = other
    BY DEF TimersMatchState, TimersFor
  <2>1. CASE j = i
    <3>1. TimersFor(incident'[j].state) = {"repeat", "expire"}
      BY <1>1, <2>1 DEF TimersFor
    <3>2. /\ Timer(i, "repeat", clock + q.repeat).kind = "repeat"
          /\ Timer(i, "expire", clock + q.maxRing).kind = "expire"
      BY DEF Timer
    <3>3. QED BY <1>3, <1>4, <1>5, <2>1, <3>1, <3>2
  <2>2. CASE j # i BY <1>2, <1>4, <1>5, <2>2 DEF IInv, TableInv, TimersMatchState
  <2>3. QED BY <2>1, <2>2
<1>9. ExpireAtWindowEnd'
  <2> SUFFICES ASSUME NEW tm \in timers', tm.kind = "expire"
               PROVE  tm.at = incident'[tm.inc].openedAt + incident'[tm.inc].maxRing
    BY DEF ExpireAtWindowEnd
  <2>1. CASE tm \in new BY <1>1, <2>1 DEF Timer
  <2>2. CASE tm \in timers
    <3>1. tm.inc \in Incidents /\ tm.inc # i BY <1>3, <2>2 DEF IInv, TypeOK, TimerRow
    <3>2. QED BY <1>2, <2>2, <3>1 DEF IInv, TableInv, ExpireAtWindowEnd
  <2>3. QED BY <1>4, <2>1, <2>2
<1>10. QED BY <1>6, <1>7, <1>8, <1>9 DEF TableInv

\* A publish that joins a live incident leaves its timers alone.
LEMMA JoinStep ==
  ASSUME IInv, NEW q, NEW i \in Incidents, JoinIncident(q, i)
  PROVE  TableInv'
<1> DEFINE x == Bumped(i)
           new == TimersOf(i)
<1>1. incident[i] \in IncidentRow /\ clock \in Nat BY DEF IInv, TypeOK
<1>2. /\ x \in IncidentRow
      /\ x.topic = incident[i].topic
      /\ x.maxRing = incident[i].maxRing
      /\ x.openedAt = incident[i].openedAt
      /\ x.state = incident[i].state
  BY <1>1 DEF Bumped, IncidentRow
<1>3. incident[i].state \in {"open", "acked"} BY DEF JoinIncident, ActiveOf, Active
<1>4. new \in SUBSET TimerRow BY DEF TimersOf, IInv, TypeOK
<1>5. timers' = (timers \ TimersOf(i)) \cup new BY DEF JoinIncident, TimersOf
<1>6. \A k \in TimersFor(x.state) : \E tm \in new : tm.kind = k
  BY <1>2 DEF TimersOf, IInv, TableInv, TimersMatchState
<1>7. \A tm \in new : tm.inc = i /\ tm.kind \in TimersFor(x.state)
  BY <1>2 DEF TimersOf, IInv, TableInv, TimersMatchState
<1>8. \A tm, other \in new : tm.kind = other.kind => tm = other
  BY DEF TimersOf, IInv, TableInv, TimersMatchState
<1>9. \A tm \in new : tm.kind = "expire" => tm.at = x.openedAt + x.maxRing
  BY <1>2 DEF TimersOf, IInv, TableInv, ExpireAtWindowEnd
<1>10. incident' = [incident EXCEPT ![i] = x] /\ x.state \in States
  BY <1>2 DEF JoinIncident, IncidentRow
<1>11. Replaced(i, x, new)
  BY <1>2, <1>3, <1>4, <1>5, <1>6, <1>7, <1>8, <1>9, <1>10 DEF Replaced
<1>12. QED BY OneReplaced, <1>11

\* The rows that the handlers write, field by field.
LEMMA MovedFields ==
  ASSUME IInv, NEW i \in Incidents, NEW s \in States
  PROVE  /\ Moved(i, s).state = s
         /\ Moved(i, s).topic = incident[i].topic
         /\ Moved(i, s).maxRing = incident[i].maxRing
         /\ Moved(i, s).openedAt = incident[i].openedAt
         /\ Moved(i, s).updatedAt = clock
BY DEF Moved, IInv, TypeOK, IncidentRow

\* An ack leaves the desk timer alone.
LEMMA AckStep ==
  ASSUME IInv, NEW i \in Incidents, Acknowledge(i)
  PROVE  TableInv'
<1> DEFINE x == [Moved(i, "acked") EXCEPT !.ackedAt = clock]
           desk == Timer(i, "desk", clock + topic[incident[i].topic].desk)
           new == {desk}
<1>1. x \in IncidentRow BY MovedType DEF IInv, States
<1>2. /\ x.topic = incident[i].topic
      /\ x.maxRing = incident[i].maxRing
      /\ x.state = "acked"
  BY MovedFields DEF States
<1>3. topic[incident[i].topic] \in TopicRow BY DEF Acknowledge, IInv, TableInv, TypeOK, Owned
<1>4. desk \in TimerRow
  BY <1>3, TimerType DEF IInv, TypeOK, TopicRow, TimerKind, Positive
<1>5. desk.inc = i /\ desk.kind = "desk" BY DEF Timer
<1>6. TimersFor(x.state) = {"desk"} BY <1>2 DEF TimersFor
<1>7. /\ incident' = [incident EXCEPT ![i] = x]
      /\ timers' = (timers \ TimersOf(i)) \cup new
      /\ incident[i].state \in {"open", "acked"}
      /\ x.state \in States
  BY <1>2 DEF Acknowledge, States
<1> HIDE DEF x, desk
<1>8. Replaced(i, x, new) BY <1>1, <1>2, <1>4, <1>5, <1>6, <1>7 DEF Replaced
<1>9. QED BY OneReplaced, <1>8

\* An active incident moves to closed or expired and loses its timers.
LEMMA OverStep ==
  ASSUME IInv, NEW i \in Incidents, NEW s \in {"closed", "expired"},
         incident[i].state \in {"open", "acked"},
         incident' = [incident EXCEPT ![i] = Moved(i, s)],
         timers' = timers \ TimersOf(i)
  PROVE  TableInv'
<1> DEFINE x == Moved(i, s)
<1>1. /\ x \in IncidentRow
      /\ x.topic = incident[i].topic
      /\ x.maxRing = incident[i].maxRing
      /\ x.state = s
      /\ x.state \in States
  BY MovedType, MovedFields DEF IInv, States
<1>2. TimersFor(x.state) = {} BY <1>1 DEF TimersFor
<1>3. timers' = (timers \ TimersOf(i)) \cup {} OBVIOUS
<1>4. incident' = [incident EXCEPT ![i] = x] OBVIOUS
<1> HIDE DEF x
<1>5. Replaced(i, x, {}) BY <1>1, <1>2, <1>3, <1>4 DEF Replaced
<1>6. QED BY OneReplaced, <1>5

\* The desk timer fires: the incident rings again, with a new window.
LEMMA DeskStep ==
  ASSUME IInv, NEW row \in scan.due, DeskFires(row)
  PROVE  TableInv'
<1> DEFINE i == row.inc
           x == [Moved(i, "open") EXCEPT !.openedAt = clock, !.ackedAt = NoTime]
           rep == Timer(i, "repeat", clock + row.repeat)
           end == Timer(i, "expire", clock + incident[i].maxRing)
           new == {rep, end}
<1>1. i \in Incidents /\ row.repeat \in Nat /\ clock \in Nat
  BY DEF IInv, TypeOK, DueRow, Positive
<1>2. x \in IncidentRow BY <1>1, MovedType DEF IInv, States
<1>3. /\ x.topic = incident[i].topic
      /\ x.maxRing = incident[i].maxRing
      /\ x.state = "open"
  BY <1>1, MovedFields DEF States
<1>10. x.openedAt = clock
  <2>1. Moved(i, "open") \in IncidentRow BY <1>1, MovedType DEF IInv, States
  <2>2. QED BY <2>1 DEF IncidentRow
<1>4. incident[i].maxRing \in Nat BY <1>1 DEF IInv, TypeOK, IncidentRow
<1>5. rep \in TimerRow /\ end \in TimerRow
  BY <1>1, <1>4, TimerType DEF TimerKind
<1>6. /\ rep.inc = i /\ rep.kind = "repeat"
      /\ end.inc = i /\ end.kind = "expire" /\ end.at = clock + incident[i].maxRing
  BY DEF Timer
<1>7. TimersFor(x.state) = {"repeat", "expire"} BY <1>3 DEF TimersFor
<1>8. /\ incident' = [incident EXCEPT ![i] = x]
      /\ timers' = (timers \ TimersOf(i)) \cup new
      /\ incident[i].state \in {"open", "acked"}
      /\ x.state \in States
  BY <1>3 DEF DeskFires, States
<1> HIDE DEF i, x, rep, end
<1>9. Replaced(i, x, new) BY <1>2, <1>3, <1>5, <1>6, <1>7, <1>8, <1>10 DEF Replaced
<1>11. QED BY OneReplaced, <1>1, <1>9

-----------------------------------------------------------------------------
(* The scan. *)

\* While a handler may run, no scan holds rows or events.
LEMMA IdleScan ==
  ASSUME IInv, Idle
  PROVE  scan.due = {} /\ scan.batch = {}
BY DEF IInv, Idle, ScanAgrees, NoScan

\* A row the scan has not served: its timer is still there and its columns are
\* still right, unless the incident expired in this scan or was deleted, and
\* then it has no timer at all.
LEMMA DueRowFacts ==
  ASSUME IInv, NEW row \in scan.due
  PROVE  /\ row \in DueRow
         /\ row.inc \in Incidents
         /\ incident[row.inc].state \notin {"expired", "deleted"} =>
              /\ RowTimer(row) \in timers
              /\ row.kind \in TimersFor(incident[row.inc].state)
         /\ incident[row.inc].state \in {"expired", "deleted"} =>
              \A tm \in timers : tm.inc # row.inc
<1>1. row \in DueRow /\ row.inc \in Incidents BY DEF IInv, TypeOK, DueRow
<1>2. RowTimer(row).inc = row.inc /\ RowTimer(row).kind = row.kind
  BY DEF RowTimer, Timer
<1>3. ASSUME incident[row.inc].state \notin {"expired", "deleted"}
      PROVE  RowTimer(row) \in timers /\ row.kind \in TimersFor(incident[row.inc].state)
  BY <1>1, <1>2, <1>3 DEF IInv, TableInv, ScanAgrees, TimersMatchState
<1>4. ASSUME incident[row.inc].state \in {"expired", "deleted"}
      PROVE  \A tm \in timers : tm.inc # row.inc
  BY <1>1, <1>4 DEF IInv, TableInv, TimersMatchState, TimersFor
<1>5. QED BY <1>1, <1>3, <1>4

\* The row served next is the only one left for an incident that is served a
\* desk timer or a repeat: an expire row would have come first.
LEMMA LastRow ==
  ASSUME IInv, NEW row \in scan.due, NextDue(row),
         \/ row.kind = "desk" /\ incident[row.inc].state = "acked"
         \/ row.kind = "repeat" /\ incident[row.inc].state = "open",
         NEW other \in scan.due, other.inc = row.inc
  PROVE  other = row
<1>1. other.kind \in TimersFor(incident[row.inc].state) BY DueRowFacts
<1>2. CASE row.kind = "desk" /\ incident[row.inc].state = "acked"
  BY <1>1, <1>2 DEF TimersFor, IInv, ScanAgrees
<1>3. CASE row.kind = "repeat" /\ incident[row.inc].state = "open"
  <2>1. other.kind # "expire" BY <1>3 DEF NextDue, Rank
  <2>2. other.kind = "repeat" BY <1>1, <1>3, <2>1 DEF TimersFor
  <2>3. QED BY <1>3, <2>2 DEF IInv, ScanAgrees
<1>4. QED BY <1>2, <1>3

\* A timer that is stale is no longer in the table, so nothing is deleted.
LEMMA StaleGone ==
  ASSUME IInv, NEW row \in scan.due, StaleTimer(row)
  PROVE  timers' = timers
<1>1. CASE incident[row.inc].state \in {"expired", "deleted"}
  <2>1. RowTimer(row).inc = row.inc BY DEF RowTimer, Timer
  <2>2. RowTimer(row) \notin timers BY <1>1, <2>1, DueRowFacts
  <2>3. QED BY <2>2 DEF StaleTimer
<1>2. CASE incident[row.inc].state \notin {"expired", "deleted"}
  BY <1>2, DueRowFacts DEF StaleTimer, TimersFor
<1>3. QED BY <1>1, <1>2

\* The repeat timer fires: its row moves on.
LEMMA RepeatStep ==
  ASSUME IInv, NEW row \in scan.due, RepeatFires(row)
  PROVE  TableInv'
<1> DEFINE i == row.inc
           x == incident[i]
           rep == Timer(i, "repeat", NextRepeat(row))
           new == (TimersOf(i) \ {RowTimer(row)}) \cup {rep}
<1>1. /\ i \in Incidents
      /\ x.state = "open"
      /\ RowTimer(row) \in timers
      /\ clock \in Nat
      /\ row.repeat \in Nat
  BY DueRowFacts DEF RepeatFires, IInv, TypeOK, DueRow, Positive
<1>2. RowTimer(row).inc = i /\ RowTimer(row).kind = "repeat"
  BY DEF RowTimer, Timer, RepeatFires
<1>3. rep.inc = i /\ rep.kind = "repeat" BY DEF Timer
<1>4. x \in IncidentRow /\ incident' = [incident EXCEPT ![i] = x]
  BY <1>1 DEF RepeatFires, IInv, TypeOK
<1>5. timers' = (timers \ TimersOf(i)) \cup new
  BY <1>1, <1>2 DEF RepeatFires, TimersOf
<1>6. rep \in TimerRow
  BY <1>1, TimerType DEF NextRepeat, TimerKind
<1>7. new \subseteq TimerRow BY <1>6 DEF TimersOf, IInv, TypeOK
<1>8. TimersFor(x.state) = {"repeat", "expire"} BY <1>1 DEF TimersFor
<1>9. \A tm \in new : tm.inc = i /\ tm.kind \in TimersFor(x.state)
  BY <1>1, <1>3, <1>8 DEF TimersOf, IInv, TableInv, TimersMatchState
<1>10. \E tm \in TimersOf(i) : tm.kind = "expire"
  BY <1>1, <1>8 DEF TimersOf, IInv, TableInv, TimersMatchState
<1>11. \A k \in TimersFor(x.state) : \E tm \in new : tm.kind = k
  BY <1>2, <1>3, <1>8, <1>10
<1>12. \A tm \in TimersOf(i) \ {RowTimer(row)} : tm.kind = "expire"
  BY <1>1, <1>2, <1>8 DEF TimersOf, IInv, TableInv, TimersMatchState
<1>13. \A tm, other \in new : tm.kind = other.kind => tm = other
  <2>1. \A tm, other \in TimersOf(i) : tm.kind = other.kind => tm = other
    BY <1>1 DEF TimersOf, IInv, TableInv, TimersMatchState
  <2>2. QED BY <1>3, <1>12, <2>1
<1>14. \A tm \in new : tm.kind = "expire" => tm.at = x.openedAt + x.maxRing
  BY <1>3 DEF TimersOf, IInv, TableInv, ExpireAtWindowEnd
<1> HIDE DEF x, rep
<1>15. x.topic = incident[i].topic /\ x.maxRing = incident[i].maxRing
       /\ incident[i].state \in {"open", "acked"} /\ x.state # "none"
  BY <1>1 DEF x
<1>16. Replaced(i, x, new)
  BY <1>4, <1>5, <1>7, <1>9, <1>11, <1>13, <1>14, <1>15 DEF Replaced
<1>17. QED BY OneReplaced, <1>1, <1>16

\* A scan begins: the rows it selects are in the table as they were read.
LEMMA ScanBeginStep ==
  ASSUME IInv, ScanBegin
  PROVE  ScanAgrees'
<1> DEFINE dueNow == {tm \in timers : tm.at <= clock}
<1>1. \A tm \in timers :
        /\ tm \in TimerRow
        /\ RowTimer(Selected(tm)) = tm
        /\ Selected(tm).inc = tm.inc
        /\ Selected(tm).kind = tm.kind
        /\ Selected(tm).at = tm.at
        /\ Selected(tm).openedAt = incident[tm.inc].openedAt
        /\ Selected(tm).maxRing = incident[tm.inc].maxRing
  BY DEF IInv, TypeOK, TimerRow, RowTimer, Selected, Timer
<1>2. /\ scan'.on = TRUE
      /\ scan'.batch = {}
      /\ scan'.due = {Selected(tm) : tm \in dueNow}
      /\ UNCHANGED <<clock, incident, timers>>
  BY DEF ScanBegin
<1>3. \A tm, other \in timers : tm.inc = other.inc /\ tm.kind = other.kind => tm = other
  BY DEF IInv, TableInv, TypeOK, TimersMatchState, TimerRow
<1>4. \A row \in scan'.due : \E tm \in dueNow : row = Selected(tm) BY <1>2
<1>5. \A row, other \in scan'.due :
        row.inc = other.inc /\ row.kind = other.kind => row = other
  BY <1>1, <1>3, <1>4
<1>6. \A row \in scan'.due :
        /\ row.at <= clock
        /\ RowTimer(row) \in timers
        /\ row.openedAt = incident[row.inc].openedAt
        /\ row.maxRing = incident[row.inc].maxRing
  BY <1>1, <1>4
<1>7. QED BY <1>2, <1>5, <1>6 DEF ScanAgrees, RowTimer, Timer

\* Serving a row leaves every other row of the scan, and every event collected
\* so far, as true as it was.
LEMMA ServeTable ==
  ASSUME IInv, NEW row \in scan.due, ProcessTimer(row)
  PROVE  TableInv'
<1>1. row \in DueRow /\ row.inc \in Incidents BY DueRowFacts
<1>2. CASE ExpireFires(row)
  BY <1>1, <1>2, OverStep DEF ExpireFires
<1>3. CASE DeskFires(row) BY <1>3, DeskStep
<1>4. CASE RepeatFires(row) BY <1>4, RepeatStep
<1>5. CASE StaleTimer(row)
  <2>1. UNCHANGED <<incident, timers>> BY <1>5, StaleGone DEF StaleTimer
  <2>2. QED BY <2>1, Untouched
<1>6. QED BY <1>2, <1>3, <1>4, <1>5 DEF ProcessTimer

\* What serving row does to the others.
LEMMA ServeOthers ==
  ASSUME IInv, NEW row \in scan.due, ProcessTimer(row)
  PROVE  /\ scan'.on = TRUE
         /\ scan'.due = scan.due \ {row}
         /\ clock' = clock
         /\ \A i \in Incidents : i # row.inc => incident'[i] = incident[i]
         /\ \A tm \in timers : tm.inc # row.inc => tm \in timers'
         /\ \/ \A other \in scan'.due : other.inc # row.inc
            \/ incident'[row.inc].state = "expired"
            \/ StaleTimer(row)
<1>1. scan \in [on: BOOLEAN, due: SUBSET DueRow, batch: SUBSET Event] /\ scan.on
  BY DEF ProcessTimer, IInv, TypeOK
<1>2. row.inc \in Incidents /\ RowTimer(row).inc = row.inc
  BY DueRowFacts DEF RowTimer, Timer
<1>3. /\ scan'.on = TRUE
      /\ scan'.due = scan.due \ {row}
      /\ clock' = clock
  BY <1>1 DEF ProcessTimer, ExpireFires, DeskFires, RepeatFires, StaleTimer
<1>4. \A i \in Incidents : i # row.inc => incident'[i] = incident[i]
  BY DEF ProcessTimer, ExpireFires, DeskFires, RepeatFires, StaleTimer, IInv, TypeOK
<1>5. \A tm \in timers : tm.inc # row.inc => tm \in timers'
  BY <1>2 DEF ProcessTimer, ExpireFires, DeskFires, RepeatFires, StaleTimer, TimersOf
<1>6. CASE ExpireFires(row)
  <2>1. incident'[row.inc] = Moved(row.inc, "expired")
    BY <1>2, <1>6 DEF ExpireFires, IInv, TypeOK
  <2>2. incident'[row.inc].state = "expired" BY <1>2, <2>1, MovedFields DEF States
  <2>3. QED BY <1>3, <1>4, <1>5, <2>2
<1>7. CASE DeskFires(row) \/ RepeatFires(row)
  <2>1. \A other \in scan.due : other.inc = row.inc => other = row
    BY <1>7, LastRow DEF ProcessTimer, DeskFires, RepeatFires
  <2>2. QED BY <1>3, <1>4, <1>5, <2>1
<1>8. CASE StaleTimer(row) BY <1>3, <1>4, <1>5, <1>8
<1>9. QED BY <1>6, <1>7, <1>8 DEF ProcessTimer

\* The events a step of the scan adds.
LEMMA ServeBatch ==
  ASSUME IInv, NEW row \in scan.due, ProcessTimer(row)
  PROVE  \/ /\ scan'.batch = scan.batch
            /\ StaleTimer(row)
         \/ \E e \in Event : /\ scan'.batch = scan.batch \cup {e}
                             /\ e.inc = row.inc
                             /\ Current(e)'
                             /\ \/ e.kind = "expire"
                                \/ \A other \in scan'.due : other.inc # row.inc
<1>1. scan \in [on: BOOLEAN, due: SUBSET DueRow, batch: SUBSET Event] /\ scan.on
  BY DEF ProcessTimer, IInv, TypeOK
<1>2. /\ row.inc \in Incidents
      /\ row.critical \in BOOLEAN
      /\ clock \in Nat
      /\ row.maxRing \in Nat
      /\ row.openedAt \in Nat
      /\ clock + row.maxRing \in Nat
      /\ row.openedAt + row.maxRing \in Nat
  BY DueRowFacts DEF DueRow, IInv, TypeOK
<1>3. CASE ExpireFires(row)
  <2> DEFINE e == Notice("expire", row.inc, NoTime, row.critical)
  <2>1. incident'[row.inc] = Moved(row.inc, "expired")
    BY <1>2, <1>3 DEF ExpireFires, IInv, TypeOK
  <2>2. incident'[row.inc].state = "expired" BY <1>2, <2>1, MovedFields DEF States
  <2>3. Current(e)' BY <2>2 DEF Current, Notice
  <2>4. scan'.batch = scan.batch \cup {e} BY <1>1, <1>3 DEF ExpireFires
  <2>5. e \in Event BY <1>2, NoticeType DEF EventKind
  <2>6. e.inc = row.inc /\ e.kind = "expire" BY DEF Notice
  <2>7. QED BY <2>3, <2>4, <2>5, <2>6
<1>4. CASE DeskFires(row)
  <2>7. Notice("reopen", row.inc, clock + row.maxRing, row.critical) \in Event
    BY <1>2, NoticeType DEF EventKind
  <2>10. PICK e \in Event : e = Notice("reopen", row.inc, clock + row.maxRing, row.critical)
    BY <2>7
  <2>1. incident'[row.inc] = [Moved(row.inc, "open") EXCEPT !.openedAt = clock, !.ackedAt = NoTime]
    BY <1>2, <1>4 DEF DeskFires, IInv, TypeOK
  <2>2. Moved(row.inc, "open") \in IncidentRow BY <1>2, MovedType DEF IInv, States
  <2>3. /\ incident'[row.inc].state = "open"
        /\ incident'[row.inc].openedAt = clock
        /\ incident'[row.inc].maxRing = incident[row.inc].maxRing
    BY <1>2, <2>1, <2>2, MovedFields DEF States, IncidentRow
  <2>4. row.maxRing = incident[row.inc].maxRing
    BY <1>4 DEF DeskFires, IInv, ScanAgrees
  <2>5. Current(e)' BY <2>3, <2>4, <2>10 DEF Current, Notice
  <2>6. scan'.batch = scan.batch \cup {e} BY <1>1, <1>4, <2>10 DEF DeskFires
  <2>8. \A other \in scan'.due : other.inc # row.inc
    BY <1>1, <1>4, LastRow DEF ProcessTimer, DeskFires
  <2>9. e.inc = row.inc BY <2>10 DEF Notice
  <2>11. QED BY <2>5, <2>6, <2>8, <2>9
<1>5. CASE RepeatFires(row)
  <2> DEFINE e == Notice("repeat", row.inc, row.openedAt + row.maxRing, row.critical)
  <2>1. /\ incident' = incident
        /\ incident[row.inc].state = "open"
        /\ row.maxRing = incident[row.inc].maxRing
        /\ row.openedAt = incident[row.inc].openedAt
    BY <1>5 DEF RepeatFires, IInv, ScanAgrees
  <2>2. Current(e)' BY <2>1 DEF Current, Notice
  <2>3. scan'.batch = scan.batch \cup {e} BY <1>1, <1>5 DEF RepeatFires
  <2>4. e \in Event BY <1>2, NoticeType DEF EventKind
  <2>5. \A other \in scan'.due : other.inc # row.inc
    BY <1>1, <1>5, LastRow DEF ProcessTimer, RepeatFires
  <2>6. e.inc = row.inc BY DEF Notice
  <2>7. QED BY <2>2, <2>3, <2>4, <2>5, <2>6
<1>6. CASE StaleTimer(row) BY <1>1, <1>6 DEF StaleTimer
<1>7. QED BY <1>3, <1>4, <1>5, <1>6 DEF ProcessTimer

\* One row of the scan is served; what is left of the scan and its batch stays right.
LEMMA ServeScan ==
  ASSUME IInv, NEW row \in scan.due, ProcessTimer(row)
  PROVE  ScanAgrees' /\ BatchCurrent'
<1>1. /\ scan'.on = TRUE
      /\ scan'.due = scan.due \ {row}
      /\ clock' = clock
      /\ \A i \in Incidents : i # row.inc => incident'[i] = incident[i]
      /\ \A tm \in timers : tm.inc # row.inc => tm \in timers'
      /\ \/ \A other \in scan'.due : other.inc # row.inc
         \/ incident'[row.inc].state = "expired"
         \/ StaleTimer(row)
  BY ServeOthers
<1>2. StaleTimer(row) => UNCHANGED <<incident, timers>> BY StaleGone DEF StaleTimer
<1>3. row.inc \in Incidents BY DueRowFacts
<1>4. ASSUME NEW other \in scan'.due
      PROVE  \/ incident'[other.inc].state \in {"expired", "deleted"}
             \/ /\ RowTimer(other) \in timers'
                /\ other.openedAt = incident'[other.inc].openedAt
                /\ other.maxRing = incident'[other.inc].maxRing
  <2>1. other \in scan.due /\ other.inc \in Incidents BY <1>1, DueRowFacts
  <2>2. RowTimer(other).inc = other.inc BY DEF RowTimer, Timer
  <2>3. \/ incident[other.inc].state \in {"expired", "deleted"}
        \/ /\ RowTimer(other) \in timers
           /\ other.openedAt = incident[other.inc].openedAt
           /\ other.maxRing = incident[other.inc].maxRing
    BY <2>1 DEF IInv, ScanAgrees
  <2>4. CASE other.inc # row.inc BY <1>1, <2>1, <2>2, <2>3, <2>4
  <2>5. CASE other.inc = row.inc BY <1>1, <1>2, <2>3, <2>5
  <2>6. QED BY <2>4, <2>5
<1>5. \A other \in scan'.due : other.at <= clock' BY <1>1 DEF IInv, ScanAgrees
<1>6. \A other, another \in scan'.due :
        other.inc = another.inc /\ other.kind = another.kind => other = another
  BY <1>1 DEF IInv, ScanAgrees
<1>7. \A e \in scan'.batch : \A other \in scan'.due : e.inc = other.inc => e.kind = "expire"
  BY <1>1, ServeBatch DEF IInv, ScanAgrees
<1>8. ScanAgrees' BY <1>1, <1>4, <1>5, <1>6, <1>7 DEF ScanAgrees, RowTimer, Timer
<1>9. ASSUME NEW e \in scan.batch
      PROVE  Current(e)'
  <2>1. e.inc \in Incidents BY DEF IInv, TypeOK, Event
  <2>2. Current(e) BY DEF IInv, BatchCurrent
  <2>3. CASE e.inc # row.inc BY <1>1, <2>1, <2>2, <2>3 DEF Current
  <2>4. CASE e.inc = row.inc
    <3>1. incident[row.inc].state \in {"expired", "deleted"}
      BY <2>2, <2>4 DEF IInv, ScanAgrees, Current
    <3>2. incident' = incident
      BY <3>1 DEF ProcessTimer, ExpireFires, DeskFires, RepeatFires, StaleTimer
    <3>3. QED BY <2>2, <3>2 DEF Current
  <2>5. QED BY <2>3, <2>4
<1>10. BatchCurrent' BY <1>9, ServeBatch DEF BatchCurrent
<1>11. QED BY <1>8, <1>10

-----------------------------------------------------------------------------
(* Invariance. *)

\* The empty database satisfies the inductive invariant.
LEMMA InitInv == Init => IInv
<1> SUFFICES ASSUME Init PROVE IInv OBVIOUS
<1>1. NewTopic("unused") \in TopicRow
  BY SettingsAssumption DEF NewTopic, TopicRow, Positive
<1>2. NoIncident \in IncidentRow BY DEF NoIncident, IncidentRow, States
<1>3. NoRequest \in RequestState
  BY SettingsAssumption DEF NoRequest, RequestState, Positive
<1>4. TypeOK
  BY <1>1, <1>2, <1>3, BoundsAssumption DEF Init, TypeOK, NoScan
<1>5. \A i \in Incidents : incident[i].state = "none" /\ incident[i].topic = NoTopic
  BY DEF Init, NoIncident
<1>6. TableInv
  BY <1>5 DEF Init, TableInv, Owned, OneActivePerTopic, TimersMatchState, TimersFor,
     ExpireAtWindowEnd
<1>7. RequestsOwned /\ ScanAgrees /\ BatchCurrent
  BY DEF Init, RequestsOwned, NoRequest, ScanAgrees, NoScan, BatchCurrent
<1>8. QED BY <1>4, <1>6, <1>7 DEF IInv

\* A step of no scan: nothing is due, or incidents and timers stay.
LEMMA QuietScan ==
  ASSUME IInv, UNCHANGED <<incident, timers, scan>>, clock' \in Nat, clock' >= clock
  PROVE  ScanAgrees' /\ BatchCurrent'
<1>1. \A row \in scan.due : row.at \in Nat BY DEF IInv, TypeOK, DueRow
<1>2. clock \in Nat BY DEF IInv, TypeOK
<1>3. \A row \in scan.due : row.at <= clock' BY <1>1, <1>2 DEF IInv, ScanAgrees
<1>4. ScanAgrees' BY <1>3 DEF IInv, ScanAgrees, RowTimer, Timer, NoScan
<1>5. QED BY <1>4 DEF IInv, BatchCurrent, Current

\* Between two scans there is nothing for a scan to be wrong about.
LEMMA IdleKeepsScan ==
  ASSUME IInv, Idle, scan' = scan
  PROVE  ScanAgrees' /\ BatchCurrent'
BY IdleScan DEF IInv, Idle, ScanAgrees, NoScan, BatchCurrent

\* The incidents in S leave the table; what the scan holds about the others,
\* and about them, stays right.
LEMMA RemovedScan ==
  ASSUME IInv, NEW S \in SUBSET Incidents,
         incident' = [i \in Incidents |->
                        IF i \in S THEN [incident[i] EXCEPT !.state = "deleted"]
                        ELSE incident[i]],
         timers' = {tm \in timers : tm.inc \notin S},
         UNCHANGED <<clock, scan>>
  PROVE  ScanAgrees' /\ BatchCurrent'
<1>1. \A i \in Incidents : incident[i] \in IncidentRow BY DEF IInv, TypeOK
<1>2. \A i \in S : incident'[i].state = "deleted" BY <1>1 DEF IncidentRow
<1>3. \A i \in Incidents \ S : incident'[i] = incident[i] OBVIOUS
<1>4. ASSUME NEW row \in scan.due
      PROVE  \/ incident'[row.inc].state \in {"expired", "deleted"}
             \/ /\ RowTimer(row) \in timers'
                /\ row.openedAt = incident'[row.inc].openedAt
                /\ row.maxRing = incident'[row.inc].maxRing
  <2>1. row.inc \in Incidents /\ RowTimer(row).inc = row.inc
    BY DueRowFacts DEF RowTimer, Timer
  <2>2. QED BY <1>2, <1>3, <2>1 DEF IInv, ScanAgrees
<1>5. ScanAgrees' BY <1>4 DEF IInv, ScanAgrees, RowTimer, Timer, NoScan
<1>6. \A e \in scan.batch : e.inc \in Incidents /\ Current(e)
  BY DEF IInv, TypeOK, Event, BatchCurrent
<1>7. BatchCurrent' BY <1>2, <1>3, <1>6 DEF BatchCurrent, Current
<1>8. QED BY <1>5, <1>7

\* Topics go, between two timers of a scan or not.
LEMMA DropStep ==
  ASSUME IInv, NEW ts \in SUBSET Topics, DropTopics(ts)
  PROVE  TableInv' /\ ScanAgrees' /\ BatchCurrent'
<1> DEFINE S == {i \in Incidents : incident[i].topic \in ts}
<1>1. \A i \in S : incident[i].state # "none"
  BY NoTopicAssumption DEF IInv, TableInv, Owned
<1>2. incident' = [i \in Incidents |->
                     IF i \in S THEN [incident[i] EXCEPT !.state = "deleted"]
                     ELSE incident[i]]
  BY DEF DropTopics
<1>3. timers' = {tm \in timers : tm.inc \notin S}
  BY DEF DropTopics, IInv, TypeOK, TimerRow
<1>4. UNCHANGED <<clock, scan>> BY DEF DropTopics
<1>5. S \in SUBSET Incidents OBVIOUS
<1> HIDE DEF S
<1>6. TableInv' BY <1>1, <1>2, <1>3, <1>5, Removed
<1>7. QED BY <1>2, <1>3, <1>4, <1>5, <1>6, RemovedScan

\* Retention deletes incidents that are over, so nothing anybody holds on to.
LEMMA PruneStep ==
  ASSUME IInv, PruneHistory
  PROVE  TableInv' /\ ScanAgrees' /\ BatchCurrent'
<1> DEFINE S == {i \in Incidents : Prunable(i)}
<1>1. \A i \in S : incident[i].state # "none" BY DEF Prunable
<1>2. incident' = [i \in Incidents |->
                     IF i \in S THEN [incident[i] EXCEPT !.state = "deleted"]
                     ELSE incident[i]]
  BY DEF PruneHistory
<1>3. timers' = {tm \in timers : tm.inc \notin S}
  BY DEF PruneHistory, IInv, TypeOK, TimerRow
<1>4. UNCHANGED <<clock, scan>> BY DEF PruneHistory
<1>5. S \in SUBSET Incidents OBVIOUS
<1> HIDE DEF S
<1>6. TableInv' BY <1>1, <1>2, <1>3, <1>5, Removed
<1>7. QED BY <1>2, <1>3, <1>4, <1>5, <1>6, RemovedScan

\* Every action keeps the inductive invariant.
LEMMA NextInv ==
  ASSUME IInv, Next
  PROVE  IInv'
<1> DEFINE Rest == TableInv' /\ RequestsOwned' /\ ScanAgrees' /\ BatchCurrent'
<1>19. SUFFICES Rest BY TypeStep DEF IInv
<1>1. ASSUME NEW t \in Topics, NEW c \in BOOLEAN, CreateTopic(t, c)
      PROVE  Rest
  BY <1>1, Untouched, IdleKeepsScan DEF CreateTopic, IInv, RequestsOwned
<1>2. ASSUME NEW t \in Topics, NEW c \in BOOLEAN, NEW s \in Settings, PatchTopic(t, c, s)
      PROVE  Rest
  BY <1>2, Untouched, IdleKeepsScan DEF PatchTopic, IInv, RequestsOwned
<1>3. ASSUME NEW ts \in SUBSET Topics, DropTopics(ts)
      PROVE  Rest
  <2>1. TableInv' /\ ScanAgrees' /\ BatchCurrent' BY <1>3, DropStep
  <2>2. RequestsOwned' BY <1>3 DEF DropTopics, IInv, RequestsOwned
  <2>3. QED BY <2>1, <2>2
<1>4. ASSUME NEW t \in Topics, DeleteTopic(t)
      PROVE  Rest
  BY <1>3, <1>4, {t} \in SUBSET Topics DEF DeleteTopic
<1>5. CASE OperatorDelete BY <1>3, <1>5 DEF OperatorDelete
<1>6. ASSUME NEW r \in Requests, NEW t \in Topics, PublishBegin(r, t)
      PROVE  Rest
  <2>1. RequestsOwned' BY <1>6 DEF PublishBegin, IInv, TypeOK, RequestsOwned
  <2>2. QED BY <1>6, <2>1, Untouched, IdleKeepsScan DEF PublishBegin
<1>7. ASSUME NEW r \in Requests, PublishCommit(r)
      PROVE  Rest
  <2>1. request[r] \in RequestState /\ request[r].topic \in Topics
    BY <1>7 DEF PublishCommit, IInv, TypeOK, RequestsOwned
  <2>2. TableInv'
    BY <1>7, <2>1, OpenStep, JoinStep, Untouched DEF PublishCommit
  <2>3. RequestsOwned'
    BY <1>7 DEF PublishCommit, IInv, TypeOK, RequestsOwned, NoRequest
  <2>4. QED BY <1>7, <2>2, <2>3, IdleKeepsScan DEF PublishCommit
<1>8. ASSUME NEW r \in Requests, PublishAbandon(r)
      PROVE  Rest
  <2>1. RequestsOwned'
    BY <1>8 DEF PublishAbandon, IInv, TypeOK, RequestsOwned, NoRequest
  <2>2. QED BY <1>8, <2>1, Untouched, IdleKeepsScan DEF PublishAbandon
<1>9. ASSUME NEW i \in Incidents, Acknowledge(i)
      PROVE  Rest
  BY <1>9, AckStep, IdleKeepsScan DEF Acknowledge, IInv, RequestsOwned
<1>10. ASSUME NEW i \in Incidents, Close(i)
       PROVE  Rest
  BY <1>10, OverStep, IdleKeepsScan DEF Close, IInv, RequestsOwned
<1>11. CASE ScanBegin
  <2>1. BatchCurrent' BY <1>11 DEF ScanBegin, BatchCurrent
  <2>2. QED BY <1>11, <2>1, Untouched, ScanBeginStep DEF ScanBegin, IInv, RequestsOwned
<1>12. ASSUME NEW row \in scan.due, ProcessTimer(row)
       PROVE  Rest
  <2>1. RequestsOwned' BY <1>12 DEF ProcessTimer, IInv, RequestsOwned
  <2>2. QED BY <1>12, <2>1, ServeTable, ServeScan
<1>13. CASE ScanEnd
  <2>1. ScanAgrees' /\ BatchCurrent' BY <1>13 DEF ScanEnd, ScanAgrees, NoScan, BatchCurrent
  <2>2. QED BY <1>13, <2>1, Untouched DEF ScanEnd, IInv, RequestsOwned
<1>14. CASE PruneHistory
  BY <1>14, PruneStep DEF PruneHistory, IInv, RequestsOwned
<1>15. CASE Tick
  <2>1. clock' \in Nat /\ clock' >= clock BY <1>15 DEF Tick, IInv, TypeOK
  <2>2. QED BY <1>15, <2>1, Untouched, QuietScan DEF Tick, IInv, RequestsOwned
<1>16. CASE Crash
  <2>1. ScanAgrees' /\ BatchCurrent' BY <1>16 DEF Crash, ScanAgrees, NoScan, BatchCurrent
  <2>2. RequestsOwned' BY <1>16 DEF Crash, RequestsOwned, NoRequest
  <2>3. QED BY <1>16, <2>1, <2>2, Untouched DEF Crash
<1>17. CASE Restart
  <2>1. clock' \in Nat /\ clock' >= clock BY <1>17 DEF Restart, IInv, TypeOK
  <2>2. QED BY <1>17, <2>1, Untouched, QuietScan DEF Restart, IInv, RequestsOwned
<1>18. QED
  BY <1>1, <1>2, <1>4, <1>5, <1>6, <1>7, <1>8, <1>9, <1>10, <1>11, <1>12, <1>13,
     <1>14, <1>15, <1>16, <1>17 DEF Next

\* The invariant holds in every reachable state.
THEOREM Invariance == Spec => []IInv
<1>1. IInv /\ UNCHANGED vars => IInv'
  <2> SUFFICES ASSUME IInv, UNCHANGED vars PROVE IInv' OBVIOUS
  <2>1. TypeOK' BY DEF vars, IInv, TypeOK
  <2>2. clock \in Nat BY DEF IInv, TypeOK
  <2>3. TableInv' /\ ScanAgrees' /\ BatchCurrent' BY <2>2, Untouched, QuietScan DEF vars
  <2>4. RequestsOwned' BY DEF vars, IInv, RequestsOwned
  <2>5. QED BY <2>1, <2>3, <2>4 DEF IInv
<1>2. IInv /\ [Next]_vars => IInv' BY <1>1, NextInv
<1>3. QED BY InitInv, <1>2, PTL DEF Spec

\* Type correctness.
THEOREM TypeCorrect == Spec => []TypeOK
<1>1. IInv => TypeOK BY DEF IInv
<1>2. QED BY Invariance, <1>1, PTL

\* A topic has at most one open or acked incident, whatever publishes, acks,
\* re-rings and crashes interleave.
THEOREM OneActive == Spec => []OneActivePerTopic
<1>1. IInv => OneActivePerTopic BY DEF IInv, TableInv
<1>2. QED BY Invariance, <1>1, PTL

\* The timer rows are those the state of their incident calls for.
THEOREM TimersMatch == Spec => []TimersMatchState
<1>1. IInv => TimersMatchState BY DEF IInv, TableInv
<1>2. QED BY Invariance, <1>1, PTL

\* The expire timer of an incident stands at the end of its ringing window.
THEOREM ExpireAtEnd == Spec => []ExpireAtWindowEnd
<1>1. IInv => ExpireAtWindowEnd BY DEF IInv, TableInv
<1>2. QED BY Invariance, <1>1, PTL

\* The rows a scan works from are not stale when it comes to them.
THEOREM ScanNeverStale == Spec => []ScanAgrees
<1>1. IInv => ScanAgrees BY DEF IInv
<1>2. QED BY Invariance, <1>1, PTL

-----------------------------------------------------------------------------
(* What is handed to dispatch. *)

\* Nothing is handed over at the start.
LEMMA EventsInit == Init => EventsAreCurrent
BY DEF Init, EventsAreCurrent

\* The state and window that an event of a handler names are those the same
\* handler wrote.
LEMMA EventsStep ==
  ASSUME IInv, Next
  PROVE  EventsAreCurrent'
<1>1. CASE emitted' = {} BY <1>1 DEF EventsAreCurrent
<1>2. ASSUME NEW r \in Requests, PublishCommit(r)
      PROVE  EventsAreCurrent'
  <2> DEFINE q == request[r]
  <2>1. q \in RequestState /\ clock \in Nat
    BY DEF IInv, TypeOK
  <2>2. ASSUME NEW i \in Incidents, OpenIncident(q, i)
        PROVE  EventsAreCurrent'
    <3>1. /\ incident'[i].state = "open"
          /\ incident'[i].openedAt = clock
          /\ incident'[i].maxRing = q.maxRing
      BY <2>2 DEF OpenIncident, IInv, TypeOK
    <3>2. emitted' = {Notice("open", i, clock + q.maxRing, TRUE)} BY <2>2 DEF OpenIncident
    <3>3. QED BY <3>1, <3>2 DEF EventsAreCurrent, Current, Notice
  <2>3. ASSUME NEW i \in Incidents, JoinIncident(q, i)
        PROVE  EventsAreCurrent'
    <3>1. incident[i] \in IncidentRow BY DEF IInv, TypeOK
    <3>2. /\ incident'[i].openedAt = incident[i].openedAt
          /\ incident'[i].maxRing = incident[i].maxRing
      BY <2>3, <3>1 DEF JoinIncident, Bumped, IInv, TypeOK, IncidentRow
    <3>3. emitted' = {Notice("p5", i, incident[i].openedAt + incident[i].maxRing,
                             incident[i].state # "acked")}
      BY <2>3 DEF JoinIncident
    <3>4. QED BY <3>2, <3>3 DEF EventsAreCurrent, Current, Notice
  <2>4. CASE emitted' = {} BY <2>4, <1>1
  <2>5. QED BY <1>2, <2>2, <2>3, <2>4 DEF PublishCommit
<1>3. ASSUME NEW i \in Incidents, Acknowledge(i)
      PROVE  EventsAreCurrent'
  <2>1. incident'[i].state = "acked"
    BY <1>3, MovedFields DEF Acknowledge, States, IInv, TypeOK
  <2>2. \A e \in emitted' : e.inc = i /\ e.kind = "ack" /\ e.ringUntil = NoTime
    BY <1>3 DEF Acknowledge, Notice
  <2>3. QED BY <2>1, <2>2 DEF EventsAreCurrent, Current
<1>4. ASSUME NEW i \in Incidents, Close(i)
      PROVE  EventsAreCurrent'
  <2>1. incident'[i].state = "closed"
    BY <1>4, MovedFields DEF Close, States, IInv, TypeOK
  <2>2. \A e \in emitted' : e.inc = i /\ e.kind = "close" /\ e.ringUntil = NoTime
    BY <1>4 DEF Close, Notice
  <2>3. QED BY <2>1, <2>2 DEF EventsAreCurrent, Current
<1>5. CASE ScanEnd
  BY <1>5 DEF ScanEnd, IInv, BatchCurrent, EventsAreCurrent, Current
<1>6. QED
  BY <1>1, <1>2, <1>3, <1>4, <1>5
  DEF Next, CreateTopic, PatchTopic, DropTopics, DeleteTopic, OperatorDelete, PublishBegin,
      PublishAbandon, ScanBegin, ProcessTimer, PruneHistory, Tick, Crash, Restart

\* Every event is still true when it is handed to dispatch, a scan's whole
\* batch included.
THEOREM EventsCurrent == Spec => []EventsAreCurrent
<1>1. IInv /\ EventsAreCurrent /\ [Next]_vars => EventsAreCurrent'
  BY EventsStep DEF vars, EventsAreCurrent, Current
<1>2. QED BY EventsInit, Invariance, <1>1, PTL DEF Spec

-----------------------------------------------------------------------------
(* What a step may never do. *)

\* A row that appears in the timers table lies ahead.
LEMMA TimersSetStep ==
  ASSUME IInv, Next
  PROVE  \A tm \in timers' \ timers : tm.at > clock
<1>1. CASE timers' \subseteq timers BY <1>1
<1>2. clock \in Nat BY DEF IInv, TypeOK
<1>3. ASSUME NEW i \in Incidents, NEW k \in TimerKind, NEW d \in Positive
      PROVE  Timer(i, k, clock + d).at > clock
  BY <1>2 DEF Timer, Positive
<1>4. ASSUME NEW r \in Requests, PublishCommit(r)
      PROVE  \A tm \in timers' \ timers : tm.at > clock
  <2>1. request[r].repeat \in Positive /\ request[r].maxRing \in Positive
    BY DEF IInv, TypeOK, RequestState
  <2>2. QED BY <1>3, <1>4, <2>1 DEF PublishCommit, OpenIncident, JoinIncident, TimerKind
<1>5. ASSUME NEW i \in Incidents, Acknowledge(i)
      PROVE  \A tm \in timers' \ timers : tm.at > clock
  <2>1. topic[incident[i].topic].desk \in Positive
    BY <1>5 DEF Acknowledge, IInv, TableInv, TypeOK, Owned, TopicRow
  <2>2. QED BY <1>3, <1>5, <2>1 DEF Acknowledge, TimerKind
<1>6. ASSUME NEW row \in scan.due, ProcessTimer(row)
      PROVE  \A tm \in timers' \ timers : tm.at > clock
  <2>1. row.repeat \in Positive /\ row.inc \in Incidents
    BY DueRowFacts DEF DueRow
  <2>2. DeskFires(row) => incident[row.inc].maxRing \in Positive
    BY <2>1 DEF DeskFires, IInv, TableInv, Owned
  <2>3. Timer(row.inc, "repeat", NextRepeat(row)).at > clock
    BY <1>3, <2>1 DEF NextRepeat, TimerKind
  <2>4. CASE DeskFires(row)
    BY <1>3, <2>1, <2>2, <2>4 DEF DeskFires, TimerKind
  <2>5. CASE RepeatFires(row) BY <2>3, <2>5 DEF RepeatFires
  <2>6. CASE ExpireFires(row) \/ StaleTimer(row)
    BY <2>6 DEF ExpireFires, StaleTimer
  <2>7. QED BY <1>6, <2>4, <2>5, <2>6 DEF ProcessTimer
<1>7. QED
  BY <1>1, <1>4, <1>5, <1>6
  DEF Next, CreateTopic, PatchTopic, DropTopics, DeleteTopic, OperatorDelete, PublishBegin,
      PublishAbandon, Close, ScanBegin, ScanEnd, PruneHistory, Tick, Crash, Restart

\* Every timer that is set lies in the future, so a late scan leaves no backlog.
THEOREM TimersAhead == Spec => TimersSetAhead
<1>1. IInv /\ [Next]_vars => [\A tm \in timers' \ timers : tm.at > clock]_vars
  BY TimersSetStep
<1>2. QED BY Invariance, <1>1, PTL DEF Spec, TimersSetAhead

\* What a step can make of an incident's row.
RowStep(i) ==
  LET old == incident[i]
      row == incident'[i]
  IN  \/ row = old
      \/ row = [old EXCEPT !.state = "deleted"]
      \/ old.state \in {"open", "acked"} /\ row = Bumped(i)
      \/ old.state = "none" /\ row.state = "open" /\ row.updatedAt = clock
      \/ old.state = "open" /\ row = [Moved(i, "acked") EXCEPT !.ackedAt = clock]
      \/ old.state = "acked" /\ row = Moved(i, "closed")
      \/ old.state = "open" /\ row = Moved(i, "expired")
      \/ /\ old.state = "acked"
         /\ row = [Moved(i, "open") EXCEPT !.openedAt = clock, !.ackedAt = NoTime]

\* Every action changes the row of an incident in one of the ways of RowStep.
LEMMA RowSteps ==
  ASSUME IInv, Next, NEW i \in Incidents
  PROVE  RowStep(i)
<1> USE DEF RowStep
<1>0. incident \in [Incidents -> IncidentRow] BY DEF IInv, TypeOK
<1>1. CASE UNCHANGED incident BY <1>1
<1>2. ASSUME NEW ts \in SUBSET Topics, DropTopics(ts)
      PROVE  RowStep(i)
  BY <1>2 DEF DropTopics
<1>3. CASE \E t \in Topics : DeleteTopic(t)
  BY <1>2, <1>3, \A t \in Topics : {t} \in SUBSET Topics DEF DeleteTopic
<1>4. CASE OperatorDelete BY <1>2, <1>4 DEF OperatorDelete
<1>5. ASSUME NEW r \in Requests, PublishCommit(r)
      PROVE  RowStep(i)
  <2>1. ASSUME NEW j \in Incidents, OpenIncident(request[r], j)
        PROVE  RowStep(i)
    BY <1>0, <2>1 DEF OpenIncident
  <2>2. ASSUME NEW j \in Incidents, JoinIncident(request[r], j)
        PROVE  RowStep(i)
    BY <1>0, <2>2 DEF JoinIncident, ActiveOf, Active
  <2>3. QED BY <1>1, <1>5, <2>1, <2>2 DEF PublishCommit
<1>6. ASSUME NEW j \in Incidents, Acknowledge(j)
      PROVE  RowStep(i)
  BY <1>0, <1>6 DEF Acknowledge
<1>7. ASSUME NEW j \in Incidents, Close(j)
      PROVE  RowStep(i)
  BY <1>0, <1>7 DEF Close
<1>8. ASSUME NEW row \in scan.due, ProcessTimer(row)
      PROVE  RowStep(i)
  <2>1. row.inc \in Incidents BY DueRowFacts
  <2>2. QED
    BY <1>0, <1>8, <2>1 DEF ProcessTimer, ExpireFires, DeskFires, RepeatFires, StaleTimer
<1>9. CASE PruneHistory BY <1>9 DEF PruneHistory
<1>10. QED
  BY <1>1, <1>3, <1>4, <1>5, <1>6, <1>7, <1>8, <1>9
  DEF Next, CreateTopic, PatchTopic, PublishBegin, PublishAbandon, ScanBegin, ScanEnd,
      Tick, Crash, Restart

\* A live incident starts another window only when it rings again after an ack.
LEMMA WindowStep ==
  ASSUME IInv, Next, NEW i \in Incidents, Active(i)
  PROVE  /\ incident'[i].maxRing = incident[i].maxRing
         /\ incident'[i].openedAt # incident[i].openedAt =>
              incident[i].state = "acked" /\ incident'[i].state = "open"
<1>1. incident[i] \in IncidentRow /\ clock \in Nat BY DEF IInv, TypeOK
<1>2. incident[i].state # "none" BY DEF Active
<1>3. QED BY <1>1, <1>2, RowSteps DEF RowStep, Bumped, Moved, IncidentRow

\* The ringing window of an active incident keeps its length, and starts anew
\* only when the desk timer re-rings it.
THEOREM WindowIsKept == Spec => WindowKept
<1>1. IInv /\ [Next]_vars =>
        [\A i \in Incidents :
           Active(i) =>
             /\ incident'[i].maxRing = incident[i].maxRing
             /\ incident'[i].openedAt # incident[i].openedAt =>
                  incident[i].state = "acked" /\ incident'[i].state = "open"]_vars
  BY WindowStep
<1>2. QED BY Invariance, <1>1, PTL DEF Spec, WindowKept

\* No row is stamped ahead of the clock.
StampsPast == \A i \in Incidents : incident[i].updatedAt <= clock

\* Time does not go back.
LEMMA ClockStep ==
  ASSUME IInv, Next
  PROVE  clock \in Nat /\ clock' \in Nat /\ clock' >= clock
<1>1. clock \in Nat BY DEF IInv, TypeOK
<1>2. CASE Tick BY <1>1, <1>2 DEF Tick
<1>3. CASE ~Tick
  <2>1. clock' = clock
    BY <1>3, Zenon DEF Next, CreateTopic, PatchTopic, DropTopics, DeleteTopic,
       OperatorDelete, PublishBegin, PublishCommit, PublishAbandon, Acknowledge, Close,
       ScanBegin, ProcessTimer, ScanEnd, PruneHistory, Crash, Restart
  <2>2. QED BY <1>1, <2>1
<1>4. QED BY <1>2, <1>3

\* A step leaves a stamp alone or writes the present second.
LEMMA StampedNow ==
  ASSUME IInv, Next, NEW i \in Incidents
  PROVE  /\ incident'[i].updatedAt \in {incident[i].updatedAt, clock}
         /\ incident'[i].state # incident[i].state /\ incident'[i].state # "deleted"
              => incident'[i].updatedAt = clock
<1>1. incident[i] \in IncidentRow /\ clock \in Nat BY DEF IInv, TypeOK
<1>2. QED BY <1>1, RowSteps DEF RowStep, Bumped, Moved, IncidentRow

\* No stamp moves back or ahead of the clock.
LEMMA StampStep ==
  ASSUME IInv, StampsPast, Next
  PROVE  /\ StampsPast'
         /\ \A i \in Incidents :
              /\ incident'[i].updatedAt >= incident[i].updatedAt
              /\ incident'[i].state # incident[i].state /\ incident'[i].state # "deleted"
                   => incident'[i].updatedAt = clock
<1>1. clock \in Nat /\ clock' \in Nat /\ clock' >= clock BY ClockStep
<1>2. \A i \in Incidents : incident[i].updatedAt \in Nat /\ incident[i].updatedAt <= clock
  BY DEF IInv, TypeOK, IncidentRow, StampsPast
<1>3. QED BY <1>1, <1>2, StampedNow DEF StampsPast

\* A change of state is stamped with the second it happens in, and no stamp
\* moves back.
THEOREM ChangesStamped == Spec => ChangesAreStamped
<1>1. Init => StampsPast BY BoundsAssumption DEF Init, NoIncident, StampsPast
<1>2. IInv /\ StampsPast /\ [Next]_vars => StampsPast'
  BY StampStep DEF vars, StampsPast
<1>3. IInv /\ StampsPast /\ [Next]_vars =>
        [\A i \in Incidents :
           /\ incident'[i].updatedAt >= incident[i].updatedAt
           /\ incident'[i].state # incident[i].state /\ incident'[i].state # "deleted"
                => incident'[i].updatedAt = clock]_vars
  BY StampStep
<1>4. QED BY Invariance, <1>1, <1>2, <1>3, PTL DEF Spec, ChangesAreStamped
=============================================================================
