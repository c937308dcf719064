------------------------ MODULE IncidentClientProofs ------------------------
(***************************************************************************)
(* Theorems about IncidentClient: what one phone hears and holds, for every *)
(* set of topics, incidents and requests and every bound.                  *)
(***************************************************************************)
EXTENDS IncidentClient, IncidentEngineProofs, WellFoundedInduction

\* Where an incident's row stands to what the phone holds: the phone has its
\* state, or saw its stamp before, or will be sent it by the next sync.
Covered(i) ==
  \/ copy[i] = incident[i].state
  \/ incident[i].updatedAt \in cursors
  \/ incident[i].updatedAt > cursor

\* What every reachable state satisfies of the copy.
SyncInv ==
  /\ cursor \in Nat \cup {NoTime} /\ cursor <= clock
  /\ cursor # NoTime => cursor \in cursors
  /\ StampsPast
  /\ \A i \in Incidents : incident[i].state \notin {"none", "deleted"} => Covered(i)

\* The repeat interval is at most that of a topic nobody patched.
Interval == Defaults.repeat
RepeatsAreShort == \A s \in Settings : s.repeat <= Interval
RepeatsInv ==
  /\ \A t \in Topics : topic[t].repeat <= Interval
  /\ \A r \in Requests : request[r].repeat <= Interval
  /\ \A row \in scan.due : row.repeat <= Interval

\* A ring of i that the scan has collected and not handed over yet.
RingDue(i) == \E e \in scan.batch : e.inc = i /\ e.kind \in Rings

\* What every reachable state satisfies of the rings, as long as no process
\* dies in a scan: the next repeat is one interval after the last ring, which
\* was handed over or is about to be.
RungInv ==
  /\ rung \in [Incidents -> Nat \cup {NoTime}]
  /\ \A tm \in timers : tm.kind = "repeat" =>
       tm.at <= clock + Interval /\ (RingDue(tm.inc) \/ tm.at <= rung[tm.inc] + Interval)

\* No process dies while a scan is in progress.
ScansEnd == [][scan.on => crashes' = crashes]_allVars

-----------------------------------------------------------------------------
(* The engine's own invariants hold of the engine a phone looks at.        *)

\* The client takes no step the engine does not know.
THEOREM ClientRefinesEngine == ClientSpec => Spec
<1>1. ClientInit => Init BY DEF ClientInit
<1>2. [ClientNext]_allVars => [Next]_vars
  BY DEF ClientNext, Sync, Elsewhere, allVars, clientVars, vars
<1>3. QED BY <1>1, <1>2, PTL DEF ClientSpec, Spec

-----------------------------------------------------------------------------
(* What a sync leaves out.                                                 *)

\* A set of numbers below a bound has a greatest one.
LEMMA Greatest ==
  ASSUME NEW S, S \subseteq Int, S # {}, NEW b \in Int, \A x \in S : x <= b
  PROVE  \E m \in S : \A x \in S : x <= m
<1> DEFINE R == OpToRel(<, Nat)
           T == {n \in Nat : b - n \in S}
<1>1. T # {}
  <2>1. PICK x \in S : x <= b OBVIOUS
  <2>2. x \in Int /\ b - x \in Nat /\ b - (b - x) = x BY <2>1
  <2>3. QED BY <2>2
<1>2. PICK n \in T : \A k \in T : ~ (<<k, n>> \in R)
  <2>1. IsWellFoundedOn(R, Nat) BY NatLessThanWellFounded
  <2>2. T \subseteq Nat OBVIOUS
  <2> HIDE DEF R, T
  <2>3. QED BY <1>1, <2>1, <2>2, WFMin
<1>3. ASSUME NEW x \in S PROVE x <= b - n
  <2>1. x \in Int /\ x <= b /\ b - x \in Nat /\ b - (b - x) = x OBVIOUS
  <2>2. b - x \in T BY <2>1
  <2>3. n \in Nat OBVIOUS
  <2>4. ~ (b - x < n) BY <1>2, <2>1, <2>2, <2>3 DEF OpToRel
  <2>5. QED BY <2>1, <2>3, <2>4
<1>4. QED BY <1>3

\* What a sync makes of the copy and its cursor.
LEMMA SyncStep ==
  ASSUME TypeOK, SyncInv, Sync
  PROVE  /\ SyncInv'
         /\ \A i \in Incidents : incident'[i].state \notin {"none", "deleted"} =>
              copy'[i] = incident'[i].state \/ incident'[i].updatedAt \in cursors'
<1> USE DEF SyncInv
<1> DEFINE S == {cursor} \cup {incident[i].updatedAt : i \in Changed(cursor)}
<1>1. clock \in Nat BY DEF TypeOK
<1>2. \A i \in Incidents : incident[i].updatedAt \in Nat /\ incident[i].updatedAt <= clock
  BY DEF TypeOK, IncidentRow, StampsPast
<1>3. S \subseteq Nat \cup {NoTime} /\ \A s \in S : s <= clock
  BY <1>1, <1>2 DEF Changed
<1>4. S \subseteq Int /\ cursor \in S BY <1>3 DEF NoTime
<1>5. \E m \in S : \A s \in S : s <= m
  <2>1. PICK U : U = S OBVIOUS
  <2>2. PICK b \in Int : b = clock BY <1>1
  <2>3. U \subseteq Int /\ U # {} /\ \A x \in U : x <= b BY <1>3, <1>4, <2>1, <2>2
  <2>4. \E m \in U : \A x \in U : x <= m BY <2>3, Greatest
  <2> HIDE DEF S
  <2>5. QED BY <2>1, <2>4
<1>6. cursor' \in S
  <2>1. \A m : (\A s \in S : s <= m) => \A i \in Changed(cursor) : incident[i].updatedAt <= m
    OBVIOUS
  <2>2. \E m \in S : \A i \in Changed(cursor) : incident[i].updatedAt <= m BY <1>5, <2>1
  <2>3. cursor' = CHOOSE s \in S : \A i \in Changed(cursor) : incident[i].updatedAt <= s
    BY DEF Sync
  <2> HIDE DEF S
  <2>4. QED BY <2>2, <2>3
<1>7. cursor' \in Nat \cup {NoTime} /\ cursor' <= clock BY <1>3, <1>6
<1>8. UNCHANGED <<clock, incident>> BY DEF Sync, vars
<1>9. cursors' = cursors \cup {cursor'} BY DEF Sync
<1>10. ASSUME NEW i \in Incidents, incident[i].state \notin {"none", "deleted"}
       PROVE  copy'[i] = incident[i].state \/ incident[i].updatedAt \in cursors'
  <2>1. CASE i \in Changed(cursor) BY <2>1 DEF Sync
  <2>2. CASE i \notin Changed(cursor)
    <3>1. copy'[i] = copy[i] BY <2>2 DEF Sync
    <3>2. ~ (incident[i].updatedAt > cursor) BY <1>10, <2>2 DEF Changed
    <3>3. QED BY <1>9, <1>10, <3>1, <3>2 DEF Covered
  <2>3. QED BY <2>1, <2>2
<1>11. StampsPast' BY <1>8 DEF StampsPast
<1>12. \A i \in Incidents : incident'[i].state \notin {"none", "deleted"} => Covered(i)'
  BY <1>8, <1>10 DEF Covered
<1>13. QED BY <1>7, <1>8, <1>9, <1>10, <1>11, <1>12

\* A step of somebody else stamps what it changes with the present second,
\* which is past the cursor or the cursor itself.
LEMMA ElsewhereStep == ASSUME IInv, SyncInv, Elsewhere PROVE SyncInv'
<1> USE DEF SyncInv
<1>1. Next /\ UNCHANGED <<copy, cursor, cursors>> BY DEF Elsewhere
<1>2. clock \in Nat /\ clock' \in Nat /\ clock' >= clock BY <1>1, ClockStep
<1>3. /\ StampsPast'
      /\ \A i \in Incidents :
           /\ incident'[i].updatedAt >= incident[i].updatedAt
           /\ incident'[i].state # incident[i].state /\ incident'[i].state # "deleted"
                => incident'[i].updatedAt = clock
  BY <1>1, StampStep
<1>4. cursor <= clock' BY <1>2 DEF NoTime
<1>5. ASSUME NEW i \in Incidents, incident'[i].state \notin {"none", "deleted"}
      PROVE  Covered(i)'
  <2>1. incident[i].updatedAt \in Nat BY DEF IInv, TypeOK, IncidentRow
  <2>2. CASE incident'[i].updatedAt = clock
    <3>1. CASE cursor = clock BY <1>1, <1>2, <2>2, <3>1 DEF Covered, NoTime
    <3>2. CASE cursor # clock BY <1>1, <1>2, <2>2, <3>2 DEF Covered, NoTime
    <3>3. QED BY <3>1, <3>2
  <2>3. CASE incident'[i].updatedAt # clock
    <3>1. incident'[i].state = incident[i].state /\ Covered(i) BY <1>3, <1>5, <2>3
    <3>2. incident'[i].updatedAt = incident[i].updatedAt BY <1>1, <2>3, StampedNow
    <3>3. QED BY <1>1, <3>1, <3>2 DEF Covered
  <2>4. QED BY <2>2, <2>3
<1>6. QED BY <1>1, <1>3, <1>4, <1>5

\* After a sync, the copy of an incident is out of date only if its last change
\* fell in the very second of a newest change the phone had already seen: what
\* the exclusive comparison of seconds in listIncidents can lose.
THEOREM SyncLosesAtMostOneSecond == ClientSpec => []SyncLosesOneSecond
<1>1. ClientInit => SyncInv /\ SyncLosesOneSecond
  <2> SUFFICES ASSUME ClientInit PROVE SyncInv /\ SyncLosesOneSecond OBVIOUS
  <2>1. StampsPast BY BoundsAssumption DEF ClientInit, Init, NoIncident, StampsPast
  <2>2. \A i \in Incidents : incident[i].state = "none" BY DEF ClientInit, Init, NoIncident
  <2>3. QED BY <2>1, <2>2 DEF ClientInit, Init, NoTime, SyncInv, SyncLosesOneSecond
<1>2. IInv /\ SyncInv /\ [ClientNext]_allVars => SyncInv'
  <2> SUFFICES ASSUME IInv, SyncInv, [ClientNext]_allVars PROVE SyncInv' OBVIOUS
  <2>1. CASE UNCHANGED allVars
    BY <2>1 DEF SyncInv, Covered, StampsPast, allVars, clientVars, vars
  <2>2. QED BY <2>1, SyncStep, ElsewhereStep DEF ClientNext, IInv
<1>3. IInv /\ SyncInv /\ SyncLosesOneSecond /\ [ClientNext]_allVars => SyncLosesOneSecond'
  <2> SUFFICES ASSUME IInv, SyncInv, SyncLosesOneSecond, [ClientNext]_allVars
               PROVE  SyncLosesOneSecond'
    OBVIOUS
  <2>1. CASE UNCHANGED allVars BY <2>1 DEF SyncLosesOneSecond, allVars, clientVars, vars
  <2>2. CASE Elsewhere BY <2>2 DEF Elsewhere, SyncLosesOneSecond
  <2>3. CASE Sync BY <2>3, SyncStep DEF IInv, SyncLosesOneSecond
  <2>4. QED BY <2>1, <2>2, <2>3 DEF ClientNext
<1>4. QED BY <1>1, <1>2, <1>3, ClientRefinesEngine, Invariance, PTL DEF ClientSpec

-----------------------------------------------------------------------------
(* No repeat is skipped.                                                   *)

\* No row has a longer interval than a topic nobody patched.
LEMMA RepeatsStep ==
  ASSUME IInv, RepeatsAreShort, RepeatsInv, Next
  PROVE  RepeatsInv'
<1> USE DEF RepeatsInv
<1>1. Interval \in Nat BY SettingsAssumption DEF Interval
<1>2. \A t \in Topics : topic'[t].repeat <= Interval
  <2>1. CASE UNCHANGED topic BY <2>1
  <2>2. ASSUME NEW t \in Topics, NEW c \in BOOLEAN, CreateTopic(t, c)
        PROVE  \A u \in Topics : topic'[u].repeat <= Interval
    BY <1>1, <2>2 DEF CreateTopic, NewTopic, Interval, IInv, TypeOK, TopicRow
  <2>3. ASSUME NEW t \in Topics, NEW c \in BOOLEAN, NEW x \in Settings, PatchTopic(t, c, x)
        PROVE  \A u \in Topics : topic'[u].repeat <= Interval
    BY <2>3 DEF PatchTopic, RepeatsAreShort, IInv, TypeOK, TopicRow
  <2>4. ASSUME NEW ts \in SUBSET Topics, DropTopics(ts)
        PROVE  \A u \in Topics : topic'[u].repeat <= Interval
    BY <2>4 DEF DropTopics, IInv, TypeOK, TopicRow
  <2>5. CASE OperatorDelete BY <2>4, <2>5 DEF OperatorDelete
  <2>6. CASE \E t \in Topics : DeleteTopic(t)
    BY <2>4, <2>6, \A t \in Topics : {t} \in SUBSET Topics DEF DeleteTopic
  <2>7. QED
    BY <2>1, <2>2, <2>3, <2>5, <2>6
    DEF Next, PublishBegin, PublishCommit, PublishAbandon, Acknowledge, Close, ScanBegin,
        ProcessTimer, ScanEnd, PruneHistory, Tick, Crash, Restart
<1>3. \A r \in Requests : request'[r].repeat <= Interval
  <2>1. CASE UNCHANGED request BY <2>1
  <2>2. NoRequest.repeat <= Interval BY <1>1 DEF NoRequest, Interval
  <2>3. ASSUME NEW r \in Requests, NEW t \in Topics, PublishBegin(r, t)
        PROVE  \A q \in Requests : request'[q].repeat <= Interval
    BY <2>3 DEF PublishBegin, IInv, TypeOK
  <2>4. ASSUME NEW r \in Requests, PublishCommit(r) \/ PublishAbandon(r)
        PROVE  \A q \in Requests : request'[q].repeat <= Interval
    BY <2>2, <2>4 DEF PublishCommit, PublishAbandon, IInv, TypeOK
  <2>5. CASE Crash BY <2>2, <2>5 DEF Crash
  <2>6. QED
    BY <2>1, <2>3, <2>4, <2>5
    DEF Next, CreateTopic, PatchTopic, DropTopics, DeleteTopic, OperatorDelete, Acknowledge,
        Close, ScanBegin, ProcessTimer, ScanEnd, PruneHistory, Tick, Restart
<1>4. \A row \in scan'.due : row.repeat <= Interval
  <2>1. CASE scan'.due \subseteq scan.due BY <2>1
  <2>2. CASE ScanBegin
    <3>1. \A tm \in timers : Selected(tm).repeat <= Interval BY TimerOwned DEF Selected
    <3>2. QED BY <2>2, <3>1 DEF ScanBegin
  <2>3. ASSUME NEW row \in scan.due, ProcessTimer(row) PROVE scan'.due \subseteq scan.due
    BY <2>3 DEF ProcessTimer, ExpireFires, DeskFires, RepeatFires, StaleTimer, IInv, TypeOK
  <2>4. CASE ScanEnd \/ Crash BY <2>4 DEF ScanEnd, Crash, NoScan
  <2>5. CASE UNCHANGED scan BY <2>5
  <2>6. QED
    BY <2>1, <2>2, <2>3, <2>4, <2>5
    DEF Next, CreateTopic, PatchTopic, DropTopics, DeleteTopic, OperatorDelete, PublishBegin,
        PublishCommit, PublishAbandon, Acknowledge, Close, PruneHistory, Tick, Restart
<1>5. QED BY <1>2, <1>3, <1>4

\* A repeat timer that a step sets is one interval ahead at most, and rings.
LEMMA NewRepeats ==
  ASSUME IInv, RepeatsInv, Next, NEW tm \in timers' \ timers, tm.kind = "repeat"
  PROVE  /\ clock' = clock /\ tm.inc \in Incidents /\ tm.at <= clock + Interval
         /\ \/ \E e \in emitted' : e.inc = tm.inc /\ e.kind \in Rings
            \/ RingDue(tm.inc)'
<1> DEFINE Goal == /\ clock' = clock /\ tm.inc \in Incidents /\ tm.at <= clock + Interval
                   /\ \/ \E e \in emitted' : e.inc = tm.inc /\ e.kind \in Rings
                      \/ RingDue(tm.inc)'
<1>1. clock \in Nat /\ Interval \in Nat BY SettingsAssumption DEF IInv, TypeOK, Interval
<1>2. CASE timers' \subseteq timers BY <1>2
<1>3. ASSUME NEW r \in Requests, PublishCommit(r) PROVE Goal
  <2>1. PICK i \in Incidents : OpenIncident(request[r], i)
    BY <1>2, <1>3 DEF PublishCommit, JoinIncident
  <2>2. request[r].repeat <= Interval /\ request[r].repeat \in Nat
    BY DEF RepeatsInv, IInv, TypeOK, RequestState, Positive
  <2>3. tm = Timer(i, "repeat", clock + request[r].repeat) BY <2>1 DEF OpenIncident, Timer
  <2>4. emitted' = {Notice("open", i, clock + request[r].maxRing, TRUE)}
    BY <2>1 DEF OpenIncident
  <2>5. QED BY <1>1, <1>3, <2>2, <2>3, <2>4 DEF Timer, Notice, Rings, PublishCommit
<1>4. ASSUME NEW i \in Incidents, Acknowledge(i) PROVE Goal
  BY <1>4 DEF Acknowledge, Timer
<1>5. ASSUME NEW row \in scan.due, ProcessTimer(row) PROVE Goal
  <2>1. row.inc \in Incidents /\ row.repeat \in Nat /\ row.repeat <= Interval
    BY DueRowFacts DEF DueRow, Positive, RepeatsInv
  <2>2. CASE DeskFires(row)
    <3>1. tm = Timer(row.inc, "repeat", clock + row.repeat) BY <2>2 DEF DeskFires, Timer
    <3>2. Notice("reopen", row.inc, clock + row.maxRing, row.critical) \in scan'.batch
      BY <2>2 DEF DeskFires, IInv, TypeOK
    <3>3. QED BY <1>1, <1>5, <2>1, <3>1, <3>2 DEF Timer, Notice, Rings, RingDue, ProcessTimer
  <2>3. CASE RepeatFires(row)
    <3>1. tm = Timer(row.inc, "repeat", clock + row.repeat)
      BY <2>3 DEF RepeatFires, NextRepeat
    <3>2. Notice("repeat", row.inc, row.openedAt + row.maxRing, row.critical) \in scan'.batch
      BY <2>3 DEF RepeatFires, IInv, TypeOK
    <3>3. QED BY <1>1, <1>5, <2>1, <3>1, <3>2 DEF Timer, Notice, Rings, RingDue, ProcessTimer
  <2>4. CASE ExpireFires(row) \/ StaleTimer(row) BY <1>2, <2>4 DEF ExpireFires, StaleTimer
  <2>5. QED BY <1>5, <2>2, <2>3, <2>4 DEF ProcessTimer
<1> HIDE DEF Goal
<1>6. Goal
  BY <1>2, <1>3, <1>4, <1>5
  DEF Next, CreateTopic, PatchTopic, DropTopics, DeleteTopic, OperatorDelete, PublishBegin,
      PublishAbandon, Close, ScanBegin, ScanEnd, PruneHistory, Tick, Crash, Restart
<1>7. QED BY <1>6 DEF Goal

\* A ring the scan has collected stays collected until it is handed over.
LEMMA RingsKept ==
  ASSUME IInv, Next, scan.on => crashes' = crashes, NEW i, RingDue(i)
  PROVE  RingDue(i)' \/ \E e \in emitted' : e.inc = i /\ e.kind \in Rings
<1>1. CASE scan.batch \subseteq scan'.batch BY <1>1 DEF RingDue
<1>2. scan.on BY DEF RingDue, IInv, ScanAgrees, NoScan
<1>3. CASE ScanEnd BY <1>3 DEF ScanEnd, RingDue
<1>4. ~Crash BY <1>2 DEF Crash, IInv, TypeOK
<1>5. ~ScanBegin BY <1>2 DEF ScanBegin, Idle
<1>6. ASSUME NEW row \in scan.due, ProcessTimer(row) PROVE scan.batch \subseteq scan'.batch
  BY <1>6 DEF ProcessTimer, ExpireFires, DeskFires, RepeatFires, StaleTimer, IInv, TypeOK
<1>7. QED
  BY <1>1, <1>3, <1>4, <1>5, <1>6
  DEF Next, CreateTopic, PatchTopic, DropTopics, DeleteTopic, OperatorDelete, PublishBegin,
      PublishCommit, PublishAbandon, Acknowledge, Close, PruneHistory, Tick, Restart

\* The next repeat stays within one interval of the last ring.
LEMMA RungStep ==
  ASSUME IInv, RepeatsInv, RungInv, Elsewhere, scan.on => crashes' = crashes
  PROVE  RungInv'
<1> USE DEF RungInv
<1>1. Next /\ Hear BY DEF Elsewhere
<1>2. clock \in Nat /\ clock' \in Nat /\ clock' >= clock BY <1>1, ClockStep
<1>3. Interval \in Nat BY SettingsAssumption DEF Interval
<1>4. rung' \in [Incidents -> Nat \cup {NoTime}] BY <1>1, <1>2 DEF Hear, Rung
<1>5. ASSUME NEW i \in Incidents, \E e \in emitted' : e.inc = i /\ e.kind \in Rings
      PROVE  rung'[i] = clock'
  BY <1>1, <1>5 DEF Hear, Rung
<1>6. \A i \in Incidents : rung'[i] = rung[i] \/ rung'[i] = clock' BY <1>1 DEF Hear, Rung
<1>7. ASSUME NEW tm \in timers', tm.kind = "repeat"
      PROVE  /\ tm.at <= clock' + Interval
             /\ RingDue(tm.inc)' \/ tm.at <= rung'[tm.inc] + Interval
  <2>1. CASE tm \notin timers
    <3>1. /\ clock' = clock /\ tm.inc \in Incidents /\ tm.at <= clock + Interval
          /\ \/ \E e \in emitted' : e.inc = tm.inc /\ e.kind \in Rings
             \/ RingDue(tm.inc)'
      BY <1>1, <1>7, <2>1, NewRepeats
    <3>2. QED BY <1>5, <3>1
  <2>2. CASE tm \in timers
    <3>1. tm.at \in Nat /\ tm.inc \in Incidents BY <2>2, TimerOwned DEF TimerRow
    <3>2. tm.at <= clock' + Interval BY <1>2, <1>3, <1>7, <2>2, <3>1
    <3>3. CASE rung'[tm.inc] = clock' BY <3>2, <3>3
    <3>4. CASE rung'[tm.inc] # clock'
      <4>1. rung'[tm.inc] = rung[tm.inc] BY <1>6, <3>1, <3>4
      <4>2. ~ \E e \in emitted' : e.inc = tm.inc /\ e.kind \in Rings BY <1>5, <3>1, <3>4
      <4>3. RingDue(tm.inc) => RingDue(tm.inc)' BY <1>1, <4>2, RingsKept
      <4>4. QED BY <1>7, <2>2, <3>2, <4>1, <4>3
    <3>5. QED BY <3>3, <3>4
  <2>3. QED BY <2>1, <2>2
<1>8. QED BY <1>4, <1>7

\* An incident that is open rang less than one interval ago whenever the scan
\* has nothing left to serve, however long the process was away: only a crash
\* in the middle of a scan loses a ring.
THEOREM RungWithinRepeatUnlessCutShort ==
  ASSUME RepeatsAreShort
  PROVE  ClientSpec /\ ScansEnd => []RungWithinRepeat
<1>1. ClientInit => RepeatsInv /\ RungInv
  <2> SUFFICES ASSUME ClientInit PROVE RepeatsInv /\ RungInv OBVIOUS
  <2>1. Interval \in Nat BY SettingsAssumption DEF Interval
  <2>2. RepeatsInv
    BY <2>1 DEF ClientInit, Init, RepeatsInv, NewTopic, NoRequest, NoScan, Interval
  <2>3. QED BY <2>2 DEF ClientInit, Init, RungInv
<1>2. IInv /\ RepeatsInv /\ [ClientNext]_allVars => RepeatsInv'
  <2> SUFFICES ASSUME IInv, RepeatsInv, [ClientNext]_allVars PROVE RepeatsInv' OBVIOUS
  <2>1. CASE UNCHANGED vars BY <2>1 DEF RepeatsInv, vars
  <2>2. QED
    BY <2>1, RepeatsAreShort, RepeatsStep DEF ClientNext, Sync, Elsewhere, allVars
<1>3. IInv /\ RepeatsInv /\ RungInv /\ [ClientNext]_allVars
        /\ [scan.on => crashes' = crashes]_allVars => RungInv'
  <2> SUFFICES ASSUME IInv, RepeatsInv, RungInv, [ClientNext]_allVars,
                      [scan.on => crashes' = crashes]_allVars
               PROVE  RungInv'
    OBVIOUS
  <2>1. CASE UNCHANGED <<vars, rung>> BY <2>1 DEF RungInv, RingDue, vars
  <2>2. CASE Elsewhere
    <3>1. scan.on => crashes' = crashes BY DEF allVars, vars
    <3>2. QED BY <2>2, <3>1, RungStep
  <2>3. QED BY <2>1, <2>2 DEF ClientNext, Sync, allVars, clientVars
<1>4. IInv /\ RungInv => RungWithinRepeat
  <2> SUFFICES ASSUME IInv, RungInv, Idle, NEW i \in Incidents, incident[i].state = "open",
                      \A tm \in timers : tm.at > clock
               PROVE  clock - rung[i] < Defaults.repeat
    BY DEF RungWithinRepeat
  <2>1. PICK tm \in timers : tm.inc = i /\ tm.kind = "repeat"
    BY DEF IInv, TableInv, TimersMatchState, TimersFor
  <2>2. ~ RingDue(i) BY DEF Idle, IInv, ScanAgrees, NoScan, RingDue
  <2>3. tm.at \in Nat /\ clock \in Nat /\ Interval \in Nat
    BY SettingsAssumption DEF IInv, TypeOK, TimerRow, Interval
  <2>4. rung[i] \in Int BY DEF RungInv, NoTime
  <2>5. tm.at <= rung[i] + Interval /\ tm.at > clock BY <2>1, <2>2 DEF RungInv
  <2>6. QED BY <2>3, <2>4, <2>5 DEF Interval
<1>5. QED
  BY <1>1, <1>2, <1>3, <1>4, ClientRefinesEngine, Invariance, PTL DEF ClientSpec, ScansEnd
=============================================================================
