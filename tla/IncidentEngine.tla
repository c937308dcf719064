--------------------------- MODULE IncidentEngine ---------------------------
(***************************************************************************)
(* The incident engine: the state machine of src/incident/service.ts, the  *)
(* timer scan that drives it (src/incident/scanner.ts, src/main.ts), the   *)
(* publish route that opens incidents (src/ingress/router.ts and           *)
(* src/ingress/service.ts), the topic settings it reads (src/v1/topics.ts) *)
(* and the retention job that deletes its history                          *)
(* (src/retention/prune.ts).                                               *)
(*                                                                         *)
(* The server is one JavaScript thread over a synchronous SQLite handle,   *)
(* so a handler is atomic up to its awaits.  What interleaves is modelled: *)
(*  - a publish reads the topic, awaits the request body, then commits;    *)
(*  - the scan selects the due timers, then runs one transaction per timer *)
(*    and reads the clock again in each; time passes and the operator's    *)
(*    command line (another process) commits in between;                   *)
(*  - the process dies anywhere.  The database survives; the scan, the     *)
(*    requests in flight and the events not yet handed over do not.        *)
(*                                                                         *)
(* A message's text, its id, closed_at and last_message_at are left out:   *)
(* nothing here branches on them.                                          *)
(***************************************************************************)
EXTENDS Integers, FiniteSets

CONSTANTS
  Topics,        \* the topic ids of one account; a UUID is never used twice
  NoTopic,       \* no topic yet
  Incidents,     \* incident ids; a UUID is never used twice
  Requests,      \* publish requests that can be in flight at once
  Settings,      \* [repeat, maxRing, desk] a topic can be patched to
  Defaults,      \* [repeat, maxRing, desk] of a new topic (30, 1800, 600)
  CriticalCap,   \* critical topics the account's tier allows
  History,       \* the retention window, in clock units
  MaxTime,       \* bound: the clock stops here
  MaxCrashes     \* bound: how often the process dies

ASSUME NoTopicAssumption == NoTopic \notin Topics
ASSUME SettingsAssumption ==
  Settings \cup {Defaults} \subseteq
    [repeat: Nat \ {0}, maxRing: Nat \ {0}, desk: Nat \ {0}]
ASSUME BoundsAssumption ==
  CriticalCap \in Nat /\ History \in Nat /\ MaxTime \in Nat /\ MaxCrashes \in Nat

NoTime  == -1                       \* a NULL time column

VARIABLES
  clock,      \* the wall clock, in seconds
  up,         \* the process runs
  topic,      \* the topics table
  incident,   \* the incidents table
  timers,     \* the timers table
  request,    \* publishes between authentication and the end of their body
  scan,       \* the timer scan in progress
  emitted,    \* the events about incidents the last step handed to dispatch
  crashes     \* crashes so far

vars == <<clock, up, topic, incident, timers, request, scan, emitted, crashes>>

-----------------------------------------------------------------------------
Positive  == Nat \ {0}
TimerKind == {"repeat", "expire", "desk"}
EventKind == {"open", "p5", "ack", "close", "expire", "reopen", "repeat"}
States    == {"none", "open", "acked", "closed", "expired", "deleted"}

TopicRow == [status: {"unused", "live", "deleted"}, critical: BOOLEAN,
             repeat: Positive, maxRing: Positive, desk: Positive]

IncidentRow == [state: States, topic: Topics \cup {NoTopic}, openedAt: Nat,
                ackedAt: Nat \cup {NoTime}, updatedAt: Nat, maxRing: Nat]

TimerRow == [inc: Incidents, kind: TimerKind, at: Nat]

\* A row of scanDue's select: the timer with the columns of its incident and
\* topic that processTimer uses as they were when the select ran.
DueRow == [inc: Incidents, kind: TimerKind, at: Nat,
           openedAt: Nat, maxRing: Nat, repeat: Positive, critical: BOOLEAN]

Event == [kind: EventKind, inc: Incidents, ringUntil: Nat \cup {NoTime},
          critical: BOOLEAN]

\* The TopicRecord a publish carries across the await of its body.
RequestState == [busy: BOOLEAN, topic: Topics \cup {NoTopic}, critical: BOOLEAN,
                 repeat: Positive, maxRing: Positive]

NewTopic(status) ==
  [status |-> status, critical |-> FALSE, repeat |-> Defaults.repeat,
   maxRing |-> Defaults.maxRing, desk |-> Defaults.desk]

NoIncident == [state |-> "none", topic |-> NoTopic, openedAt |-> 0,
               ackedAt |-> NoTime, updatedAt |-> 0, maxRing |-> 0]

NoRequest == [busy |-> FALSE, topic |-> NoTopic, critical |-> FALSE,
              repeat |-> Defaults.repeat, maxRing |-> Defaults.maxRing]

NoScan == [on |-> FALSE, due |-> {}, batch |-> {}]

-----------------------------------------------------------------------------
\* Reads the handlers share.

Active(i)       == incident[i].state \in {"open", "acked"}
CriticalTopics  == {t \in Topics : topic[t].status = "live" /\ topic[t].critical}
CapReached      == Cardinality(CriticalTopics) >= CriticalCap
Timer(i, k, at) == [inc |-> i, kind |-> k, at |-> at]

Notice(k, i, until, critical) ==
  [kind |-> k, inc |-> i, ringUntil |-> until, critical |-> critical]

\* Faulty variant: only an open incident is looked for, so an acked one is
\* not joined.
MutActiveOf(t) == {i \in Incidents : incident[i].topic = t /\ incident[i].state = "open"}
ActiveOf(t)    == {i \in Incidents : incident[i].topic = t /\ Active(i)}

\* Faulty variant: the delete names one kind of timer.
MutTimersOf(i) == {tm \in timers : tm.inc = i /\ tm.kind = "repeat"}
TimersOf(i)    == {tm \in timers : tm.inc = i}

\* The row of i in another state.  Faulty variant: updated_at is not written.
MutMoved(i, state) == [incident[i] EXCEPT !.state = state]
Moved(i, state)    == [incident[i] EXCEPT !.state = state, !.updatedAt = clock]

\* The row of i with one more message.  Faulty variant: the message restarts
\* the window.
MutBumped(i) == [incident[i] EXCEPT !.updatedAt = clock, !.openedAt = clock]
Bumped(i)    == [incident[i] EXCEPT !.updatedAt = clock]

\* The thread is free to start a handler: no scan holds it.  Faulty variant:
\* the scan awaits between two timers.
MutIdle == up
Idle    == up /\ ~scan.on

-----------------------------------------------------------------------------
Init ==
  /\ clock = 0
  /\ up = TRUE
  /\ topic = [t \in Topics |-> NewTopic("unused")]
  /\ incident = [i \in Incidents |-> NoIncident]
  /\ timers = {}
  /\ request = [r \in Requests |-> NoRequest]
  /\ scan = NoScan
  /\ emitted = {}
  /\ crashes = 0

-----------------------------------------------------------------------------
\* Topics.

CreateTopic(t, critical) ==
  /\ Idle
  /\ topic[t].status = "unused"
  /\ ~(critical /\ CapReached)
  /\ topic' = [topic EXCEPT ![t] = [NewTopic("live") EXCEPT !.critical = critical]]
  /\ emitted' = {}
  /\ UNCHANGED <<clock, up, incident, timers, request, scan, crashes>>

\* patchTopic writes any of the four settings; an incident keeps its own
\* max_ring_s and the timers already set keep their times.
PatchTopic(t, critical, s) ==
  /\ Idle
  /\ topic[t].status = "live"
  /\ ~(critical /\ ~topic[t].critical /\ CapReached)
  /\ topic' = [topic EXCEPT ![t] =
                 [@ EXCEPT !.critical = critical, !.repeat = s.repeat,
                           !.maxRing = s.maxRing, !.desk = s.desk]]
  /\ emitted' = {}
  /\ UNCHANGED <<clock, up, incident, timers, request, scan, crashes>>

\* The rows of these topics go, and the foreign keys take their incidents and
\* timers.
DropTopics(ts) ==
  /\ incident' = [i \in Incidents |->
                    IF incident[i].topic \in ts
                    THEN [incident[i] EXCEPT !.state = "deleted"]
                    ELSE incident[i]]
  /\ timers' = {tm \in timers : incident[tm.inc].topic \notin ts}
  /\ topic' = [t \in Topics |->
                 IF t \in ts THEN [topic[t] EXCEPT !.status = "deleted"] ELSE topic[t]]
  /\ emitted' = {}
  /\ UNCHANGED <<clock, up, request, scan, crashes>>

DeleteTopic(t) ==
  /\ Idle
  /\ topic[t].status = "live"
  /\ DropTopics({t})

\* `critalarm account delete` runs in a process of its own, so it can commit
\* between two transactions of a scan and while the server is down.  It takes
\* every topic the account has, and the account makes no more of them.
OperatorDelete ==
  /\ \E t \in Topics : topic[t].status = "live"
  /\ DropTopics(Topics)

-----------------------------------------------------------------------------
\* Publishing at priority 5.

\* The credential is checked and the topic's row is read before the body is.
PublishBegin(r, t) ==
  /\ Idle
  /\ ~request[r].busy
  /\ topic[t].status = "live"
  /\ request' = [request EXCEPT ![r] =
                   [busy |-> TRUE, topic |-> t, critical |-> topic[t].critical,
                    repeat |-> topic[t].repeat, maxRing |-> topic[t].maxRing]]
  /\ emitted' = {}
  /\ UNCHANGED <<clock, up, topic, incident, timers, scan, crashes>>

\* Faulty variant: no expire timer.
MutOpenIncident(q, i) ==
  /\ ActiveOf(q.topic) = {}
  /\ incident[i].state = "none"
  /\ incident' = [incident EXCEPT ![i] =
                    [state |-> "open", topic |-> q.topic, openedAt |-> clock,
                     ackedAt |-> NoTime, updatedAt |-> clock, maxRing |-> q.maxRing]]
  /\ timers' = timers \cup {Timer(i, "repeat", clock + q.repeat)}
  /\ emitted' = {Notice("open", i, clock + q.maxRing, TRUE)}

\* The first priority 5 on a topic with nothing active opens an incident with
\* the settings the request carries.
OpenIncident(q, i) ==
  /\ ActiveOf(q.topic) = {}
  /\ incident[i].state = "none"
  /\ incident' = [incident EXCEPT ![i] =
                    [state |-> "open", topic |-> q.topic, openedAt |-> clock,
                     ackedAt |-> NoTime, updatedAt |-> clock, maxRing |-> q.maxRing]]
  /\ timers' = timers \cup {Timer(i, "repeat", clock + q.repeat),
                            Timer(i, "expire", clock + q.maxRing)}
  /\ emitted' = {Notice("open", i, clock + q.maxRing, TRUE)}

\* Faulty variants: the message pushes the end of the window away, or the
\* next repeat.
JoinAndPostpone(q, i, kind) ==
  /\ i \in ActiveOf(q.topic)
  /\ incident' = [incident EXCEPT ![i] = Bumped(i)]
  /\ emitted' = {Notice("p5", i, incident[i].openedAt + incident[i].maxRing,
                        incident[i].state # "acked")}
  /\ timers' = {tm \in timers : ~(tm.inc = i /\ tm.kind = kind)}
                 \cup {Timer(i, kind, clock + q.maxRing) : tm \in
                         {x \in timers : x.inc = i /\ x.kind = kind}}
MutJoinMovesExpire(q, i) == JoinAndPostpone(q, i, "expire")
MutJoinMovesRepeat(q, i) == JoinAndPostpone(q, i, "repeat")

\* A later one joins it.  No timer moves, and an acked incident does not ring.
JoinIncident(q, i) ==
  /\ i \in ActiveOf(q.topic)
  /\ incident' = [incident EXCEPT ![i] = Bumped(i)]
  /\ emitted' = {Notice("p5", i, incident[i].openedAt + incident[i].maxRing,
                        incident[i].state # "acked")}
  /\ UNCHANGED timers

\* The body has arrived.  A topic deleted meanwhile fails the foreign key and
\* the transaction with it; a topic that was not critical when it was read
\* gets a message, and a heads-up that is about no incident.
PublishCommit(r) ==
  LET q == request[r] IN
  /\ Idle
  /\ q.busy
  /\ request' = [request EXCEPT ![r] = NoRequest]
  /\ IF topic[q.topic].status = "live" /\ q.critical
     THEN \E i \in Incidents : OpenIncident(q, i) \/ JoinIncident(q, i)
     ELSE emitted' = {} /\ UNCHANGED <<incident, timers>>
  /\ UNCHANGED <<clock, up, topic, scan, crashes>>

\* The body is refused or the client hangs up.
PublishAbandon(r) ==
  /\ Idle
  /\ request[r].busy
  /\ request' = [request EXCEPT ![r] = NoRequest]
  /\ emitted' = {}
  /\ UNCHANGED <<clock, up, topic, incident, timers, scan, crashes>>

-----------------------------------------------------------------------------
\* Stage one, "I'm up": the ringing stops and the desk timer starts.
Acknowledge(i) ==
  /\ Idle
  /\ incident[i].state = "open"
  /\ incident' = [incident EXCEPT ![i] =
                    [Moved(i, "acked") EXCEPT !.ackedAt = clock]]
  /\ timers' = (timers \ TimersOf(i))
                 \cup {Timer(i, "desk", clock + topic[incident[i].topic].desk)}
  /\ emitted' = {Notice("ack", i, NoTime, topic[incident[i].topic].critical)}
  /\ UNCHANGED <<clock, up, topic, request, scan, crashes>>

\* Stage two, "At my desk".
Close(i) ==
  /\ Idle
  /\ incident[i].state = "acked"
  /\ incident' = [incident EXCEPT ![i] = Moved(i, "closed")]
  /\ timers' = timers \ TimersOf(i)
  /\ emitted' = {Notice("close", i, NoTime, topic[incident[i].topic].critical)}
  /\ UNCHANGED <<clock, up, topic, request, scan, crashes>>

-----------------------------------------------------------------------------
\* The timer scan.

\* Faulty variant: the topic's max_ring_s is taken for the incident's.
MutSelected(tm) ==
  LET i == tm.inc IN
  [inc |-> i, kind |-> tm.kind, at |-> tm.at, openedAt |-> incident[i].openedAt,
   maxRing |-> topic[incident[i].topic].maxRing,
   repeat |-> topic[incident[i].topic].repeat,
   critical |-> topic[incident[i].topic].critical]
Selected(tm) ==
  LET i == tm.inc IN
  [inc |-> i, kind |-> tm.kind, at |-> tm.at, openedAt |-> incident[i].openedAt,
   maxRing |-> incident[i].maxRing, repeat |-> topic[incident[i].topic].repeat,
   critical |-> topic[incident[i].topic].critical]

RowTimer(row) == Timer(row.inc, row.kind, row.at)

\* Faulty variant: repeats first.
MutRank(kind) ==
  IF kind = "repeat" THEN 0 ELSE IF kind = "desk" THEN 1 ELSE 2

\* ORDER BY kind, fire_at; the row id that breaks a tie is random.
Rank(kind) ==
  IF kind = "expire" THEN 0 ELSE IF kind = "desk" THEN 1 ELSE 2

NextDue(row) ==
  /\ row \in scan.due
  /\ \A other \in scan.due :
       \/ Rank(row.kind) < Rank(other.kind)
       \/ Rank(row.kind) = Rank(other.kind) /\ row.at <= other.at

\* The select.  A scan that finds nothing changes nothing and is not a step.
ScanBegin ==
  /\ Idle
  /\ \E tm \in timers : tm.at <= clock
  /\ scan' = [on |-> TRUE, batch |-> {},
              due |-> {Selected(tm) : tm \in {x \in timers : x.at <= clock}}]
  /\ emitted' = {}
  /\ UNCHANGED <<clock, up, topic, incident, timers, request, crashes>>

\* Faulty variant: the state is not read again.
MutExpireFires(row) ==
  /\ row.kind = "expire"
  /\ incident' = [incident EXCEPT ![row.inc] = Moved(row.inc, "expired")]
  /\ timers' = timers \ TimersOf(row.inc)
  /\ scan' = [scan EXCEPT !.due = @ \ {row},
                !.batch = @ \cup {Notice("expire", row.inc, NoTime, row.critical)}]

\* The ringing window is over.
ExpireFires(row) ==
  /\ row.kind = "expire"
  /\ incident[row.inc].state = "open"
  /\ incident' = [incident EXCEPT ![row.inc] = Moved(row.inc, "expired")]
  /\ timers' = timers \ TimersOf(row.inc)
  /\ scan' = [scan EXCEPT !.due = @ \ {row},
                !.batch = @ \cup {Notice("expire", row.inc, NoTime, row.critical)}]

\* Faulty variant: the two times are written into each other's column.
MutDeskFires(row) ==
  /\ row.kind = "desk"
  /\ incident[row.inc].state = "acked"
  /\ incident' = [incident EXCEPT ![row.inc] =
                    [Moved(row.inc, "open") EXCEPT !.openedAt = NoTime, !.ackedAt = clock]]
  /\ timers' = (timers \ TimersOf(row.inc))
                 \cup {Timer(row.inc, "repeat", clock + row.repeat),
                       Timer(row.inc, "expire", clock + incident[row.inc].maxRing)}
  /\ scan' = [scan EXCEPT !.due = @ \ {row},
                !.batch = @ \cup {Notice("reopen", row.inc, clock + row.maxRing,
                                         row.critical)}]

\* Nobody came to the desk: the incident rings again, for a whole new window.
DeskFires(row) ==
  /\ row.kind = "desk"
  /\ incident[row.inc].state = "acked"
  /\ incident' = [incident EXCEPT ![row.inc] =
                    [Moved(row.inc, "open") EXCEPT !.openedAt = clock, !.ackedAt = NoTime]]
  /\ timers' = (timers \ TimersOf(row.inc))
                 \cup {Timer(row.inc, "repeat", clock + row.repeat),
                       Timer(row.inc, "expire", clock + incident[row.inc].maxRing)}
  /\ scan' = [scan EXCEPT !.due = @ \ {row},
                !.batch = @ \cup {Notice("reopen", row.inc, clock + row.maxRing,
                                         row.critical)}]

\* The next repeat counts from now, so a late scan repeats only once.  Faulty
\* variant: it counts from when this one was due.
MutNextRepeat(row) == row.at + row.repeat
NextRepeat(row)    == clock + row.repeat

RepeatFires(row) ==
  /\ row.kind = "repeat"
  /\ incident[row.inc].state = "open"
  /\ timers' = IF RowTimer(row) \in timers
               THEN (timers \ {RowTimer(row)})
                      \cup {Timer(row.inc, "repeat", NextRepeat(row))}
               ELSE timers
  /\ scan' = [scan EXCEPT !.due = @ \ {row},
                !.batch = @ \cup {Notice("repeat", row.inc, row.openedAt + row.maxRing,
                                         row.critical)}]
  /\ UNCHANGED incident

\* The incident left the state this timer was for, or left the table.
StaleTimer(row) ==
  /\ \/ row.kind \in {"expire", "repeat"} /\ incident[row.inc].state # "open"
     \/ row.kind = "desk" /\ incident[row.inc].state # "acked"
  /\ timers' = timers \ {RowTimer(row)}
  /\ scan' = [scan EXCEPT !.due = @ \ {row}]
  /\ UNCHANGED incident

\* One transaction of the scan: processTimer reads the incident again.
ProcessTimer(row) ==
  /\ up
  /\ scan.on
  /\ NextDue(row)
  /\ ExpireFires(row) \/ DeskFires(row) \/ RepeatFires(row) \/ StaleTimer(row)
  /\ emitted' = {}
  /\ UNCHANGED <<clock, up, topic, request, crashes>>

\* The batch goes to dispatch once the last timer is done.
ScanEnd ==
  /\ up
  /\ scan.on
  /\ scan.due = {}
  /\ emitted' = scan.batch
  /\ scan' = NoScan
  /\ UNCHANGED <<clock, up, topic, incident, timers, request, crashes>>

-----------------------------------------------------------------------------
\* Retention: closed and expired incidents that opened before the window.
\* Faulty variant: the state is not looked at.
MutPrunable(i) == incident[i].state # "none" /\ incident[i].openedAt < clock - History
Prunable(i) ==
  /\ incident[i].state \in {"closed", "expired"}
  /\ incident[i].openedAt < clock - History

PruneHistory ==
  /\ Idle
  /\ \E i \in Incidents : Prunable(i)
  /\ incident' = [i \in Incidents |->
                    IF Prunable(i) THEN [incident[i] EXCEPT !.state = "deleted"]
                    ELSE incident[i]]
  /\ timers' = {tm \in timers : ~Prunable(tm.inc)}
  /\ emitted' = {}
  /\ UNCHANGED <<clock, up, topic, request, scan, crashes>>

-----------------------------------------------------------------------------
\* Time and the process.

Tick ==
  /\ clock < MaxTime
  /\ clock' = clock + 1
  /\ emitted' = {}
  /\ UNCHANGED <<up, topic, incident, timers, request, scan, crashes>>

\* Faulty variant: the timers live in memory.
MutCrash ==
  /\ up
  /\ crashes < MaxCrashes
  /\ crashes' = crashes + 1
  /\ up' = FALSE
  /\ timers' = {}
  /\ scan' = NoScan
  /\ request' = [r \in Requests |-> NoRequest]
  /\ emitted' = {}
  /\ UNCHANGED <<clock, topic, incident>>

Crash ==
  /\ up
  /\ crashes < MaxCrashes
  /\ crashes' = crashes + 1
  /\ up' = FALSE
  /\ scan' = NoScan
  /\ request' = [r \in Requests |-> NoRequest]
  /\ emitted' = {}
  /\ UNCHANGED <<clock, topic, incident, timers>>

Restart ==
  /\ ~up
  /\ up' = TRUE
  /\ emitted' = {}
  /\ UNCHANGED <<clock, topic, incident, timers, request, scan, crashes>>

-----------------------------------------------------------------------------
Next ==
  \/ \E t \in Topics, c \in BOOLEAN : CreateTopic(t, c)
  \/ \E t \in Topics, c \in BOOLEAN, s \in Settings : PatchTopic(t, c, s)
  \/ \E t \in Topics : DeleteTopic(t)
  \/ OperatorDelete
  \/ \E r \in Requests, t \in Topics : PublishBegin(r, t)
  \/ \E r \in Requests : PublishCommit(r)
  \/ \E r \in Requests : PublishAbandon(r)
  \/ \E i \in Incidents : Acknowledge(i)
  \/ \E i \in Incidents : Close(i)
  \/ ScanBegin
  \/ \E row \in scan.due : ProcessTimer(row)
  \/ ScanEnd
  \/ PruneHistory
  \/ Tick
  \/ Crash
  \/ Restart

Spec == Init /\ [][Next]_vars

\* The interval timer keeps firing, so the scan runs and runs to its end; time
\* passes; a dead process is started again.  People, publishers and the
\* operator promise nothing.
Fairness ==
  /\ WF_vars(Tick)
  /\ WF_vars(Restart)
  /\ WF_vars(ScanBegin)
  /\ WF_vars(\E row \in scan.due : ProcessTimer(row))
  /\ WF_vars(ScanEnd)

FairSpec == Spec /\ Fairness

-----------------------------------------------------------------------------
(* Properties. *)

\* Every column holds a value of its type, and a scan holds rows only while it
\* runs.
TypeOK ==
  /\ clock \in 0..MaxTime
  /\ up \in BOOLEAN
  /\ topic \in [Topics -> TopicRow]
  /\ incident \in [Incidents -> IncidentRow]
  /\ timers \subseteq TimerRow
  /\ request \in [Requests -> RequestState]
  /\ scan \in [on: BOOLEAN, due: SUBSET DueRow, batch: SUBSET Event]
  /\ emitted \subseteq Event
  /\ crashes \in 0..MaxCrashes

\* The flapping guard: a topic has at most one open or acked incident, however
\* publishes, acks and re-rings interleave (the unique index
\* incidents_one_active_per_topic never trips).
OneActivePerTopic ==
  \A i, j \in Incidents :
    /\ incident[i].state \in {"open", "acked"}
    /\ incident[j].state \in {"open", "acked"}
    /\ incident[i].topic = incident[j].topic
    => i = j

\* The timers an incident's state calls for.
TimersFor(state) ==
  IF state = "open" THEN {"repeat", "expire"}
  ELSE IF state = "acked" THEN {"desk"} ELSE {}

\* The timer rows always agree with the state of their incident, one row of
\* each kind it needs: an open incident can ring and expire, an acked one can
\* ring again, and nothing is left to fire for one that is over.
TimersMatchState ==
  \A i \in Incidents :
    /\ \A k \in TimersFor(incident[i].state) : \E tm \in timers : tm.inc = i /\ tm.kind = k
    /\ \A tm \in timers : tm.inc = i => tm.kind \in TimersFor(incident[i].state)
    /\ \A tm, other \in timers :
         tm.inc = i /\ other.inc = i /\ tm.kind = other.kind => tm = other

\* An open incident stops ringing at opened_at + max_ring_s, which no repeat,
\* joining message, change of the topic's settings or restart moves.
ExpireAtWindowEnd ==
  \A tm \in timers :
    tm.kind = "expire" => tm.at = incident[tm.inc].openedAt + incident[tm.inc].maxRing

\* An event that still tells the truth: a ring is for an incident that is open,
\* with the end of its present window, and a state push names the state the
\* incident is in.
Current(e) ==
  \/ incident[e.inc].state = "deleted"
  \/ /\ e.kind \in {"open", "repeat", "reopen"} => incident[e.inc].state = "open"
     /\ e.kind = "ack"    => incident[e.inc].state = "acked"
     /\ e.kind = "close"  => incident[e.inc].state = "closed"
     /\ e.kind = "expire" => incident[e.inc].state = "expired"
     /\ e.ringUntil # NoTime =>
          e.ringUntil = incident[e.inc].openedAt + incident[e.inc].maxRing

\* What a step hands to dispatch is still true when it is handed over.  A scan
\* collects its events over many transactions, so one timer could have
\* overtaken another; only the operator's delete may.
EventsAreCurrent == \A e \in emitted : Current(e)

\* The rows a scan works from are never stale, although it reads them once and
\* commits many times: a row not yet served is still in the table as it was
\* read, or its incident expired in this scan or was deleted.  No incident is
\* served twice with a ring.
ScanAgrees ==
  /\ ~scan.on => scan = NoScan
  /\ \A row \in scan.due :
       /\ row.at <= clock
       /\ \/ incident[row.inc].state \in {"expired", "deleted"}
          \/ /\ RowTimer(row) \in timers
             /\ row.openedAt = incident[row.inc].openedAt
             /\ row.maxRing = incident[row.inc].maxRing
  /\ \A row, other \in scan.due :
       row.inc = other.inc /\ row.kind = other.kind => row = other
  /\ \A e \in scan.batch : \A row \in scan.due :
       e.inc = row.inc => e.kind = "expire"

\* Every timer that is set lies in the future: a scan that comes late, after a
\* crash or a stall, serves each timer once and leaves no backlog behind.
TimersSetAhead == [][\A tm \in timers' \ timers : tm.at > clock]_vars

\* The ringing window belongs to the incident: its length is fixed when it
\* opens, and it starts again only when nobody came to the desk.
WindowKept ==
  [][\A i \in Incidents :
       Active(i) =>
         /\ incident'[i].maxRing = incident[i].maxRing
         /\ incident'[i].openedAt # incident[i].openedAt =>
              incident[i].state = "acked" /\ incident'[i].state = "open"]_vars

\* GET /v1/incidents?since= finds every change of state: the step that makes
\* one stamps the row with the current second, and no step moves a stamp back.
ChangesAreStamped ==
  [][\A i \in Incidents :
       /\ incident'[i].updatedAt >= incident[i].updatedAt
       /\ incident'[i].state # incident[i].state /\ incident'[i].state # "deleted"
            => incident'[i].updatedAt = clock]_vars

\* An open incident whose window ends before the clock stops is acked,
\* expired or deleted: it does not ring for ever.
ExpiryHappens ==
  \A i \in Incidents :
    (incident[i].state = "open" /\ incident[i].openedAt + incident[i].maxRing <= MaxTime)
      ~> incident[i].state # "open"

\* An acked incident whose desk timer falls due before the clock stops is
\* closed, deleted or rings again: an ack never silences one for good.
DeskHappens ==
  \A i \in Incidents :
    (\E tm \in timers : tm.inc = i /\ tm.kind = "desk" /\ tm.at <= MaxTime)
      ~> incident[i].state # "acked"

\* An open incident whose repeat falls due is rung again, unless it stops
\* being open or the process dies first.
RepeatHappens ==
  \A i \in Incidents :
    (incident[i].state = "open" /\ \E tm \in timers :
        tm.inc = i /\ tm.kind = "repeat" /\ tm.at <= MaxTime)
      ~> (\/ \E e \in emitted : e.inc = i /\ e.kind = "repeat"
          \/ incident[i].state # "open"
          \/ ~up)

-----------------------------------------------------------------------------
(* The abstraction. *)

\* When the present state of an incident runs out: its expire timer while it
\* is open, its desk timer while it is acked.
Deadline(i) ==
  IF incident[i].state = "open"
  THEN incident[i].openedAt + incident[i].maxRing
  ELSE IF incident[i].state = "acked"
  THEN (CHOOSE tm \in timers : tm.inc = i /\ tm.kind = "desk").at
  ELSE 0

Lifecycle == INSTANCE IncidentLifecycle WITH
  now     <- clock,
  phase   <- [i \in Incidents |-> incident[i].state],
  subject <- [i \in Incidents |-> incident[i].topic],
  dead    <- {t \in Topics : topic[t].status = "deleted"},
  until   <- [i \in Incidents |-> Deadline(i)]

\* Every step of the engine, the scan and the retention job is a step of the
\* incident's life or leaves it alone: no early expiry or re-ring, nothing
\* comes back from closed or expired, and an open or acked incident leaves the
\* table only with its topic.
ImplementsLifecycle == Lifecycle!Spec
=============================================================================
