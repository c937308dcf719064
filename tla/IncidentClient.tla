--------------------------- MODULE IncidentClient ---------------------------
(***************************************************************************)
(* The engine as the app on a phone sees it: when it last heard an incident *)
(* ring (the events a publish or a scan handed to dispatch, src/main.ts,   *)
(* after the transaction that moved the timer), and what the list route    *)
(* with `since` (src/v1/router.ts) leaves in the app's copy.               *)
(*                                                                         *)
(* One phone is modelled; acks and closes, its own ones included, are the  *)
(* engine's steps.                                                         *)
(***************************************************************************)
EXTENDS IncidentEngine

CONSTANT
  Nothing       \* the copy holds no row of this incident

VARIABLES
  rung,         \* when an open, a repeat or a re-ring was last handed over
  copy,         \* the states this phone holds
  cursor,       \* the newest updated_at it holds
  cursors,      \* history: the cursors it ever held
  synced        \* the last step brought the copy up to date

clientVars == <<rung, copy, cursor, cursors, synced>>
allVars    == <<vars, clientVars>>

ClientInit ==
  /\ Init
  /\ rung = [i \in Incidents |-> NoTime]
  /\ copy = [i \in Incidents |-> Nothing]
  /\ cursor = NoTime
  /\ cursors = {}
  /\ synced = FALSE

-----------------------------------------------------------------------------
\* The kinds of event that ring a phone whatever the topic's switch says now.
Rings == {"open", "repeat", "reopen"}

\* What the engine's step hands over rings.  Faulty variant: only the first
\* ring is handed over.
MutRung(i) == IF \E e \in emitted' : e.inc = i /\ e.kind = "open" THEN clock' ELSE rung[i]
Rung(i)    == IF \E e \in emitted' : e.inc = i /\ e.kind \in Rings THEN clock' ELSE rung[i]

Hear == rung' = [i \in Incidents |-> Rung(i)]

-----------------------------------------------------------------------------
\* The rows an exclusive `since` lets through.  Faulty variant: the second of
\* the newest open is taken for that of the newest change.
MutChanged(since) ==
  {i \in Incidents : incident[i].state \notin {"none", "deleted"}
                       /\ incident[i].openedAt > since}
Changed(since) ==
  {i \in Incidents : incident[i].state \notin {"none", "deleted"}
                       /\ incident[i].updatedAt > since}

\* GET /v1/incidents?since=: the app merges what comes back and keeps the
\* newest updated_at it has seen.
Sync ==
  /\ Idle
  /\ copy' = [i \in Incidents |->
                IF i \in Changed(cursor) THEN incident[i].state ELSE copy[i]]
  /\ cursor' = CHOOSE s \in {cursor} \cup {incident[i].updatedAt : i \in Changed(cursor)} :
                 \A i \in Changed(cursor) : incident[i].updatedAt <= s
  /\ cursors' = cursors \cup {cursor'}
  /\ synced' = TRUE
  /\ UNCHANGED <<vars, rung>>

-----------------------------------------------------------------------------
\* A step of somebody else.
Elsewhere ==
  /\ Next
  /\ Hear
  /\ synced' = FALSE
  /\ UNCHANGED <<copy, cursor, cursors>>

ClientNext ==
  \/ Sync
  \/ Elsewhere

ClientSpec == ClientInit /\ [][ClientNext]_allVars

-----------------------------------------------------------------------------
\* No repeat is skipped: when a scan has nothing left to serve, an open
\* incident rang less than one repeat interval ago.  The interval is that of a
\* topic nobody patched, the only kind the runs of this module have.
RungWithinRepeat ==
  \A i \in Incidents :
    Idle /\ incident[i].state = "open" /\ (\A tm \in timers : tm.at > clock)
      => clock - rung[i] < Defaults.repeat

\* What api.md 3.2 says of `since`: after a sync, the copy of every incident
\* the app holds is up to date.
SyncCatchesUp ==
  synced =>
    \A i \in Incidents :
      copy[i] # Nothing /\ incident[i].state # "deleted" => copy[i] = incident[i].state

\* What the code gives: after a sync, a row is out of date only if its last
\* change fell in the very second of a newest change the app had already seen.
SyncLosesOneSecond ==
  synced =>
    \A i \in Incidents :
      incident[i].state \notin {"none", "deleted"} =>
        copy[i] = incident[i].state \/ incident[i].updatedAt \in cursors
=============================================================================
