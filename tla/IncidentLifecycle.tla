-------------------------- MODULE IncidentLifecycle --------------------------
(***************************************************************************)
(* What the incident engine promises, without timers, scans, requests or   *)
(* crashes: the state diagram of an incident, with a deadline for each of  *)
(* its two waiting states.  Nothing expires or rings again before its      *)
(* deadline, what is over stays over, a topic has one active incident, and *)
(* an incident only disappears when it is over or with its whole topic.    *)
(***************************************************************************)
EXTENDS Integers

CONSTANTS Topics, Incidents, NoTopic

VARIABLES
  now,       \* the clock
  phase,     \* the state of each incident
  subject,   \* the topic it belongs to
  dead,      \* the topics that are deleted
  until      \* when the present state runs out: the ringing window of an open
             \* incident, the desk timer of an acked one, 0 otherwise

vars == <<now, phase, subject, dead, until>>

Phases == {"none", "open", "acked", "closed", "expired", "deleted"}
Live   == {"open", "acked"}
Over   == {"closed", "expired"}

Init ==
  /\ now = 0
  /\ phase = [i \in Incidents |-> "none"]
  /\ subject = [i \in Incidents |-> NoTopic]
  /\ dead = {}
  /\ until = [i \in Incidents |-> 0]

\* The deadline of i, and of no other incident, is set anew, in the future.
SetDeadline(i) ==
  /\ until'[i] > now
  /\ until' = [until EXCEPT ![i] = until'[i]]

Move(i, to) == phase' = [phase EXCEPT ![i] = to]

Open(i, t) ==
  /\ phase[i] = "none"
  /\ t \notin dead
  /\ \A j \in Incidents : phase[j] \in Live => subject[j] # t
  /\ Move(i, "open")
  /\ subject' = [subject EXCEPT ![i] = t]
  /\ SetDeadline(i)
  /\ UNCHANGED <<now, dead>>

Acknowledge(i) ==
  /\ phase[i] = "open"
  /\ Move(i, "acked")
  /\ SetDeadline(i)
  /\ UNCHANGED <<now, subject, dead>>

Close(i) ==
  /\ phase[i] = "acked"
  /\ Move(i, "closed")
  /\ until' = [until EXCEPT ![i] = 0]
  /\ UNCHANGED <<now, subject, dead>>

Expire(i) ==
  /\ phase[i] = "open"
  /\ now >= until[i]
  /\ Move(i, "expired")
  /\ until' = [until EXCEPT ![i] = 0]
  /\ UNCHANGED <<now, subject, dead>>

Reopen(i) ==
  /\ phase[i] = "acked"
  /\ now >= until[i]
  /\ Move(i, "open")
  /\ SetDeadline(i)
  /\ UNCHANGED <<now, subject, dead>>

\* S leaves the table.
Remove(S) ==
  /\ phase' = [i \in Incidents |-> IF i \in S THEN "deleted" ELSE phase[i]]
  /\ until' = [i \in Incidents |-> IF i \in S THEN 0 ELSE until[i]]
  /\ UNCHANGED <<now, subject>>

\* History may go once it is over.
Forget(S) == (\A i \in S : phase[i] \in Over) /\ Remove(S) /\ UNCHANGED dead

\* A topic takes every incident it ever had with it.
DeleteTopics(ts) ==
  /\ dead' = dead \cup ts
  /\ Remove({i \in Incidents : subject[i] \in ts})

Tick == now' = now + 1 /\ UNCHANGED <<phase, subject, dead, until>>

Next ==
  \/ \E i \in Incidents, t \in Topics : Open(i, t)
  \/ \E i \in Incidents : Acknowledge(i) \/ Close(i) \/ Expire(i) \/ Reopen(i)
  \/ \E S \in SUBSET Incidents : Forget(S)
  \/ \E ts \in SUBSET Topics : DeleteTopics(ts)
  \/ Tick

Spec == Init /\ [][Next]_vars
=============================================================================
