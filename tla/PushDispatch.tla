---------------------------- MODULE PushDispatch ----------------------------
(***************************************************************************)
(* The push dispatcher of src/push/dispatcher.ts, with the token routes of *)
(* src/tier/device-tokens.ts and src/tier/devices.ts that change what it   *)
(* reads.                                                                  *)
(*                                                                         *)
(* Every route that changes an incident, and every timer scan, hands its   *)
(* events to a call of dispatch of its own.  A call works through them one *)
(* by one, and through the devices and Live Activities of each one by one, *)
(* and awaits Apple or Google every time; other calls, the routes and the  *)
(* phones go on meanwhile.  Between two awaits a call is atomic.           *)
(*                                                                         *)
(* The incidents are those of IncidentLifecycle without their deadlines,   *)
(* each on a topic of its own that every device follows.  What a push says *)
(* is left out, except its kind and the state a Live Activity names, and   *)
(* so is the Apple host a device is on, which only saves a second attempt. *)
(***************************************************************************)
EXTENDS Integers, Sequences, FiniteSets

CONSTANTS
  Incidents,
  Devices,
  Platform,      \* [Devices -> {"ios", "android", "macos"}]
  Calls,         \* bound: calls of dispatch that run at the same time
  MaxBegun,      \* bound: calls ever made
  MaxToken,      \* bound: how often a phone gets a new push token
  MaxChanges     \* bound: changes to devices and their tokens

ASSUME PlatformAssumption == Platform \in [Devices -> {"ios", "android", "macos"}]
ASSUME BoundsAssumption   ==
  MaxBegun \in Nat /\ MaxToken \in Nat /\ MaxChanges \in Nat

NoToken  == -1      \* '' in devices.push_token, or no row in device_tokens
NoTarget == [dev |-> "nobody", token |-> NoToken]
NoEvent  == [kind |-> "none", inc |-> "none"]

VARIABLES
  state,       \* incidents.state; "deleted" once the topic is gone
  registered,  \* the devices that have a row
  push,        \* devices.push_token
  alarm,       \* the apns or fcm row of device_tokens
  start,       \* devices with an la_start row
  activity,    \* [Devices -> incidents with an la_update row]
  current,     \* the alarm token the provider gave each phone last
  dismissed,   \* [Devices -> incidents whose activity is over on the phone]
  call,        \* the calls of dispatch in progress
  begun,       \* calls made so far
  changes,     \* changes to devices and tokens so far
  told,        \* history: what was last sent to a device's present token
  shown,       \* history: the state last sent to an activity
  overlap      \* history: the last event about an incident met another one
               \* still being sent

stored  == <<registered, push, alarm, start, activity>>
phones  == <<current, dismissed>>
history == <<told, shown, overlap>>
vars    == <<state, stored, phones, call, begun, changes, history>>

-----------------------------------------------------------------------------
Kinds      == {"open", "repeat", "reopen", "ack", "close", "expire"}
StateKinds == {"ack", "close", "expire"}
Event      == [kind: Kinds, inc: Incidents]
States     == {"none", "open", "acked", "closed", "expired", "deleted"}
Token      == 0..MaxToken

\* A call: the events it has not come to, the one it is at, and in its loop
\* over devices ("alarm") or activities ("activity") the targets left, the one
\* whose answer it awaits, and the state the activities are told.
Call == [stage: {"off", "alarm", "activity"}, rest: Seq(Event),
         event: Event \cup {NoEvent}, left: SUBSET [dev: Devices, token: Token],
         at: [dev: Devices, token: Token] \cup {NoTarget}, says: States]

NoCall == [stage |-> "off", rest |-> <<>>, event |-> NoEvent, left |-> {},
           at |-> NoTarget, says |-> "none"]

UsesApns(d) == Platform[d] \in {"ios", "macos"}

\* The token subscribedDevices selects: the row of device_tokens, else the
\* column of devices.
Selected(d) == IF alarm[d] # NoToken THEN alarm[d] ELSE push[d]

\* Faulty variant: a Mac is told nothing of an ack, a close or an expiry.
MutReceives(d, kind) == kind \in StateKinds => Platform[d] = "android"
Receives(d, kind)    == kind \in StateKinds => Platform[d] \in {"android", "macos"}

AlarmTargets(e) ==
  {[dev |-> d, token |-> Selected(d)] :
     d \in {x \in registered : Selected(x) # NoToken /\ Receives(x, e.kind)}}

\* Faulty variant: a re-ring only rings.
MutLiveActivityEvent(kind) ==
  IF kind = "open" THEN "start"
  ELSE IF kind = "ack" THEN "update"
  ELSE IF kind \in {"close", "expire"} THEN "end"
  ELSE "none"
LiveActivityEvent(kind) ==
  IF kind = "open" THEN "start"
  ELSE IF kind \in {"reopen", "ack"} THEN "update"
  ELSE IF kind \in {"close", "expire"} THEN "end"
  ELSE "none"

ActivityTargets(e) ==
  LET action == LiveActivityEvent(e.kind) IN
  {[dev |-> d, token |-> 0] :
     d \in {x \in registered :
              \/ action = "start" /\ x \in start /\ Selected(x) # NoToken
              \/ action \in {"update", "end"} /\ e.inc \in activity[x]}}

\* What an activity is told of an incident whose row is gone.  Faulty variant:
\* whatever the event.
MutFallbackState(kind) == "open"
FallbackState(kind) ==
  IF kind = "ack" THEN "acked"
  ELSE IF kind = "close" THEN "closed"
  ELSE IF kind = "expire" THEN "expired"
  ELSE "open"

-----------------------------------------------------------------------------
Init ==
  /\ state = [i \in Incidents |-> "none"]
  /\ registered = Devices
  /\ push = [d \in Devices |-> 0]
  /\ alarm = [d \in Devices |-> 0]
  /\ start = {}
  /\ activity = [d \in Devices |-> {}]
  /\ current = [d \in Devices |-> 0]
  /\ dismissed = [d \in Devices |-> {}]
  /\ call = [c \in Calls |-> NoCall]
  /\ begun = 0
  /\ changes = 0
  /\ told = [d \in Devices |-> [i \in Incidents |-> "nothing"]]
  /\ shown = [d \in Devices |-> [i \in Incidents |-> "nothing"]]
  /\ overlap = [i \in Incidents |-> FALSE]

-----------------------------------------------------------------------------
\* The sends of a call.

\* The loop's next send, to any of these targets (a select without ORDER BY),
\* or none when they are done.
Awaits(c, turn, targets) ==
  \/ /\ targets = {}
     /\ call' = [call EXCEPT ![c] = [turn EXCEPT !.left = {}, !.at = NoTarget]]
  \/ \E t \in targets :
       call' = [call EXCEPT ![c] = [turn EXCEPT !.left = targets \ {t}, !.at = t]]

\* The call comes to the first of these events and sends it to the first
\* device; an event whose message is gone belongs to nobody and is skipped.
Takes(c, events) ==
  LET e    == Head(events)
      turn == [NoCall EXCEPT !.rest = Tail(events), !.event = e]
  IN IF state[e.inc] = "deleted"
     THEN Awaits(c, [turn EXCEPT !.stage = "activity"], {})
     ELSE Awaits(c, [turn EXCEPT !.stage = "alarm"], AlarmTargets(e))

\* Every device was tried: the state is read, and the activities are next.
Activities(c) ==
  LET e == call[c].event IN
  /\ call[c].stage = "alarm"
  /\ call[c].at = NoTarget
  /\ Awaits(c, [call[c] EXCEPT !.stage = "activity",
                  !.says = IF state[e.inc] = "deleted" THEN FallbackState(e.kind)
                           ELSE state[e.inc]],
            ActivityTargets(e))
  /\ UNCHANGED <<state, stored, phones, begun>>

NextEvent(c) ==
  /\ call[c].stage = "activity"
  /\ call[c].at = NoTarget
  /\ IF call[c].rest = <<>>
     THEN call' = [call EXCEPT ![c] = NoCall]
     ELSE Takes(c, call[c].rest)
  /\ UNCHANGED <<state, stored, phones, begun>>

\* Where the loop goes after a target.  Faulty variant: a send that throws
\* ends it.
MutOthers(c, result) == IF result = "thrown" THEN {} ELSE call[c].left
Others(c, result)    == call[c].left

\* What the tables lose to a refusal.  Faulty variant: the device's token,
\* whichever was refused.
MutErase(d, token) ==
  /\ push' = [push EXCEPT ![d] = NoToken]
  /\ alarm' = [alarm EXCEPT ![d] = NoToken]
Erase(d, token) ==
  /\ push' = [push EXCEPT ![d] = IF @ = token THEN NoToken ELSE @]
  /\ alarm' = [alarm EXCEPT ![d] = IF @ = token THEN NoToken ELSE @]

\* The provider answers, or the send throws.  Only Apple says that a token is
\* stale, and only of one the phone no longer uses.
AlarmAnswer(c, result) ==
  LET t == call[c].at IN
  /\ call[c].stage = "alarm"
  /\ t # NoTarget
  /\ result = "stale" => UsesApns(t.dev) /\ t.token < current[t.dev]
  /\ IF result = "stale" THEN Erase(t.dev, t.token) ELSE UNCHANGED <<push, alarm>>
  /\ Awaits(c, call[c], Others(c, result))
  /\ UNCHANGED <<state, registered, start, activity, phones, begun>>

ActivityAnswer(c, result) ==
  LET t       == call[c].at
      starts  == call[c].event.kind = "open"
  IN
  /\ call[c].stage = "activity"
  /\ t # NoTarget
  /\ result = "stale" => starts \/ call[c].event.inc \in dismissed[t.dev]
  /\ start' = IF result = "stale" /\ starts THEN start \ {t.dev} ELSE start
  /\ activity' = IF result = "stale" /\ ~starts
                 THEN [activity EXCEPT ![t.dev] = @ \ {call[c].event.inc}]
                 ELSE activity
  /\ Awaits(c, call[c], Others(c, result))
  /\ UNCHANGED <<state, registered, push, alarm, phones, begun>>

-----------------------------------------------------------------------------
\* Incidents.

\* Something happened to incidents: a call begins.
Dispatch(c, events) ==
  /\ call[c] = NoCall
  /\ begun < MaxBegun
  /\ begun' = begun + 1
  /\ Takes(c, events)
  /\ UNCHANGED <<stored, phones>>

Happens(c, kind, i, from, to) ==
  /\ state[i] = from
  /\ state' = [state EXCEPT ![i] = to]
  /\ Dispatch(c, <<[kind |-> kind, inc |-> i]>>)

OpenIncident(c, i) == Happens(c, "open", i, "none", "open")
Acknowledge(c, i)  == Happens(c, "ack", i, "open", "acked")
Close(c, i)        == Happens(c, "close", i, "acked", "closed")

\* What a scan may find due, and where it leads.
Due(i) == IF state[i] = "open" THEN {"repeat", "expire"}
          ELSE IF state[i] = "acked" THEN {"reopen"} ELSE {}
\* Faulty variant: the event's kind is written for the state.
MutAfter(kind) == IF kind = "repeat" THEN "open" ELSE kind
After(kind)    == IF kind = "expire" THEN "expired" ELSE "open"
Rank(kind)  == IF kind = "expire" THEN 0 ELSE IF kind = "reopen" THEN 1 ELSE 2

Batches ==
  LET due == {e \in Event : e.kind \in Due(e.inc)} IN
  {s \in UNION {[1..n -> due] : n \in 1..Cardinality(Incidents)} :
     \A m, n \in DOMAIN s : m < n => /\ s[m].inc # s[n].inc
                                     /\ Rank(s[m].kind) <= Rank(s[n].kind)}

\* A timer scan hands over one batch, with events about any of the incidents.
Scan(c) ==
  \E s \in Batches :
    /\ state' = [i \in Incidents |->
                   IF \E n \in DOMAIN s : s[n].inc = i
                   THEN After(s[CHOOSE n \in DOMAIN s : s[n].inc = i].kind)
                   ELSE state[i]]
    /\ Dispatch(c, s)

DeleteTopic(i) ==
  /\ state[i] \notin {"none", "deleted"}
  /\ state' = [state EXCEPT ![i] = "deleted"]
  /\ UNCHANGED <<stored, phones, call, begun>>

-----------------------------------------------------------------------------
\* Devices and their tokens.

\* POST and PATCH .../devices: the column and the row.
SetAlarmToken(d) ==
  /\ registered' = registered \cup {d}
  /\ push' = [push EXCEPT ![d] = current[d]]
  /\ alarm' = [alarm EXCEPT ![d] = current[d]]
  /\ UNCHANGED <<state, start, activity, phones, call, begun>>

\* POST .../tokens with kind apns or fcm: the row alone.
PutAlarmToken(d) ==
  /\ d \in registered
  /\ alarm' = [alarm EXCEPT ![d] = current[d]]
  /\ UNCHANGED <<state, registered, push, start, activity, phones, call, begun>>

\* DELETE .../tokens/{kind}: the row alone.
DropAlarmToken(d) ==
  /\ d \in registered
  /\ alarm' = [alarm EXCEPT ![d] = NoToken]
  /\ UNCHANGED <<state, registered, push, start, activity, phones, call, begun>>

PutStartToken(d) ==
  /\ d \in registered
  /\ Platform[d] # "macos"
  /\ start' = start \cup {d}
  /\ UNCHANGED <<state, registered, push, alarm, activity, phones, call, begun>>

DropStartToken(d) ==
  /\ d \in registered
  /\ start' = start \ {d}
  /\ UNCHANGED <<state, registered, push, alarm, activity, phones, call, begun>>

\* The phone runs an activity for i and registers its token.
PutActivityToken(d, i) ==
  /\ d \in registered
  /\ Platform[d] # "macos"
  /\ state[i] # "none"
  /\ i \notin dismissed[d]
  /\ activity' = [activity EXCEPT ![d] = @ \cup {i}]
  /\ UNCHANGED <<state, registered, push, alarm, start, phones, call, begun>>

DropActivityToken(d, i) ==
  /\ d \in registered
  /\ activity' = [activity EXCEPT ![d] = @ \ {i}]
  /\ UNCHANGED <<state, registered, push, alarm, start, phones, call, begun>>

DeleteDevice(d) ==
  /\ d \in registered
  /\ registered' = registered \ {d}
  /\ push' = [push EXCEPT ![d] = NoToken]
  /\ alarm' = [alarm EXCEPT ![d] = NoToken]
  /\ start' = start \ {d}
  /\ activity' = [activity EXCEPT ![d] = {}]
  /\ UNCHANGED <<state, phones, call, begun>>

\* The provider gives a phone a new token; the old one is stale from now on.
Rotate(d) ==
  /\ current[d] < MaxToken
  /\ current' = [current EXCEPT ![d] = @ + 1]
  /\ UNCHANGED <<state, stored, dismissed, call, begun>>

Dismiss(d, i) ==
  /\ i \in activity[d]
  /\ dismissed' = [dismissed EXCEPT ![d] = @ \cup {i}]
  /\ UNCHANGED <<state, stored, current, call, begun>>

-----------------------------------------------------------------------------
\* History.

Sound(kind) == IF kind \in StateKinds THEN "stop" ELSE "ring"

\* The call sends something to d in this step.
Sends(c, stage, d) ==
  /\ call'[c] # call[c]
  /\ call'[c].stage = stage
  /\ call'[c].at # NoTarget /\ call'[c].at.dev = d

\* An event about i is on its way.
Underway(c, i) ==
  /\ call[c] # NoCall
  /\ call[c].event.inc = i \/ \E n \in DOMAIN call[c].rest : call[c].rest[n].inc = i

Begins(c) == call[c] = NoCall /\ call'[c] # NoCall

About(c) == {call'[c].event} \cup {call'[c].rest[n] : n \in DOMAIN call'[c].rest}

Remember ==
  /\ told' = [d \in Devices |-> [i \in Incidents |->
       IF \E c \in Calls : Sends(c, "alarm", d) /\ call'[c].event.inc = i
                             /\ call'[c].at.token = Selected(d)'
       THEN Sound(call'[CHOOSE c \in Calls : Sends(c, "alarm", d)].event.kind)
       ELSE IF Selected(d)' # Selected(d) THEN "nothing" ELSE told[d][i]]]
  /\ shown' = [d \in Devices |-> [i \in Incidents |->
       IF \E c \in Calls : Sends(c, "activity", d) /\ call'[c].event.inc = i
                             /\ call'[c].event.kind # "open"
       THEN call'[CHOOSE c \in Calls : Sends(c, "activity", d)].says
       ELSE IF i \notin activity'[d] THEN "nothing" ELSE shown[d][i]]]
  /\ overlap' = [i \in Incidents |->
       IF \E c \in Calls : Begins(c) /\ \E e \in About(c) : e.inc = i
       THEN \/ \E c \in Calls : Underway(c, i)
            \/ overlap[i] /\ \E c \in Calls : Begins(c) /\
                 [kind |-> "repeat", inc |-> i] \in About(c)
       ELSE overlap[i]]

-----------------------------------------------------------------------------
IncidentStep ==
  /\ UNCHANGED changes
  /\ \/ \E c \in Calls, i \in Incidents :
          OpenIncident(c, i) \/ Acknowledge(c, i) \/ Close(c, i)
     \/ \E c \in Calls : Scan(c)
     \/ \E i \in Incidents : DeleteTopic(i)

CallStep ==
  /\ UNCHANGED changes
  /\ \E c \in Calls :
       \/ Activities(c)
       \/ NextEvent(c)
       \/ \E result \in {"answered", "stale", "thrown"} :
            AlarmAnswer(c, result) \/ ActivityAnswer(c, result)

DeviceStep ==
  /\ changes < MaxChanges
  /\ changes' = changes + 1
  /\ \E d \in Devices :
       \/ SetAlarmToken(d) \/ PutAlarmToken(d) \/ DropAlarmToken(d)
       \/ PutStartToken(d) \/ DropStartToken(d) \/ DeleteDevice(d) \/ Rotate(d)
       \/ \E i \in Incidents :
            PutActivityToken(d, i) \/ DropActivityToken(d, i) \/ Dismiss(d, i)

Next == (IncidentStep \/ CallStep \/ DeviceStep) /\ Remember

Spec == Init /\ [][Next]_vars

-----------------------------------------------------------------------------
(* Properties. *)

\* Every column and every call holds values of its type.
TypeOK ==
  /\ state \in [Incidents -> States]
  /\ registered \subseteq Devices
  /\ push \in [Devices -> Token \cup {NoToken}]
  /\ alarm \in [Devices -> Token \cup {NoToken}]
  /\ start \subseteq Devices
  /\ activity \in [Devices -> SUBSET Incidents]
  /\ current \in [Devices -> Token]
  /\ dismissed \in [Devices -> SUBSET Incidents]
  /\ \A c \in Calls : call[c] \in Call
  /\ begun \in 0..MaxBegun
  /\ changes \in 0..MaxChanges

Quiet == \A c \in Calls : call[c] = NoCall

\* No answer to an old token takes a device's present one: a step of a call
\* leaves a device that would be rung on its provider's current token as it is,
\* and an activity that is still on the screen.
LiveTokensKept ==
  [][call' # call =>
       \A d \in Devices :
         /\ Selected(d) = current[d] => Selected(d)' = Selected(d)
         /\ activity[d] \ dismissed[d] \subseteq activity'[d]]_vars

\* When every send is over, an Android phone or a Mac that was last told to
\* ring has an open incident, and one that was told to stop has one that does
\* not ring, whatever was refused, threw or changed its token on the way:
\* unless the last event about it was handed over while an earlier one was
\* still being sent.
RingsAreStopped ==
  Quiet =>
    \A d \in registered, i \in Incidents :
      Platform[d] # "ios" /\ ~overlap[i] =>
        /\ told[d][i] = "ring" => state[i] \in {"open", "deleted"}
        /\ told[d][i] = "stop" => state[i] # "open"

\* The same of a Live Activity and the state it shows.
ActivitiesSettle ==
  Quiet =>
    \A d \in registered, i \in Incidents :
      ~overlap[i] /\ state[i] # "deleted" => shown[d][i] \in {"nothing", state[i]}

\* A push that ends an activity names an end, although the state is read long
\* after the event and the row may be gone by then.
EndsNameAnEnd ==
  \A c \in Calls :
    call[c].stage = "activity" /\ call[c].at # NoTarget
      /\ LiveActivityEvent(call[c].event.kind) = "end"
      => call[c].says \in {"closed", "expired"}

\* What api.md 5.3 says of a Live Activity push: "`event` is `update` for
\* `open` and `acked`, and `end` for `closed` and `expired`".
UpdateNamesState ==
  \A c \in Calls :
    call[c].stage = "activity" /\ call[c].at # NoTarget
      /\ LiveActivityEvent(call[c].event.kind) = "update"
      => call[c].says \in {"open", "acked"}
=============================================================================
