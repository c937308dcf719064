------------------------- MODULE PushDispatchProofs -------------------------
(***************************************************************************)
(* Theorems about PushDispatch, for every set of incidents, devices and     *)
(* calls, every platform and every bound.                                  *)
(***************************************************************************)
EXTENDS PushDispatch, TLAPS

Target == [dev: Devices, token: Token]

\* Every column and every call is of its type.
Typed ==
  /\ TypeOK
  /\ call \in [Calls -> Call]
  /\ \A c \in Calls :
       call[c] = NoCall \/ (call[c].stage # "off" /\ call[c].event \in Event)

\* The events a call is at or has not come to.
Pending(c) == {call[c].event} \cup {call[c].rest[n] : n \in DOMAIN call[c].rest}

\* An incident that ended stays ended: what a pending event says of one holds.
EndsStay ==
  \A c \in Calls : \A e \in Pending(c) :
    /\ e.kind = "close"  => state[e.inc] \in {"closed", "deleted"}
    /\ e.kind = "expire" => state[e.inc] \in {"expired", "deleted"}

\* What every reachable state satisfies.
IInv == Typed /\ EndsStay /\ EndsNameAnEnd

\* The state an event's step finds the incident in, and the one it leaves.
FromState(kind) ==
  IF kind = "open" THEN "none"
  ELSE IF kind \in {"ack", "repeat", "expire"} THEN "open" ELSE "acked"
Outcome(kind) ==
  IF kind = "ack" THEN "acked" ELSE IF kind = "close" THEN "closed"
  ELSE IF kind = "expire" THEN "expired" ELSE "open"

\* A call that awaits nobody has nobody left.
Finished == \A c \in Calls : call[c].at = NoTarget => call[c].left = {}

\* Tokens belong to devices that have a row, and activities to incidents that
\* happened.
Owned ==
  \A d \in Devices :
    /\ Selected(d) # NoToken => d \in registered
    /\ \A i \in activity[d] : d \in registered /\ state[i] # "none"

\* What the last event about an incident led to is still the case while it, or
\* any other, is being sent; and so is the state the activities are told.
EventsHold ==
  \A c \in Calls : \A e \in Pending(c) :
    call[c] # NoCall /\ ~overlap[e.inc] => state[e.inc] \in {Outcome(e.kind), "deleted"}
SaysHolds ==
  \A c \in Calls :
    call[c].stage = "activity" /\ ~overlap[call[c].event.inc] =>
      state[call[c].event.inc] \in {call[c].says, "deleted"}

\* A device that was told the wrong thing about an incident is still to be told
\* of it: an event about it is not come to yet, or is, and the device is left.
WrongRing(d, i) ==
  \/ told[d][i] = "ring" /\ state[i] \notin {"open", "deleted"}
  \/ told[d][i] = "stop" /\ state[i] = "open"
RingDue(d, i) ==
  \E c \in Calls :
    \/ \E n \in DOMAIN call[c].rest : call[c].rest[n].inc = i
    \/ /\ call[c].stage = "alarm" /\ call[c].event.inc = i
       /\ [dev |-> d, token |-> Selected(d)] \in call[c].left
RingsHold ==
  \A d \in Devices, i \in Incidents :
    /\ told[d][i] # "nothing" => Selected(d) # NoToken
    /\ ~overlap[i] /\ Platform[d] # "ios" /\ WrongRing(d, i) => RingDue(d, i)

\* The same of an activity that shows the wrong state: the event is one that
\* activities are sent.
Shows(e) == LiveActivityEvent(e.kind) \in {"update", "end"}
WrongShow(d, i) == shown[d][i] \notin {"nothing", state[i]} /\ state[i] # "deleted"
ShowDue(d, i) ==
  \E c \in Calls :
    \/ \E n \in DOMAIN call[c].rest : call[c].rest[n].inc = i /\ Shows(call[c].rest[n])
    \/ /\ call[c].event.inc = i /\ Shows(call[c].event)
       /\ \/ call[c].stage = "alarm"
          \/ call[c].stage = "activity" /\ [dev |-> d, token |-> 0] \in call[c].left
ShowsHold ==
  \A d \in Devices, i \in Incidents :
    ~overlap[i] /\ WrongShow(d, i) => ShowDue(d, i)

\* What RingsAreStopped and ActivitiesSettle rest on.
SendsInv == Finished /\ Owned /\ EventsHold /\ SaysHolds /\ RingsHold /\ ShowsHold

-----------------------------------------------------------------------------
(* Calls.                                                                  *)

\* No call is a call, and no target a target.
LEMMA NoCallFacts == NoCall \in Call /\ NoTarget \notin Target /\ NoCall.at = NoTarget
BY DEF NoCall, Call, NoTarget, Target, Token, NoToken, NoEvent, States

\* A call that is none is at no stage.
LEMMA NoCallOff == NoCall.stage # "alarm" /\ NoCall.stage # "activity"
BY DEF NoCall

\* A turn of a call is the turn given, at one of the targets if there is any.
LEMMA AwaitsFacts ==
  ASSUME call \in [Calls -> Call], NEW c \in Calls, NEW turn \in Call,
         NEW targets \in SUBSET Target, Awaits(c, turn, targets)
  PROVE  /\ call' \in [Calls -> Call]
         /\ \A b \in Calls : b # c => call'[b] = call[b]
         /\ call'[c].stage = turn.stage /\ call'[c].rest = turn.rest
         /\ call'[c].event = turn.event /\ call'[c].says = turn.says
         /\ \/ targets = {} /\ call'[c].left = {} /\ call'[c].at = NoTarget
            \/ call'[c].at \in targets /\ call'[c].left = targets \ {call'[c].at}
<1>1. CASE /\ targets = {}
           /\ call' = [call EXCEPT ![c] = [turn EXCEPT !.left = {}, !.at = NoTarget]]
  <2> DEFINE r == [turn EXCEPT !.left = {}, !.at = NoTarget]
  <2>1. /\ r \in Call /\ r.left = {} /\ r.at = NoTarget
        /\ r.stage = turn.stage /\ r.rest = turn.rest /\ r.event = turn.event
        /\ r.says = turn.says
    BY DEF Call
  <2> HIDE DEF r
  <2>2. call' = [call EXCEPT ![c] = r] BY <1>1 DEF r
  <2>3. QED BY <1>1, <2>1, <2>2
<1>2. ASSUME NEW t \in targets,
             call' = [call EXCEPT ![c] = [turn EXCEPT !.left = targets \ {t}, !.at = t]]
      PROVE  /\ call' \in [Calls -> Call]
             /\ \A b \in Calls : b # c => call'[b] = call[b]
             /\ call'[c].stage = turn.stage /\ call'[c].rest = turn.rest
             /\ call'[c].event = turn.event /\ call'[c].says = turn.says
             /\ call'[c].at \in targets /\ call'[c].left = targets \ {call'[c].at}
  <2> DEFINE r == [turn EXCEPT !.left = targets \ {t}, !.at = t]
  <2>1. /\ r \in Call /\ r.left = targets \ {t} /\ r.at = t
        /\ r.stage = turn.stage /\ r.rest = turn.rest /\ r.event = turn.event
        /\ r.says = turn.says
    BY DEF Call, Target
  <2> HIDE DEF r
  <2>2. call' = [call EXCEPT ![c] = r] BY <1>2 DEF r
  <2>3. QED BY <2>1, <2>2
<1>3. QED BY <1>1, <1>2 DEF Awaits

\* What the selects find are devices with a token.
LEMMA TargetsFit ==
  ASSUME TypeOK, NEW e \in Event
  PROVE  AlarmTargets(e) \subseteq Target /\ ActivityTargets(e) \subseteq Target
<1>1. 0 \in Token BY BoundsAssumption DEF Token
<1>2. \A d \in Devices : Selected(d) \in Token \cup {NoToken} BY DEF TypeOK, Selected
<1>3. registered \subseteq Devices BY DEF TypeOK
<1>4. AlarmTargets(e) \subseteq Target BY <1>2, <1>3 DEF AlarmTargets, Target
<1>5. ActivityTargets(e) \subseteq Target BY <1>1, <1>3 DEF ActivityTargets, Target
<1>6. QED BY <1>4, <1>5

\* A call that comes to an event is at its first device, if there is one.
LEMMA TakesFacts ==
  ASSUME Typed, NEW c \in Calls, NEW s \in Seq(Event), s # <<>>, Takes(c, s)
  PROVE  /\ call' \in [Calls -> Call]
         /\ \A b \in Calls : b # c => call'[b] = call[b]
         /\ call'[c].event = Head(s) /\ call'[c].rest = Tail(s) /\ Head(s) \in Event
         /\ \/ /\ state[Head(s).inc] = "deleted" /\ call'[c].stage = "activity"
               /\ call'[c].left = {} /\ call'[c].at = NoTarget
            \/ /\ state[Head(s).inc] # "deleted" /\ call'[c].stage = "alarm"
               /\ \/ /\ AlarmTargets(Head(s)) = {}
                     /\ call'[c].left = {} /\ call'[c].at = NoTarget
                  \/ /\ call'[c].at \in AlarmTargets(Head(s))
                     /\ call'[c].left = AlarmTargets(Head(s)) \ {call'[c].at}
<1> DEFINE turn == [NoCall EXCEPT !.rest = Tail(s), !.event = Head(s)]
<1>1. Head(s) \in Event /\ Tail(s) \in Seq(Event) OBVIOUS
<1>2. /\ turn \in Call /\ turn.rest = Tail(s) /\ turn.event = Head(s)
  BY <1>1, NoCallFacts DEF Call
<1>3. call \in [Calls -> Call] BY DEF Typed
<1> HIDE DEF turn
<1>4. CASE state[Head(s).inc] = "deleted"
  <2> DEFINE t == [turn EXCEPT !.stage = "activity"]
  <2>1. /\ t \in Call /\ t.rest = Tail(s) /\ t.event = Head(s) /\ t.stage = "activity"
    BY <1>2 DEF Call
  <2>2. Awaits(c, t, {}) BY <1>4 DEF Takes, turn
  <2> HIDE DEF t
  <2>3. {} \in SUBSET Target OBVIOUS
  <2>4. QED BY <1>1, <1>3, <1>4, <2>1, <2>2, <2>3, AwaitsFacts
<1>5. CASE state[Head(s).inc] # "deleted"
  <2> DEFINE t == [turn EXCEPT !.stage = "alarm"]
  <2>1. /\ t \in Call /\ t.rest = Tail(s) /\ t.event = Head(s) /\ t.stage = "alarm"
    BY <1>2 DEF Call
  <2>2. Awaits(c, t, AlarmTargets(Head(s))) BY <1>5 DEF Takes, turn
  <2> HIDE DEF t
  <2>3. PICK targets \in SUBSET Target : targets = AlarmTargets(Head(s))
    BY <1>1, TargetsFit DEF Typed
  <2>4. Awaits(c, t, targets) BY <2>2, <2>3 DEF Awaits
  <2>5. QED BY <1>1, <1>3, <1>5, <2>1, <2>3, <2>4, AwaitsFacts
<1>6. QED BY <1>4, <1>5

\* A call that has tried every device reads the state and comes to the
\* activities.
LEMMA ActivitiesFacts ==
  ASSUME Typed, NEW c \in Calls, Activities(c)
  PROVE  /\ call' \in [Calls -> Call] /\ call[c].event \in Event
         /\ \A b \in Calls : b # c => call'[b] = call[b]
         /\ call'[c].event = call[c].event /\ call'[c].rest = call[c].rest
         /\ call'[c].stage = "activity"
         /\ call'[c].says = IF state[call[c].event.inc] = "deleted"
                            THEN FallbackState(call[c].event.kind)
                            ELSE state[call[c].event.inc]
         /\ \/ /\ ActivityTargets(call[c].event) = {}
               /\ call'[c].left = {} /\ call'[c].at = NoTarget
            \/ /\ call'[c].at \in ActivityTargets(call[c].event)
               /\ call'[c].left = ActivityTargets(call[c].event) \ {call'[c].at}
<1>1. call[c] # NoCall BY DEF Activities, NoCall
<1>2. PICK e \in Event : e = call[c].event BY <1>1 DEF Typed
<1>3. PICK says : says = IF state[e.inc] = "deleted" THEN FallbackState(e.kind)
                         ELSE state[e.inc]
  OBVIOUS
<1>4. says \in States BY <1>3 DEF Typed, TypeOK, States, FallbackState, Event
<1>5. PICK k \in Call : k = call[c] BY DEF Typed
<1> DEFINE t == [k EXCEPT !.stage = "activity", !.says = says]
<1>6. /\ t \in Call /\ t.event = e /\ t.rest = k.rest /\ t.stage = "activity"
      /\ t.says = says
  BY <1>2, <1>4, <1>5 DEF Call
<1>7. Awaits(c, t, ActivityTargets(e)) BY <1>2, <1>3, <1>5 DEF Activities
<1> HIDE DEF t
<1>8. PICK targets \in SUBSET Target : targets = ActivityTargets(e)
  BY TargetsFit DEF Typed
<1>9. Awaits(c, t, targets) BY <1>7, <1>8 DEF Awaits
<1>10. call \in [Calls -> Call] BY DEF Typed
<1>11. QED BY <1>2, <1>3, <1>5, <1>6, <1>8, <1>9, <1>10, AwaitsFacts

\* A call whose target has answered is at another one.
LEMMA OthersFacts ==
  ASSUME Typed, NEW c \in Calls, Awaits(c, call[c], call[c].left)
  PROVE  /\ call' \in [Calls -> Call]
         /\ \A b \in Calls : b # c => call'[b] = call[b]
         /\ call'[c].event = call[c].event /\ call'[c].rest = call[c].rest
         /\ call'[c].stage = call[c].stage /\ call'[c].says = call[c].says
         /\ \/ call[c].left = {} /\ call'[c].left = {} /\ call'[c].at = NoTarget
            \/ call'[c].at \in call[c].left /\ call'[c].left = call[c].left \ {call'[c].at}
<1>1. PICK k \in Call : k = call[c] BY DEF Typed
<1>2. PICK targets \in SUBSET Target : targets = call[c].left BY <1>1 DEF Call, Target
<1>3. Awaits(c, k, targets) BY <1>1, <1>2 DEF Awaits
<1>4. call \in [Calls -> Call] BY DEF Typed
<1>5. QED BY <1>1, <1>2, <1>3, <1>4, AwaitsFacts

\* A scan's batch is a sequence of events that are due.
LEMMA BatchFacts ==
  ASSUME NEW s \in Batches
  PROVE  /\ s \in Seq(Event) /\ s # <<>>
         /\ \A n \in DOMAIN s : s[n] \in Event /\ s[n].kind \in Due(s[n].inc)
         /\ \A m, n \in DOMAIN s : m < n => s[m].inc # s[n].inc
<1> DEFINE due == {e \in Event : e.kind \in Due(e.inc)}
<1>1. PICK n \in 1..Cardinality(Incidents) : s \in [1..n -> due] BY DEF Batches
<1>2. n \in Nat /\ n >= 1 OBVIOUS
<1>3. s \in Seq(due) /\ Len(s) = n /\ DOMAIN s = 1..n BY <1>1, <1>2
<1>4. QED BY <1>1, <1>2, <1>3 DEF Batches

-----------------------------------------------------------------------------
(* Incidents.                                                              *)

\* A call begins with events about incidents that this step changes.
Begin(c, s) ==
  /\ s \in Seq(Event) /\ s # <<>>
  /\ \A m, n \in DOMAIN s : m < n => s[m].inc # s[n].inc
  /\ \A n \in DOMAIN s : /\ state[s[n].inc] = FromState(s[n].kind)
                         /\ state'[s[n].inc] = Outcome(s[n].kind)
  /\ \A i \in Incidents : (\A n \in DOMAIN s : s[n].inc # i) => state'[i] = state[i]
  /\ state' \in [Incidents -> States]
  /\ Dispatch(c, s)

\* A route's step is one event.
LEMMA HappensBegins ==
  ASSUME Typed, NEW c \in Calls, NEW kind \in Kinds, NEW i \in Incidents,
         Happens(c, kind, i, FromState(kind), Outcome(kind))
  PROVE  \E s : Begin(c, s)
<1> DEFINE e == [kind |-> kind, inc |-> i]
<1>1. e \in Event /\ e.kind = kind /\ e.inc = i BY DEF Event
<1>2. /\ state[i] = FromState(kind) /\ state' = [state EXCEPT ![i] = Outcome(kind)]
      /\ Dispatch(c, <<e>>)
  BY DEF Happens
<1> HIDE DEF e
<1>3. Outcome(kind) \in States BY DEF Outcome, States
<1>4. state \in [Incidents -> States] BY DEF Typed, TypeOK
<1>5. /\ <<e>> \in Seq(Event) /\ <<e>> # <<>> /\ DOMAIN <<e>> = 1..1
      /\ \A n \in 1..1 : <<e>>[n] = e
  BY <1>1
<1>6. Begin(c, <<e>>) BY <1>1, <1>2, <1>3, <1>4, <1>5 DEF Begin
<1>7. QED BY <1>6

\* A scan's step is a batch of events.
LEMMA ScanBegins ==
  ASSUME Typed, NEW c \in Calls, Scan(c)
  PROVE  \E s : Begin(c, s)
<1>1. PICK s \in Batches :
        /\ state' = [i \in Incidents |->
                       IF \E n \in DOMAIN s : s[n].inc = i
                       THEN After(s[CHOOSE n \in DOMAIN s : s[n].inc = i].kind)
                       ELSE state[i]]
        /\ Dispatch(c, s)
  BY DEF Scan
<1>2. /\ s \in Seq(Event) /\ s # <<>>
      /\ \A n \in DOMAIN s : s[n] \in Event /\ s[n].kind \in Due(s[n].inc)
      /\ \A m, n \in DOMAIN s : m < n => s[m].inc # s[n].inc
  BY <1>1, BatchFacts
<1>3. \A n \in DOMAIN s : /\ s[n].inc \in Incidents
                         /\ state[s[n].inc] = FromState(s[n].kind)
                         /\ After(s[n].kind) = Outcome(s[n].kind)
  BY <1>2 DEF Due, FromState, After, Outcome, Event
<1>4. \A m, n \in DOMAIN s : s[m].inc = s[n].inc => m = n
  <2>1. DOMAIN s = 1..Len(s) /\ Len(s) \in Nat BY <1>2
  <2>2. QED BY <1>2, <2>1
<1>5. ASSUME NEW n \in DOMAIN s PROVE state'[s[n].inc] = Outcome(s[n].kind)
  <2>1. (CHOOSE m \in DOMAIN s : s[m].inc = s[n].inc) = n BY <1>4
  <2>2. state'[s[n].inc] = After(s[CHOOSE m \in DOMAIN s : s[m].inc = s[n].inc].kind)
    BY <1>1, <1>3
  <2>3. QED BY <1>3, <2>1, <2>2
<1>6. \A i \in Incidents : (\A n \in DOMAIN s : s[n].inc # i) => state'[i] = state[i] BY <1>1
<1>7. state' \in [Incidents -> States]
  <2>1. ASSUME NEW i \in Incidents PROVE state'[i] \in States
    <3>1. CASE \E n \in DOMAIN s : s[n].inc = i BY <1>5, <3>1 DEF Outcome, States
    <3>2. CASE \A n \in DOMAIN s : s[n].inc # i BY <1>6, <3>2 DEF Typed, TypeOK
    <3>3. QED BY <3>1, <3>2
  <2>2. \E f : state' = [i \in Incidents |-> f[i]]
    <3> DEFINE g == [i \in Incidents |->
                       IF \E n \in DOMAIN s : s[n].inc = i
                       THEN After(s[CHOOSE n \in DOMAIN s : s[n].inc = i].kind)
                       ELSE state[i]]
    <3>1. state' = g BY <1>1
    <3>2. g = [i \in Incidents |-> g[i]] OBVIOUS
    <3> HIDE DEF g
    <3>3. QED BY <3>1, <3>2
  <2>3. QED BY <2>1, <2>2
<1>8. Begin(c, s) BY <1>1, <1>2, <1>3, <1>5, <1>6, <1>7 DEF Begin
<1>9. QED BY <1>8

\* A step of the incidents begins a call or drops a topic.
LEMMA IncidentSteps ==
  ASSUME Typed, IncidentStep
  PROVE  \/ \E c \in Calls : \E s : Begin(c, s)
         \/ \E i \in Incidents : DeleteTopic(i)
<1>1. ASSUME NEW c \in Calls, NEW i \in Incidents,
             OpenIncident(c, i) \/ Acknowledge(c, i) \/ Close(c, i)
      PROVE  \E s : Begin(c, s)
  <2>1. \E kind \in Kinds : Happens(c, kind, i, FromState(kind), Outcome(kind))
    BY <1>1 DEF OpenIncident, Acknowledge, Close, FromState, Outcome, Kinds
  <2>2. QED BY <2>1, HappensBegins
<1>2. QED BY <1>1, ScanBegins DEF IncidentStep

\* What a new call looks like.
LEMMA BeginFacts ==
  ASSUME Typed, NEW c \in Calls, NEW s, Begin(c, s)
  PROVE  /\ call[c] = NoCall /\ UNCHANGED <<stored, phones>>
         /\ begun \in Nat /\ begun' = begun + 1 /\ begun < MaxBegun
         /\ call' \in [Calls -> Call]
         /\ \A b \in Calls : b # c => call'[b] = call[b]
         /\ call'[c].event = Head(s) /\ call'[c].rest = Tail(s) /\ Head(s) \in Event
         /\ call'[c].stage = "alarm"
         /\ \/ AlarmTargets(Head(s)) = {} /\ call'[c].left = {} /\ call'[c].at = NoTarget
            \/ /\ call'[c].at \in AlarmTargets(Head(s))
               /\ call'[c].left = AlarmTargets(Head(s)) \ {call'[c].at}
<1>1. s \in Seq(Event) /\ s # <<>> /\ Takes(c, s) BY DEF Begin, Dispatch
<1>2. 1 \in DOMAIN s /\ Head(s) = s[1] BY <1>1
<1>3. state[Head(s).inc] # "deleted" BY <1>2 DEF Begin, FromState
<1>4. call[c] = NoCall /\ UNCHANGED <<stored, phones>> /\ begun' = begun + 1 /\ begun < MaxBegun
  BY DEF Begin, Dispatch
<1>5. begun \in Nat BY DEF Typed, TypeOK
<1>6. QED BY <1>1, <1>3, <1>4, <1>5, TakesFacts

\* Types after a step of the incidents.
LEMMA IncidentTyped == ASSUME Typed, IncidentStep PROVE Typed'
<1>1. ASSUME NEW c \in Calls, NEW s, Begin(c, s) PROVE Typed'
  <2>1. begun' \in 0..MaxBegun BY <1>1, BeginFacts, BoundsAssumption
  <2>2. state' \in [Incidents -> States] BY <1>1 DEF Begin
  <2>3. changes' = changes BY DEF IncidentStep
  <2>4. UNCHANGED <<registered, push, alarm, start, activity, current, dismissed>>
    BY <1>1, BeginFacts DEF stored, phones
  <2>5. /\ call' \in [Calls -> Call] /\ call'[c].stage = "alarm" /\ call'[c].event \in Event
        /\ \A b \in Calls : b # c => call'[b] = call[b]
    BY <1>1, BeginFacts
  <2>6. TypeOK' BY <2>1, <2>2, <2>3, <2>4, <2>5 DEF Typed, TypeOK
  <2>7. \A b \in Calls :
          call'[b] = NoCall \/ (call'[b].stage # "off" /\ call'[b].event \in Event)
    BY <2>5 DEF Typed
  <2>8. QED BY <2>5, <2>6, <2>7 DEF Typed
<1>2. ASSUME NEW i \in Incidents, DeleteTopic(i) PROVE Typed'
  <2>1. state' \in [Incidents -> States] BY <1>2 DEF DeleteTopic, Typed, TypeOK, States
  <2>2. changes' = changes BY DEF IncidentStep
  <2>3. UNCHANGED <<registered, push, alarm, start, activity, current, dismissed, call, begun>>
    BY <1>2 DEF DeleteTopic, stored, phones
  <2>4. QED BY <2>1, <2>2, <2>3 DEF Typed, TypeOK
<1>3. QED BY <1>1, <1>2, IncidentSteps

\* Types after a step of a device.
LEMMA DeviceTyped == ASSUME Typed, DeviceStep PROVE Typed'
<1> USE DEF Typed, TypeOK
<1>1. changes' \in 0..MaxChanges BY BoundsAssumption DEF DeviceStep
<1>2. ASSUME NEW d \in Devices,
             SetAlarmToken(d) \/ PutAlarmToken(d) \/ DropAlarmToken(d) \/ DeleteDevice(d)
      PROVE  Typed'
  <2>1. push' \in [Devices -> Token \cup {NoToken}] /\ alarm' \in [Devices -> Token \cup {NoToken}]
    BY <1>2 DEF SetAlarmToken, PutAlarmToken, DropAlarmToken, DeleteDevice
  <2>2. /\ registered' \subseteq Devices /\ start' \subseteq Devices
        /\ activity' \in [Devices -> SUBSET Incidents]
    BY <1>2 DEF SetAlarmToken, PutAlarmToken, DropAlarmToken, DeleteDevice
  <2>3. UNCHANGED <<state, current, dismissed, call, begun>>
    BY <1>2 DEF SetAlarmToken, PutAlarmToken, DropAlarmToken, DeleteDevice, phones
  <2>4. QED BY <1>1, <2>1, <2>2, <2>3
<1>3. ASSUME NEW d \in Devices, PutStartToken(d) \/ DropStartToken(d) PROVE Typed'
  BY <1>1, <1>3 DEF PutStartToken, DropStartToken, phones
<1>4. ASSUME NEW d \in Devices, Rotate(d) PROVE Typed'
  <2>1. current' \in [Devices -> Token] BY <1>4, BoundsAssumption DEF Rotate, Token
  <2>2. QED BY <1>1, <1>4, <2>1 DEF Rotate, stored
<1>5. ASSUME NEW d \in Devices, NEW i \in Incidents,
             PutActivityToken(d, i) \/ DropActivityToken(d, i) \/ Dismiss(d, i)
      PROVE  Typed'
  <2>1. activity' \in [Devices -> SUBSET Incidents] /\ dismissed' \in [Devices -> SUBSET Incidents]
    BY <1>5 DEF PutActivityToken, DropActivityToken, Dismiss, stored, phones
  <2>2. UNCHANGED <<state, registered, push, alarm, start, current, call, begun>>
    BY <1>5 DEF PutActivityToken, DropActivityToken, Dismiss, stored, phones
  <2>3. QED BY <1>1, <2>1, <2>2
<1>6. QED BY <1>2, <1>3, <1>4, <1>5 DEF DeviceStep

\* What the next event of a call makes of it.
LEMMA NextEventFacts ==
  ASSUME Typed, NEW c \in Calls, NextEvent(c)
  PROVE  /\ call' \in [Calls -> Call] /\ call[c].event \in Event
         /\ \A b \in Calls : b # c => call'[b] = call[b]
         /\ \/ call[c].rest = <<>> /\ call'[c] = NoCall
            \/ /\ call[c].rest # <<>> /\ call[c].rest \in Seq(Event)
               /\ Head(call[c].rest) \in Event
               /\ call'[c].event = Head(call[c].rest) /\ call'[c].rest = Tail(call[c].rest)
               /\ \/ /\ state[Head(call[c].rest).inc] = "deleted"
                     /\ call'[c].stage = "activity"
                     /\ call'[c].left = {} /\ call'[c].at = NoTarget
                  \/ /\ state[Head(call[c].rest).inc] # "deleted" /\ call'[c].stage = "alarm"
                     /\ \/ /\ AlarmTargets(Head(call[c].rest)) = {}
                           /\ call'[c].left = {} /\ call'[c].at = NoTarget
                        \/ /\ call'[c].at \in AlarmTargets(Head(call[c].rest))
                           /\ call'[c].left = AlarmTargets(Head(call[c].rest)) \ {call'[c].at}
<1>1. call[c] # NoCall BY DEF NextEvent, NoCall
<1>2. call[c].event \in Event /\ call[c] \in Call BY <1>1 DEF Typed
<1>3. PICK s \in Seq(Event) : s = call[c].rest BY <1>2 DEF Call
<1>4. CASE s = <<>> BY <1>2, <1>3, <1>4, NoCallFacts DEF NextEvent, Typed
<1>5. CASE s # <<>>
  <2>1. Takes(c, s) BY <1>3, <1>5 DEF NextEvent, Takes
  <2>2. QED BY <1>2, <1>3, <1>5, <2>1, TakesFacts
<1>6. QED BY <1>4, <1>5

\* Types after a step of a call.
LEMMA CallTyped == ASSUME Typed, CallStep PROVE Typed'
<1>1. changes' = changes BY DEF CallStep
<1>2. ASSUME NEW c \in Calls, call' \in [Calls -> Call],
             \A b \in Calls : b # c => call'[b] = call[b],
             call'[c] = NoCall \/ (call'[c].stage # "off" /\ call'[c].event \in Event)
      PROVE  \A b \in Calls :
               call'[b] = NoCall \/ (call'[b].stage # "off" /\ call'[b].event \in Event)
  BY <1>2 DEF Typed
<1>3. ASSUME NEW c \in Calls, Activities(c) \/ NextEvent(c) PROVE Typed'
  <2>1. UNCHANGED <<state, registered, push, alarm, start, activity, current, dismissed, begun>>
    BY <1>3 DEF Activities, NextEvent, stored, phones
  <2>2. /\ call' \in [Calls -> Call]
        /\ \A b \in Calls : b # c => call'[b] = call[b]
        /\ call'[c] = NoCall \/ (call'[c].stage # "off" /\ call'[c].event \in Event)
    <3>1. CASE Activities(c) BY <3>1, ActivitiesFacts
    <3>2. CASE NextEvent(c) BY <3>2, NextEventFacts
    <3>3. QED BY <1>3, <3>1, <3>2
  <2>3. TypeOK' BY <1>1, <2>1, <2>2 DEF Typed, TypeOK
  <2>4. QED BY <1>2, <2>2, <2>3 DEF Typed
<1>4. ASSUME NEW c \in Calls, NEW result, AlarmAnswer(c, result) \/ ActivityAnswer(c, result)
      PROVE  Typed'
  <2>1. UNCHANGED <<state, registered, current, dismissed, begun>>
    BY <1>4 DEF AlarmAnswer, ActivityAnswer, phones
  <2>2. Awaits(c, call[c], call[c].left) BY <1>4 DEF AlarmAnswer, ActivityAnswer, Others
  <2>3. call[c] # NoCall BY <1>4 DEF AlarmAnswer, ActivityAnswer, NoCall
  <2>4. /\ call' \in [Calls -> Call]
        /\ \A b \in Calls : b # c => call'[b] = call[b]
        /\ call'[c].stage # "off" /\ call'[c].event \in Event
    BY <2>2, <2>3, OthersFacts DEF Typed
  <2>5. push' \in [Devices -> Token \cup {NoToken}] /\ alarm' \in [Devices -> Token \cup {NoToken}]
    BY <1>4 DEF AlarmAnswer, ActivityAnswer, Erase, Typed, TypeOK
  <2>6. start' \subseteq Devices /\ activity' \in [Devices -> SUBSET Incidents]
    BY <1>4 DEF AlarmAnswer, ActivityAnswer, Typed, TypeOK
  <2>7. TypeOK' BY <1>1, <2>1, <2>4, <2>5, <2>6 DEF Typed, TypeOK
  <2>8. QED BY <1>2, <2>4, <2>7 DEF Typed
<1>5. QED BY <1>3, <1>4 DEF CallStep

-----------------------------------------------------------------------------
(* Every end is named.                                                     *)

\* The events a call is still to send are events, and it takes them in order.
LEMMA PendingFacts ==
  ASSUME Typed, NEW c \in Calls
  PROVE  /\ call[c] = NoCall => Pending(c) = {NoEvent}
         /\ call[c] # NoCall => Pending(c) \subseteq Event
<1>1. ASSUME call[c] = NoCall PROVE Pending(c) = {NoEvent}
  <2>1. call[c].event = NoEvent /\ call[c].rest = <<>> BY <1>1 DEF NoCall
  <2>2. QED BY <2>1 DEF Pending
<1>2. ASSUME call[c] # NoCall PROVE Pending(c) \subseteq Event
  <2>1. call[c].event \in Event /\ call[c].rest \in Seq(Event) BY <1>2 DEF Typed, Call
  <2>2. QED BY <2>1 DEF Pending
<1>3. QED BY <1>1, <1>2

\* The events of a call that begins.
LEMMA BeginPending ==
  ASSUME Typed, NEW c \in Calls, NEW s, Begin(c, s)
  PROVE  Pending(c)' = {s[n] : n \in DOMAIN s}
<1>1. s \in Seq(Event) /\ s # <<>> BY DEF Begin
<1>2. call'[c].event = Head(s) /\ call'[c].rest = Tail(s) BY BeginFacts
<1>3. Pending(c)' = {Head(s)} \cup {Tail(s)[n] : n \in DOMAIN Tail(s)} BY <1>2 DEF Pending
<1>4. /\ Head(s) = s[1] /\ DOMAIN s = 1..Len(s) /\ Len(s) \in Nat /\ Len(s) >= 1
      /\ DOMAIN Tail(s) = 1..(Len(s) - 1)
      /\ \A n \in 1..(Len(s) - 1) : Tail(s)[n] = s[n + 1]
  BY <1>1
<1>5. ASSUME NEW e \in Pending(c)' PROVE \E n \in DOMAIN s : e = s[n]
  <2>1. CASE e = Head(s) BY <1>4, <2>1
  <2>2. ASSUME NEW n \in DOMAIN Tail(s), e = Tail(s)[n] PROVE \E m \in DOMAIN s : e = s[m]
    <3>1. n + 1 \in DOMAIN s /\ e = s[n + 1] BY <1>4, <2>2
    <3>2. QED BY <3>1
  <2>3. QED BY <1>3, <2>1, <2>2
<1>6. ASSUME NEW n \in DOMAIN s PROVE s[n] \in Pending(c)'
  <2>1. CASE n = 1 BY <1>3, <1>4, <2>1
  <2>2. CASE n # 1
    <3>1. n - 1 \in DOMAIN Tail(s) /\ Tail(s)[n - 1] = s[n]
      <4>1. n \in 1..Len(s) /\ n - 1 \in 1..(Len(s) - 1) BY <1>4, <2>2
      <4>2. Tail(s)[n - 1] = s[(n - 1) + 1] BY <1>4, <4>1
      <4>3. (n - 1) + 1 = n BY <4>1
      <4>4. QED BY <1>4, <4>1, <4>2, <4>3
    <3>2. QED BY <1>3, <3>1
  <2>3. QED BY <2>1, <2>2
<1>7. QED BY <1>5, <1>6

\* A step of a call in progress changes that call and no incident, and leaves
\* it no event that it did not have.
LEMMA CallFrame ==
  ASSUME Typed, CallStep
  PROVE  \E c \in Calls :
           /\ state' = state /\ call[c] # NoCall
           /\ \A b \in Calls : b # c => call'[b] = call[b]
           /\ call'[c] # NoCall => Pending(c)' \subseteq Pending(c)
           /\ Activities(c) \/ NextEvent(c)
              \/ \E result \in {"answered", "stale", "thrown"} :
                   AlarmAnswer(c, result) \/ ActivityAnswer(c, result)
<1>1. PICK c \in Calls :
        \/ Activities(c) \/ NextEvent(c)
        \/ \E result \in {"answered", "stale", "thrown"} :
             AlarmAnswer(c, result) \/ ActivityAnswer(c, result)
  BY DEF CallStep
<1>2. state' = state /\ call[c] # NoCall
  BY <1>1 DEF Activities, NextEvent, AlarmAnswer, ActivityAnswer, NoCall
<1>3. CASE Activities(c)
  <2>1. /\ \A b \in Calls : b # c => call'[b] = call[b]
        /\ call'[c].event = call[c].event /\ call'[c].rest = call[c].rest
    BY <1>3, ActivitiesFacts
  <2>2. Pending(c)' = Pending(c) BY <2>1 DEF Pending
  <2>3. QED BY <1>1, <1>2, <2>1, <2>2
<1>4. CASE NextEvent(c)
  <2>1. \A b \in Calls : b # c => call'[b] = call[b] BY <1>4, NextEventFacts
  <2>2. ASSUME call'[c] # NoCall PROVE Pending(c)' \subseteq Pending(c)
    <3>1. PICK s \in Seq(Event) : s = call[c].rest /\ s # <<>> BY <1>4, <2>2, NextEventFacts
    <3>2. call'[c].event = Head(s) /\ call'[c].rest = Tail(s)
      BY <1>4, <2>2, <3>1, NextEventFacts
    <3>3. Head(s) = s[1] /\ 1 \in DOMAIN s BY <3>1
    <3>4. \A n \in DOMAIN Tail(s) : n + 1 \in DOMAIN s /\ Tail(s)[n] = s[n + 1] BY <3>1
    <3>5. QED BY <3>1, <3>2, <3>3, <3>4 DEF Pending
  <2>3. QED BY <1>1, <1>2, <2>1, <2>2
<1>5. ASSUME NEW result, AlarmAnswer(c, result) \/ ActivityAnswer(c, result)
      PROVE  /\ \A b \in Calls : b # c => call'[b] = call[b]
             /\ Pending(c)' = Pending(c)
  <2>1. Awaits(c, call[c], call[c].left) BY <1>5 DEF AlarmAnswer, ActivityAnswer, Others
  <2>2. /\ \A b \in Calls : b # c => call'[b] = call[b]
        /\ call'[c].event = call[c].event /\ call'[c].rest = call[c].rest
    BY <2>1, OthersFacts
  <2>3. QED BY <2>2 DEF Pending
<1>6. QED BY <1>1, <1>2, <1>3, <1>4, <1>5

\* Nothing brings an incident back from its end.
LEMMA EndsStayStep == ASSUME Typed, EndsStay, IncidentStep \/ CallStep \/ DeviceStep
                      PROVE  EndsStay'
<1>1. \A c \in Calls : call[c] = NoCall \/ Pending(c) \subseteq Event BY PendingFacts
<1>2. ASSUME NEW c \in Calls, NEW s, Begin(c, s) PROVE EndsStay'
  <2>1. \A i \in Incidents : state[i] \in {"closed", "expired", "deleted"} => state'[i] = state[i]
    <3>1. ASSUME NEW i \in Incidents, state[i] \in {"closed", "expired", "deleted"},
                 NEW n \in DOMAIN s, s[n].inc = i
          PROVE  FALSE
      <4>1. state[i] = FromState(s[n].kind) BY <1>2, <3>1 DEF Begin
      <4>2. QED BY <3>1, <4>1 DEF FromState
    <3>2. QED BY <1>2, <3>1 DEF Begin
  <2>2. ASSUME NEW b \in Calls, NEW e \in Pending(b)'
        PROVE  /\ e.kind = "close"  => state'[e.inc] \in {"closed", "deleted"}
               /\ e.kind = "expire" => state'[e.inc] \in {"expired", "deleted"}
    <3>1. CASE b = c
      <4>1. PICK n \in DOMAIN s : e = s[n] BY <1>2, <2>2, <3>1, BeginPending
      <4>2. state'[e.inc] = Outcome(e.kind) BY <1>2, <4>1 DEF Begin
      <4>3. QED BY <4>2 DEF Outcome
    <3>2. CASE b # c
      <4>1. call'[b] = call[b] BY <1>2, <3>2, BeginFacts
      <4>2. e \in Pending(b) BY <2>2, <4>1 DEF Pending
      <4>3. CASE call[b] = NoCall
        BY <4>2, <4>3, PendingFacts DEF NoEvent
      <4>4. CASE call[b] # NoCall
        <5>1. e.inc \in Incidents BY <4>2, <4>4, <1>1 DEF Event
        <5>2. QED BY <2>1, <4>2, <5>1 DEF EndsStay
      <4>5. QED BY <4>3, <4>4
    <3>3. QED BY <3>1, <3>2
  <2>3. QED BY <2>2 DEF EndsStay
<1>3. ASSUME NEW i \in Incidents, DeleteTopic(i) PROVE EndsStay'
  <2>1. call' = call /\ \A j \in Incidents : state'[j] = state[j] \/ state'[j] = "deleted"
    BY <1>3 DEF DeleteTopic, Typed, TypeOK
  <2>2. ASSUME NEW b \in Calls, NEW e \in Pending(b)'
        PROVE  /\ e.kind = "close"  => state'[e.inc] \in {"closed", "deleted"}
               /\ e.kind = "expire" => state'[e.inc] \in {"expired", "deleted"}
    <3>1. e \in Pending(b) BY <2>1, <2>2 DEF Pending
    <3>2. CASE call[b] = NoCall BY <3>1, <3>2, PendingFacts DEF NoEvent
    <3>3. CASE call[b] # NoCall
      <4>1. e.inc \in Incidents BY <3>1, <3>3, <1>1 DEF Event
      <4>2. QED BY <2>1, <3>1, <4>1 DEF EndsStay
    <3>4. QED BY <3>2, <3>3
  <2>3. QED BY <2>2 DEF EndsStay
<1>4. CASE IncidentStep BY <1>2, <1>3, <1>4, IncidentSteps
<1>5. CASE CallStep
  <2>1. PICK c \in Calls :
          /\ state' = state /\ call[c] # NoCall
          /\ \A b \in Calls : b # c => call'[b] = call[b]
          /\ call'[c] # NoCall => Pending(c)' \subseteq Pending(c)
    BY <1>5, CallFrame
  <2>2. ASSUME NEW b \in Calls, NEW e \in Pending(b)'
        PROVE  /\ e.kind = "close"  => state'[e.inc] \in {"closed", "deleted"}
               /\ e.kind = "expire" => state'[e.inc] \in {"expired", "deleted"}
    <3>1. CASE b # c
      <4>1. e \in Pending(b) BY <2>1, <2>2, <3>1 DEF Pending
      <4>2. QED BY <2>1, <4>1 DEF EndsStay
    <3>2. CASE b = c /\ call'[c] # NoCall
      <4>1. e \in Pending(b) BY <2>1, <2>2, <3>2
      <4>2. QED BY <2>1, <4>1 DEF EndsStay
    <3>3. CASE b = c /\ call'[c] = NoCall
      <4>1. e = NoEvent
        <5>1. call'[c].event = NoEvent /\ call'[c].rest = <<>> BY <3>3 DEF NoCall
        <5>2. QED BY <2>2, <3>3, <5>1 DEF Pending
      <4>2. QED BY <4>1 DEF NoEvent
    <3>4. QED BY <3>1, <3>2, <3>3
  <2>3. QED BY <2>2 DEF EndsStay
<1>6. CASE DeviceStep
  <2>1. state' = state /\ call' = call
    BY <1>6 DEF DeviceStep, SetAlarmToken, PutAlarmToken, DropAlarmToken, PutStartToken,
      DropStartToken, DeleteDevice, Rotate, PutActivityToken, DropActivityToken, Dismiss
  <2>2. QED BY <2>1 DEF EndsStay, Pending
<1>7. QED BY <1>4, <1>5, <1>6

\* The state a call read last names the end, for an event that is one.
LEMMA EndsNameAnEndStep ==
  ASSUME Typed, EndsStay, EndsNameAnEnd, IncidentStep \/ CallStep \/ DeviceStep
  PROVE  EndsNameAnEnd'
<1> DEFINE Named(b) == b.stage = "activity" /\ b.at # NoTarget
                         /\ LiveActivityEvent(b.event.kind) = "end"
                       => b.says \in {"closed", "expired"}
<1>1. \A b \in Calls : Named(call[b]) BY DEF EndsNameAnEnd
<1>2. (\A b \in Calls : Named(call'[b])) => EndsNameAnEnd' BY DEF EndsNameAnEnd
<1>3. CASE IncidentStep
  <2>1. ASSUME NEW c \in Calls, NEW s, Begin(c, s) PROVE \A b \in Calls : Named(call'[b])
    <3>1. call'[c].stage = "alarm" /\ \A b \in Calls : b # c => call'[b] = call[b]
      BY <2>1, BeginFacts
    <3>2. QED BY <1>1, <3>1
  <2>2. ASSUME NEW i \in Incidents, DeleteTopic(i) PROVE \A b \in Calls : Named(call'[b])
    BY <1>1, <2>2 DEF DeleteTopic
  <2>3. QED BY <1>2, <1>3, <2>1, <2>2, IncidentSteps
<1>4. ASSUME NEW c \in Calls, Activities(c) PROVE \A b \in Calls : Named(call'[b])
  <2>1. PICK e \in Event : e = call[c].event BY <1>4, ActivitiesFacts
  <2>2. /\ \A b \in Calls : b # c => call'[b] = call[b]
        /\ call'[c].event = e
        /\ call'[c].says = IF state[e.inc] = "deleted" THEN FallbackState(e.kind)
                           ELSE state[e.inc]
    BY <1>4, <2>1, ActivitiesFacts
  <2>3. e \in Pending(c) BY <2>1 DEF Pending
  <2>4. ASSUME LiveActivityEvent(e.kind) = "end" PROVE call'[c].says \in {"closed", "expired"}
    <3>1. e.kind \in {"close", "expire"} BY <2>4 DEF LiveActivityEvent
    <3>2. state[e.inc] \in {"closed", "expired", "deleted"} BY <2>3, <3>1 DEF EndsStay
    <3>3. QED BY <2>2, <3>1, <3>2 DEF FallbackState
  <2>5. Named(call'[c]) BY <2>2, <2>4
  <2>6. QED BY <1>1, <2>2, <2>5
<1>5. ASSUME NEW c \in Calls, NextEvent(c) PROVE \A b \in Calls : Named(call'[b])
  <2>1. \A b \in Calls : b # c => call'[b] = call[b] BY <1>5, NextEventFacts
  <2>2. call'[c].stage = "activity" => call'[c].at = NoTarget
    BY <1>5, NextEventFacts DEF NoCall
  <2>3. QED BY <1>1, <2>1, <2>2
<1>6. ASSUME NEW c \in Calls, NEW result, AlarmAnswer(c, result) \/ ActivityAnswer(c, result)
      PROVE  \A b \in Calls : Named(call'[b])
  <2>1. Awaits(c, call[c], call[c].left) BY <1>6 DEF AlarmAnswer, ActivityAnswer, Others
  <2>2. call[c].at # NoTarget BY <1>6 DEF AlarmAnswer, ActivityAnswer
  <2>3. /\ \A b \in Calls : b # c => call'[b] = call[b]
        /\ call'[c].event = call[c].event /\ call'[c].stage = call[c].stage
        /\ call'[c].says = call[c].says
    BY <2>1, OthersFacts
  <2>4. Named(call'[c]) BY <1>1, <2>2, <2>3
  <2>5. QED BY <1>1, <2>3, <2>4
<1>7. CASE CallStep BY <1>2, <1>4, <1>5, <1>6, <1>7 DEF CallStep
<1>8. CASE DeviceStep
  <2>1. call' = call
    BY <1>8 DEF DeviceStep, SetAlarmToken, PutAlarmToken, DropAlarmToken, PutStartToken,
      DropStartToken, DeleteDevice, Rotate, PutActivityToken, DropActivityToken, Dismiss
  <2>2. QED BY <1>1, <1>2, <2>1
<1>9. QED BY <1>3, <1>7, <1>8

\* The initial state satisfies the invariant.
LEMMA InitInv == Init => IInv
<1> SUFFICES ASSUME Init PROVE IInv OBVIOUS
<1>1. 0 \in Token /\ 0 \in 0..MaxBegun /\ 0 \in 0..MaxChanges BY BoundsAssumption DEF Token
<1>2. call = [c \in Calls |-> NoCall] BY DEF Init
<1>3. TypeOK BY <1>1, <1>2, NoCallFacts DEF Init, TypeOK, States
<1>4. Typed BY <1>2, <1>3, NoCallFacts DEF Typed
<1>5. \A c \in Calls : Pending(c) = {NoEvent} BY <1>2, <1>4, PendingFacts
<1>6. EndsStay BY <1>5 DEF EndsStay, NoEvent
<1>7. EndsNameAnEnd BY <1>2 DEF EndsNameAnEnd, NoCall
<1>8. QED BY <1>4, <1>6, <1>7 DEF IInv

\* Every step preserves it.
LEMMA NextInv == IInv /\ [Next]_vars => IInv'
<1> SUFFICES ASSUME IInv, [Next]_vars PROVE IInv' OBVIOUS
<1>1. Typed /\ EndsStay /\ EndsNameAnEnd BY DEF IInv
<1>2. CASE IncidentStep \/ CallStep \/ DeviceStep
  <2>1. Typed' BY <1>1, <1>2, IncidentTyped, CallTyped, DeviceTyped
  <2>2. QED BY <1>1, <1>2, <2>1, EndsStayStep, EndsNameAnEndStep DEF IInv
<1>3. CASE UNCHANGED vars
  BY <1>1, <1>3 DEF vars, stored, phones, IInv, Typed, TypeOK, EndsStay, Pending, EndsNameAnEnd
<1>4. QED BY <1>2, <1>3 DEF Next

\* The invariant holds of every reachable state: an event that says an incident
\* ended is true for as long as it is being sent, and an ending push names it.
THEOREM Invariance == Spec => []IInv
BY InitInv, NextInv, PTL DEF Spec

\* Every column, and every call with the events and the targets it has left,
\* holds values of its type in every reachable state.
THEOREM TypeCorrect == Spec => []TypeOK
<1>1. IInv => TypeOK BY DEF IInv, Typed
<1>2. QED BY <1>1, Invariance, PTL

\* A push that ends a Live Activity names an end, whatever happened to the
\* incident and its topic between the event and the read of its state.
THEOREM EndsAreNamed == Spec => []EndsNameAnEnd
<1>1. IInv => EndsNameAnEnd BY DEF IInv
<1>2. QED BY <1>1, Invariance, PTL

-----------------------------------------------------------------------------
(* Answers to old tokens.                                                  *)

\* An answer that a token is stale is of one that its phone gave up, so a step
\* that lets a call go on leaves every present token and every activity that is
\* still on a screen.
LEMMA LiveTokensStep ==
  ASSUME Typed, IncidentStep \/ CallStep \/ DeviceStep, call' # call, NEW d \in Devices
  PROVE  /\ Selected(d) = current[d] => Selected(d)' = Selected(d)
         /\ activity[d] \ dismissed[d] \subseteq activity'[d]
<1>1. ASSUME UNCHANGED <<push, alarm>> PROVE Selected(d)' = Selected(d)
  BY <1>1 DEF Selected
<1>2. CASE IncidentStep
  <2>1. UNCHANGED stored
    BY <1>2 DEF IncidentStep, OpenIncident, Acknowledge, Close, Happens, Scan, Dispatch, DeleteTopic
  <2>2. QED BY <1>1, <2>1 DEF stored
<1>3. CASE DeviceStep
  <2>1. call' = call
    BY <1>3 DEF DeviceStep, SetAlarmToken, PutAlarmToken, DropAlarmToken, PutStartToken,
      DropStartToken, DeleteDevice, Rotate, PutActivityToken, DropActivityToken, Dismiss
  <2>2. QED BY <2>1
<1>4. ASSUME NEW c \in Calls, Activities(c) \/ NextEvent(c) PROVE UNCHANGED <<push, alarm, activity>>
  BY <1>4 DEF Activities, NextEvent, stored
<1>5. ASSUME NEW c \in Calls, NEW result, AlarmAnswer(c, result)
      PROVE  /\ activity' = activity
             /\ Selected(d) = current[d] => Selected(d)' = Selected(d)
  <2>1. PICK t : t = call[c].at OBVIOUS
  <2>2. activity' = activity BY <1>5 DEF AlarmAnswer
  <2>3. CASE result = "stale"
    <3>1. t.token < current[t.dev] /\ Erase(t.dev, t.token) BY <1>5, <2>1, <2>3 DEF AlarmAnswer
    <3>2. t \in Target BY <1>5, <2>1 DEF AlarmAnswer, Typed, Call, Target
    <3>3. /\ t.token \in Int /\ current[d] \in Int /\ t.token # NoToken
          /\ push \in [Devices -> Token \cup {NoToken}]
          /\ alarm \in [Devices -> Token \cup {NoToken}]
      BY <3>2 DEF Target, Token, NoToken, Typed, TypeOK
    <3>4. CASE t.dev = d
      <4>1. t.token # current[d] BY <3>1, <3>3, <3>4
      <4>2. /\ push'[d] = IF push[d] = t.token THEN NoToken ELSE push[d]
            /\ alarm'[d] = IF alarm[d] = t.token THEN NoToken ELSE alarm[d]
        BY <3>1, <3>3, <3>4 DEF Erase
      <4>3. QED BY <2>2, <4>1, <4>2 DEF Selected
    <3>5. CASE t.dev # d
      <4>1. push'[d] = push[d] /\ alarm'[d] = alarm[d] BY <3>1, <3>3, <3>5 DEF Erase
      <4>2. QED BY <2>2, <4>1 DEF Selected
    <3>6. QED BY <3>4, <3>5
  <2>4. CASE result # "stale"
    BY <1>1, <1>5, <2>2, <2>4 DEF AlarmAnswer
  <2>5. QED BY <2>3, <2>4
<1>6. ASSUME NEW c \in Calls, NEW result, ActivityAnswer(c, result)
      PROVE  /\ UNCHANGED <<push, alarm>>
             /\ activity[d] \ dismissed[d] \subseteq activity'[d]
  <2>1. PICK t : t = call[c].at OBVIOUS
  <2>2. UNCHANGED <<push, alarm>> BY <1>6 DEF ActivityAnswer
  <2>3. CASE result = "stale" /\ call[c].event.kind # "open"
    <3>1. /\ call[c].event.inc \in dismissed[t.dev]
          /\ activity' = [activity EXCEPT ![t.dev] = @ \ {call[c].event.inc}]
      BY <1>6, <2>1, <2>3 DEF ActivityAnswer
    <3>2. QED BY <2>2, <3>1 DEF Typed, TypeOK
  <2>4. CASE ~(result = "stale" /\ call[c].event.kind # "open")
    BY <1>6, <2>2, <2>4 DEF ActivityAnswer
  <2>5. QED BY <2>3, <2>4
<1>7. CASE CallStep BY <1>1, <1>4, <1>5, <1>6, <1>7 DEF CallStep
<1>8. QED BY <1>2, <1>3, <1>7

\* No answer to an old token takes a device's present one, and none takes an
\* activity that is still on its screen.
THEOREM TokensAreKept == Spec => LiveTokensKept
<1>1. IInv /\ [Next]_vars =>
        [call' # call =>
           \A d \in Devices :
             /\ Selected(d) = current[d] => Selected(d)' = Selected(d)
             /\ activity[d] \ dismissed[d] \subseteq activity'[d]]_vars
  BY LiveTokensStep DEF IInv, Next
<1>2. QED BY <1>1, Invariance, PTL DEF Spec, LiveTokensKept

-----------------------------------------------------------------------------
(* What the devices were told.                                             *)

\* What a step in which at most one call goes on leaves a device told of: what
\* it sent there, nothing, or what it was told before on the same token.
LEMMA ToldFacts ==
  ASSUME Remember, NEW c, \A b \in Calls : b # c => call'[b] = call[b],
         NEW d \in Devices, NEW i \in Incidents
  PROVE  \/ /\ c \in Calls /\ Sends(c, "alarm", d) /\ call'[c].event.inc = i
            /\ call'[c].at.token = Selected(d)'
            /\ told'[d][i] = Sound(call'[c].event.kind)
         \/ told'[d][i] = "nothing"
         \/ /\ told'[d][i] = told[d][i] /\ Selected(d)' = Selected(d)
            /\ ~(/\ c \in Calls /\ Sends(c, "alarm", d) /\ call'[c].event.inc = i
                 /\ call'[c].at.token = Selected(d)')
<1> DEFINE hit == \E b \in Calls : Sends(b, "alarm", d) /\ call'[b].event.inc = i
                                     /\ call'[b].at.token = Selected(d)'
           who == CHOOSE b \in Calls : Sends(b, "alarm", d)
<1>1. told'[d][i] = IF hit THEN Sound(call'[who].event.kind)
                    ELSE IF Selected(d)' # Selected(d) THEN "nothing" ELSE told[d][i]
  BY DEF Remember
<1>2. \A b \in Calls : Sends(b, "alarm", d) => b = c BY DEF Sends
<1>3. ASSUME hit PROVE who = c
  <2>1. \E b \in Calls : Sends(b, "alarm", d) BY <1>3
  <2>2. who \in Calls /\ Sends(who, "alarm", d) BY <2>1
  <2>3. QED BY <1>2, <2>2
<1>4. CASE hit BY <1>1, <1>2, <1>3, <1>4
<1>5. CASE ~hit BY <1>1, <1>5
<1>6. QED BY <1>4, <1>5

\* The same of the state an activity shows.
LEMMA ShownFacts ==
  ASSUME Remember, NEW c, \A b \in Calls : b # c => call'[b] = call[b],
         NEW d \in Devices, NEW i \in Incidents
  PROVE  \/ /\ c \in Calls /\ Sends(c, "activity", d) /\ call'[c].event.inc = i
            /\ call'[c].event.kind # "open" /\ shown'[d][i] = call'[c].says
         \/ shown'[d][i] = "nothing"
         \/ /\ shown'[d][i] = shown[d][i] /\ i \in activity'[d]
            /\ ~(/\ c \in Calls /\ Sends(c, "activity", d) /\ call'[c].event.inc = i
                 /\ call'[c].event.kind # "open")
<1> DEFINE hit == \E b \in Calls : Sends(b, "activity", d) /\ call'[b].event.inc = i
                                     /\ call'[b].event.kind # "open"
           who == CHOOSE b \in Calls : Sends(b, "activity", d)
<1>1. shown'[d][i] = IF hit THEN call'[who].says
                     ELSE IF i \notin activity'[d] THEN "nothing" ELSE shown[d][i]
  BY DEF Remember
<1>2. \A b \in Calls : Sends(b, "activity", d) => b = c BY DEF Sends
<1>3. ASSUME hit PROVE who = c
  <2>1. \E b \in Calls : Sends(b, "activity", d) BY <1>3
  <2>2. who \in Calls /\ Sends(who, "activity", d) BY <2>1
  <2>3. QED BY <1>2, <2>2
<1>4. CASE hit BY <1>1, <1>2, <1>3, <1>4
<1>5. CASE ~hit BY <1>1, <1>5
<1>6. QED BY <1>4, <1>5

\* Only a call that begins with an event about an incident changes whether its
\* last event overlaps, and it does not when nothing else was underway.
LEMMA OverlapFacts ==
  ASSUME Remember, NEW c, \A b \in Calls : b # c => call'[b] = call[b],
         NEW i \in Incidents
  PROVE  /\ ~(c \in Calls /\ Begins(c) /\ \E e \in Pending(c)' : e.inc = i)
              => overlap'[i] = overlap[i]
         /\ c \in Calls /\ Begins(c) /\ (\E e \in Pending(c)' : e.inc = i) /\ ~overlap'[i] =>
              /\ \A b \in Calls : ~Underway(b, i)
              /\ [kind |-> "repeat", inc |-> i] \in Pending(c)' => ~overlap[i]
<1>1. Pending(c)' = About(c) BY DEF Pending, About
<1>2. \A b \in Calls : Begins(b) => b = c BY DEF Begins
<1>3. overlap'[i] = IF \E b \in Calls : Begins(b) /\ \E e \in About(b) : e.inc = i
                    THEN \/ \E b \in Calls : Underway(b, i)
                         \/ overlap[i] /\ \E b \in Calls : Begins(b) /\
                              [kind |-> "repeat", inc |-> i] \in About(b)
                    ELSE overlap[i]
  BY DEF Remember
<1>4. QED BY <1>1, <1>2, <1>3

\* A pending event of a call is underway.
LEMMA PendingUnderway ==
  ASSUME NEW c \in Calls, call[c] # NoCall, NEW e \in Pending(c)
  PROVE  Underway(c, e.inc)
BY DEF Pending, Underway

\* A step begins a call, lets one go on, or leaves the calls alone and drops a
\* topic at most.
LEMMA StepKinds ==
  ASSUME Typed, IncidentStep \/ CallStep \/ DeviceStep
  PROVE  \/ \E c \in Calls : \E s : Begin(c, s)
         \/ CallStep
         \/ /\ call' = call
            /\ \A i \in Incidents : state'[i] = state[i] \/ state'[i] = "deleted"
            /\ DeviceStep \/ UNCHANGED stored
<1>1. ASSUME NEW i \in Incidents, DeleteTopic(i)
      PROVE  /\ call' = call /\ UNCHANGED stored
             /\ \A j \in Incidents : state'[j] = state[j] \/ state'[j] = "deleted"
  BY <1>1 DEF DeleteTopic, Typed, TypeOK
<1>2. ASSUME DeviceStep PROVE call' = call /\ state' = state
  BY <1>2 DEF DeviceStep, SetAlarmToken, PutAlarmToken, DropAlarmToken, PutStartToken,
    DropStartToken, DeleteDevice, Rotate, PutActivityToken, DropActivityToken, Dismiss
<1>3. QED BY <1>1, <1>2, IncidentSteps

\* A call that awaits nobody after a step has nobody left.
LEMMA FinishedStep ==
  ASSUME Typed, Finished, IncidentStep \/ CallStep \/ DeviceStep PROVE Finished'
<1> DEFINE Fin(b) == b.at = NoTarget => b.left = {}
<1>1. (\A b \in Calls : Fin(call[b])) /\ ((\A b \in Calls : Fin(call'[b])) => Finished')
  BY DEF Finished
<1>2. ASSUME NEW c \in Calls, NEW s, Begin(c, s) PROVE Finished'
  <2>1. PICK targets : targets = AlarmTargets(Head(s)) OBVIOUS
  <2>2. Head(s) \in Event BY <1>2, BeginFacts
  <2>3. NoTarget \notin targets BY <2>1, <2>2, TargetsFit, NoCallFacts DEF Typed
  <2>4. /\ \A b \in Calls : b # c => call'[b] = call[b]
        /\ \/ call'[c].left = {}
           \/ call'[c].at \in targets
    BY <1>2, <2>1, BeginFacts
  <2>5. QED BY <1>1, <2>3, <2>4
<1>3. ASSUME NEW c \in Calls, Activities(c) PROVE Finished'
  <2>1. PICK targets : targets = ActivityTargets(call[c].event) OBVIOUS
  <2>2. call[c].event \in Event BY <1>3, ActivitiesFacts
  <2>3. NoTarget \notin targets BY <2>1, <2>2, TargetsFit, NoCallFacts DEF Typed
  <2>4. /\ \A b \in Calls : b # c => call'[b] = call[b]
        /\ \/ call'[c].left = {}
           \/ call'[c].at \in targets
    BY <1>3, <2>1, ActivitiesFacts
  <2>5. QED BY <1>1, <2>3, <2>4
<1>4. ASSUME NEW c \in Calls, NextEvent(c) PROVE Finished'
  <2>1. \A b \in Calls : b # c => call'[b] = call[b] BY <1>4, NextEventFacts
  <2>2. CASE call'[c] = NoCall BY <1>1, <2>1, <2>2 DEF NoCall
  <2>3. CASE call'[c] # NoCall
    <3>1. PICK targets : targets = AlarmTargets(Head(call[c].rest)) OBVIOUS
    <3>2. Head(call[c].rest) \in Event BY <1>4, <2>3, NextEventFacts
    <3>3. NoTarget \notin targets BY <3>1, <3>2, TargetsFit, NoCallFacts DEF Typed
    <3>4. call'[c].left = {} \/ call'[c].at \in targets
      BY <1>4, <2>3, <3>1, NextEventFacts
    <3>5. QED BY <1>1, <2>1, <3>3, <3>4
  <2>4. QED BY <2>2, <2>3
<1>5. ASSUME NEW c \in Calls, NEW result, AlarmAnswer(c, result) \/ ActivityAnswer(c, result)
      PROVE  Finished'
  <2>1. Awaits(c, call[c], call[c].left) BY <1>5 DEF AlarmAnswer, ActivityAnswer, Others
  <2>2. NoTarget \notin call[c].left BY NoCallFacts DEF Typed, Call, Target
  <2>3. /\ \A b \in Calls : b # c => call'[b] = call[b]
        /\ call'[c].left = {} \/ call'[c].at \in call[c].left
    BY <2>1, OthersFacts
  <2>4. QED BY <1>1, <2>2, <2>3
<1>6. CASE CallStep BY <1>3, <1>4, <1>5, <1>6 DEF CallStep
<1>7. CASE call' = call BY <1>1, <1>7
<1>8. QED BY <1>2, <1>6, <1>7, StepKinds

\* A token still belongs to a device with a row, an activity to an incident
\* that happened.
LEMMA OwnedStep ==
  ASSUME Typed, Owned, IncidentStep \/ CallStep \/ DeviceStep PROVE Owned'
<1> DEFINE Own(d) == /\ push[d] # NoToken \/ alarm[d] # NoToken => d \in registered
                     /\ \A i \in activity[d] : d \in registered /\ state[i] # "none"
<1>1. \A d \in Devices : Own(d) BY DEF Owned, Selected
<1>2. (\A d \in Devices : Own(d)') => Owned' BY DEF Owned, Selected
<1>3. \A i \in Incidents : state[i] # "none" => state'[i] # "none"
  <2>1. ASSUME NEW c \in Calls, NEW s, Begin(c, s), NEW i \in Incidents, state[i] # "none"
        PROVE  state'[i] # "none"
    <3>1. CASE \E n \in DOMAIN s : s[n].inc = i BY <2>1, <3>1 DEF Begin, Outcome
    <3>2. CASE \A n \in DOMAIN s : s[n].inc # i BY <2>1, <3>2 DEF Begin
    <3>3. QED BY <3>1, <3>2
  <2>2. CASE CallStep
    <3>1. state' = state BY <2>2, CallFrame
    <3>2. QED BY <3>1
  <2>3. QED BY <2>1, <2>2, StepKinds
<1>4. ASSUME registered' = registered, \A d \in Devices : activity'[d] \subseteq activity[d],
             \A d \in Devices : /\ push'[d] # NoToken => push[d] # NoToken
                                /\ alarm'[d] # NoToken => alarm[d] # NoToken
      PROVE  Owned'
  <2>1. \A d \in Devices : activity[d] \subseteq Incidents BY DEF Typed, TypeOK
  <2>2. QED BY <1>1, <1>2, <1>3, <1>4, <2>1
<1>5. CASE UNCHANGED stored BY <1>4, <1>5 DEF stored
<1>6. CASE \E c \in Calls : \E s : Begin(c, s)
  BY <1>5, <1>6, BeginFacts
<1>7. CASE CallStep
  <2>1. PICK c \in Calls :
          Activities(c) \/ NextEvent(c)
          \/ \E result \in {"answered", "stale", "thrown"} :
               AlarmAnswer(c, result) \/ ActivityAnswer(c, result)
    BY <1>7 DEF CallStep
  <2>2. CASE Activities(c) \/ NextEvent(c) BY <1>5, <2>2 DEF Activities, NextEvent
  <2>3. ASSUME NEW result, AlarmAnswer(c, result) PROVE Owned'
    <3>1. registered' = registered /\ activity' = activity BY <2>3 DEF AlarmAnswer
    <3>2. \A d \in Devices : /\ push'[d] # NoToken => push[d] # NoToken
                             /\ alarm'[d] # NoToken => alarm[d] # NoToken
      BY <2>3 DEF AlarmAnswer, Erase, Typed, TypeOK
    <3>3. QED BY <1>4, <3>1, <3>2
  <2>4. ASSUME NEW result, ActivityAnswer(c, result) PROVE Owned'
    <3>1. registered' = registered /\ push' = push /\ alarm' = alarm
      BY <2>4 DEF ActivityAnswer
    <3>2. \A d \in Devices : activity'[d] \subseteq activity[d]
      BY <2>4 DEF ActivityAnswer, Typed, TypeOK
    <3>3. QED BY <1>4, <3>1, <3>2
  <2>5. QED BY <2>1, <2>2, <2>3, <2>4
<1>8. CASE DeviceStep
  <2>1. PICK d \in Devices :
          \/ SetAlarmToken(d) \/ PutAlarmToken(d) \/ DropAlarmToken(d)
          \/ PutStartToken(d) \/ DropStartToken(d) \/ DeleteDevice(d) \/ Rotate(d)
          \/ \E i \in Incidents :
               PutActivityToken(d, i) \/ DropActivityToken(d, i) \/ Dismiss(d, i)
    BY <1>8 DEF DeviceStep
  <2>2. state' = state
    BY <2>1 DEF SetAlarmToken, PutAlarmToken, DropAlarmToken, PutStartToken,
      DropStartToken, DeleteDevice, Rotate, PutActivityToken, DropActivityToken, Dismiss
  <2>3. /\ push \in [Devices -> Token \cup {NoToken}] /\ alarm \in [Devices -> Token \cup {NoToken}]
        /\ activity \in [Devices -> SUBSET Incidents]
    BY DEF Typed, TypeOK
  <2>4. CASE SetAlarmToken(d) \/ PutAlarmToken(d)
    <3>1. /\ registered' = registered \cup {d} /\ activity' = activity
          /\ \A x \in Devices : x # d => push'[x] = push[x] /\ alarm'[x] = alarm[x]
      BY <2>3, <2>4 DEF SetAlarmToken, PutAlarmToken
    <3>2. QED BY <1>1, <1>2, <2>2, <3>1
  <2>5. CASE DropAlarmToken(d)
    <3>1. /\ registered' = registered /\ push' = push /\ activity' = activity
          /\ \A x \in Devices : alarm'[x] = alarm[x] \/ alarm'[x] = NoToken
      BY <2>3, <2>5 DEF DropAlarmToken
    <3>2. QED BY <1>4, <3>1
  <2>6. CASE DeleteDevice(d)
    <3>1. /\ registered' = registered \ {d}
          /\ push'[d] = NoToken /\ alarm'[d] = NoToken /\ activity'[d] = {}
          /\ \A x \in Devices : x # d =>
               push'[x] = push[x] /\ alarm'[x] = alarm[x] /\ activity'[x] = activity[x]
      BY <2>3, <2>6 DEF DeleteDevice
    <3>2. QED BY <1>1, <1>2, <2>2, <3>1
  <2>7. CASE PutStartToken(d) \/ DropStartToken(d)
    BY <1>4, <2>7 DEF PutStartToken, DropStartToken
  <2>8. CASE Rotate(d) BY <1>5, <2>8 DEF Rotate
  <2>9. ASSUME NEW i \in Incidents, PutActivityToken(d, i) PROVE Owned'
    <3>1. /\ UNCHANGED <<registered, push, alarm>> /\ d \in registered /\ state[i] # "none"
          /\ activity'[d] = activity[d] \cup {i}
          /\ \A x \in Devices : x # d => activity'[x] = activity[x]
      BY <2>3, <2>9 DEF PutActivityToken
    <3>2. QED BY <1>1, <1>2, <2>2, <3>1
  <2>10. ASSUME NEW i \in Incidents, DropActivityToken(d, i) PROVE Owned'
    <3>1. /\ UNCHANGED <<registered, push, alarm>>
          /\ \A x \in Devices : activity'[x] \subseteq activity[x]
      BY <2>3, <2>10 DEF DropActivityToken
    <3>2. QED BY <1>4, <3>1
  <2>11. ASSUME NEW i \in Incidents, Dismiss(d, i) PROVE Owned'
    BY <1>5, <2>11 DEF Dismiss
  <2>12. QED BY <2>1, <2>4, <2>5, <2>6, <2>7, <2>8, <2>9, <2>10, <2>11
<1>9. QED BY <1>5, <1>6, <1>7, <1>8, StepKinds

\* Calls in progress keep the overlap of every incident, and so does a step
\* that leaves the calls alone.
LEMMA OverlapKept ==
  ASSUME Remember, NEW c, \A b \in Calls : b # c => call'[b] = call[b],
         c \in Calls => call[c] # NoCall \/ call'[c] = call[c]
  PROVE  \A i \in Incidents : overlap'[i] = overlap[i]
BY OverlapFacts DEF Begins

\* What an event led to is still the case, unless a later one came between.
LEMMA EventsHoldStep ==
  ASSUME Typed, EventsHold, IncidentStep \/ CallStep \/ DeviceStep, Remember
  PROVE  EventsHold'
<1> DEFINE Holds(e) == ~overlap[e.inc] => state[e.inc] \in {Outcome(e.kind), "deleted"}
<1>1. \A b \in Calls : call[b] # NoCall =>
        Pending(b) \subseteq Event /\ \A e \in Pending(b) : Holds(e)
  BY PendingFacts DEF EventsHold
<1>2. ASSUME \A b \in Calls : call'[b] # NoCall => \A e \in Pending(b)' : Holds(e)'
      PROVE  EventsHold'
  BY <1>2 DEF EventsHold
<1>3. ASSUME NEW c \in Calls, NEW s, Begin(c, s) PROVE EventsHold'
  <2>1. /\ call[c] = NoCall /\ call'[c] # NoCall
        /\ \A b \in Calls : b # c => call'[b] = call[b]
    BY <1>3, BeginFacts, NoCallOff
  <2>2. Pending(c)' = {s[n] : n \in DOMAIN s} BY <1>3, BeginPending
  <2>3. \A e \in Pending(c)' : Holds(e)' BY <1>3, <2>2 DEF Begin
  <2>4. ASSUME NEW b \in Calls, b # c, call'[b] # NoCall, NEW e \in Pending(b)' PROVE Holds(e)'
    <3>1. call[b] # NoCall /\ e \in Pending(b) BY <2>1, <2>4 DEF Pending
    <3>2. e \in Event /\ e.inc \in Incidents BY <1>1, <3>1 DEF Event
    <3>3. CASE \E n \in DOMAIN s : s[n].inc = e.inc
      <4>1. Underway(b, e.inc) BY <3>1, PendingUnderway
      <4>2. Begins(c) /\ \E x \in Pending(c)' : x.inc = e.inc BY <2>1, <2>2, <3>3 DEF Begins
      <4>3. overlap'[e.inc] BY <2>1, <3>2, <4>1, <4>2, OverlapFacts
      <4>4. QED BY <4>3
    <3>4. CASE \A n \in DOMAIN s : s[n].inc # e.inc
      <4>1. state'[e.inc] = state[e.inc] BY <1>3, <3>2, <3>4 DEF Begin
      <4>2. ~ \E x \in Pending(c)' : x.inc = e.inc BY <2>2, <3>4
      <4>3. overlap'[e.inc] = overlap[e.inc] BY <2>1, <3>2, <4>2, OverlapFacts
      <4>4. QED BY <1>1, <3>1, <4>1, <4>3
    <3>5. QED BY <3>3, <3>4
  <2>5. QED BY <1>2, <2>3, <2>4
<1>4. CASE CallStep
  <2>1. PICK c \in Calls :
          /\ state' = state /\ call[c] # NoCall
          /\ \A b \in Calls : b # c => call'[b] = call[b]
          /\ call'[c] # NoCall => Pending(c)' \subseteq Pending(c)
    BY <1>4, CallFrame
  <2>2. \A i \in Incidents : overlap'[i] = overlap[i] BY <2>1, OverlapKept
  <2>3. ASSUME NEW b \in Calls, call'[b] # NoCall, NEW e \in Pending(b)' PROVE Holds(e)'
    <3>1. call[b] # NoCall /\ e \in Pending(b) BY <2>1, <2>3 DEF Pending
    <3>2. e.inc \in Incidents BY <1>1, <3>1 DEF Event
    <3>3. QED BY <1>1, <2>1, <2>2, <3>1, <3>2
  <2>4. QED BY <1>2, <2>3
<1>5. CASE /\ call' = call
           /\ \A i \in Incidents : state'[i] = state[i] \/ state'[i] = "deleted"
  <2>1. \A i \in Incidents : overlap'[i] = overlap[i] BY <1>5, OverlapKept
  <2>2. ASSUME NEW b \in Calls, call'[b] # NoCall, NEW e \in Pending(b)' PROVE Holds(e)'
    <3>1. call[b] # NoCall /\ e \in Pending(b) BY <1>5, <2>2 DEF Pending
    <3>2. e.inc \in Incidents BY <1>1, <3>1 DEF Event
    <3>3. QED BY <1>1, <1>5, <2>1, <3>1, <3>2
  <2>3. QED BY <1>2, <2>2
<1>6. QED BY <1>3, <1>4, <1>5, StepKinds

\* The state the activities are told is the present one, unless a later event
\* came between.
LEMMA SaysHoldsStep ==
  ASSUME Typed, SaysHolds, IncidentStep \/ CallStep \/ DeviceStep, Remember
  PROVE  SaysHolds'
<1> DEFINE Holds(b) == b.stage = "activity" /\ ~overlap[b.event.inc] =>
                         state[b.event.inc] \in {b.says, "deleted"}
<1>1. \A b \in Calls : Holds(call[b]) BY DEF SaysHolds
<1>2. ASSUME \A b \in Calls : Holds(call[b])' PROVE SaysHolds' BY <1>2 DEF SaysHolds
<1>3. \A b \in Calls : call[b] # NoCall => call[b].event \in Event /\ call[b].event.inc \in Incidents
  BY DEF Typed, Event
<1>4. \A b \in Calls : call[b].stage = "activity" => call[b] # NoCall BY DEF NoCall
<1>5. ASSUME NEW c \in Calls, NEW s, Begin(c, s) PROVE SaysHolds'
  <2>1. /\ call[c] = NoCall /\ call'[c].stage = "alarm" /\ call'[c] # NoCall
        /\ \A b \in Calls : b # c => call'[b] = call[b]
    BY <1>5, BeginFacts, NoCallOff
  <2>2. Pending(c)' = {s[n] : n \in DOMAIN s} BY <1>5, BeginPending
  <2>3. ASSUME NEW b \in Calls, b # c, call[b].stage = "activity" PROVE Holds(call[b])'
    <3>1. PICK i \in Incidents : i = call[b].event.inc BY <1>3, <1>4, <2>3
    <3>2. CASE \E n \in DOMAIN s : s[n].inc = i
      <4>1. Underway(b, i) BY <1>4, <2>3, <3>1 DEF Underway
      <4>2. Begins(c) /\ \E x \in Pending(c)' : x.inc = i BY <2>1, <2>2, <3>2 DEF Begins
      <4>3. overlap'[i] BY <2>1, <4>1, <4>2, OverlapFacts
      <4>4. QED BY <2>1, <2>3, <3>1, <4>3
    <3>3. CASE \A n \in DOMAIN s : s[n].inc # i
      <4>1. state'[i] = state[i] BY <1>5, <3>3 DEF Begin
      <4>2. overlap'[i] = overlap[i]
        <5>1. ~ \E x \in Pending(c)' : x.inc = i BY <2>2, <3>3
        <5>2. QED BY <2>1, <5>1, OverlapFacts
      <4>3. QED BY <1>1, <2>1, <2>3, <3>1, <4>1, <4>2
    <3>4. QED BY <3>2, <3>3
  <2>4. QED BY <1>2, <2>1, <2>3
<1>6. CASE CallStep
  <2>1. PICK c \in Calls :
          /\ state' = state /\ call[c] # NoCall
          /\ \A b \in Calls : b # c => call'[b] = call[b]
          /\ Activities(c) \/ NextEvent(c)
             \/ \E result \in {"answered", "stale", "thrown"} :
                  AlarmAnswer(c, result) \/ ActivityAnswer(c, result)
    BY <1>6, CallFrame
  <2>2. \A i \in Incidents : overlap'[i] = overlap[i] BY <2>1, OverlapKept
  <2>3. \A b \in Calls : b # c => Holds(call[b])'
    BY <1>1, <1>3, <1>4, <2>1, <2>2
  <2>4. CASE Activities(c)
    <3>1. PICK i \in Incidents : i = call[c].event.inc BY <1>3, <2>1
    <3>2. /\ call'[c].event = call[c].event
          /\ state[i] = "deleted" \/ call'[c].says = state[i]
      BY <2>4, <3>1, ActivitiesFacts
    <3>3. Holds(call[c])' BY <2>1, <3>1, <3>2
    <3>4. QED BY <1>2, <2>3, <3>3
  <2>5. CASE NextEvent(c)
    <3>1. call'[c].stage = "activity" => state[call'[c].event.inc] = "deleted"
      BY <2>5, NextEventFacts DEF NoCall
    <3>2. QED BY <1>2, <2>1, <2>3, <3>1
  <2>6. ASSUME NEW result, AlarmAnswer(c, result) \/ ActivityAnswer(c, result) PROVE SaysHolds'
    <3>1. Awaits(c, call[c], call[c].left) BY <2>6 DEF AlarmAnswer, ActivityAnswer, Others
    <3>2. /\ call'[c].event = call[c].event /\ call'[c].stage = call[c].stage
          /\ call'[c].says = call[c].says
      BY <3>1, OthersFacts
    <3>3. call[c].event.inc \in Incidents BY <1>3, <2>1
    <3>4. Holds(call[c])' BY <1>1, <2>1, <2>2, <3>2, <3>3
    <3>5. QED BY <1>2, <2>3, <3>4
  <2>7. QED BY <2>1, <2>4, <2>5, <2>6
<1>7. CASE /\ call' = call
           /\ \A i \in Incidents : state'[i] = state[i] \/ state'[i] = "deleted"
  <2>1. \A i \in Incidents : overlap'[i] = overlap[i] BY <1>7, OverlapKept
  <2>2. \A b \in Calls : Holds(call[b])' BY <1>1, <1>3, <1>4, <1>7, <2>1
  <2>3. QED BY <1>2, <2>2
<1>8. QED BY <1>5, <1>6, <1>7, StepKinds

-----------------------------------------------------------------------------
(* Rings.                                                                  *)

\* A device that is told the wrong thing after a step was told it before, on
\* the token it still has, and the step sends it nothing about the incident.
LEMMA WrongRingKept ==
  ASSUME Typed', EventsHold', Remember, NEW c, \A b \in Calls : b # c => call'[b] = call[b],
         NEW d \in Devices, NEW i \in Incidents, ~overlap'[i], WrongRing(d, i)'
  PROVE  /\ told'[d][i] = told[d][i] /\ Selected(d)' = Selected(d)
         /\ told[d][i] # "nothing"
         /\ ~(/\ c \in Calls /\ Sends(c, "alarm", d) /\ call'[c].event.inc = i
              /\ call'[c].at.token = Selected(d)')
<1>1. told'[d][i] \in {"ring", "stop"} BY DEF WrongRing
<1>2. ASSUME c \in Calls, Sends(c, "alarm", d), call'[c].event.inc = i,
             told'[d][i] = Sound(call'[c].event.kind)
      PROVE  FALSE
  <2>1. call'[c] # NoCall BY <1>2 DEF Sends, NoCall
  <2>2. PICK e \in Event : e = call'[c].event BY <1>2, <2>1 DEF Typed
  <2>3. e \in Pending(c)' BY <2>2 DEF Pending
  <2>4. state'[i] \in {Outcome(e.kind), "deleted"} BY <1>2, <2>1, <2>2, <2>3 DEF EventsHold
  <2>5. e.kind \in Kinds BY DEF Event
  <2>6. told'[d][i] = Sound(e.kind) BY <1>2, <2>2
  <2>7. CASE e.kind \in StateKinds
    <3>1. told'[d][i] = "stop" /\ Outcome(e.kind) # "open" BY <2>6, <2>7 DEF Sound, Outcome, StateKinds
    <3>2. QED BY <2>4, <3>1 DEF WrongRing
  <2>8. CASE e.kind \notin StateKinds
    <3>1. told'[d][i] = "ring" /\ Outcome(e.kind) = "open"
      BY <2>5, <2>6, <2>8 DEF Sound, Outcome, StateKinds, Kinds
    <3>2. QED BY <2>4, <3>1 DEF WrongRing
  <2>9. QED BY <2>7, <2>8
<1>3. QED BY <1>1, <1>2, ToldFacts

\* An event a call comes to is for every device that has a token and is no
\* iPhone: it is sent to there, or the device is left.
LEMMA RingComes ==
  ASSUME Owned, NEW c \in Calls, NEW d \in Devices, NEW i \in Incidents, NEW e,
         e.inc = i, Platform[d] # "ios", Selected(d) # NoToken, Selected(d)' = Selected(d),
         call'[c] # call[c], call'[c].stage = "alarm", call'[c].event = e,
         \/ AlarmTargets(e) = {}
         \/ call'[c].at \in AlarmTargets(e) /\ call'[c].left = AlarmTargets(e) \ {call'[c].at},
         NoTarget \notin AlarmTargets(e),
         ~(Sends(c, "alarm", d) /\ call'[c].event.inc = i /\ call'[c].at.token = Selected(d)')
  PROVE  RingDue(d, i)'
<1>1. PICK t : t = [dev |-> d, token |-> Selected(d)] OBVIOUS
<1>2. Receives(d, e.kind)
  BY PlatformAssumption DEF Receives
<1>3. t \in AlarmTargets(e) BY <1>1, <1>2 DEF Owned, AlarmTargets
<1>4. t # call'[c].at BY <1>1, <1>3 DEF Sends
<1>5. t \in call'[c].left BY <1>3, <1>4
<1>6. QED BY <1>1, <1>5 DEF RingDue

\* What is to come after the first event of a sequence comes still.
LEMMA TailFacts ==
  ASSUME NEW s \in Seq(Event), s # <<>>, NEW n \in DOMAIN s
  PROVE  \/ s[n] = Head(s)
         \/ \E m \in DOMAIN Tail(s) : Tail(s)[m] = s[n]
<1>1. /\ Head(s) = s[1] /\ DOMAIN s = 1..Len(s) /\ Len(s) \in Nat
      /\ DOMAIN Tail(s) = 1..(Len(s) - 1)
      /\ \A m \in 1..(Len(s) - 1) : Tail(s)[m] = s[m + 1]
  OBVIOUS
<1>2. CASE n = 1 BY <1>1, <1>2
<1>3. CASE n # 1
  <2>1. n \in 1..Len(s) /\ n - 1 \in 1..(Len(s) - 1) BY <1>1, <1>3
  <2>2. Tail(s)[n - 1] = s[(n - 1) + 1] BY <1>1, <2>1
  <2>3. (n - 1) + 1 = n BY <2>1
  <2>4. QED BY <1>1, <2>1, <2>2, <2>3
<1>4. QED BY <1>2, <1>3

\* A device that was told the wrong thing is still to be told of it.
LEMMA RingsHoldStep ==
  ASSUME Typed, Typed', Finished, Owned, EventsHold', RingsHold,
         IncidentStep \/ CallStep \/ DeviceStep, Remember
  PROVE  RingsHold'
<1>1. \A e \in Event : NoTarget \notin AlarmTargets(e)
  BY TargetsFit, NoCallFacts DEF Typed
<1>2. ASSUME NEW c, \A b \in Calls : b # c => call'[b] = call[b],
             NEW d \in Devices, NEW i \in Incidents, told'[d][i] # "nothing"
      PROVE  Selected(d)' # NoToken
  <2>1. CASE Selected(d)' = Selected(d) /\ told'[d][i] = told[d][i]
    BY <1>2, <2>1 DEF RingsHold
  <2>2. CASE c \in Calls /\ Sends(c, "alarm", d) /\ call'[c].at.token = Selected(d)'
    <3>1. call'[c].at \in Target BY <2>2 DEF Sends, Typed, Call, Target
    <3>2. QED BY <2>2, <3>1 DEF Target, Token, NoToken
  <2>3. QED BY <1>2, <2>1, <2>2, ToldFacts
<1>3. ASSUME NEW c \in Calls, NEW s, Begin(c, s), NEW d \in Devices, NEW i \in Incidents,
             ~overlap'[i], Platform[d] # "ios", WrongRing(d, i)'
      PROVE  RingDue(d, i)'
  <2>1. /\ call[c] = NoCall /\ call'[c].stage = "alarm" /\ call'[c] # call[c]
        /\ \A b \in Calls : b # c => call'[b] = call[b]
        /\ call'[c].event = Head(s) /\ call'[c].rest = Tail(s) /\ Head(s) \in Event
        /\ \/ AlarmTargets(Head(s)) = {}
           \/ /\ call'[c].at \in AlarmTargets(Head(s))
              /\ call'[c].left = AlarmTargets(Head(s)) \ {call'[c].at}
    BY <1>3, BeginFacts, NoCallOff
  <2>2. /\ told'[d][i] = told[d][i] /\ Selected(d)' = Selected(d) /\ told[d][i] # "nothing"
        /\ ~(/\ Sends(c, "alarm", d) /\ call'[c].event.inc = i
             /\ call'[c].at.token = Selected(d)')
    BY <1>3, <2>1, WrongRingKept
  <2>3. Selected(d) # NoToken BY <2>2 DEF RingsHold
  <2>4. s \in Seq(Event) /\ s # <<>> BY <1>3 DEF Begin
  <2>5. ASSUME NEW n \in DOMAIN s, s[n].inc = i PROVE RingDue(d, i)'
    <3>1. CASE s[n] = Head(s)
      <4>1. PICK e \in Event : e = Head(s) BY <2>1
      <4>2. e.inc = i BY <2>5, <3>1, <4>1
      <4>3. NoTarget \notin AlarmTargets(e) BY <1>1
      <4>4. QED BY <1>3, <2>1, <2>2, <2>3, <4>1, <4>2, <4>3, RingComes
    <3>2. ASSUME NEW m \in DOMAIN Tail(s), Tail(s)[m] = s[n] PROVE RingDue(d, i)'
      BY <2>1, <2>5, <3>2 DEF RingDue
    <3>3. QED BY <2>4, <3>1, <3>2, TailFacts
  <2>6. ASSUME \A n \in DOMAIN s : s[n].inc # i PROVE RingDue(d, i)'
    <3>1. state'[i] = state[i] BY <1>3, <2>6 DEF Begin
    <3>2. Pending(c)' = {s[n] : n \in DOMAIN s} BY <1>3, BeginPending
    <3>3. overlap'[i] = overlap[i]
      <4>1. ~ \E e \in Pending(c)' : e.inc = i BY <2>6, <3>2
      <4>2. QED BY <2>1, <4>1, OverlapFacts
    <3>4. WrongRing(d, i) BY <1>3, <2>2, <3>1 DEF WrongRing
    <3>5. RingDue(d, i) BY <1>3, <3>3, <3>4 DEF RingsHold
    <3>6. PICK b \in Calls :
            \/ \E n \in DOMAIN call[b].rest : call[b].rest[n].inc = i
            \/ /\ call[b].stage = "alarm" /\ call[b].event.inc = i
               /\ [dev |-> d, token |-> Selected(d)] \in call[b].left
      BY <3>5 DEF RingDue
    <3>7. b # c BY <2>1, <3>6 DEF NoCall
    <3>8. QED BY <2>1, <2>2, <3>6, <3>7 DEF RingDue
  <2>7. QED BY <2>5, <2>6
<1>4. ASSUME CallStep
      PROVE  \E c \in Calls :
               /\ \A b \in Calls : b # c => call'[b] = call[b]
               /\ \A d \in Devices, i \in Incidents :
                    ~overlap'[i] /\ Platform[d] # "ios" /\ WrongRing(d, i)' => RingDue(d, i)'
  <2>1. PICK c \in Calls :
          /\ state' = state /\ call[c] # NoCall
          /\ \A b \in Calls : b # c => call'[b] = call[b]
          /\ Activities(c) \/ NextEvent(c)
             \/ \E result \in {"answered", "stale", "thrown"} :
                  AlarmAnswer(c, result) \/ ActivityAnswer(c, result)
    BY <1>4, CallFrame
  <2>2. \A i \in Incidents : overlap'[i] = overlap[i] BY <2>1, OverlapKept
  <2>3. ASSUME NEW d \in Devices, NEW i \in Incidents,
               ~overlap'[i], Platform[d] # "ios", WrongRing(d, i)'
        PROVE  RingDue(d, i)'
    <3>1. /\ told'[d][i] = told[d][i] /\ Selected(d)' = Selected(d) /\ told[d][i] # "nothing"
          /\ ~(/\ Sends(c, "alarm", d) /\ call'[c].event.inc = i
               /\ call'[c].at.token = Selected(d)')
      BY <2>1, <2>3, WrongRingKept
    <3>2. Selected(d) # NoToken BY <3>1 DEF RingsHold
    <3>3. WrongRing(d, i) BY <2>1, <2>3, <3>1 DEF WrongRing
    <3>4. RingDue(d, i) BY <2>2, <2>3, <3>3 DEF RingsHold
    <3>5. PICK b \in Calls :
            \/ \E n \in DOMAIN call[b].rest : call[b].rest[n].inc = i
            \/ /\ call[b].stage = "alarm" /\ call[b].event.inc = i
               /\ [dev |-> d, token |-> Selected(d)] \in call[b].left
      BY <3>4 DEF RingDue
    <3>6. CASE b # c BY <2>1, <3>1, <3>5, <3>6 DEF RingDue
    <3>7. ASSUME b = c, call'[c].rest = call[c].rest,
                 NEW n \in DOMAIN call[b].rest, call[b].rest[n].inc = i
          PROVE  RingDue(d, i)'
      BY <3>7 DEF RingDue
    <3>8. CASE b = c /\ Activities(c)
      <4>1. call[c].left = {} BY <3>8 DEF Activities, Finished
      <4>2. call'[c].rest = call[c].rest BY <3>8, ActivitiesFacts
      <4>3. QED BY <3>5, <3>7, <3>8, <4>1, <4>2
    <3>9. CASE b = c /\ NextEvent(c)
      <4>1. call[c].stage = "activity" BY <3>9 DEF NextEvent
      <4>2. PICK n \in DOMAIN call[c].rest : call[c].rest[n].inc = i BY <3>5, <3>9, <4>1
      <4>3. call[c].rest # <<>> BY <4>2
      <4>4. PICK s \in Seq(Event) : s = call[c].rest BY <3>9, <4>3, NextEventFacts
      <4>5. s # <<>> /\ n \in DOMAIN s /\ s[n].inc = i BY <4>2, <4>3, <4>4
      <4>6. PICK e \in Event : e = Head(s) BY <3>9, <4>3, <4>4, NextEventFacts
      <4>7. /\ call'[c].event = e /\ call'[c].rest = Tail(s)
            /\ \/ state[e.inc] = "deleted"
               \/ /\ call'[c].stage = "alarm"
                  /\ \/ AlarmTargets(e) = {}
                     \/ /\ call'[c].at \in AlarmTargets(e)
                        /\ call'[c].left = AlarmTargets(e) \ {call'[c].at}
        BY <3>9, <4>3, <4>4, <4>6, NextEventFacts
      <4>8. CASE s[n] = e
        <5>1. e.inc = i /\ state[i] # "deleted" BY <4>5, <4>8, <3>3 DEF WrongRing
        <5>2. call'[c] # call[c] BY <4>1, <4>7, <5>1
        <5>3. NoTarget \notin AlarmTargets(e) BY <1>1
        <5>4. QED BY <2>3, <3>1, <3>2, <4>7, <5>1, <5>2, <5>3, RingComes
      <4>9. ASSUME NEW m \in DOMAIN Tail(s), Tail(s)[m] = s[n] PROVE RingDue(d, i)'
        BY <4>5, <4>7, <4>9 DEF RingDue
      <4>10. QED BY <4>5, <4>6, <4>8, <4>9, TailFacts
    <3>10. ASSUME b = c, NEW result, AlarmAnswer(c, result) \/ ActivityAnswer(c, result)
           PROVE  RingDue(d, i)'
      <4>1. Awaits(c, call[c], call[c].left) BY <3>10 DEF AlarmAnswer, ActivityAnswer, Others
      <4>2. /\ call'[c].event = call[c].event /\ call'[c].rest = call[c].rest
            /\ call'[c].stage = call[c].stage
            /\ \/ call[c].left = {}
               \/ call'[c].at \in call[c].left /\ call'[c].left = call[c].left \ {call'[c].at}
        BY <4>1, OthersFacts
      <4>3. ASSUME call[c].stage = "alarm", call[c].event.inc = i,
                   [dev |-> d, token |-> Selected(d)] \in call[c].left
            PROVE  RingDue(d, i)'
        <5>1. PICK t : t = [dev |-> d, token |-> Selected(d)] OBVIOUS
        <5>2. /\ call'[c].at \in call[c].left
              /\ call'[c].left = call[c].left \ {call'[c].at}
          BY <4>2, <4>3
        <5>3. call'[c] # call[c] BY <5>2
        <5>4. NoTarget \notin call[c].left BY NoCallFacts DEF Typed, Call, Target
        <5>5. t # call'[c].at BY <3>1, <4>2, <4>3, <5>1, <5>2, <5>3, <5>4 DEF Sends
        <5>6. t \in call'[c].left BY <4>3, <5>1, <5>2, <5>5
        <5>7. QED BY <3>1, <4>2, <4>3, <5>1, <5>6 DEF RingDue
      <4>4. QED BY <3>5, <3>7, <3>10, <4>2, <4>3
    <3>11. QED BY <2>1, <3>6, <3>8, <3>9, <3>10
  <2>4. QED BY <2>1, <2>3
<1>5. ASSUME call' = call,
             \A i \in Incidents : state'[i] = state[i] \/ state'[i] = "deleted",
             NEW d \in Devices, NEW i \in Incidents,
             ~overlap'[i], Platform[d] # "ios", WrongRing(d, i)'
      PROVE  RingDue(d, i)'
  <2>1. told'[d][i] = told[d][i] /\ Selected(d)' = Selected(d) BY <1>5, WrongRingKept
  <2>2. overlap'[i] = overlap[i] BY <1>5, OverlapKept
  <2>3. WrongRing(d, i) BY <1>5, <2>1 DEF WrongRing
  <2>4. QED BY <1>5, <2>1, <2>2, <2>3 DEF RingsHold, RingDue
<1>6. ASSUME NEW c, \A b \in Calls : b # c => call'[b] = call[b],
             \A d \in Devices, i \in Incidents :
               ~overlap'[i] /\ Platform[d] # "ios" /\ WrongRing(d, i)' => RingDue(d, i)'
      PROVE  RingsHold'
  BY <1>2, <1>6 DEF RingsHold
<1>7. CASE \E c \in Calls : \E s : Begin(c, s)
  <2>1. PICK c \in Calls : \E s : Begin(c, s) BY <1>7
  <2>2. \A b \in Calls : b # c => call'[b] = call[b] BY <2>1, BeginFacts
  <2>3. QED BY <1>3, <1>6, <2>1, <2>2
<1>8. CASE CallStep BY <1>4, <1>6, <1>8
<1>9. CASE /\ call' = call
           /\ \A i \in Incidents : state'[i] = state[i] \/ state'[i] = "deleted"
  <2>1. PICK c : c = {} OBVIOUS
  <2>2. \A b \in Calls : b # c => call'[b] = call[b] BY <1>9
  <2>3. \A d \in Devices, i \in Incidents :
          ~overlap'[i] /\ Platform[d] # "ios" /\ WrongRing(d, i)' => RingDue(d, i)'
    BY <1>5, <1>9
  <2>4. QED BY <1>6, <2>2, <2>3
<1>10. QED BY <1>7, <1>8, <1>9, StepKinds

-----------------------------------------------------------------------------
(* Live Activities.                                                        *)

\* An activity that shows the wrong state after a step showed it before, still
\* has its token, and the step sends it nothing.
LEMMA WrongShowKept ==
  ASSUME SaysHolds', Remember, NEW c, \A b \in Calls : b # c => call'[b] = call[b],
         NEW d \in Devices, NEW i \in Incidents, ~overlap'[i], WrongShow(d, i)'
  PROVE  /\ shown'[d][i] = shown[d][i] /\ i \in activity'[d]
         /\ ~(/\ c \in Calls /\ Sends(c, "activity", d) /\ call'[c].event.inc = i
              /\ call'[c].event.kind # "open")
<1>1. shown'[d][i] # "nothing" /\ shown'[d][i] # state'[i] /\ state'[i] # "deleted"
  BY DEF WrongShow
<1>2. ASSUME c \in Calls, Sends(c, "activity", d), call'[c].event.inc = i,
             shown'[d][i] = call'[c].says
      PROVE  FALSE
  <2>1. call'[c].stage = "activity" BY <1>2 DEF Sends
  <2>2. state'[i] \in {call'[c].says, "deleted"} BY <1>2, <2>1 DEF SaysHolds
  <2>3. QED BY <1>1, <1>2, <2>2
<1>3. QED BY <1>1, <1>2, ShownFacts

\* An activity that shows the wrong state is still to be sent the right one.
LEMMA ShowsHoldStep ==
  ASSUME Typed, Finished, Owned, SaysHolds', ShowsHold,
         IncidentStep \/ CallStep \/ DeviceStep, Remember
  PROVE  ShowsHold'
<1>1. \A e \in Event : NoTarget \notin ActivityTargets(e)
  BY TargetsFit, NoCallFacts DEF Typed
<1>2. ASSUME NEW c \in Calls, NEW s, Begin(c, s), NEW d \in Devices, NEW i \in Incidents,
             ~overlap'[i], WrongShow(d, i)'
      PROVE  ShowDue(d, i)'
  <2>1. /\ call[c] = NoCall /\ call'[c].stage = "alarm" /\ call'[c] # NoCall
        /\ \A b \in Calls : b # c => call'[b] = call[b]
        /\ call'[c].event = Head(s) /\ call'[c].rest = Tail(s) /\ Head(s) \in Event
        /\ UNCHANGED stored
    BY <1>2, BeginFacts, NoCallOff
  <2>2. shown'[d][i] = shown[d][i] /\ i \in activity'[d] BY <1>2, <2>1, WrongShowKept
  <2>3. state[i] # "none" BY <2>1, <2>2 DEF stored, Owned
  <2>4. s \in Seq(Event) /\ s # <<>> BY <1>2 DEF Begin
  <2>5. Pending(c)' = {s[n] : n \in DOMAIN s} BY <1>2, BeginPending
  <2>6. ASSUME state'[i] = state[i], ~overlap[i]
        PROVE  /\ ShowDue(d, i)'
               /\ \E b \in Calls : Underway(b, i)
    <3>1. WrongShow(d, i) BY <1>2, <2>2, <2>6 DEF WrongShow
    <3>2. ShowDue(d, i) BY <2>6, <3>1 DEF ShowsHold
    <3>3. PICK b \in Calls :
            \/ \E n \in DOMAIN call[b].rest : call[b].rest[n].inc = i /\ Shows(call[b].rest[n])
            \/ /\ call[b].event.inc = i /\ Shows(call[b].event)
               /\ \/ call[b].stage = "alarm"
                  \/ call[b].stage = "activity" /\ [dev |-> d, token |-> 0] \in call[b].left
      BY <3>2 DEF ShowDue
    <3>4. call[b] # NoCall BY <3>3 DEF NoCall
    <3>5. Underway(b, i) BY <3>3, <3>4 DEF Underway
    <3>6. b # c BY <2>1, <3>4
    <3>7. QED BY <2>1, <3>3, <3>5, <3>6 DEF ShowDue
  <2>7. ASSUME NEW n \in DOMAIN s, s[n].inc = i, Shows(s[n]) PROVE ShowDue(d, i)'
    <3>1. CASE s[n] = Head(s) BY <2>1, <2>7, <3>1 DEF ShowDue
    <3>2. ASSUME NEW m \in DOMAIN Tail(s), Tail(s)[m] = s[n] PROVE ShowDue(d, i)'
      BY <2>1, <2>7, <3>2 DEF ShowDue
    <3>3. QED BY <2>4, <3>1, <3>2, TailFacts
  <2>8. ASSUME NEW n \in DOMAIN s, s[n].inc = i, ~Shows(s[n]) PROVE FALSE
    <3>1. s[n] \in Event BY <2>4
    <3>2. s[n].kind \in {"open", "repeat"} BY <2>8, <3>1 DEF Shows, LiveActivityEvent, Event, Kinds
    <3>3. state[i] = FromState(s[n].kind) /\ state'[i] = Outcome(s[n].kind)
      BY <1>2, <2>8 DEF Begin
    <3>4. s[n].kind = "repeat" BY <2>3, <3>2, <3>3 DEF FromState
    <3>5. state'[i] = state[i] BY <3>3, <3>4 DEF FromState, Outcome
    <3>6. s[n] = [kind |-> "repeat", inc |-> i] BY <2>8, <3>1, <3>4 DEF Event
    <3>7. [kind |-> "repeat", inc |-> i] \in Pending(c)' BY <2>5, <3>6
    <3>8. Begins(c) /\ \E e \in Pending(c)' : e.inc = i BY <2>1, <3>7 DEF Begins
    <3>9. ~overlap[i] /\ \A b \in Calls : ~Underway(b, i)
      BY <1>2, <2>1, <3>7, <3>8, OverlapFacts
    <3>10. QED BY <2>6, <3>5, <3>9
  <2>9. CASE \A n \in DOMAIN s : s[n].inc # i
    <3>1. state'[i] = state[i] BY <1>2, <2>9 DEF Begin
    <3>2. ~ \E e \in Pending(c)' : e.inc = i BY <2>5, <2>9
    <3>3. overlap'[i] = overlap[i] BY <2>1, <3>2, OverlapFacts
    <3>4. QED BY <1>2, <2>6, <3>1, <3>3
  <2>10. QED BY <2>7, <2>8, <2>9
<1>3. ASSUME CallStep, NEW d \in Devices, NEW i \in Incidents, ~overlap'[i], WrongShow(d, i)'
      PROVE  ShowDue(d, i)'
  <2>1. PICK c \in Calls :
          /\ state' = state /\ call[c] # NoCall
          /\ \A b \in Calls : b # c => call'[b] = call[b]
          /\ Activities(c) \/ NextEvent(c)
             \/ \E result \in {"answered", "stale", "thrown"} :
                  AlarmAnswer(c, result) \/ ActivityAnswer(c, result)
    BY <1>3, CallFrame
  <2>2. overlap'[i] = overlap[i] BY <2>1, OverlapKept
  <2>3. /\ shown'[d][i] = shown[d][i] /\ i \in activity'[d]
        /\ ~(/\ Sends(c, "activity", d) /\ call'[c].event.inc = i
             /\ call'[c].event.kind # "open")
    BY <1>3, <2>1, WrongShowKept
  <2>4. WrongShow(d, i) BY <1>3, <2>1, <2>3 DEF WrongShow
  <2>5. ShowDue(d, i) BY <1>3, <2>2, <2>4 DEF ShowsHold
  <2>6. PICK b \in Calls :
          \/ \E n \in DOMAIN call[b].rest : call[b].rest[n].inc = i /\ Shows(call[b].rest[n])
          \/ /\ call[b].event.inc = i /\ Shows(call[b].event)
             /\ \/ call[b].stage = "alarm"
                \/ call[b].stage = "activity" /\ [dev |-> d, token |-> 0] \in call[b].left
    BY <2>5 DEF ShowDue
  <2>7. CASE b # c BY <2>1, <2>6, <2>7 DEF ShowDue
  <2>8. ASSUME b = c, call'[c].rest = call[c].rest,
               NEW n \in DOMAIN call[b].rest, call[b].rest[n].inc = i, Shows(call[b].rest[n])
        PROVE  ShowDue(d, i)'
    BY <2>8 DEF ShowDue
  <2>9. CASE b = c /\ Activities(c)
    <3>1. PICK e \in Event : e = call[c].event BY <2>9, ActivitiesFacts
    <3>2. /\ call[c].stage = "alarm" /\ activity' = activity BY <2>9 DEF Activities, stored
    <3>3. /\ call'[c].rest = call[c].rest /\ call'[c].event = e
          /\ call'[c].stage = "activity"
          /\ \/ ActivityTargets(e) = {}
             \/ /\ call'[c].at \in ActivityTargets(e)
                /\ call'[c].left = ActivityTargets(e) \ {call'[c].at}
      BY <2>9, <3>1, ActivitiesFacts
    <3>4. CASE e.inc = i /\ Shows(e)
      <4>1. PICK t : t = [dev |-> d, token |-> 0] OBVIOUS
      <4>2. i \in activity[d] /\ d \in registered BY <2>3, <3>2 DEF Owned
      <4>3. t \in ActivityTargets(e) BY <3>4, <4>1, <4>2 DEF ActivityTargets, Shows
      <4>4. e.kind # "open" BY <3>4 DEF Shows, LiveActivityEvent
      <4>5. call'[c] # call[c] BY <3>2, <3>3
      <4>6. NoTarget \notin ActivityTargets(e) BY <1>1
      <4>7. t # call'[c].at BY <2>3, <3>3, <3>4, <4>1, <4>3, <4>4, <4>5, <4>6 DEF Sends
      <4>8. t \in call'[c].left BY <3>3, <4>3, <4>7
      <4>9. QED BY <3>3, <3>4, <4>1, <4>8 DEF ShowDue
    <3>5. QED BY <2>6, <2>8, <2>9, <3>1, <3>3, <3>4
  <2>10. CASE b = c /\ NextEvent(c)
    <3>1. call[c].stage = "activity" /\ call[c].left = {} BY <2>10 DEF NextEvent, Finished
    <3>2. PICK n \in DOMAIN call[c].rest : call[c].rest[n].inc = i /\ Shows(call[c].rest[n])
      BY <2>6, <2>10, <3>1
    <3>3. call[c].rest # <<>> BY <3>2
    <3>4. PICK s \in Seq(Event) : s = call[c].rest BY <2>10, <3>3, NextEventFacts
    <3>5. s # <<>> /\ n \in DOMAIN s /\ s[n].inc = i /\ Shows(s[n]) BY <3>2, <3>3, <3>4
    <3>6. PICK e \in Event : e = Head(s) BY <2>10, <3>3, <3>4, NextEventFacts
    <3>7. /\ call'[c].event = e /\ call'[c].rest = Tail(s)
          /\ state[e.inc] = "deleted" \/ call'[c].stage = "alarm"
      BY <2>10, <3>3, <3>4, <3>6, NextEventFacts
    <3>8. CASE s[n] = e
      <4>1. e.inc = i /\ state[i] # "deleted" /\ Shows(e) BY <2>4, <3>5, <3>8 DEF WrongShow
      <4>2. QED BY <3>7, <4>1 DEF ShowDue
    <3>9. ASSUME NEW m \in DOMAIN Tail(s), Tail(s)[m] = s[n] PROVE ShowDue(d, i)'
      BY <3>5, <3>7, <3>9 DEF ShowDue
    <3>10. QED BY <3>5, <3>6, <3>8, <3>9, TailFacts
  <2>11. ASSUME b = c, NEW result, AlarmAnswer(c, result) \/ ActivityAnswer(c, result)
         PROVE  ShowDue(d, i)'
    <3>1. Awaits(c, call[c], call[c].left) BY <2>11 DEF AlarmAnswer, ActivityAnswer, Others
    <3>2. /\ call'[c].event = call[c].event /\ call'[c].rest = call[c].rest
          /\ call'[c].stage = call[c].stage
          /\ \/ call[c].left = {}
             \/ call'[c].at \in call[c].left /\ call'[c].left = call[c].left \ {call'[c].at}
      BY <3>1, OthersFacts
    <3>3. ASSUME call[c].stage = "activity", call[c].event.inc = i, Shows(call[c].event),
                 [dev |-> d, token |-> 0] \in call[c].left
          PROVE  ShowDue(d, i)'
      <4>1. PICK t : t = [dev |-> d, token |-> 0] OBVIOUS
      <4>2. /\ call'[c].at \in call[c].left
            /\ call'[c].left = call[c].left \ {call'[c].at}
        BY <3>2, <3>3
      <4>3. call'[c] # call[c] BY <4>2
      <4>4. NoTarget \notin call[c].left BY NoCallFacts DEF Typed, Call, Target
      <4>5. call[c].event.kind # "open" BY <3>3 DEF Shows, LiveActivityEvent
      <4>6. t # call'[c].at BY <2>3, <3>2, <3>3, <4>1, <4>2, <4>3, <4>4, <4>5 DEF Sends
      <4>7. t \in call'[c].left BY <3>3, <4>1, <4>2, <4>6
      <4>8. QED BY <3>2, <3>3, <4>1, <4>7 DEF ShowDue
    <3>4. CASE /\ call[c].stage = "alarm" /\ call[c].event.inc = i /\ Shows(call[c].event)
      BY <3>2, <3>4 DEF ShowDue
    <3>5. QED BY <2>6, <2>8, <2>11, <3>2, <3>3, <3>4
  <2>12. QED BY <2>1, <2>7, <2>9, <2>10, <2>11
<1>4. ASSUME call' = call,
             \A i \in Incidents : state'[i] = state[i] \/ state'[i] = "deleted",
             NEW d \in Devices, NEW i \in Incidents, ~overlap'[i], WrongShow(d, i)'
      PROVE  ShowDue(d, i)'
  <2>1. shown'[d][i] = shown[d][i] BY <1>4, WrongShowKept
  <2>2. overlap'[i] = overlap[i] BY <1>4, OverlapKept
  <2>3. WrongShow(d, i) BY <1>4, <2>1 DEF WrongShow
  <2>4. QED BY <1>4, <2>2, <2>3 DEF ShowsHold, ShowDue
<1>5. (\A d \in Devices, i \in Incidents : ~overlap'[i] /\ WrongShow(d, i)' => ShowDue(d, i)')
        => ShowsHold'
  BY DEF ShowsHold
<1>6. CASE \E c \in Calls : \E s : Begin(c, s) BY <1>2, <1>5, <1>6
<1>7. CASE CallStep BY <1>3, <1>5, <1>7
<1>8. CASE /\ call' = call
           /\ \A i \in Incidents : state'[i] = state[i] \/ state'[i] = "deleted"
  BY <1>4, <1>5, <1>8
<1>9. QED BY <1>6, <1>7, <1>8, StepKinds

-----------------------------------------------------------------------------
(* When every send is over.                                                *)

\* In the initial state nobody was told anything.
LEMMA SendsInit == Init => SendsInv
<1> SUFFICES ASSUME Init PROVE SendsInv OBVIOUS
<1>1. IInv /\ call = [c \in Calls |-> NoCall] BY InitInv DEF Init
<1>2. Finished BY <1>1 DEF Finished, NoCall
<1>3. Owned BY DEF Init, Owned
<1>4. EventsHold BY <1>1 DEF EventsHold
<1>5. SaysHolds BY <1>1, NoCallOff DEF SaysHolds
<1>6. \A d \in Devices, i \in Incidents : told[d][i] = "nothing" /\ shown[d][i] = "nothing"
  BY DEF Init
<1>7. RingsHold BY <1>6 DEF RingsHold, WrongRing
<1>8. ShowsHold BY <1>6 DEF ShowsHold, WrongShow
<1>9. QED BY <1>2, <1>3, <1>4, <1>5, <1>7, <1>8 DEF SendsInv

\* Every step preserves what the devices were told.
LEMMA SendsNext == IInv /\ SendsInv /\ [Next]_vars => SendsInv'
<1> SUFFICES ASSUME IInv, SendsInv, [Next]_vars PROVE SendsInv' OBVIOUS
<1>1. Typed /\ Typed' BY NextInv DEF IInv
<1>2. CASE Next
  <2>1. (IncidentStep \/ CallStep \/ DeviceStep) /\ Remember BY <1>2 DEF Next
  <2>2. Finished' /\ Owned' BY <1>1, <2>1, FinishedStep, OwnedStep DEF SendsInv
  <2>3. EventsHold' /\ SaysHolds' BY <1>1, <2>1, EventsHoldStep, SaysHoldsStep DEF SendsInv
  <2>4. RingsHold' BY <1>1, <2>1, <2>3, RingsHoldStep DEF SendsInv
  <2>5. ShowsHold' BY <1>1, <2>1, <2>3, ShowsHoldStep DEF SendsInv
  <2>6. QED BY <2>2, <2>3, <2>4, <2>5 DEF SendsInv
<1>3. CASE UNCHANGED vars
  <2>1. /\ UNCHANGED <<state, registered, push, alarm, activity, call, told, shown, overlap>>
    BY <1>3 DEF vars, stored, history
  <2>2. Finished' /\ Owned' /\ SaysHolds' BY <2>1 DEF SendsInv, Finished, Owned, Selected, SaysHolds
  <2>3. EventsHold' BY <2>1 DEF SendsInv, EventsHold, Pending
  <2>4. RingsHold' BY <2>1 DEF SendsInv, RingsHold, WrongRing, RingDue, Selected
  <2>5. ShowsHold' BY <2>1 DEF SendsInv, ShowsHold, WrongShow, ShowDue
  <2>6. QED BY <2>2, <2>3, <2>4, <2>5 DEF SendsInv
<1>4. QED BY <1>2, <1>3

\* A device or an activity that has the wrong thing is still to be sent the
\* right one, in every reachable state.
THEOREM SendsInvariance == Spec => []SendsInv
BY SendsInit, SendsNext, Invariance, PTL DEF Spec

\* When every send is over, no Android phone or Mac rings for an incident that
\* does not, and none is silent for one that does, unless the last event about
\* it was handed over while an earlier one was still being sent.
THEOREM RingsStop == Spec => []RingsAreStopped
<1>1. ASSUME SendsInv, Quiet, NEW d \in Devices, NEW i \in Incidents PROVE ~RingDue(d, i)
  BY <1>1 DEF Quiet, RingDue, NoCall
<1>2. IInv /\ SendsInv => RingsAreStopped
  BY <1>1 DEF IInv, Typed, TypeOK, SendsInv, RingsHold, WrongRing, RingsAreStopped
<1>3. QED BY <1>2, Invariance, SendsInvariance, PTL

\* When every send is over, an activity that was sent a state shows the present
\* one, under the same condition.
THEOREM ActivitiesAreRight == Spec => []ActivitiesSettle
<1>1. ASSUME SendsInv, Quiet, NEW d \in Devices, NEW i \in Incidents PROVE ~ShowDue(d, i)
  BY <1>1 DEF Quiet, ShowDue, NoCall
<1>2. IInv /\ SendsInv => ActivitiesSettle
  BY <1>1 DEF IInv, Typed, TypeOK, SendsInv, ShowsHold, WrongShow, ActivitiesSettle
<1>3. QED BY <1>2, Invariance, SendsInvariance, PTL
=============================================================================
