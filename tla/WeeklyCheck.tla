----------------------------- MODULE WeeklyCheck -----------------------------
(***************************************************************************)
(* The weekly delivery check (api.md 4.5): its rounds in check/store.ts,   *)
(* the scan of check/scheduler.ts with the senders of push/check.ts, the   *)
(* notes of alarm pushes in check/device-hooks.ts, and the routes.         *)
(*                                                                         *)
(* A turn of the scan plans device after device in one go until it has a   *)
(* push to send.  It then waits, for Google's access token and for each    *)
(* provider's answer; routes, alarms, changes of tier and token and a      *)
(* crash come in between.                                                  *)
(***************************************************************************)
EXTENDS Integers, Sequences, FiniteSets, SequencesExt

CONSTANTS Devices,      \* device ids, numbers so that they have an order
          Apple,        \* the devices APNs serves; FCM serves the others
          Slot,         \* slotFor: the second of the week a device has
          Offsets,      \* ATTEMPT_OFFSETS_S
          RoundLength,  \* ROUND_LENGTH_S
          Hold,         \* ALARM_HOLD_S
          MinGap,       \* MIN_ROUND_GAP_S
          Week,         \* WEEK_S
          Batch,        \* SCAN_BATCH
          Populations,  \* bound: which devices are registered
          MaxTime,      \* bound, per population: the clock
          EnrolBy,      \* bound: when a device enrols at the latest
          MaxTokens,    \* bound: tokens a device registers
          MaxChanges    \* bound, per population: crashes, alarms and changes of a device, of its tier or enrolment

ASSUME WeeklyAssumption ==
    /\ Devices \subseteq Nat /\ IsFiniteSet(Devices) /\ Apple \subseteq Devices
    /\ {RoundLength, Hold, MinGap, Week, Batch, MaxTokens} \subseteq Nat \ {0} /\ EnrolBy \in Nat /\ Populations \subseteq SUBSET Devices
    /\ MaxTime \in [Populations -> Nat] /\ MaxChanges \in [Populations -> Nat]
    /\ Slot \in [Devices -> 0..(Week - 1)]
    /\ Offsets \in Seq(Nat) /\ Offsets # <<>> /\ RoundLength < MinGap

NoTime == -1
NoDevice == [token |-> NoTime, rounds |-> <<>>]   \* the device was released
NoCheck == [round |-> 0]                \* it never enrolled
NoSend == [device |-> NoTime, stage |-> "none"]
NoScan == [on |-> FALSE, left |-> <<>>, send |-> NoSend]
MaxAttempts == Len(Offsets)

VARIABLES
    population,
    clock,
    db,      \* per device: its row and its account's tier, device_checks, check_rounds
    notes,   \* AlarmNotes: alarm pushes accepted and not written down yet
    scan,    \* the pass that runs: the devices it has left, the push it sends
    again,   \* history: a push left a second time
    changes  \* how many of the bounded changes came

vars == <<population, clock, db, notes, scan, again, changes>>

-----------------------------------------------------------------------------
(* The rows of one device, b, as check/store.ts changes them. *)

RoundAfter(d, opened) ==
    CHOOSE t \in (opened + MinGap)..(opened + MinGap + Week - 1) : t % Week = Slot[d]

Enrolled(b) == b # NoDevice /\ b.check # NoCheck
HasOpen(b) == Enrolled(b) /\ b.check.round # 0 /\ b.rounds[b.check.round].result = "none"
Over(b, r) == clock >= b.rounds[r].closes

(* A closed round's attempts and its hold decide nothing any more, and are  *)
(* forgotten.                                                              *)
Closed(x, result, reason, at) ==
    [x EXCEPT !.result = result, !.reason = reason, !.closedAt = at, !.attempts = <<>>, !.heldUntil = NoTime, !.left = {}]

(* A result is written once.  A skipped round moves no count. *)
MutClose(b, r, result, reason, at) ==
    LET closed == [b EXCEPT !.rounds[r] = Closed(@, result, reason, at), !.check.round = 0]
        missed == [closed EXCEPT !.check.misses = @ + 1, !.check.last = result,
                                 !.check.secondMiss = IF b.check.misses = 1 THEN at ELSE @]
    IN  IF b.rounds[r].result # "none" THEN b
        ELSE IF result = "received" THEN [closed EXCEPT !.check.misses = 0, !.check.last = result, !.check.secondMiss = NoTime]
        ELSE IF result = "skipped" THEN closed ELSE missed
Close(b, r, result, reason, at) ==
    LET closed == [b EXCEPT !.rounds[r] = Closed(@, result, reason, at)]
        freed == IF b.check.round # r THEN closed
                 ELSE [closed EXCEPT !.check.round = 0, !.check.attemptAt = IF b.check.enabled THEN b.check.dueAt ELSE NoTime]
        missed == [freed EXCEPT !.check.misses = @ + 1, !.check.last = result,
                                !.check.secondMiss = IF b.check.misses = 1 THEN at ELSE @]
    IN  IF b.rounds[r].result # "none" THEN b
        ELSE IF result = "received" THEN [freed EXCEPT !.check.misses = 0, !.check.last = result, !.check.secondMiss = NoTime]
        ELSE IF result = "skipped" THEN freed ELSE missed

(* Its close time came with no receipt: a miss only if a push was accepted. *)
Expire(b, r) ==
    LET x == b.rounds[r]
        holds == {x.heldUntil} \cup (IF b.alarmAt = NoTime THEN {} ELSE {b.alarmAt + Hold})
        held == x.attempts = <<>> /\ x.heldUntil # NoTime /\ \E h \in holds : h >= x.closes
    IN  IF "accepted" \in Range(x.attempts) THEN Close(b, r, "missed", "none", x.closes)
        ELSE Close(b, r, "skipped", IF held THEN "held" ELSE "unsent", x.closes)

Settle(b) == IF HasOpen(b) /\ Over(b, b.check.round) THEN Expire(b, b.check.round) ELSE b

NewRound == [opened |-> clock, closes |-> clock + RoundLength, closedAt |-> NoTime, attempts |-> <<>>,
             result |-> "none", reason |-> "none", heldUntil |-> NoTime,
             left |-> {}]   \* history: the attempts whose push left and that no host turned down

Open(b, d) ==
    [b EXCEPT !.rounds = Append(@, NewRound), !.check.round = Len(b.rounds) + 1, !.check.dueAt = RoundAfter(d, clock)]

Skip(b, d, reason) ==
    IF HasOpen(b) THEN Close(b, b.check.round, "skipped", reason, clock)
    ELSE [b EXCEPT !.rounds = Append(@, [NewRound EXCEPT !.closedAt = clock, !.result = "skipped", !.reason = reason]),
                   !.check.dueAt = RoundAfter(d, clock), !.check.attemptAt = RoundAfter(d, clock)]

(* The attempt is on record before its push leaves, and the next one is at *)
(* the next of the round's times that is still ahead.                      *)
Attempt(b, r) ==
    LET x == b.rounds[r]
        ahead == {x.opened + Offsets[k] : k \in DOMAIN Offsets} \cap (clock + 1)..x.closes
        last == Len(x.attempts) + 1 >= MaxAttempts
    IN  [b EXCEPT !.rounds[r].attempts = Append(@, "none"),
                  !.check.attemptAt = IF last THEN x.closes ELSE Min(ahead \cup {x.closes})]

Due(b) == Enrolled(b) /\ b.check.enabled /\ b.check.attemptAt <= clock
Held(b) == b.alarmAt # NoTime /\ clock - b.alarmAt < Hold

Plan(b, d) ==
    LET o == IF HasOpen(b) THEN b ELSE Open(b, d)
        r == o.check.round
        until == b.alarmAt + Hold
    IN  IF ~Due(b) THEN b
        ELSE IF HasOpen(b) /\ Over(b, b.check.round) THEN Expire(b, b.check.round)
        ELSE IF ~b.hosted THEN Skip(b, d, "tier")
        ELSE IF b.token = 0 THEN Skip(b, d, "no_token")
        ELSE IF Held(b) THEN [o EXCEPT !.check.attemptAt = Min({until, o.rounds[r].closes}), !.rounds[r].heldUntil = until]
        ELSE IF Len(o.rounds[r].attempts) >= MaxAttempts THEN [o EXCEPT !.check.attemptAt = o.rounds[r].closes]
        ELSE Attempt(o, r)

(* confirm: what is written when a planned push is no longer wanted. *)
Confirm(b, s) ==
    IF b = NoDevice \/ b.rounds[s.round].result # "none" THEN b
    ELSE IF ~b.check.enabled THEN Close(b, s.round, "skipped", "disabled", clock)
    ELSE IF Over(b, s.round) THEN Expire(b, s.round)
    ELSE IF ~b.hosted THEN Close(b, s.round, "skipped", "tier", clock)
    ELSE IF b.token = 0 THEN Close(b, s.round, "skipped", "no_token", clock)
    ELSE b
Wanted(c, s) == c # NoDevice /\ c.rounds[s.round].result = "none" /\ c.token = s.token

MutRecord(b, s, outcome) ==
    IF b = NoDevice \/ b.rounds[s.round].result # "none" THEN b
    ELSE [b EXCEPT !.rounds[s.round].attempts = Append(@, outcome)]
Record(b, s, outcome) ==
    IF b = NoDevice \/ b.rounds[s.round].result # "none" THEN b
    ELSE IF outcome = "refused" THEN Close(b, s.round, "refused", "none", clock)
    ELSE [b EXCEPT !.rounds[s.round].attempts[s.attempt] = outcome]

-----------------------------------------------------------------------------
(* The scan: check/scheduler.ts with push/check.ts. *)

Flushed(t) ==
    [d \in Devices |-> IF t[d] = NoDevice \/ notes[d] <= t[d].alarmAt THEN t[d] ELSE [t[d] EXCEPT !.alarmAt = notes[d]]]

DueLists(t) ==   \* the oldest due first, then by id
    LET due == {d \in Devices : Due(t[d])}
        Before(d, e) == \/ t[d].check.attemptAt < t[e].check.attemptAt
                        \/ t[d].check.attemptAt = t[e].check.attemptAt /\ d < e
    IN  {list \in [1..Min({Batch, Cardinality(due)}) -> due] :
            /\ \A j, k \in DOMAIN list : j < k => Before(list[j], list[k])
            /\ \A d \in due \ Range(list), k \in DOMAIN list : Before(list[k], d)}

(* An Apple push leaves in the turn that planned it; Google's waits for an *)
(* access token first.                                                     *)
SendOf(b, d) ==
    [device |-> d, round |-> b.check.round, attempt |-> Len(Last(b.rounds).attempts), token |-> b.token,
     host |-> 1, stage |-> IF d \in Apple THEN "out" ELSE "token"]
Attempts(b) == IF HasOpen(b) THEN Len(Last(b.rounds).attempts) ELSE 0

Pushes(t, d) == Attempts(Plan(t[d], d)) > Attempts(t[d])
Planned(t, list) == [d \in Devices |-> IF d \in Range(list) THEN Plan(t[d], d) ELSE t[d]]

(* A push that leaves, and one that the host turned down. *)
Left(t, s) == IF s.stage = "out" THEN [t EXCEPT ![s.device].rounds[s.round].left = @ \cup {s.attempt}] ELSE t
LeftBefore(t, s) == s.stage = "out" /\ s.attempt \in t[s.device].rounds[s.round].left
TurnedDown(b, s) == IF b = NoDevice THEN b ELSE [b EXCEPT !.rounds[s.round].left = @ \ {s.attempt}]

(* A turn of the scan over list, from the rows t once the notes are        *)
(* flushed: device after device until one has a push to send.              *)
Turn(t, list) ==
    /\ \/ /\ \A k \in DOMAIN list : ~Pushes(t, list[k])
          /\ db' = Planned(t, list) /\ scan' = NoScan /\ UNCHANGED again
       \/ \E k \in DOMAIN list :
             /\ Pushes(t, list[k]) /\ \A j \in 1..(k - 1) : ~Pushes(t, list[j])
             /\ \E u \in {Planned(t, SubSeq(list, 1, k))} : \E s \in {SendOf(u[list[k]], list[k])} :
                   /\ db' = Left(u, s) /\ again' = (again \/ LeftBefore(u, s))
                   /\ scan' = [on |-> TRUE, left |-> SubSeq(list, k + 1, Len(list)), send |-> s]
    /\ notes' = [d \in Devices |-> NoTime]

ScanStart ==
    /\ ~scan.on
    /\ \E t \in {Flushed(db)} : \E list \in DueLists(t) : Turn(t, list)
    /\ UNCHANGED <<population, clock, changes>>

(* What the push came to is recorded; the scan goes on with what it has    *)
(* left, or its 45 s are over.                                             *)
MutEnds(s, b, outcome) ==
    \E t \in {[db EXCEPT ![s.device] = Record(b, s, outcome)]} :
        \/ \E u \in {Flushed(t)} : Turn(u, scan.left)
        \/ scan.left # <<>> /\ db' = t /\ scan' = [scan EXCEPT !.send = NoSend] /\ UNCHANGED <<notes, again>>
Ends(s, b, outcome) ==
    \E t \in {[db EXCEPT ![s.device] = Record(b, s, outcome)]} :
        \/ \E u \in {Flushed(t)} : Turn(u, scan.left)
        \/ scan.left # <<>> /\ db' = t /\ scan' = NoScan /\ UNCHANGED <<notes, again>>

(* Asked just before the bytes leave for a host. *)
Ask(s, b, host) ==
    LET out == [s EXCEPT !.stage = "out", !.host = host] IN
    \E c \in {Confirm(b, s)} :
        \/ /\ Wanted(c, s)
           /\ db' = Left([db EXCEPT ![s.device] = c], out)
           /\ again' = (again \/ LeftBefore([db EXCEPT ![s.device] = c], out))
           /\ scan' = [scan EXCEPT !.send = out] /\ UNCHANGED notes
        \/ ~Wanted(c, s) /\ Ends(s, c, "failed")

AccessToken ==
    LET s == scan.send IN
    /\ s.stage = "token"
    /\ Ask(s, db[s.device], 1) \/ Ends(s, db[s.device], "failed")
    /\ UNCHANGED <<population, clock, changes>>

(* Accepted, refused, anything else or no answer in time; the wrong host   *)
(* leads to one request to the other.                                      *)
MutAnswer ==
    LET s == scan.send IN
    /\ s.stage = "out"
    /\ \/ \E outcome \in {"accepted", "refused", "failed"} : Ends(s, db[s.device], outcome)
       \/ s.device \in Apple /\ s.host = 1 /\ Ask(s, db[s.device], 2)
    /\ UNCHANGED <<population, clock, changes>>
Answer ==
    LET s == scan.send
        b == db[s.device]
    IN  /\ s.stage = "out"
        /\ \/ \E outcome \in {"accepted", "refused", "failed"} : Ends(s, b, outcome)
           \/ s.device \in Apple /\ s.host = 1 /\ Ask(s, TurnedDown(b, s), 2)
        /\ UNCHANGED <<population, clock, changes>>

-----------------------------------------------------------------------------
(* The routes, and what changes around the check. *)

Write(d, b) == db' = [db EXCEPT ![d] = b] /\ UNCHANGED <<population, clock, notes, scan, again>>
Change == changes < MaxChanges[population] /\ changes' = changes + 1

Enable(d) ==   \* first time: due at once; again: the schedule it had
    LET b == db[d] IN
    /\ b # NoDevice /\ b.hosted /\ (b.check = NoCheck => clock <= EnrolBy)
    /\ Write(d, Settle(IF b.check = NoCheck
                       THEN [b EXCEPT !.check = [enabled |-> TRUE, attemptAt |-> clock, dueAt |-> clock, round |-> 0,
                                                 misses |-> 0, last |-> "none", secondMiss |-> NoTime]]
                       ELSE IF b.check.enabled THEN b
                       ELSE [b EXCEPT !.check.enabled = TRUE, !.check.attemptAt = b.check.dueAt]))

Disable(d) ==
    LET b == db[d]
        off == [b EXCEPT !.check.enabled = FALSE, !.check.attemptAt = NoTime]
        r == b.check.round
    IN  /\ Enrolled(b) /\ b.check.enabled
        /\ Write(d, IF ~HasOpen(b) THEN off
                    ELSE IF Over(b, r) THEN Expire(off, r) ELSE Close(off, r, "skipped", "disabled", clock))

View(d) == Settle(db[d]) # db[d] /\ Write(d, Settle(db[d]))

MutReceipt(d, r) ==
    LET b == db[d] IN
    /\ b # NoDevice /\ b.rounds[r].left # {}
    /\ Write(d, IF b.rounds[r].result = "none" THEN Close(b, r, "received", "none", clock)
                ELSE b)
Receipt(d, r) ==
    LET b == IF db[d].rounds[r].result = "none" /\ Over(db[d], r) THEN Expire(db[d], r) ELSE db[d] IN
    /\ db[d] # NoDevice /\ db[d].rounds[r].left # {}
    /\ Write(d, IF b.rounds[r].result = "none" THEN Close(b, r, "received", "none", clock)
                ELSE b)   \* late_receipt_at decides nothing and is left out

(* PATCH with another push token: due at once if it has misses. *)
MutNewToken(d) ==
    /\ db[d] # NoDevice /\ db[d].minted < MaxTokens /\ Enrolled(db[d])
    /\ Write(d, [db[d] EXCEPT !.token = db[d].minted + 1, !.minted = @ + 1, !.check.misses = 0])
NewToken(d) ==
    LET b == [db[d] EXCEPT !.token = db[d].minted + 1, !.minted = @ + 1] IN
    /\ db[d] # NoDevice /\ db[d].minted < MaxTokens
    /\ Write(d, IF Enrolled(b) /\ b.check.enabled /\ b.check.misses > 0 /\ b.check.round = 0
                THEN [b EXCEPT !.check.dueAt = clock, !.check.attemptAt = clock] ELSE b)

TokenErased(d) ==   \* the alarm's sender was told that the token is dead
    /\ db[d] # NoDevice /\ db[d].token # 0
    /\ Write(d, [db[d] EXCEPT !.token = 0])

TierChanges(d) == db[d] # NoDevice /\ Write(d, [db[d] EXCEPT !.hosted = ~@])
Release(d) == db[d] # NoDevice /\ Write(d, NoDevice)

AlarmAccepted(d) ==
    /\ db[d] # NoDevice /\ db[d].token # 0 /\ notes[d] # clock
    /\ notes' = [notes EXCEPT ![d] = clock]
    /\ UNCHANGED <<population, clock, db, scan, again>>

Crash ==   \* and the restart
    /\ scan' = NoScan /\ notes' = [d \in Devices |-> NoTime]
    /\ UNCHANGED <<population, clock, db, again>>

Tick ==   \* over a device that is due only when the relay is down or behind
    /\ clock < MaxTime[population]
    /\ clock' = clock + 1
    /\ IF \E d \in Devices : Due(db[d]) THEN Change ELSE UNCHANGED changes
    /\ UNCHANGED <<population, db, notes, scan, again>>

Init ==
    /\ population \in Populations /\ clock = 0
    /\ db = [d \in Devices |->
               IF d \notin population THEN NoDevice
               ELSE [token |-> 1, minted |-> 1, hosted |-> TRUE, alarmAt |-> NoTime, check |-> NoCheck, rounds |-> <<>>]]
    /\ notes = [d \in Devices |-> NoTime] /\ scan = NoScan /\ again = FALSE /\ changes = 0

Routes ==
    /\ \E d \in Devices : Enable(d) \/ View(d) \/ \E r \in DOMAIN db[d].rounds : Receipt(d, r)
    /\ UNCHANGED changes
Around ==
    /\ Change
    /\ Crash \/ \E d \in Devices :
          Disable(d) \/ NewToken(d) \/ TokenErased(d) \/ TierChanges(d) \/ Release(d) \/ AlarmAccepted(d)
Sending == AccessToken \/ Answer
Next == ScanStart \/ Sending \/ Routes \/ Around \/ Tick

Spec == Init /\ [][Next]_vars
(* The interval fires again, and a request has a time limit. *)
FairSpec == Spec /\ WF_vars(ScanStart) /\ WF_vars(Sending)

-----------------------------------------------------------------------------
Rounds == [opened : Nat, closes : Nat, closedAt : Int, attempts : Seq({"none", "accepted", "refused", "failed"}),
           result : {"none", "received", "missed", "refused", "skipped"},
           reason : {"none", "tier", "no_token", "disabled", "held", "unsent"}, heldUntil : Int, left : SUBSET (1..MaxAttempts)]
Checks == [enabled : BOOLEAN, attemptAt : Int, dueAt : Nat, round : Nat, misses : Nat,
           last : {"none", "received", "missed", "refused"}, secondMiss : Int]
TypeOK ==
    /\ population \in Populations /\ clock \in 0..MaxTime[population]
    /\ \A d \in Devices : db[d] = NoDevice \/
          /\ db[d].token \in 0..MaxTokens /\ db[d].hosted \in BOOLEAN /\ db[d].alarmAt \in Int
          /\ db[d].check = NoCheck \/ db[d].check \in Checks
          /\ \A r \in DOMAIN db[d].rounds : db[d].rounds[r] \in Rounds /\ Len(db[d].rounds[r].attempts) <= MaxAttempts
    /\ notes \in [Devices -> Int] /\ again \in BOOLEAN /\ changes \in 0..MaxChanges[population]

(* What a phone is told of its last rounds is what the rounds say: misses  *)
(* counts the run of missed and refused ones since the last receipt, and   *)
(* second_miss_at is the close of the second (viewOf, noticeAfter).        *)
Counted(b) == {r \in DOMAIN b.rounds : b.rounds[r].result \in {"received", "missed", "refused"}}
MissRun(b) == {r \in Counted(b) : \A q \in Counted(b) : b.rounds[q].result = "received" => q < r}
MissesAreTheRun ==
    \A d \in Devices : Enrolled(db[d]) =>
        LET b == db[d] IN
        /\ b.check.misses = Cardinality(MissRun(b))
        /\ IF Counted(b) = {} THEN b.check.last = "none"
           ELSE \E r \in Counted(b) : b.check.last = b.rounds[r].result /\ \A q \in Counted(b) : q <= r
        /\ b.check.misses >= 2 =>
              \E q, r \in MissRun(b) :
                 /\ q < r /\ \A x \in MissRun(b) : x \in {q, r} \/ x > r
                 /\ b.check.secondMiss = b.rounds[r].closedAt

(* Who owed what when a round closed: a receipt counted before its close   *)
(* time, a miss had an accepted push, a held round sent nothing at all.    *)
VerdictsAreFair ==
    [][\A d \in Devices : db'[d] # NoDevice => \A r \in DOMAIN db[d].rounds :
          LET x == db[d].rounds[r]
              y == db'[d].rounds[r]
          IN  /\ x.result # "none" => y.result = x.result
              /\ x.result = "none" =>
                    /\ y.result = "received" => y.closedAt < x.closes /\ x.left # {}
                    /\ y.result = "missed" => "accepted" \in Range(x.attempts)
                    /\ y.reason = "held" => x.left = {}]_vars

(* A push on record leaves at most once, over crashes and the second host. *)
SentOnce == ~again

(* Nobody can ask for a push: a round opens MIN_ROUND_GAP_S after the one  *)
(* before it or later, unless a new token was registered on a miss.        *)
RoundsApart ==
    [][\A d \in Devices :
          db[d] # NoDevice /\ db'[d] # NoDevice /\ Len(db'[d].rounds) > Len(db[d].rounds) /\ db[d].rounds # <<>>
          => db[d].check.misses > 0 \/ clock >= Last(db[d].rounds).opened + MinGap]_vars

(* No check leaves for a device within the hold after an alarm it is known *)
(* to have taken (api.md 4.5, Checks and alarms).                          *)
HoldIsKept ==
    [][LET s == scan'.send IN
       s.stage = "out" /\ s # scan.send =>
           \A at \in {notes[s.device], db[s.device].alarmAt} : at # NoTime => clock - at >= Hold]_vars

(* A device that is due has its turn, however many are and through any     *)
(* number of crashes.                                                      *)
DueIsServed == \A d \in Devices : Due(db[d]) ~> ~Due(db[d])
=============================================================================
