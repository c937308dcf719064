# CritAlarm server: formal specification

TLA+ specifications of the CritAlarm server, the TLC configurations that check
them on small instances, and theorems about them that TLAPS checks. Paths below
are relative to the repository: `src/incident/service.ts` is its TypeScript,
`docs/api.md` its API contract.

CritAlarm turns a published message into an alarm on a phone. A priority 5
message on a critical topic opens an *incident*, which rings every
`repeat_interval_s` until somebody acknowledges it or `max_ring_s` is over. An
ack ("I'm up") stops the ringing and starts a desk timer; unless somebody closes
the incident ("At my desk") before it ends, the incident rings again.

## 1. Inventory

The server is one Node process: a single JavaScript thread over one synchronous
SQLite handle (`better-sqlite3`). A handler is atomic between two `await`s, so
what interleaves is the code between awaits, the timers the process sets itself
(`setInterval`), the operator's command line (a second process on the same
database file) and the outside world (phones, push providers, billing).

| component | code | state it keeps | operations | made correct by |
|---|---|---|---|---|
| Incident engine | `incident/service.ts`, `incident/scanner.ts` | `incidents`, `timers` | publish, ack, close, timer scan | one active incident per topic; timers agree with states; no ring after the end; nothing silenced for good |
| Publish ingress | `ingress/*` | none; a topic's row is carried across the await of the body | publish | settings that changed meanwhile harm nothing |
| Topic settings | `v1/topics.ts` | `topics`, `topic_tokens` | create, patch, delete, tokens | cap on critical topics; a window belongs to its incident |
| Management routes | `v1/router.ts` | none | ack, close, list, detail | what the phone is told is what is |
| Retention | `retention/prune.ts` | none | hourly delete | live incidents stay |
| Process wiring | `main.ts`, `server-node.ts` | timers in memory | boot scan, 250 ms scan, dispatch | no timer is lost over a restart |
| Command line | `cli.ts`, `admin/*` | none | account delete, reports | a second writer harms no running scan |
| Push dispatcher | `push/dispatcher.ts` | push tokens | dispatch one batch | stale tokens only are erased; one failure stops nothing else |
| Provider senders | `push/apns.ts`, `push/fcm.ts`, `push/check.ts`, `push/jwt.ts` | cached provider token | send | I/O |
| Weekly check | `check/*` | enrolments, rounds, attempts, holds | enrol, plan, send, receipt, close, skip | a verdict is written once and was earned; a push on record leaves at most once; the count of misses is what the rounds say |
| Billing reads | `tier/billing-reads.ts`, `tier/entitlement-read.ts` | dirty marks, flights, retry queue | trigger, read, apply, scan | a trigger leads to a read that began after it; older answers lose |
| Tier events | `tier/revenuecat.ts`, `tier/reconcile.ts`, `tier/packs.ts`, `tier/p4-usage.ts` | `accounts.tier`, packs, daily counts | webhook, sweep, charge | event order; caps |
| Relay | `relay/client.ts`, `relay/router.ts`, `relay/challenge.ts` | relay key (client), server rows (relay) | forward, register, challenge, push | one live key; one registration at a time |
| Accounts | `v1/accounts.ts`, `tier/devices.ts`, `tier/subscriptions.ts`, `tier/auth.ts` | accounts, tombstones, devices, tokens | link, switch, merge, delete, register device | credentials resolve to live accounts; a device rings for the topics of the account it is on |
| Limits and counters | `rate-limit.ts`, `body-limit.ts`, `stats/counters.ts` | sliding windows | allow, count | bound per window |
| Cancel answers | `v1/cancel-answers.ts` | one row per account | upsert | simple |
| Sign-in | `auth/*` | better-auth's tables | external library | external |
| Storage | `store/*` | schema, migrations | migrate | unique indexes, foreign keys |
| Configuration | `config.ts`, `platform.ts` | none | parse | none |

How they interact. Ingress, the management routes and the scan call the incident
engine, which commits and returns *delivery events*; `main.ts` hands those to the
relay client (self-hosted) and to the push dispatcher, always after the
transaction and never inside it. Publish and ack await the dispatch before they
answer. Topics, accounts and retention share the engine's tables through
foreign keys. The weekly check learns from the dispatcher which device rang last
(`check/device-hooks.ts`) and keeps out of its way. Billing decides the tier,
and the tier decides the caps that topics and ingress enforce.

What is hard here:

- *between two awaits*: a publish uses settings read before its body arrived; a
  topic request uses the account read before its body; a check is planned before
  its sender has a provider token; an account delete checks,
  awaits the sign-in providers, then deletes; the billing sweep reads, awaits,
  writes;
- *inside the scan*: one select serves many transactions, and the operator's
  process commits between them;
- *crashes*: timers are rows, so they survive; delivery events, billing flights
  and notes of the weekly check are in memory and do not;
- *order*: two dispatches run side by side; webhooks and relay answers come late
  or twice;
- *must happen*: an incident must stop ringing, an ack must be followed up, a
  billing trigger must be read, a check round must close.

`PROJECT.json` lists each at its line ("hazards"), with the properties that cover
it or the reason none does.

## 2. Plan

Written, in this order:

1. `IncidentEngine` with `IncidentLifecycle` as its abstract specification: the
   part that decides whether a phone rings;
2. `IncidentEngineProofs`, `IncidentRefinementProofs`;
3. `IncidentClient`, which composes the engine with one phone;
4. `PushDispatch`: calls of dispatch that run side by side, answers about old
   tokens, Live Activity pushes whose event and state come from different moments;
5. `Billing`: reads, their queue and fence, events and the sweep, over crashes and
   over two processes on one database;
6. `WeeklyCheck`: rounds, attempts, receipts, holds, and the scan cut at its awaits;
7. `Accounts`: link, switch, merge and erase, with requests that wait;
8. `Relay`: the client's key and the relay's registrations as two sides that
   exchange messages.

The modules are composed where the code shares state that one side relies on:
`IncidentClient` extends the engine, and `IncidentEngine` implements
`IncidentLifecycle`. Between the others the interface is narrow, and each takes
the other side as an input in its weakest form: `Accounts` lets any topic token
open an incident at any time, `PushDispatch` any incident be acked or closed,
`WeeklyCheck` any alarm be accepted and any tier change, `Relay` any event be
forwarded. `Accounts` and `Billing` both have the merge, each the tables it moves.

To come: packs with operator grants (`tier/packs.ts`), the daily heads-up count
(`tier/p4-usage.ts`), the page limit of the incident list in `IncidentClient`,
and the sliding window of `rate-limit.ts` as a pure operator against a reference
definition.

The proofs stand in modules of their own: `IncidentEngineProofs`,
`IncidentRefinementProofs`, `IncidentClientProofs`, `PushDispatchProofs`,
`WeeklyCheckProofs`, `AccountsProofs`, `RelayProofs`, `BillingProofs`. Each module
takes its sets and bounds as CONSTANTS with named assumptions and declares no
RECURSIVE operator, so that it can be proved about.

## 3. The modules

### IncidentEngine

| variable | in the code |
|---|---|
| `clock` | `Math.floor(Date.now() / 1000)` of `main.ts` |
| `up`, `crashes` | the process runs; how often it died |
| `topic` | `topics`: existence, `critical`, the three settings |
| `incident` | `incidents`: `state`, `topic_id`, `opened_at`, `acked_at`, `updated_at`, `max_ring_s`; a row that is gone keeps its last columns and the state "deleted", so that a stale reference to it can be followed |
| `timers` | `timers`: incident, kind, `fire_at` |
| `request` | the `TopicRecord` that `ingress/router.ts` reads before `await readCappedBody` and uses after it |
| `scan` | the rows of `scanDue`'s select that are not served yet, and the events collected so far |
| `emitted` | the events about incidents that the last step returned to `dispatch` |

Actions: `CreateTopic`, `PatchTopic`, `DeleteTopic` (`v1/topics.ts`);
`OperatorDelete` (`cli.ts`); `PublishBegin`, `PublishCommit`, `PublishAbandon`
(`ingress/*`, `publishCritical`); `Acknowledge`, `Close` (`service.ts`);
`ScanBegin`, `ProcessTimer`, `ScanEnd` (`scanDue`, `processTimer`, and
`scanner.ts`); `PruneHistory` (`retention/prune.ts`); `Tick`, `Crash`, `Restart`.

How atomic they are. A request handler up to its first await, and a transaction,
is one step. The scan is synchronous, so no handler runs during it (`Idle`); but
each of its transactions reads the clock anew, and the operator's process writes
to the same file, so `Tick`, `OperatorDelete` and `Crash` may come between its
steps. A publish is two steps around the await of its body.

Left out: message text and ids, `closed_at`, `last_message_at` and priorities 1
to 4 (nothing in the engine branches on them); a publish to a topic that is not
critical stores a message and sends a heads-up about no incident, so it changes
nothing modelled. `OperatorDelete` also stands for `DELETE /v1/account`, which
refuses while an incident rings and so does less. A merge of two accounts moves
topics that have no active incident; `Accounts` has it.

### IncidentLifecycle

The promise: a state diagram of `none -> open -> acked -> closed`, with
`open -> expired` and `acked -> open` only once a deadline has passed, a single
live incident per topic, and removal only of what is over or of a whole topic.
It knows no timers, scans, requests or crashes. `IncidentEngine` instantiates it
with `until <- Deadline(i)`: `opened_at + max_ring_s` of an open incident, the
`fire_at` of the desk timer of an acked one.

### IncidentClient

Extends the engine with one phone: `rung` (when an open, repeat or re-ring of an
incident was last handed to dispatch), and an app that calls
`GET /v1/incidents?since=` with the newest `updated_at` it holds (`Sync`). Acks and
closes, this phone's own included, are the engine's `Acknowledge` and `Close`. The
list's page limit is left out: a sync returns every row that matches.

### PushDispatch

The devices with the two places that hold an alarm token (`push` for
`devices.push_token`, `alarm` for the row of `device_tokens`), the Live Activity
rows (`start`, `activity`), the phones' side (`current`, `dismissed`) and the
calls of dispatch in progress (`call`). A call is cut where it awaits: `Takes`
(the select of an event's devices and the first send), `AlarmAnswer` (what one
answer changes, and the next send), `Activities` (the state is read, and the
first activity push), `ActivityAnswer`, `NextEvent`. `Dispatch` is the hand-over
from a route or a scan, atomic with the change of state up to the first send.
The incidents are a state diagram without deadlines: what the engine guarantees
about them is `EventsAreCurrent`, which the hand-over has by construction here.
`told`, `shown` and `overlap` are history and change no behaviour.

Each incident has a topic of its own that every device follows; subscriptions do
not change. Left out: the Apple host kept per device (`apns_environment` only
saves a second attempt), the tally of delivered pushes, and relayed pushes, whose
events are about incidents of another server.

### Billing

| variable | in the code |
|---|---|
| `mode` | `REVENUECAT_READS`: reads are on, or events and the sweep write ("off", and "shadow", which writes the same) |
| `rolling` | whether a new process starts before the old one has ended |
| `into`, `tier` | `accounts.merged_into` and `accounts.tier` |
| `row` | `account_billing_ids` with `read_seq`, `applied_seq` and `last_event_at`, and the pack of `billing_packs` |
| `queue` | `billing_reads`: due or not, attempts, the dirty mark |
| `applied` | `billing_events`, and which path took the event |
| `store` | the version of a customer's list in the store |
| `proc`, `mem` | the processes, and the `flights`, `unlinked` and scan state of each one's `BillingReads` |

A read is three steps: `takeNumber` and the request (`Start`), the store's answer
(`StoreAnswers`), and the turn that handles it (`ReadEnds`: `apply`, or `failed`,
with what `takeDirty`, the waiting callers and the scan do in that turn). The scan
is a loop over the queue that awaits one read after another (`ScanNext`). `Read`
is a call of `read()`, `Queued` a trigger, `RetryDue` a retry whose time has come,
`TimerWake` the minute's wake, `SweepAsks` and `SweepEnds` the sweep around its
await. `MergeAccounts`, `Attach` and `DeleteAccount` move or erase the rows under
all of these. A customer id of the store is an account id.

What a turn of a process works on is one record (`Now`), which operators change in
the order the code does (`Start`, `Handled`, `Cleared`, `OneMore`) and `Commit`
writes. `FollowMerge` follows `merged_into` for eight hops, as the code's loop does,
by doubling one hop three times. `Queued` is `queueReadsForEvent` for all the
customers an event names: the loop's passes touch different customers, so it is
written for each of them at once.

Left out: the billing ids a webhook's transfer invents, several packs, operator
grants, the wording of tier changes, and how long a retry waits.

### WeeklyCheck

| variable | in the code |
|---|---|
| `db` | per device: `devices.push_token`, `last_alarm_push_at`, its account's tier, `device_checks` and `check_rounds` with `check_attempts` |
| `notes` | `AlarmNotes`: accepted alarm pushes that are not in the table yet |
| `scan` | the scan's pass: the devices it has left, and the push it is sending |
| `again`, `changes` | history, and the bound on changes from outside |

`ScanStart` flushes the notes, reads the due list and works through it until a
push is planned (`Turn`: it has planned the devices before the one it sends to, each with the
skips, closes and holds of `plan`, and kept those after it for later);
`AccessToken` is the wait for Google's token, after which the sender asks `confirm`
(`Ask`); `Answer` is a provider's answer, which may lead to the second Apple host
and is `record` otherwise. Routes, alarms and changes come between any two of
these: `Enable`, `Disable`, `View`, `Receipt`, `NewToken`, `TokenErased`,
`TierChanges`, `Release`, `AlarmAccepted`. `Crash` loses the scan and the notes.

Left out: late receipts, `last_sent_at`, `last_received_at` and `notice_after`
(they are told to the phone and decide nothing), the deletion of old rounds, and
the provider's status beyond accepted, refused or failed. A closed round forgets
its attempts, because nothing reads them again.

### Accounts

| variable | in the code |
|---|---|
| `into`, `join` | `accounts.merged_into`, `accounts.join_token_hash` |
| `owner` | `account_identities` |
| `home`, `subs` | `devices.account_id`, `subscriptions` |
| `topics`, `tokens`, `alarms` | `topics`, `topic_tokens`, the active `incidents` |
| `req` | a request between its authentication and its handler, or an erase that awaits the providers, with the account it holds |
| `chosen` | the pairs a device's owner chose, to say which subscriptions the sweeps decide |

One action for each outcome of a route that writes (`Claim`, `Attach`, `Switch`,
`Merge`, `EraseAsked`, `EraseDone`, `CreateTopic`, ...), and `Refuse` for all that
write nothing. `LiveAccount` and `Family` follow `merged_into` for `MaxHops` hops, as
the code's loops do for eight, and `Erase` is refused by the foreign key of
`merged_into` when a tombstone beyond them still points into the family. `Caller` is the account a handler runs with: just read, or read
before its body came. One `BASE_URL` is modelled, so a topic's hash is its name.

### Relay

| variable | in the code |
|---|---|
| `base`, `stored` | `BASE_URL`, `relay_client_credentials` |
| `reg`, `backoff`, `boot` | the shared registration with its challenge, the back-off, the startup call |
| `fw` | the forwards: which push of the event, with which key, after which repeat |
| `calls` | the `POST /relay/v1/servers` calls, from the request to the answer |
| `live`, `inFlight` | `relay_servers`, the router's count of confirmations |

A forward makes its secret and its plain push in turn (`Begin`, `Answered`), each
with `key()` of its own (`TakeKey`). A registration goes `posted`, `confirming`,
`proved` or `unproved`, `issued` or `refused`, while the client may give it up
(`RegistrationTimeout`) and ask anew. The relay looks a key up before it awaits
the body (`Authorise`, `Accept`). Rate limits are refusals that may come at any
time.

## 4. The runs

| run | cfg | distinct states, time | shows |
|---|---|---|---|
| engine | `MC_IncidentEngine.cfg` | 0.7 M, 2 min | safety and liveness of the engine, and that it implements `IncidentLifecycle` |
| client | `MC_IncidentClient.cfg` | 0.3 M, 6 s | what a phone hears and holds when no process dies |
| client_sync | `MC_IncidentClient_Sync.cfg` | counterexample | finding 1 |
| client_crash | `MC_IncidentClient_Crash.cfg` | counterexample | finding 2 |
| push | `MC_PushDispatch.cfg` | 0.5 M, 40 s | what calls that overlap leave behind |
| push_activity | `MC_PushDispatch_Activity.cfg` | counterexample | finding 3 |
| billing | `MC_Billing.cfg` | 0.1 M, 3 min | order and freshness of what billing writes, and that triggers are read |
| weekly | `MC_WeeklyCheck.cfg` | 0.1 M, 1 min | verdicts, counts and sends of the weekly check |
| weekly_hold | `MC_WeeklyCheck_Hold.cfg` | counterexample | finding 4 |
| accounts | `MC_Accounts.cfg` | 0.4 M, 2 min | where credentials, devices, tokens and topics end up |
| accounts_stale | `MC_Accounts_Stale.cfg` | counterexample | finding 5 |
| relay | `MC_Relay.cfg` | 4.1 M, 1 min | the client's key and the relay's registrations |

Properties of the engine:

- `TypeOK`;
- `OneActivePerTopic`: the unique index on active incidents never trips;
- `TimersMatchState`: an open incident has one repeat and one expire timer, an
  acked one has one desk timer, any other has none;
- `ExpireAtWindowEnd`: the expire timer is at `opened_at + max_ring_s`;
- `EventsAreCurrent`: an event is true when it is handed over, although a scan
  collects it several transactions earlier. This rests on the select's
  ORDER BY, which serves expiries first: the mutant serves repeats first;
- `ScanAgrees`: a row the scan has yet to serve is as it was read. The code
  uses `opened_at` and `max_ring_s` of the select inside a later transaction, and
  this is why it may;
- `TimersSetAhead`: no step sets a timer that is due, so a late scan serves each
  timer once;
- `WindowKept`: only a re-ring after an ack restarts the window;
- `ChangesAreStamped`: each change of state is visible to `since`;
- `ImplementsLifecycle`: the refinement;
- `ExpiryHappens`, `DeskHappens`, `RepeatHappens`: ringing ends, an ack is
  followed up, repeats ring.

Properties of the client: `RungWithinRepeat` (when a scan has nothing left to
serve, an open incident rang less than one interval ago) and
`SyncLosesOneSecond` (what `since` does guarantee).

Properties of the dispatcher: `LiveTokensKept` (no answer about an old token
erases the present one), `RingsAreStopped` and `ActivitiesSettle` (once every send
is over, what a device or an activity was told last agrees with its incident,
unless two calls about it overlapped) and `EndsNameAnEnd` (a push that ends an
activity never says it is open). Without the exception the second and third are
false: a repeat that is still being sent to a second phone when the first one
acks reaches the second phone after the ack's own push. No document promises
otherwise, so this is recorded as a hazard and not as a finding.

Properties of billing:

- `TierIsBacked`: an account is on the tier its own customers pay for, after any
  order of reads, events, sweeps, merges and deletes. The one exception is an event
  that has repointed the row of an attached customer and whose read is to come;
- `FenceHolds`: no result is written over one that was asked for later, over two
  processes that share the database;
- `ConfirmedIsFresh`: a caller who is told that the store was read sees a result no
  older than the call, also when it joined a read that was running. With two
  processes at once this is not promised, so it speaks of one;
- `EventsInOrder`: an older event writes no tier after a newer one has marked the
  customer, whichever path took that one;
- `TriggerIsRead`: a trigger that was answered is followed by a read that is
  written or fails through all its retries.

Properties of the weekly check:

- `MissesAreTheRun`: `misses`, `last_result` and the second miss agree with the
  rounds;
- `VerdictsAreFair`: a result is written once; a receipt counts before the close
  time only; a miss needs an accepted push; a held round sent nothing;
- `SentOnce`: a push on record never leaves a second time, although a crash may
  come between the record and the send, and Apple has two hosts;
- `RoundsApart`: nobody can ask for a push: a round opens a minimum gap after the
  one before;
- `DueIsServed`: a due device gets its turn.

Properties of accounts:

- `AccountsResolve`: no device, identity or join token is left on a tombstone or
  an erased account, and every tombstone leads to a live account within the hops;
- `RingsFollowTheAccount`: where a device did not choose for itself, it is
  subscribed to exactly the topics of its account;
- `TokensFollowTheAccount`: a topic of a live account keeps a token, and one that
  works on a tombstone comes from a request that was authenticated before;
- `OneAlarmPerTopic`: no fold of two topics brings two active incidents together.

Properties of the relay: `PushedOnce` (no hash of an event is pushed again after
the relay took it), `LiveKeyKept` (a key that answers for the current `BASE_URL`
is never dropped), and in `TypeOK` the count of confirmations and one key per
`base_url`.

Each property of a passing run has a mutant in `PROJECT.json`: an operator `Mut...`
that stands beside the definition it changes, as a plausible bug would, and with
which TLC finds the property violated.

Bounds, and why they are enough. One topic: topics share nothing but the cap, the
scan's batch and the operator's delete, and the theorems of section 6 hold for any
number of them. Two incidents: a second one can be opened only when the first is
over, so two show every pair of "the one before" and "the one now". One request
in flight: the commit of a publish depends on what other steps did since its
begin, and every other step can come in between. `MaxTime` 4 with settings of 1
and 2: enough for a window, an ack, a re-ring and the end of the second window;
`History` 2 lets retention act within it. `MaxCrashes` 1. `Settings` is what a
topic can be patched to: windows and intervals longer and shorter than the
defaults. `MaxTime` and `MaxCrashes` appear only in the guards of `Tick` and
`Crash`. Deadlock is not checked: at `MaxTime` with nothing due, the bounded
system may stop.

The dispatcher: an iPhone and a Mac, because between them they have Live
Activities, tokens that Apple can refuse, and state kinds (an Android phone is a
Mac whose token is never refused); two incidents, so that one batch of a scan is
about both; two calls at once, three in all, so that a third call can follow an
overlap of the first two; two changes to tokens (`MaxChanges`), enough for a new
token and its registration, or an activity and its end, while a send is out. Its
initial state has both devices registered.

Billing: two customers, one of whom is joined into the other; two versions of a
list (paid, then lapsed); one retry. One process that may crash, with two events
and two reads asked for, one of which may fail; or two processes at once with one
event, for the fence. More of either multiplies the states and adds no new
interleaving of two reads of one customer, which is what every property is about.

The weekly check: time in units that stand for the slots of a round, scaled so
that a round (2), the gap (3) and a week (3) keep the order the code's constants
have, with two pushes a round instead of three: the middle ones behave alike. An
iPhone or an Android phone alone until a second round has closed, and both
together for the scan's order; one or two changes from outside, each at any point.

Accounts: three accounts, so that a chain of two hops can form; two devices and two
users, because every property relates one to the other; one topic name, since the
hard case is the same name on two accounts; two incidents; and one request that
waits or one pair that is chosen (`MaxExtra`). `MaxHops` is 2 where the code has 8:
as many hops as three accounts can need, as eight are for nine.

Relay: two forwards, because the races are between two; three registrations, two
`BASE_URL`s, one restart and one key that the relay forgets.

Symmetry is used in the accounts runs (devices, users, tokens, incidents) and in
the relay run (forwards), which have no liveness property.

The client runs start from topics with the default settings (`Settings = {}`),
because `RungWithinRepeat` compares with that interval, and leave crashes out
where the property is false with them.

## 5. Fairness

`FairSpec` assumes weak fairness of `Tick` (time passes), `Restart` (a dead
process is started again, by `docker-compose.yml`'s restart policy or its like),
`ScanBegin` (`setInterval` of 250 ms in `scanner.ts`, and the boot scan of
`main.ts`), and `ProcessTimer` and `ScanEnd` (a loop that is not stopped).
Publishers, phones and the operator are under no obligation. Strong fairness is
not needed: a due timer keeps `ScanBegin` enabled until the scan serves it or
its row is deleted. The liveness properties speak only of deadlines that lie
before `MaxTime`, where the bounded clock stops.

`Billing`: a request ends, because it has a time limit, and its answer is handled
(`StoreAnswers`, `ReadEnds`); a retry falls due and the interval of
`billing-startup.ts` wakes the scan (`RetryDue`, `TimerWake`); a scan goes on
(`ScanNext`); a dead process is started again (`StartProcess`). Events, sweeps and
the store are under no obligation.

`WeeklyCheck`: the interval of `check/startup.ts` fires again (`ScanStart`) and the
provider's answer or its time limit comes (`Sending`).

## 6. Theorems

Checked by `tlapm`, for every value of the constants that the assumptions of the
module allow. No theorem assumes a bound on the number of topics, incidents,
devices, accounts, calls or processes. For each module an inductive invariant
`IInv` is proved of the initial states and of every action, one lemma per action,
and the properties follow from it.

### IncidentEngineProofs, IncidentRefinementProofs

The assumptions: `NoTopic` is not a topic, settings are positive (`v1/topics.ts`
refuses others), and the bounds are natural numbers.

| theorem | statement |
|---|---|
| `Invariance` | `Spec => []IInv` |
| `TypeCorrect`, `OneActive`, `TimersMatch`, `ExpireAtEnd`, `ScanNeverStale` | the invariants of the run `engine` |
| `EventsCurrent` | `Spec => []EventsAreCurrent` |
| `TimersAhead`, `WindowIsKept`, `ChangesStamped` | the action properties |
| `Refinement` | `Spec => ImplementsLifecycle` |

None of the invariants is inductive alone. `IInv` is the conjunction of `TypeOK`,
`TableInv` (`OneActivePerTopic`, `TimersMatchState`, `ExpireAtWindowEnd` and
`Owned`: an incident has a topic exactly when it exists), `RequestsOwned`,
`ScanAgrees` and `BatchCurrent` (the events a scan has collected are still true).
They lean on each other: that `RepeatFires` keeps one repeat timer needs
`ScanAgrees` (the row it moves is still in the table); that `ScanAgrees` survives
`ExpireFires` needs `TimersMatchState` (only rows of that incident go); that
`BatchCurrent` survives needs the clause of `ScanAgrees` that an incident with an
event has rows left to serve only if the event is its expiry (which the order of
the select gives), and those rows are then stale. `EventsAreCurrent` then follows
because `ScanEnd` hands over a batch that is current.

The facts about tables are lemmas on the three ways a handler changes them: it
leaves an incident alone (`Untouched`), replaces one incident with its timers
(`OneReplaced`), or removes several (`Removed`); one lemma per action applies
them. The refinement has one lemma per abstract action and maps every other step
to a stutter.

### IncidentClientProofs

| theorem | statement |
|---|---|
| `ClientRefinesEngine` | `ClientSpec => Spec`: what is proved of the engine holds of the engine a phone looks at |
| `SyncLosesAtMostOneSecond` | `ClientSpec => []SyncLosesOneSecond` |
| `RungWithinRepeatUnlessCutShort` | `RepeatsAreShort`, `ClientSpec /\ ScansEnd => []RungWithinRepeat` |

`SyncInv` says of each incident that the phone has its state, or has used its
stamp as a cursor, or will be sent it by the next sync; the first alternative is
lost only by a step that stamps the row with the present second, which no cursor
is beyond. `RungInv` says that a repeat timer lies at most one interval after the
last ring, or that a ring of that incident is in the scan's batch. The two
hypotheses are needed and are named for what they are. `RepeatsAreShort`: no topic
is patched to a longer interval than the one `RungWithinRepeat` compares with.
`ScansEnd`: no process dies with a batch it has not handed over, which is
finding 2 and the only way to lose a ring; crashes at other moments are allowed,
where the run `client` has none at all.

### PushDispatchProofs

| theorem | statement |
|---|---|
| `Invariance`, `TypeCorrect` | `Spec => []IInv`, `Spec => []TypeOK` |
| `EndsAreNamed` | `Spec => []EndsNameAnEnd` |
| `TokensAreKept` | `Spec => LiveTokensKept` |
| `SendsInvariance` | `Spec => []SendsInv` |
| `RingsStop`, `ActivitiesAreRight` | `RingsAreStopped`, `ActivitiesSettle` |

`IInv` holds the types, and that a close or an expiry that a call has still to send
is of an incident that ended (`EndsStay`): ended incidents stay ended, so an end
that is pushed later is still true. `SendsInv` turns the two properties about quiet
states into ones about all states: as long as no two calls about the incident
overlapped, what a pending event says is the incident's state (`EventsHold`,
`SaysHolds`), and a device that was told the wrong thing, or an activity that shows
it, is one that a call in progress will still tell (`RingDue`, `ShowDue`). When no
call is left, nothing is due, so nothing is wrong.

### WeeklyCheckProofs

The assumptions: devices are finitely many and numbered (they are compared by id), the
lengths of time are positive, and a round is shorter than the gap between rounds, as
`check/schedule.ts` has it. The offsets of a round's pushes are any sequence.

| theorem | statement |
|---|---|
| `Invariance`, `TypeCorrect` | `Spec => []IInv`, `Spec => []TypeOK` |
| `MissesAreCounted` | `Spec => []MissesAreTheRun` |
| `PushesLeaveOnce` | `Spec => []SentOnce` |
| `VerdictsFair`, `RoundsStayApart` | `VerdictsAreFair`, `RoundsApart` |

`IInv` says of the rows of a device: at most one round has no result, it is the
last and its check points at it (`Shape`); the counts are those of the rounds
(`Counts`); a check with no open round is due a gap after the last one opened, or a
new token came on a miss (`Spaced`). Of the scan: the push in flight has its attempt
on record, has not left while its sender waits for an access token, and its device
is not among those the pass comes to (`OnRecord`, `ScanOK`), which is what keeps
`SentOnce`. Each step is shown to change each device by a `Stepped` change, one the
two action properties allow, and these follow device by device.

### AccountsProofs

The assumptions: the words for a live, an unborn and an erased account are no
account, and the caps are natural numbers.

| theorem | statement |
|---|---|
| `Invariance`, `TypeCorrect` | `Spec => []IInv`, `Spec => []TypeOK` |
| `RingsFollow`, `OneAlarm` | `RingsFollowTheAccount`, `OneAlarmPerTopic` |
| `AccountsResolveWhileChainsFit` | `Spec /\ []ChainsFit => []AccountsResolve` |
| `TokensFollowWhileChainsFit` | `Spec /\ []ChainsFit => []TokensFollowTheAccount` |

`IInv` adds to the two properties the rows' types, the foreign keys (`References`)
and that a released device rings for nothing. The last two theorems have a
hypothesis, `ChainsFit`: no chain of tombstones is longer than the hops that
`liveAccount` follows. The code does not keep it (section 7): nine links, one after
the other, reach a chain of nine. It holds in the run `accounts`, whose three accounts cannot form a longer
chain than `MaxHops`.

### RelayProofs

| theorem | statement |
|---|---|
| `Invariance`, `TypeCorrect` | `Spec => []IInv`, `Spec => []TypeOK` |
| `EachHashRingsOnce` | `Spec => []PushedOnce` |
| `GoodKeyKept` | `Spec => LiveKeyKept` |

`IInv` says that only keys the relay gave out answer, one for each `base_url`, that
its count is the number of confirmations (`RelayInv`); that a registration is out
only while the client holds no key (`ClientInv`); and of a forward, that what it was
refused for still holds when the refusal arrives (`RefusalsStand`), so that dropping
the key then loses no good one, and that the push in hand has rung only if the relay
accepted it (`RungOnce`).

### BillingProofs

The assumption, `BillingAssumption`: accounts are finitely many, nobody joins an
account into itself, a customer has a first list, and the bounds are natural
numbers. The events, the lists, the number of processes, the retries and the length
of a chain of tombstones are any.

| theorem | statement |
|---|---|
| `Invariance`, `TypeCorrect` | `Spec => []IInv`, `Spec => []TypeOK` |
| `TierBacked` | `Spec => []TierIsBacked` |
| `FenceKept`, `ConfirmedFresh` | `FenceHolds`, `ConfirmedIsFresh` |
| `InOrder` | `EventsInOrder` |

`IInv` has five parts beside the types. They are stated of a *turn* (the record
`Now`, or any that the code's steps make of it), so that a lemma on one operator
serves every action that uses it.

- `Trails`: from each customer a path of tombstones leads to the account its row
  names. A live customer's row is thus its own, and only a tombstone's row can
  still move to another account.
- `Fence`: of two numbered reads of one customer, the one with the higher number
  was asked for later, whichever process has it out; a read that started before the
  row was there was asked for before all of them; and a numbered read that may
  still be written (its number is above `applied_seq`) was asked for no earlier
  than the result the row holds. Where there is no row, a numbered read is out only
  if its customer was erased, and then it is written nowhere (`Lost`).
- `Marks`: an event that marked a customer is on its row's `last_event_at`, unless
  the customer resolves to no account.
- `Backed`: `TierIsBacked`.
- `Fresh`: as long as no two processes ran at once, every read that is out has a
  number above `applied_seq`, so its whole list is written.

That the tier stays right when a row moves to another account (`TiersFollow`) is where
`Trails` is needed: the account the row leaves is not live, so its tier may differ.
A chain too long for `followMerge` leads to no account, which is a case of `Lost`,
so nothing is assumed of the length of chains here. Every step that ends no read
is a `Goes`, `Quiet` or `Unmoved` step, which each keep the fence by one lemma;
`Wrote` says of `ReadEnds` what it wrote, and the two properties of reads follow
from it.

### Model-checked only

The liveness properties (fairness and `ENABLED` are out of TLAPS's reach), the
findings, which are counterexamples, and the mutants.

## 7. Where code and documents disagree

1. *Sync by `since`* (`client_sync`). `docs/api.md:372-377` says an incident the
   client holds comes back when its state changes. `updated_at > since` is in
   whole seconds: a second change within the second of the newest `updated_at`
   the app holds never comes back.
2. *A crash* (`client_crash`). `docs/ARCHITECTURE.md:276-277` says a crash loses
   at most a quarter of a second of ringing. The scan commits a repeat timer's
   next time before its event reaches dispatch: a crash in between loses that
   ring until the next repeat, 30 seconds by default.
3. *A Live Activity's state* (`push_activity`). `docs/api.md:1225-1226` says
   `event` is `update` for `open` and `acked`, and `end` for `closed` and
   `expired`. `push/dispatcher.ts:114` reads the state after the event's other
   sends: an ack's update can say `closed`, when the close overtakes it.
4. *The hold after an alarm* (`weekly_hold`). `docs/api.md:1097` says no check is
   started within 30 minutes of an accepted alarm, for every push of a round. The
   hold is read when a push is planned; `confirm` (`check/store.ts:280`), which is
   asked after the wait for the provider's token and again before Apple's second
   host, looks at the tier, the enrolment and the token again but not at the hold.
5. *A tombstone's token* (`accounts_stale`). `v1/accounts.ts:142-143` says that
   with the tokens revoked nothing else in the request path has to learn about
   tombstones. `v1/router.ts:50` reads the account, awaits the body and creates the
   topic or token: a switch in between leaves a working token on the abandoned
   account, whose publishes ring nobody.

Met while modelling, and without a run of their own: an ack's answer is the row
read after the pushes, so it can say `closed` (`v1/router.ts:66`, against
`docs/api.md:355`); a device whose alarm token was dropped is still rung through
`devices.push_token` (`push/dispatcher.ts:188`, against `docs/api.md:733`); and an
incident that opens while an erase awaits the providers is erased with its account
(`v1/accounts.ts:516`, against the 409 of `docs/api.md:547`); and chains of
tombstones grow. `v1/accounts.ts:302-303` says that "no chain ever grows past one
hop", and `tier/router.ts:40` that a merge keeps them one hop long. The merge does
repoint the tombstones that led to its source, but `tombstone()`
(`v1/accounts.ts:134`), which a link and a switch call, leaves earlier ones pointing
at the account it buries. A link is one hop more each time, and past eight
`liveAccount` stops on a tombstone; the theorems about `Accounts` name this as the
hypothesis `ChainsFit`.

## 8. Not modelled

Out of reach or not worth a model: the providers' HTTP calls and JWTs, parsing of
headers, bodies and the environment, the better-auth library, the database
engine and its migrations, statistics and reports, the shadow comparison of
billing, and the cancel answers. Not modelled yet: packs beyond one and operator
grants, the daily heads-up count, polling and the page limit, the sliding window.
`PROJECT.json` says so for each component.

TLAPS limits that shape the project: liveness and `ENABLED` stay with TLC, and so
does what a recursive definition computes for every input, since induction over
data cannot be instantiated here; modules with theorems therefore declare no
RECURSIVE operator. Where a proof must count (the hops of `Accounts`, the highest of
a set of numbers, the batch of a scan), it takes the least number of a set, by the
library's theorem on well-founded relations (`WFMin`), in place of an induction.

## 9. Running it

    tlc -workers 2 -config MC_IncidentEngine.cfg MC_IncidentEngine
    tlc -workers 2 -config MC_IncidentClient.cfg MC_IncidentClient
    tlc -workers 2 -config MC_PushDispatch.cfg MC_PushDispatch
    tlc -workers 2 -config MC_Billing.cfg MC_Billing
    tlc -workers 2 -config MC_WeeklyCheck.cfg MC_WeeklyCheck
    tlc -workers 2 -config MC_Accounts.cfg MC_Accounts
    tlc -workers 2 -config MC_Relay.cfg MC_Relay
    tlapm IncidentEngineProofs.tla
    tlapm IncidentRefinementProofs.tla
    tlapm IncidentClientProofs.tla
    tlapm PushDispatchProofs.tla
    tlapm WeeklyCheckProofs.tla
    tlapm AccountsProofs.tla
    tlapm RelayProofs.tla
    tlapm BillingProofs.tla
