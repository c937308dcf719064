------------------------------- MODULE Billing -------------------------------
(***************************************************************************)
(* How a purchase reaches an account.  Where the store is read (mode "on") *)
(* an event only queues reads of the customers it names, and the reads of  *)
(* tier/billing-reads.ts write what the store lists.  Where it is not      *)
(* (mode "off", and "shadow", which writes the same) the event itself and  *)
(* the daily sweep of tier/reconcile.ts write.                             *)
(*                                                                         *)
(* A customer id of the store is an account id (api.md 4.3).  The store's  *)
(* list of a customer changes at any time and a read of it is three steps: *)
(* it starts, the store answers, the answer is handled.  A process may die *)
(* between any two, or run on while its replacement serves already.        *)
(***************************************************************************)
EXTENDS Naturals, Sequences, FiniteSets, FiniteSetsExt

CONSTANTS Accounts,
          Events,        \* what the store announces: [at, first, named, tier]
          TopTier,       \* tiers are 0 (free) .. TopTier
          Retries,       \* RETRY_AFTER_S.length
          Modes,         \* the values REVENUECAT_READS may have, {"on", "off"} or less
          Deployments,   \* whether a process may start before the last one ended: subset of BOOLEAN
          MaxProcs,      \* bound: processes
          Lists,         \* what the store lists for a customer, version after version: [tier, pack]
          Joins,         \* which account may be joined into which
          MaxFailed,     \* bound, per deployment: the last read of a customer that may end in less than the whole list
          MaxEvents,     \* bound, per deployment: events
          MaxReads       \* bound, per deployment and customer: the reads up to which a caller asks for one more

Procs == 1..MaxProcs
Tiers == 0..TopTier
NoTier == TopTier + 1   \* the event names no entitlement the server knows
NoAccount == "none"

ASSUME BillingAssumption ==
    /\ IsFiniteSet(Accounts) /\ NoAccount \notin Accounts
    /\ TopTier \in Nat /\ Retries \in Nat /\ MaxProcs \in Nat \ {0}
    /\ MaxFailed \in [BOOLEAN -> Nat] /\ MaxEvents \in [BOOLEAN -> Nat] /\ MaxReads \in [BOOLEAN -> [Accounts -> Nat]]
    /\ Joins \subseteq {j \in Accounts \X Accounts : j[1] # j[2]}
    /\ \A c \in Accounts : Lists[c] \in Seq([tier : Tiers, pack : BOOLEAN]) /\ Lists[c] # <<>>
    /\ Deployments \subseteq BOOLEAN /\ Modes \subseteq {"on", "off"}
    /\ Events \subseteq [at : Nat, first : Accounts, named : SUBSET Accounts, tier : Tiers \cup {NoTier}]

NoRow == [account |-> NoAccount]
NewRow(a, n) == [account |-> a, tier |-> 0, pack |-> FALSE, readSeq |-> n, appliedSeq |-> 0, lastEvent |-> 0]
NoQueue == [attempts |-> Retries + 1]
NoAnswer == [kind |-> "none"]
NoFlight == [seq |-> 0]
NoScan == [on |-> FALSE, at |-> NoAccount, left |-> {}, again |-> FALSE]
NoMemory == [flight |-> [c \in Accounts |-> NoFlight], unlinked |-> [c \in Accounts |-> 0], scan |-> NoScan]

VARIABLES
    mode,     \* readsMode, fixed while a process runs
    rolling,  \* how the server is deployed: whether processes may overlap
    into,     \* accounts: itself when live, merged_into, or NoAccount once erased
    tier,     \* accounts.tier
    row,      \* account_billing_ids, with the pack of billing_packs
    queue,    \* billing_reads
    applied,  \* billing_events: how each event was taken, "new" when not seen
    store,    \* the version of a customer's list in the store
    proc,     \* the life of each process
    mem,      \* its BillingReads: flights, unlinked, the scan
    held,     \* history: the store's version when the result last written was asked for
    owed,     \* history: a trigger was answered 200 and no read that followed it was written or given up
    overlapped  \* history: two processes have run at once

vars == <<mode, rolling, into, tier, row, queue, applied, store, proc, mem, held, owed, overlapped>>

(* What one turn of a process works on, and its commit. *)
Now == [tier |-> tier, row |-> row, queue |-> queue, mem |-> mem, held |-> held, owed |-> owed]
Commit(t) == \E s \in {t} :
    /\ tier' = s.tier /\ row' = s.row /\ queue' = s.queue
    /\ mem' = s.mem /\ held' = s.held /\ owed' = s.owed
SetRow(s, c, x)         == [s EXCEPT !.row[c] = x]
SetQueue(s, c, x)       == [s EXCEPT !.queue[c] = x]
SetFlight(s, p, c, x)   == [s EXCEPT !.mem[p].flight[c] = x]
SetUnlinked(s, p, c, n) == [s EXCEPT !.mem[p].unlinked[c] = n]
SetScan(s, p, x)        == [s EXCEPT !.mem[p].scan = x]
world == <<mode, rolling, into, applied, store, proc, overlapped>>

Up(p) == proc[p] = "up"
Live(a) == into[a] = a

-----------------------------------------------------------------------------
(* The rules of tier/revenuecat.ts. *)

Hop == [x \in Accounts \cup {NoAccount} |-> IF x = NoAccount THEN x ELSE into[x]]
Twice(f) == [x \in DOMAIN f |-> f[f[x]]]
FollowMerge(a) ==   \* at most eight hops
    LET end == Twice(Twice(Twice(Hop)))[a]
    IN  IF Hop[end] = end THEN end ELSE NoAccount

ResolveAccount(r, c) == FollowMerge(IF r[c] # NoRow THEN r[c].account ELSE c)

Highest(r, a) == Max({0} \cup {r[c].tier : c \in {x \in Accounts : r[x] # NoRow /\ r[x].account = a}})

MutAccountTierAfter(current, highest, before, after) == IF highest > current THEN highest ELSE current
AccountTierAfter(current, highest, before, after) ==
    IF highest > current \/ (before > after /\ before >= current) THEN highest ELSE current

(* The tiers once the row of customer c was written, and account a has it. *)
TiersWritten(rows, a, c, before) ==
    IF a = NoAccount \/ into[a] = NoAccount THEN tier
    ELSE [tier EXCEPT ![a] = AccountTierAfter(@, Highest(rows, a), before, rows[c].tier)]

-----------------------------------------------------------------------------
(* The queue and the reads of one process, tier/billing-reads.ts. *)

Dirty(s, c) == s.queue[c] # NoQueue /\ s.queue[c].dirty
TakeDirty(s, c) == [s EXCEPT !.queue[c] = IF @ = NoQueue THEN @ ELSE [@ EXCEPT !.dirty = FALSE]]
Dirtied(q) == IF q = NoQueue THEN [due |-> TRUE, attempts |-> 0, dirty |-> TRUE] ELSE [q EXCEPT !.dirty = TRUE]
MarkDirty(s, c) == [s EXCEPT !.queue[c] = Dirtied(@)]
Flying(s, p, c) == s.mem[p].flight[c] # NoFlight

(* What enqueue and link make of the rows of a customer. *)
MutEnqueue(s, p, c) == [due |-> TRUE, attempts |-> 0, dirty |-> Dirty(s, c)]
Enqueue(s, p, c) ==
    IF Flying(s, p, c) THEN Dirtied(s.queue[c]) ELSE [due |-> TRUE, attempts |-> 0, dirty |-> Dirty(s, c)]
Link(s, p, c) ==
    LET a == ResolveAccount(s.row, c) IN
    IF s.row[c] = NoRow THEN NewRow(a, s.mem[p].unlinked[c]) ELSE [s.row[c] EXCEPT !.account = a]

Start(s, p, c, asked) ==
    LET linked == s.row[c] # NoRow
        n == 1 + (IF linked THEN s.row[c].readSeq ELSE s.mem[p].unlinked[c])
        numbered == IF linked THEN SetRow(s, c, [s.row[c] EXCEPT !.readSeq = n]) ELSE SetUnlinked(s, p, c, n)
    IN  SetFlight(numbered, p, c, [seq |-> n, linked |-> linked, from |-> store[c], asked |-> asked,
                                   follow |-> 0, covers |-> TRUE, answer |-> NoAnswer])

Due(s) == {c \in Accounts : s.queue[c] # NoQueue /\ (s.queue[c].due \/ s.queue[c].dirty)}
ScanRead(s, p, c, left, again) ==
    TakeDirty(SetScan(Start(s, p, c, 0), p, [on |-> TRUE, at |-> c, left |-> left, again |-> again]), c)
Pass(s, p) ==   \* scanOnce up to its first await
    LET free == {c \in Due(s) : ~Flying(s, p, c)}
    IN  IF free = {} THEN {SetScan(s, p, NoScan)} ELSE {ScanRead(s, p, c, Due(s) \ {c}, FALSE) : c \in free}
Wake(s, p) == IF s.mem[p].scan.on THEN {SetScan(s, p, [s.mem[p].scan EXCEPT !.again = TRUE])} ELSE Pass(s, p)

Failed(c) ==
    LET failures == 1 + (IF queue[c] = NoQueue THEN 0 ELSE queue[c].attempts)
    IN  IF Dirty(Now, c) THEN Now
        ELSE IF failures > Retries THEN [SetQueue(Now, c, NoQueue) EXCEPT !.owed[c] = FALSE]
        ELSE SetQueue(Now, c, [due |-> FALSE, attempts |-> failures, dirty |-> FALSE])

MutStaleRead(c, f) == FALSE
StaleRead(c, f) == row[c] # NoRow /\ f.seq <= row[c].appliedSeq

(* The row that holds the list of read f, and the turn in which f is done  *)
(* with the queue and with its triggers.                                   *)
ResultRow(old, a, f) ==
    LET list == f.answer
        guarded == list.kind = "partial"
    IN  [old EXCEPT !.account = IF a = NoAccount THEN @ ELSE a,
                    !.tier = IF guarded /\ @ > list.tier THEN @ ELSE list.tier,
                    !.pack = list.pack \/ (guarded /\ @),
                    !.appliedSeq = f.seq,
                    !.readSeq = IF f.seq > @ THEN f.seq ELSE @]
Done(c, f) == [SetQueue(Now, c, IF Dirty(Now, c) THEN queue[c] ELSE NoQueue) EXCEPT !.owed[c] = @ /\ ~f.covers]
SetResult(s, rows, tiers, c, f) == [s EXCEPT !.row = rows, !.tier = tiers, !.held[c] = f.from]

Apply(p, c, f) ==
    LET a == ResolveAccount(row, c)
        fresh == row[c] = NoRow
        old == IF fresh THEN NewRow(a, mem[p].unlinked[c]) ELSE row[c]
        new == ResultRow(old, a, f)
        rows == [row EXCEPT ![c] = new]
    IN  IF StaleRead(c, f) THEN Now
        ELSE IF fresh /\ (a = NoAccount \/ (f.answer.tier = 0 /\ ~f.answer.pack)) THEN Done(c, f)
        ELSE SetResult(IF fresh THEN SetUnlinked(Done(c, f), p, c, 0) ELSE Done(c, f),
                       rows, TiersWritten(rows, new.account, c, old.tier), c, f)

HoldsSomething(c) == row[c] # NoRow /\ (row[c].tier > 0 \/ row[c].pack)

Handled(p, c, f) ==
    IF f.answer.kind = "failed" \/ (f.answer.kind = "never" /\ HoldsSomething(c)) THEN Failed(c) ELSE Apply(p, c, f)

(* In the same turn the flight is cleared, and one more starts if one was   *)
(* asked for.                                                              *)
Cleared(s, p, c) ==
    LET scan == s.mem[p].scan
    IN  SetScan(SetFlight(s, p, c, NoFlight), p, IF scan.at = c THEN [scan EXCEPT !.at = NoAccount] ELSE scan)
OneMore(s, p, c, f) ==
    IF Dirty(s, c) \/ f.follow > 0 THEN TakeDirty(Start(s, p, c, f.follow), c)
    ELSE SetUnlinked(s, p, c, 0)

-----------------------------------------------------------------------------
Init ==
    /\ mode \in Modes /\ rolling \in Deployments
    /\ into = [a \in Accounts |-> a] /\ tier = [a \in Accounts |-> 0]
    /\ row = [c \in Accounts |-> NoRow] /\ queue = [c \in Accounts |-> NoQueue]
    /\ applied = [e \in Events |-> "new"]
    /\ store = [c \in Accounts |-> 1]
    /\ proc = [p \in Procs |-> IF p = 1 THEN "up" ELSE "new"]
    /\ mem = [p \in Procs |-> NoMemory]
    /\ held = [c \in Accounts |-> 0] /\ owed = [c \in Accounts |-> FALSE] /\ overlapped = FALSE

(* A webhook with reading on: queueReadsForEvent, then wake. *)
Queued(s, p, cs, e) ==
    [tier |-> s.tier,
     row |-> [c \in Accounts |-> IF c \notin cs THEN s.row[c]
                               ELSE [Link(s, p, c) EXCEPT !.lastEvent = IF e.at > @ THEN e.at ELSE @]],
     queue |-> [c \in Accounts |-> IF c \in cs THEN Enqueue(s, p, c) ELSE s.queue[c]],
     mem |-> [q \in Procs |->
         [flight |-> [c \in Accounts |-> IF c \in cs /\ Flying(s, q, c) THEN [s.mem[q].flight[c] EXCEPT !.covers = FALSE]
                                        ELSE s.mem[q].flight[c]],
          unlinked |-> [c \in Accounts |-> IF q = p /\ c \in cs /\ s.row[c] = NoRow THEN 0 ELSE s.mem[q].unlinked[c]],
          scan |-> s.mem[q].scan]],
     held |-> s.held,
     owed |-> [c \in Accounts |-> s.owed[c] \/ c \in cs]]
EventQueues(p, e) ==
    LET named == IF applied[e] = "new" THEN {c \in e.named : ResolveAccount(row, c) # NoAccount} ELSE {} IN
    /\ mode = "on" /\ Up(p)
    /\ applied' = [applied EXCEPT ![e] = IF @ = "new" THEN "on" ELSE @]
    /\ \E s \in {Queued(Now, p, named, e)} : \E w \in Wake(s, p) : Commit(w)
    /\ UNCHANGED <<mode, rolling, into, store, proc, overlapped>>

(* A webhook with reading off: applyRevenueCatEvent. *)
MutStaleEvent(c, e) == FALSE
StaleEvent(c, e) == row[c] # NoRow /\ e.at < row[c].lastEvent
MutTakes(a, c, e) == e.tier # NoTier /\ ~StaleEvent(c, e)
Takes(a, c, e) == a # NoAccount /\ e.tier # NoTier /\ ~StaleEvent(c, e)
EventWrites(p, e) ==
    LET c == e.first
        a == ResolveAccount(row, c)
        old == IF row[c] = NoRow THEN NewRow(a, 0) ELSE row[c]
        rows == [row EXCEPT ![c] = [old EXCEPT !.account = a, !.lastEvent = e.at, !.tier = e.tier]]
    IN  /\ mode = "off" /\ Up(p) /\ applied[e] = "new"
        /\ applied' = [applied EXCEPT ![e] = "off"]
        /\ Commit(IF Takes(a, c, e) THEN [Now EXCEPT !.row = rows, !.tier = TiersWritten(rows, a, c, old.tier)] ELSE Now)
        /\ UNCHANGED <<mode, rolling, into, store, proc, overlapped>>

MutJoin(s, p, c) == SetFlight(s, p, c, [s.mem[p].flight[c] EXCEPT !.asked = store[c]])
Join(s, p, c) == SetFlight(MarkDirty(s, c), p, c, [s.mem[p].flight[c] EXCEPT !.follow = store[c]])

(* read(): a refresh asks for its account's ids, a sweep for every linked one. *)
Read(p, c) ==
    /\ mode = "on" /\ Up(p)
    /\ row[c] # NoRow \/ into[c] # NoAccount
    /\ (IF row[c] # NoRow THEN row[c].readSeq ELSE mem[p].unlinked[c]) < MaxReads[rolling][c]
    /\ Commit(IF Flying(Now, p, c) THEN Join(Now, p, c)
              ELSE Start(Now, p, c, store[c]))
    /\ UNCHANGED world

StoreChanges(c) ==
    /\ store[c] < Len(Lists[c])
    /\ store' = [store EXCEPT ![c] = @ + 1]
    /\ UNCHANGED <<mode, rolling, into, tier, row, queue, applied, proc, mem, held, owed, overlapped>>

(* The whole list, a list with an identifier neither map names, "never     *)
(* seen", or no usable answer.                                             *)
Answers(c) ==
    {[kind |-> "list", tier |-> Lists[c][store[c]].tier, pack |-> Lists[c][store[c]].pack]}
        \cup [kind : {"partial", "never"}, tier : {0}, pack : {FALSE}] \cup {[kind |-> "failed"]}
StoreAnswers(p, c) ==
    /\ Up(p) /\ Flying(Now, p, c) /\ mem[p].flight[c].answer = NoAnswer
    /\ \E x \in {y \in Answers(c) : y.kind # "list" => mem[p].flight[c].seq <= MaxFailed[rolling]} : mem' = [mem EXCEPT ![p].flight[c].answer = x]
    /\ UNCHANGED <<tier, row, queue, held, owed, world>>

ReadEnds(p, c) ==
    LET f == mem[p].flight[c] IN
    /\ mode = "on" /\ Up(p) /\ Flying(Now, p, c) /\ f.answer # NoAnswer
    /\ \E s \in {Handled(p, c, f)} : \E t \in {Cleared(s, p, c)} : Commit(OneMore(t, p, c, f))
    /\ UNCHANGED world

ScanNext(p) ==
    LET scan == mem[p].scan IN
    /\ Up(p) /\ scan.on /\ scan.at = NoAccount
    /\ \/ /\ scan.left = {}
          /\ \E s \in IF scan.again THEN Pass(Now, p) ELSE {SetScan(Now, p, NoScan)} : Commit(s)
       \/ \E c \in scan.left :
             Commit(IF Flying(Now, p, c) THEN SetScan(Now, p, [scan EXCEPT !.left = @ \ {c}])
                    ELSE ScanRead(Now, p, c, scan.left \ {c}, scan.again))
    /\ UNCHANGED world

RetryDue(c) ==   \* due_at is reached
    /\ queue[c] # NoQueue /\ ~queue[c].due
    /\ queue' = [queue EXCEPT ![c].due = TRUE]
    /\ UNCHANGED <<tier, row, mem, held, owed, world>>

TimerWake(p) ==
    /\ mode = "on" /\ Up(p)
    /\ \E s \in Wake(Now, p) : Commit(s)
    /\ UNCHANGED world

(* reconcileBillingId with reading off: no queue, no number. *)
SweepAsks(p, c) ==
    /\ mode = "off" /\ Up(p) /\ row[c] # NoRow /\ ~Flying(Now, p, c)
    /\ mem' = [mem EXCEPT ![p].flight[c] = [seq |-> 0, answer |-> NoAnswer]]
    /\ UNCHANGED <<tier, row, queue, held, owed, world>>
SweepEnds(p, c) ==
    LET f == mem[p].flight[c]
        s == SetFlight(Now, p, c, NoFlight)
        rows == [row EXCEPT ![c].tier = f.answer.tier]
    IN  /\ mode = "off" /\ Up(p) /\ Flying(Now, p, c) /\ f.answer # NoAnswer
        /\ Commit(IF f.answer.kind # "list" \/ row[c] = NoRow THEN s
                  ELSE [s EXCEPT !.row = rows, !.tier = TiersWritten(rows, row[c].account, c, row[c].tier)])
        /\ UNCHANGED world

-----------------------------------------------------------------------------
(* Accounts are joined and erased (v1/accounts.ts), processes come and go. *)

Attach(a, b) ==   \* a link or a switch: the billing rows stay with the tombstone
    /\ <<a, b>> \in Joins /\ Live(a) /\ Live(b)
    /\ into' = [into EXCEPT ![a] = b]
    /\ UNCHANGED <<mode, rolling, tier, row, queue, applied, store, proc, mem, held, owed, overlapped>>

MergeAccounts(a, b) ==
    LET moved == [c \in Accounts |-> IF row[c] # NoRow /\ row[c].account = a THEN [row[c] EXCEPT !.account = b] ELSE row[c]] IN
    /\ <<a, b>> \in Joins /\ Live(a) /\ Live(b)
    /\ into' = [x \in Accounts |-> IF into[x] = a THEN b ELSE into[x]]
    /\ row' = moved
    /\ tier' = [tier EXCEPT ![b] = Max({@, Highest(moved, b)})]
    /\ UNCHANGED <<mode, rolling, queue, applied, store, proc, mem, held, owed, overlapped>>

DeleteAccount(a) ==
    LET family == {x \in Accounts : FollowMerge(x) = a}
        linked == {c \in Accounts : row[c] # NoRow /\ row[c].account \in family}
        gone == family \cup linked
    IN  /\ Live(a)
        /\ into' = [x \in Accounts |-> IF x \in family THEN NoAccount ELSE into[x]]
        /\ tier' = [x \in Accounts |-> IF x \in family THEN 0 ELSE tier[x]]
        /\ row' = [c \in Accounts |-> IF c \in linked THEN NoRow ELSE row[c]]
        /\ queue' = [c \in Accounts |-> IF c \in gone THEN NoQueue ELSE queue[c]]
        /\ owed' = [c \in Accounts |-> owed[c] /\ c \notin gone]
        /\ held' = [c \in Accounts |-> IF c \in linked THEN 0 ELSE held[c]]
        /\ UNCHANGED <<mode, rolling, applied, store, proc, mem, overlapped>>

Crash(p) ==
    /\ Up(p) /\ \E q \in Procs : proc[q] # "down" /\ q # p
    /\ proc' = [proc EXCEPT ![p] = "down"]
    /\ mem' = [mem EXCEPT ![p] = NoMemory]
    /\ UNCHANGED <<mode, rolling, into, tier, row, queue, applied, store, held, owed, overlapped>>

StartProcess(p) ==
    LET others == \E q \in Procs : Up(q) IN
    /\ proc[p] = "new" /\ \A q \in Procs : q < p => proc[q] # "new"
    /\ rolling \/ ~others
    /\ proc' = [proc EXCEPT ![p] = "up"]
    /\ overlapped' = (overlapped \/ others)
    /\ mode' \in IF others THEN {mode} ELSE Modes
    /\ \E s \in IF mode' = "on" THEN Wake(Now, p) ELSE {Now} : Commit(s)
    /\ UNCHANGED <<rolling, into, applied, store>>

ReadStep == \E p \in Procs, c \in Accounts : StoreAnswers(p, c) \/ ReadEnds(p, c)
ScanStep == \E p \in Procs : ScanNext(p) \/ TimerWake(p)
EventStep ==
    \E p \in Procs, e \in Events :
        /\ Cardinality({f \in Events : applied[f] # "new"}) < MaxEvents[rolling]
        /\ EventQueues(p, e) \/ EventWrites(p, e)
SweepStep == \E p \in Procs, c \in Accounts : Read(p, c) \/ SweepAsks(p, c) \/ SweepEnds(p, c)
AccountStep == \E a \in Accounts : DeleteAccount(a) \/ \E b \in Accounts : Attach(a, b) \/ MergeAccounts(a, b)
ProcessStep == \E p \in Procs : Crash(p) \/ StartProcess(p)
StoreStep == \E c \in Accounts : StoreChanges(c) \/ RetryDue(c)
Next == ReadStep \/ ScanStep \/ EventStep \/ SweepStep \/ AccountStep \/ ProcessStep \/ StoreStep

(* A request is cut off after READ_TIMEOUT_MS, a promise settles, the gap  *)
(* and the 10 s timer end, a due_at is reached, a process is restarted.    *)
Fairness ==
    /\ \A c \in Accounts : WF_vars(\E p \in Procs : StoreAnswers(p, c) \/ ReadEnds(p, c)) /\ WF_vars(RetryDue(c))
    /\ WF_vars(\E p \in Procs : ScanNext(p)) /\ WF_vars(\E p \in Procs : TimerWake(p))
    /\ WF_vars(\E p \in Procs : StartProcess(p))

Spec == Init /\ [][Next]_vars
FairSpec == Spec /\ Fairness

-----------------------------------------------------------------------------
TypeOK ==
    /\ mode \in Modes /\ rolling \in Deployments
    /\ into \in [Accounts -> Accounts \cup {NoAccount}]
    /\ tier \in [Accounts -> Tiers]
    /\ \A c \in Accounts : row[c] = NoRow \/ row[c] \in
          [account : Accounts, tier : Tiers, pack : BOOLEAN, readSeq : Nat, appliedSeq : Nat, lastEvent : Nat]
    /\ \A c \in Accounts : queue[c] = NoQueue \/ queue[c] \in [due : BOOLEAN, attempts : 0..Retries, dirty : BOOLEAN]
    /\ applied \in [Events -> {"new", "on", "off"}]
    /\ \A c \in Accounts : store[c] \in DOMAIN Lists[c]
    /\ proc \in [Procs -> {"new", "up", "down"}]
    /\ \A p \in Procs : mem[p].unlinked \in [Accounts -> Nat]
    /\ held \in [Accounts -> Nat] /\ owed \in [Accounts -> BOOLEAN] /\ overlapped \in BOOLEAN

(* An account is on the tier its own customers pay for, no lower and no    *)
(* higher, whatever order reads, events, sweeps and merges came in         *)
(* (accountTierAfter).  The one delay: an event repoints the row of a      *)
(* customer whose account was attached, and its read is still to come.     *)
TierIsBacked ==
    \A a \in Accounts : Live(a) =>
        \/ tier[a] = Highest(row, a)
        \/ \E c \in Accounts : row[c] # NoRow /\ row[c].account = a /\ ~Live(c) /\ row[c].tier > tier[a]

Ended(p, c) == mem[p].flight[c].seq \notin {0, mem'[p].flight[c].seq} /\ Up(p) /\ proc' = proc
Older(c) == held'[c] < held[c] /\ row'[c] # NoRow

(* No result is written over one that was asked for later, across the      *)
(* processes that share the database (the numbered fence).                 *)
FenceHolds == [][\A p \in Procs, c \in Accounts : Ended(p, c) /\ mem[p].flight[c].linked => ~Older(c)]_vars

(* A caller of read() who is told that the store was read finds a result   *)
(* that is not older than the call, also when a read was running already.  *)
ConfirmedIsFresh ==
    [][\A p \in Procs, c \in Accounts :
          LET f == mem[p].flight[c] IN
          Ended(p, c) /\ f.answer.kind = "list" /\ ~overlapped /\ row'[c] # NoRow => held'[c] >= f.asked]_vars

(* An event that is older than one that marked the customer, whichever     *)
(* path took that one, writes no tier (last_event_at).                     *)
Marked(f, c) == (applied[f] = "on" /\ c \in f.named) \/ (applied[f] = "off" /\ c = f.first /\ f.tier # NoTier)
EventsInOrder ==
    [][\A c \in Accounts, e \in Events :
          /\ applied[e] = "new" /\ applied'[e] = "off" /\ row[c] # NoRow
          /\ \E f \in Events : Marked(f, c) /\ f.at > e.at
          => row'[c].tier = row[c].tier]_vars

(* A trigger that was answered 200 leads to a read that started after it   *)
(* and is written, or fails through every retry: over crashes, reads that  *)
(* are out already and scans that are running.                             *)
TriggerIsRead ==
    \A c \in Accounts : owed[c] ~> (~owed[c] \/ mode = "off" \/ overlapped)
=============================================================================
