------------------------------ MODULE Accounts ------------------------------
(***************************************************************************)
(* Accounts, the devices, identities and topics that hang off them, and    *)
(* the requests that move them (v1/accounts.ts, v1/topics.ts,              *)
(* tier/devices.ts, tier/subscriptions.ts, tier/auth.ts).                  *)
(*                                                                         *)
(* A v1 request is authenticated, which reads its device's account, and    *)
(* then waits for its body; the handler runs with the account it read      *)
(* before the wait.  Every handler is one database transaction, except the *)
(* erase, which awaits the identity providers between its checks and its   *)
(* deletes.                                                                *)
(*                                                                         *)
(* One BASE_URL is modelled, so a topic's hash is its name, and folding    *)
(* two topics by hash or by name is one case.  Billing ids, tiers and      *)
(* packs move in Billing; settings of a topic are in IncidentEngine.       *)
(***************************************************************************)
EXTENDS Integers, FiniteSets

CONSTANTS Accounts,    \* account ids; each is issued once
          Devices, Users, Names, Tokens, Incidents,
          DeviceCap,   \* caps.devices of the tier
          MaxHops,     \* how far liveAccount and accountFamily follow merged_into
          MaxExtra,    \* bound on the requests that wait plus the pairs chosen
          None

Live   == "live"       \* the row exists and merged_into is null
Unborn == "unborn"     \* the id has not been issued
Gone   == "gone"       \* the account was erased
Topics == Accounts \X Names
Fresh(S) == CHOOSE x \in S : TRUE   \* one new id is as good as another
Free   == [topic |-> None, late |-> FALSE]
Idle   == [step |-> "idle", account |-> None]

ASSUME ConstantsAssumption ==
  /\ DeviceCap \in Nat \ {0} /\ MaxHops \in Nat /\ MaxExtra \in Nat
  /\ None \notin Accounts \cup Topics
  /\ {Live, Unborn, Gone} \cap Accounts = {}

VARIABLES
  into,      \* accounts: Unborn, Live, Gone, or the account it was merged into
  join,      \* join[a]: the account holds a join_token_hash
  owner,     \* account_identities: user -> account
  home,      \* devices.account_id
  topics,    \* topics: <<account, name>>
  tokens,    \* topic_tokens: the topic, and whether it was made on a tombstone
  alarms,    \* active incidents: topic and state
  subs,      \* subscriptions: <<device, hash>>
  chosen,    \* the pairs the device itself subscribed or unsubscribed last
  req        \* the device's request in flight and the account it was read with

vars == <<into, join, owner, home, topics, tokens, alarms, subs, chosen, req>>

Init ==
  /\ into = [a \in Accounts |-> Unborn]
  /\ join = [a \in Accounts |-> FALSE]
  /\ owner = [u \in Users |-> None]
  /\ home = [d \in Devices |-> None]
  /\ topics = {} /\ subs = {} /\ chosen = {}
  /\ tokens = [k \in Tokens |-> Free]
  /\ alarms = [i \in Incidents |-> None]
  /\ req = [d \in Devices |-> Idle]

-----------------------------------------------------------------------------
(* The accounts a row belongs to.                                          *)

Tombstone(a) == into[a] \in Accounts
Exists(a) == Tombstone(a) \/ into[a] = Live

Hop(a) == IF Tombstone(a) THEN into[a] ELSE a
Behind(F) == {b \in Accounts : into[b] \in F}

\* liveAccount: follow merged_into, a bounded number of hops.
LiveAccount(a) ==
  LET at[h \in 0..MaxHops] == IF h = 0 THEN a ELSE Hop(at[h - 1]) IN at[MaxHops]

\* accountFamily: the account and the tombstones behind it, as many hops back.
Family(a) ==
  LET fam[h \in 0..MaxHops] == IF h = 0 THEN {a} ELSE fam[h - 1] \cup Behind(fam[h - 1])
  IN  fam[MaxHops]

IdentityAccount(u) == IF owner[u] = None THEN None ELSE LiveAccount(owner[u])
Identities(a) == {u \in Users : owner[u] = a}
ClaimedByOther(a, u) == Identities(a) # {} /\ u \notin Identities(a)
On(a) == {d \in Devices : home[d] = a}
NamesOf(a) == {n \in Names : <<a, n>> \in topics}
TokensOf(t) == {k \in Tokens : tokens[k].topic = t}
Ringing(F, states) ==
  \E i \in Incidents : alarms[i] # None /\ alarms[i].topic[1] \in F /\ alarms[i].state \in states

-----------------------------------------------------------------------------
(* Devices.                                                                *)

Extra == Cardinality({d \in Devices : req[d] # Idle}) + Cardinality(chosen)

Insert(d, a) ==
  /\ home' = [home EXCEPT ![d] = a]
  /\ subs' = subs \cup ({d} \X NamesOf(a))

RegisterNew(d) ==
  LET unborn == {b \in Accounts : into[b] = Unborn}
      a == Fresh(unborn)
  IN
  /\ home[d] = None /\ req[d] = Idle /\ unborn # {}
  /\ into' = [into EXCEPT ![a] = Live]
  /\ join' = [join EXCEPT ![a] = TRUE]
  /\ Insert(d, a)
  /\ UNCHANGED <<owner, topics, tokens, alarms, chosen, req>>

\* With the aj_ of the account or the dv_ of a device already on it.
RegisterOn(d, a) ==
  /\ home[d] = None /\ req[d] = Idle
  /\ join[a] \/ On(a) # {}
  /\ Cardinality(On(a)) < DeviceCap
  /\ Insert(d, a)
  /\ UNCHANGED <<into, join, owner, topics, tokens, alarms, chosen, req>>

\* The row and its subscriptions go; a request of it that is out stays out.
Release(d) ==
  /\ home[d] # None
  /\ home' = [home EXCEPT ![d] = None]
  /\ subs' = {s \in subs : s[1] # d}
  /\ chosen' = {s \in chosen : s[1] # d}
  /\ UNCHANGED <<into, join, owner, topics, tokens, alarms, req>>

Subscribe(d, n) ==
  /\ home[d] # None
  /\ \/ subs' = subs \cup {<<d, n>>}
     \/ subs' = subs \ {<<d, n>>}
  /\ chosen' = chosen \cup {<<d, n>>}
  /\ <<d, n>> \notin chosen => Extra < MaxExtra
  /\ UNCHANGED <<into, join, owner, home, topics, tokens, alarms, req>>

MintJoinToken(d) ==
  /\ home[d] # None
  /\ join' = [join EXCEPT ![LiveAccount(home[d])] = TRUE]
  /\ UNCHANGED <<into, owner, home, topics, tokens, alarms, subs, chosen, req>>

-----------------------------------------------------------------------------
(* Topics and their tokens.                                                *)

\* The body is slow: the account was read and the handler has not run.
Authenticate(d) ==
  /\ home[d] # None /\ req[d] = Idle
  /\ Extra < MaxExtra
  /\ req' = [req EXCEPT ![d] = [step |-> "body", account |-> home[d]]]
  /\ UNCHANGED <<into, join, owner, home, topics, tokens, alarms, subs, chosen>>

\* The account a handler runs with: read before a wait, or just now.
Caller(d, a) == \/ req[d].step = "body" /\ a = req[d].account
                \/ req[d] = Idle /\ home[d] # None /\ a = home[d]

Answer(d) == req' = [req EXCEPT ![d] = Idle]

\* Every refusal and every error: the request ends and nothing is written.
Refuse(d) ==
  /\ req[d] # Idle
  /\ Answer(d)
  /\ UNCHANGED <<into, join, owner, home, topics, tokens, alarms, subs, chosen>>

\* sweepTopicIntoDevices
SweepTopic(a, ns, S) == S \cup (On(a) \X ns)

Issue(t) ==
  LET free == {k \in Tokens : tokens[k] = Free} IN
  \E k \in free :
    tokens' = [tokens EXCEPT ![k] = [topic |-> t, late |-> Tombstone(t[1])]]

CreateTopic(d, a, n) ==
  /\ Caller(d, a) /\ Exists(a)
  /\ <<a, n>> \notin topics
  /\ topics' = topics \cup {<<a, n>>}
  /\ Issue(<<a, n>>)
  /\ subs' = SweepTopic(a, {n}, subs)
  /\ chosen' = chosen \ (On(a) \X {n})
  /\ Answer(d)
  /\ UNCHANGED <<into, join, owner, home, alarms>>

AddToken(d, a, n) ==
  LET t == <<a, n>> IN
  /\ Caller(d, a)
  /\ t \in topics
  /\ Issue(t)
  /\ Answer(d)
  /\ UNCHANGED <<into, join, owner, home, topics, alarms, subs, chosen>>

\* No body to wait for.  The last token of a topic is kept.
MutKeepOne(t) == TRUE
KeepOne(t) == Cardinality(TokensOf(t)) > 1

DeleteToken(d, k) ==
  /\ home[d] # None /\ tokens[k] # Free
  /\ tokens[k].topic[1] = home[d] /\ KeepOne(tokens[k].topic)
  /\ tokens' = [tokens EXCEPT ![k] = Free]
  /\ UNCHANGED <<into, join, owner, home, topics, alarms, subs, chosen, req>>

\* What goes with a topic: its tokens and its incidents.
MutWithout(T) ==
  /\ topics' = topics \ T
  /\ tokens' = [k \in Tokens |-> IF tokens[k].topic \in T THEN Free ELSE tokens[k]]
  /\ alarms' = alarms
Without(T) ==
  /\ topics' = topics \ T
  /\ tokens' = [k \in Tokens |-> IF tokens[k].topic \in T THEN Free ELSE tokens[k]]
  /\ alarms' = [i \in Incidents |->
                  IF alarms[i] # None /\ alarms[i].topic \in T THEN None ELSE alarms[i]]

DeleteTopic(d, n) ==
  LET t == <<home[d], n>> IN
  /\ t \in topics
  /\ Without({t})
  /\ subs' = subs \ (On(home[d]) \X {n})
  /\ chosen' = chosen \ (On(home[d]) \X {n})
  /\ UNCHANGED <<into, join, owner, home, req>>

\* The publish with a topic's token, the app and the timers (IncidentEngine).
Publish(k) ==
  LET t == tokens[k].topic
      free == {i \in Incidents : alarms[i] = None}
  IN
  /\ t # None
  /\ ~\E j \in Incidents : alarms[j] # None /\ alarms[j].topic = t
  /\ \E i \in free : alarms' = [alarms EXCEPT ![i] = [topic |-> t, state |-> "open"]]
  /\ UNCHANGED <<into, join, owner, home, topics, tokens, subs, chosen, req>>

AlarmMoves(i) ==
  /\ alarms[i] # None
  /\ alarms' = [alarms EXCEPT ![i] =
       IF @.state = "open" THEN [@ EXCEPT !.state = "acked"] ELSE [@ EXCEPT !.state = "open"]]
     \/ alarms' = [alarms EXCEPT ![i] = None]
  /\ UNCHANGED <<into, join, owner, home, topics, tokens, subs, chosen, req>>

-----------------------------------------------------------------------------
(* Link, switch and merge.                                                 *)

\* moveDevices: the subscriptions start again from the topics of the target.
MutMoveDevices(from, to, names, S) ==
  /\ home' = [d \in Devices |-> IF home[d] = from THEN to ELSE home[d]]
  /\ subs' = S \cup (On(from) \X names)
  /\ chosen' = {s \in chosen : s[1] \notin On(from)}
MoveDevices(from, to, names, S) ==
  /\ home' = [d \in Devices |-> IF home[d] = from THEN to ELSE home[d]]
  /\ subs' = {s \in S : s[1] \notin On(from)} \cup (On(from) \X names)
  /\ chosen' = {s \in chosen : s[1] \notin On(from)}

\* tombstone: the join token goes and the identities follow the devices.
MutBury(from, to) ==
  /\ join' = [join EXCEPT ![from] = FALSE]
  /\ owner' = owner
Bury(from, to) ==
  /\ join' = [join EXCEPT ![from] = FALSE]
  /\ owner' = [u \in Users |-> IF owner[u] = from THEN to ELSE owner[u]]

\* A new identity: the account's first, or one more when the app meant that.
Claim(d, a, u, intent) ==
  LET source == LiveAccount(a) IN
  /\ Caller(d, a) /\ Exists(source) /\ IdentityAccount(u) = None
  /\ Identities(source) = {} \/ intent = "link"
  /\ owner' = [owner EXCEPT ![u] = source]
  /\ Answer(d)
  /\ UNCHANGED <<into, join, home, topics, tokens, alarms, subs, chosen>>

\* An identity with an account of its own: an empty account joins it.
Attach(d, a, u, intent) ==
  LET source == LiveAccount(a)
      target == IdentityAccount(u)
  IN
  /\ Caller(d, a) /\ Exists(source)
  /\ target \notin {None, source}
  /\ intent = "link" \/ ~ClaimedByOther(source, u)
  /\ NamesOf(source) = {}
  /\ into' = [into EXCEPT ![source] = target]
  /\ MoveDevices(source, target, NamesOf(target), subs)
  /\ Bury(source, target)
  /\ Answer(d)
  /\ UNCHANGED <<topics, tokens, alarms>>

\* revokeTopicTokens
Revoked(k, source) == tokens[k] # Free /\ tokens[k].topic[1] = source

Switch(d, a, u) ==
  LET source == LiveAccount(a)
      target == IdentityAccount(u)
  IN
  /\ Caller(d, a) /\ Exists(source)
  /\ target \notin {None, source} /\ ~ClaimedByOther(source, u)
  /\ into' = [into EXCEPT ![source] = target]
  /\ MoveDevices(source, target, NamesOf(target), subs)
  /\ tokens' = [k \in Tokens |-> IF Revoked(k, source) THEN Free ELSE tokens[k]]
  /\ Bury(source, target)
  /\ Answer(d)
  /\ UNCHANGED <<topics, alarms>>

\* Neither family may hold an incident that rings or is acknowledged.
MutQuiet(source, target) == ~Ringing(Family(source) \cup Family(target), {"open"})
Quiet(source, target) == ~Ringing(Family(source) \cup Family(target), {"open", "acked"})

\* Topics are repointed or folded row by row; both leave <<target, name>>.
Merge(d, source, u) ==
  LET target == IdentityAccount(u)
      Fold(t) == IF t # None /\ t[1] = source THEN <<target, t[2]>> ELSE t
      arrived == NamesOf(source) \ NamesOf(target)
  IN
  /\ Caller(d, source) /\ into[source] = Live
  /\ target \notin {None, source} /\ ~ClaimedByOther(source, u)
  /\ Quiet(source, target)
  /\ into' = [b \in Accounts |-> IF b = source \/ into[b] = source THEN target ELSE into[b]]
  /\ topics' = {Fold(t) : t \in topics}
  /\ tokens' = [k \in Tokens |-> [tokens[k] EXCEPT !.topic = Fold(@)]]
  /\ alarms' = [i \in Incidents |->
                  IF alarms[i] = None THEN None ELSE [alarms[i] EXCEPT !.topic = Fold(@)]]
  /\ MoveDevices(source, target, NamesOf(source) \cup NamesOf(target),
                 SweepTopic(target, arrived, subs))
  /\ Bury(source, target)
  /\ Answer(d)

-----------------------------------------------------------------------------
(* Erase.                                                                  *)

\* deleteAccount: the whole family as it is now, by cascade.  merged_into is a
\* foreign key: a tombstone the family does not reach stops the transaction.
Erase(a) ==
  LET F == Family(LiveAccount(a))
      D == {d \in Devices : home[d] \in F}
  IN
  /\ Behind(F) \subseteq F
  /\ into' = [b \in Accounts |-> IF b \in F /\ Exists(b) THEN Gone ELSE into[b]]
  /\ join' = [b \in Accounts |-> join[b] /\ b \notin F]
  /\ owner' = [u \in Users |-> IF owner[u] \in F THEN None ELSE owner[u]]
  /\ home' = [d \in Devices |-> IF d \in D THEN None ELSE home[d]]
  /\ Without({t \in topics : t[1] \in F})
  /\ subs' = {s \in subs : s[1] \notin D}
  /\ chosen' = {s \in chosen : s[1] \notin D}

Permitted(a, u) == Identities(a) = {} \/ u \in Identities(a)

\* The checks.  Only an identity has a provider token to revoke, so an
\* account without one is erased with no wait.
EraseAsked(d, given, u) ==
  LET a == LiveAccount(given) IN
  /\ Caller(d, given) /\ Permitted(a, u) /\ ~Ringing(Family(a), {"open"})
  /\ \/ /\ Identities(a) # {}
        /\ req' = [req EXCEPT ![d] = [step |-> "revoke", account |-> a]]
        /\ UNCHANGED <<into, join, owner, home, topics, tokens, alarms, subs, chosen>>
     \/ /\ Identities(a) = {}
        /\ Erase(a)
        /\ Answer(d)

\* The providers have answered.
EraseDone(d) ==
  /\ req[d].step = "revoke"
  /\ Erase(req[d].account)
  /\ Answer(d)

\* critalarm account delete, in the operator's own process.
EraseByOperator(a) ==
  /\ Exists(a)
  /\ Erase(a)
  /\ UNCHANGED req

-----------------------------------------------------------------------------
Next ==
  \/ \E d \in Devices :
       \/ RegisterNew(d) \/ Release(d) \/ MintJoinToken(d) \/ Authenticate(d) \/ Refuse(d) \/ EraseDone(d)
       \/ \E n \in Names : Subscribe(d, n) \/ DeleteTopic(d, n)
       \/ \E k \in Tokens : DeleteToken(d, k)
       \/ \E a \in Accounts :
            \/ RegisterOn(d, a)
            \/ \E n \in Names : CreateTopic(d, a, n) \/ AddToken(d, a, n)
            \/ \E u \in Users :
                 \/ \E intent \in {"sign_in", "link"} : Claim(d, a, u, intent) \/ Attach(d, a, u, intent)
                 \/ Switch(d, a, u) \/ Merge(d, a, u) \/ EraseAsked(d, a, u)
  \/ \E i \in Incidents : AlarmMoves(i)
  \/ \E k \in Tokens : Publish(k)
  \/ \E a \in Accounts : EraseByOperator(a)

Spec == Init /\ [][Next]_vars

-----------------------------------------------------------------------------
(* Properties.                                                             *)

TypeOK ==
  /\ into \in [Accounts -> Accounts \cup {Unborn, Live, Gone}]
  /\ join \in [Accounts -> BOOLEAN]
  /\ owner \in [Users -> Accounts \cup {None}]
  /\ home \in [Devices -> Accounts \cup {None}]
  /\ topics \subseteq Topics
  /\ \A k \in Tokens : tokens[k].topic \in topics \cup {None}
  /\ \A i \in Incidents : alarms[i] # None => alarms[i].topic \in topics
  /\ subs \subseteq Devices \X Names
  /\ \A d \in Devices : req[d].step \in {"idle", "body", "revoke"}

\* Whatever order links, switches, merges and erases come in, no device and no
\* identity is left on a tombstone or an erased account, a tombstone takes no
\* new handsets, and it leads to an account that is live.
AccountsResolve ==
  /\ \A d \in Devices : home[d] # None => into[home[d]] = Live
  /\ \A u \in Users : owner[u] # None => into[owner[u]] = Live
  /\ \A a \in Accounts : /\ join[a] => into[a] = Live
                         /\ Tombstone(a) => into[LiveAccount(a)] = Live

\* Where a device did not choose for itself, it is subscribed to the topics of
\* the account it is on now, and to nothing of an account it has left.
RingsFollowTheAccount ==
  \A d \in Devices, n \in Names :
    home[d] # None /\ <<d, n>> \notin chosen => (<<d, n>> \in subs <=> n \in NamesOf(home[d]))

\* A topic of a live account keeps a token, so its publishers can always
\* raise an alarm; a token that works on a tombstone, where nobody would hear
\* it, can only come from a request that was authenticated before the switch.
TokensFollowTheAccount ==
  /\ \A t \in topics : into[t[1]] = Live => TokensOf(t) # {}
  /\ \A k \in Tokens : tokens[k] # Free /\ Tombstone(tokens[k].topic[1]) => tokens[k].late

\* The unique index incidents_one_active_per_topic is never in the way: no
\* fold of two topics brings two active incidents together.
OneAlarmPerTopic ==
  \A i, j \in Incidents :
    alarms[i] # None /\ alarms[j] # None /\ alarms[i].topic = alarms[j].topic => i = j

\* What accounts.ts says of a switch: with the tokens revoked, nothing can be
\* published on an abandoned account, so nothing else in the request path has
\* to learn about tombstones.
NothingPublishesOnTombstones ==
  \A k \in Tokens : tokens[k] # Free => ~Tombstone(tokens[k].topic[1])

=============================================================================
