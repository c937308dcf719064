--------------------------- MODULE AccountsProofs ---------------------------
(***************************************************************************)
(* Theorems about Accounts, for every set of accounts, devices, users,     *)
(* topics and tokens, and every number of hops.                            *)
(***************************************************************************)
EXTENDS Accounts, FiniteSetTheorems, WellFoundedInduction, TLAPS

\* The rows of the tables.
TokenRow == [topic : Topics \cup {None}, late : BOOLEAN]
AlarmRow == [topic : Topics, state : {"open", "acked"}]
Request  == [step : {"idle", "body", "revoke"}, account : Accounts \cup {None}]

Rows ==
  /\ into \in [Accounts -> Accounts \cup {Unborn, Live, Gone}]
  /\ join \in [Accounts -> BOOLEAN]
  /\ owner \in [Users -> Accounts \cup {None}]
  /\ home \in [Devices -> Accounts \cup {None}]
  /\ topics \subseteq Topics
  /\ tokens \in [Tokens -> TokenRow]
  /\ alarms \in [Incidents -> AlarmRow \cup {None}]
  /\ subs \subseteq Devices \X Names
  /\ chosen \subseteq Devices \X Names
  /\ req \in [Devices -> Request]

\* What a row names exists: the foreign keys of the tables.
References ==
  /\ \A a \in Accounts : Tombstone(a) => Exists(into[a])
  /\ \A a \in Accounts : join[a] => Exists(a)
  /\ \A u \in Users : owner[u] # None => Exists(owner[u])
  /\ \A d \in Devices : home[d] # None => Exists(home[d])
  /\ \A d \in Devices : req[d].step # "idle" => req[d].account \in Accounts
  /\ \A t \in topics : Exists(t[1])
  /\ \A k \in Tokens : tokens[k] = Free \/ tokens[k].topic \in topics
  /\ \A i \in Incidents : alarms[i] # None => alarms[i].topic \in topics

\* A device that is on no account rings for nothing.
ReleasedAreSilent ==
  \A d \in Devices, n \in Names : home[d] = None => <<d, n>> \notin subs

\* What every reachable state satisfies and every step keeps.
IInv == Rows /\ References /\ ReleasedAreSilent /\ RingsFollowTheAccount /\ OneAlarmPerTopic

\* No chain of tombstones is longer than the code follows.
ChainsFit == \A a \in Accounts : ~Tombstone(LiveAccount(a))

\* While chains fit, what points at an account points at a live one, and the
\* topics of a live account have their tokens.
LiveEnds ==
  /\ \A d \in Devices : home[d] # None => into[home[d]] = Live
  /\ \A u \in Users : owner[u] # None => into[owner[u]] = Live
  /\ \A a \in Accounts : join[a] => into[a] = Live
CInv == LiveEnds /\ TokensFollowTheAccount

-----------------------------------------------------------------------------
(* Counting by sets: the natural numbers one by one.                       *)

\* A set of natural numbers has a least element.
LEMMA LeastNumber ==
  ASSUME NEW T, T \subseteq Nat, T # {}
  PROVE  \E x \in T : \A y \in T : x <= y
<1> DEFINE R == OpToRel(<, Nat)
<1>1. PICK x \in T : \A y \in T : ~ (<<y, x>> \in R)
  <2>1. IsWellFoundedOn(R, Nat) BY NatLessThanWellFounded
  <2> HIDE DEF R
  <2>2. QED BY <2>1, WFMin
<1>2. ASSUME NEW y \in T PROVE x <= y
  <2>1. x \in Nat /\ y \in Nat OBVIOUS
  <2>2. ~ (y < x) BY <1>1, <2>1 DEF OpToRel
  <2>3. QED BY <2>1, <2>2
<1>3. QED BY <1>2

\* A set that holds 0 and the successor of each of its numbers holds them all.
LEMMA AllNumbers ==
  ASSUME NEW S, 0 \in S, \A n \in Nat : n \in S => n + 1 \in S
  PROVE  Nat \subseteq S
<1> DEFINE T == {n \in Nat : n \notin S}
<1>1. ASSUME T # {} PROVE FALSE
  <2>1. PICK x \in T : \A y \in T : x <= y BY <1>1, LeastNumber
  <2>2. x # 0 /\ x - 1 \in Nat BY <2>1
  <2>3. x - 1 \in S BY <2>1, <2>2
  <2>4. QED BY <2>1, <2>2, <2>3
<1>2. QED BY <1>1

-----------------------------------------------------------------------------
(* The two loops.                                                          *)

\* liveAccount's loop runs: the hops it has taken, one by one.
LEMMA HopsRun ==
  ASSUME NEW a, NEW m \in Nat
  PROVE  \E f : f = [h \in 0..m |-> IF h = 0 THEN a ELSE Hop(f[h - 1])]
<1> DEFINE Runs(n) == \E f : f = [h \in 0..n |-> IF h = 0 THEN a ELSE Hop(f[h - 1])]
<1>1. PICK S : S = {n \in Nat : Runs(n)} OBVIOUS
<1>2. Runs(0)
  <2> DEFINE g == [h \in 0..0 |-> a]
  <2>1. g = [h \in 0..0 |-> IF h = 0 THEN a ELSE Hop(g[h - 1])] OBVIOUS
  <2>2. QED BY <2>1
<1>3. ASSUME NEW n \in Nat, Runs(n) PROVE Runs(n + 1)
  <2>1. PICK f : f = [h \in 0..n |-> IF h = 0 THEN a ELSE Hop(f[h - 1])] BY <1>3
  <2> DEFINE g == [h \in 0..(n + 1) |-> IF h = n + 1 THEN Hop(f[n]) ELSE f[h]]
  <2>2. ASSUME NEW h \in 0..(n + 1) PROVE g[h] = IF h = 0 THEN a ELSE Hop(g[h - 1])
    <3>1. CASE h = n + 1 BY <3>1
    <3>2. CASE h # n + 1
      <4>1. h \in 0..n /\ (h # 0 => h - 1 \in 0..(n + 1) /\ h - 1 # n + 1) BY <3>2
      <4>2. f[h] = IF h = 0 THEN a ELSE Hop(f[h - 1]) BY <2>1, <4>1
      <4>3. QED BY <3>2, <4>1, <4>2
    <3>3. QED BY <3>1, <3>2
  <2>3. g = [h \in 0..(n + 1) |-> IF h = 0 THEN a ELSE Hop(g[h - 1])] BY <2>2
  <2>4. QED BY <2>3
<1> HIDE DEF Runs
<1>4. Nat \subseteq S
  <2>1. 0 \in S /\ \A n \in Nat : n \in S => n + 1 \in S BY <1>1, <1>2, <1>3
  <2>2. QED BY <2>1, AllNumbers
<1>5. Runs(m) BY <1>1, <1>4
<1>6. QED BY <1>5 DEF Runs

\* liveAccount never leaves a set that no hop leaves.
LEMMA HopsStay ==
  ASSUME NEW S, NEW a \in S, \A b \in S : Hop(b) \in S
  PROVE  LiveAccount(a) \in S
<1> DEFINE at[h \in 0..MaxHops] == IF h = 0 THEN a ELSE Hop(at[h - 1])
<1>1. at = [h \in 0..MaxHops |-> IF h = 0 THEN a ELSE Hop(at[h - 1])]
  BY HopsRun, ConstantsAssumption
<1>2. LiveAccount(a) = at[MaxHops] BY DEF LiveAccount
<1> HIDE DEF at
<1>3. PICK T : T = {n \in Nat : n <= MaxHops => at[n] \in S} OBVIOUS
<1>4. 0 \in T BY <1>1, <1>3, ConstantsAssumption
<1>5. ASSUME NEW n \in Nat, n \in T PROVE n + 1 \in T
  <2>1. CASE n + 1 <= MaxHops
    <3>1. n \in 0..MaxHops /\ n + 1 \in 0..MaxHops BY <2>1, ConstantsAssumption
    <3>2. at[n + 1] = Hop(at[n]) BY <1>1, <3>1
    <3>3. QED BY <1>3, <1>5, <3>1, <3>2
  <2>2. CASE ~ (n + 1 <= MaxHops) BY <2>2, <1>3
  <2>3. QED BY <2>1, <2>2
<1>6. Nat \subseteq T BY <1>4, <1>5, AllNumbers
<1>7. QED BY <1>2, <1>3, <1>6, ConstantsAssumption

\* accountFamily's loop runs.
FamilyRun(f, a, m) ==
  f = [h \in 0..m |-> IF h = 0 THEN {a} ELSE f[h - 1] \cup Behind(f[h - 1])]
\* The walk to the tombstones behind an account exists for every number of hops.
LEMMA FamilyRuns ==
  ASSUME NEW a, NEW m \in Nat
  PROVE  \E f : FamilyRun(f, a, m)
<1> DEFINE Runs(n) == \E f : FamilyRun(f, a, n)
<1>1. PICK S : S = {n \in Nat : Runs(n)} OBVIOUS
<1>2. Runs(0)
  <2> DEFINE g == [h \in 0..0 |-> {a}]
  <2>1. g = [h \in 0..0 |-> IF h = 0 THEN {a} ELSE g[h - 1] \cup Behind(g[h - 1])] OBVIOUS
  <2>2. QED BY <2>1 DEF FamilyRun
<1>3. ASSUME NEW n \in Nat, Runs(n) PROVE Runs(n + 1)
  <2>1. PICK f : f = [h \in 0..n |-> IF h = 0 THEN {a} ELSE f[h - 1] \cup Behind(f[h - 1])]
    BY <1>3 DEF FamilyRun
  <2> DEFINE g == [h \in 0..(n + 1) |-> IF h = n + 1 THEN f[n] \cup Behind(f[n]) ELSE f[h]]
  <2>2. ASSUME NEW h \in 0..(n + 1)
        PROVE  g[h] = IF h = 0 THEN {a} ELSE g[h - 1] \cup Behind(g[h - 1])
    <3>1. CASE h = n + 1 BY <3>1
    <3>2. CASE h # n + 1
      <4>1. h \in 0..n /\ (h # 0 => h - 1 \in 0..(n + 1) /\ h - 1 # n + 1) BY <3>2
      <4>2. f[h] = IF h = 0 THEN {a} ELSE f[h - 1] \cup Behind(f[h - 1]) BY <2>1, <4>1
      <4>3. QED BY <3>2, <4>1, <4>2
    <3>3. QED BY <3>1, <3>2
  <2>3. g = [h \in 0..(n + 1) |-> IF h = 0 THEN {a} ELSE g[h - 1] \cup Behind(g[h - 1])]
    BY <2>2
  <2>4. QED BY <2>3 DEF FamilyRun
<1> HIDE DEF Runs
<1>4. Nat \subseteq S
  <2>1. 0 \in S /\ \A n \in Nat : n \in S => n + 1 \in S BY <1>1, <1>2, <1>3
  <2>2. QED BY <2>1, AllNumbers
<1>5. Runs(m) BY <1>1, <1>4
<1>6. QED BY <1>5 DEF Runs

\* The family is a set of accounts, and the account is one of them.
LEMMA FamilyFacts ==
  ASSUME NEW a \in Accounts
  PROVE  a \in Family(a) /\ Family(a) \subseteq Accounts
<1> DEFINE fam[h \in 0..MaxHops] == IF h = 0 THEN {a} ELSE fam[h - 1] \cup Behind(fam[h - 1])
<1>1. fam = [h \in 0..MaxHops |-> IF h = 0 THEN {a} ELSE fam[h - 1] \cup Behind(fam[h - 1])]
  <2>1. MaxHops \in Nat BY ConstantsAssumption
  <2>2. PICK f : FamilyRun(f, a, MaxHops) BY <2>1, FamilyRuns
  <2>3. \E g : g = [h \in 0..MaxHops |-> IF h = 0 THEN {a} ELSE g[h - 1] \cup Behind(g[h - 1])]
    BY <2>2, Zenon DEF FamilyRun
  <2>4. QED BY <2>3, Zenon
<1>2. Family(a) = fam[MaxHops] BY DEF Family
<1> HIDE DEF fam
<1>3. PICK T : T = {n \in Nat : n <= MaxHops => a \in fam[n] /\ fam[n] \subseteq Accounts} OBVIOUS
<1>4. 0 \in T BY <1>1, <1>3, ConstantsAssumption
<1>5. ASSUME NEW n \in Nat, n \in T PROVE n + 1 \in T
  <2>1. CASE n + 1 <= MaxHops
    <3>1. n \in 0..MaxHops /\ n + 1 \in 0..MaxHops BY <2>1, ConstantsAssumption
    <3>2. n + 1 # 0 /\ (n + 1) - 1 = n OBVIOUS
    <3>3. fam[n + 1] = IF n + 1 = 0 THEN {a} ELSE fam[(n + 1) - 1] \cup Behind(fam[(n + 1) - 1])
      BY <1>1, <3>1, Zenon
    <3>4. fam[n + 1] = fam[n] \cup Behind(fam[n]) BY <3>2, <3>3
    <3>5. Behind(fam[n]) \subseteq Accounts BY DEF Behind
    <3>6. QED BY <1>3, <1>5, <3>1, <3>4, <3>5
  <2>2. CASE ~ (n + 1 <= MaxHops) BY <2>2, <1>3
  <2>3. QED BY <2>1, <2>2
<1>6. Nat \subseteq T BY <1>4, <1>5, AllNumbers
<1>7. QED BY <1>2, <1>3, <1>6, ConstantsAssumption

\* An account that exists leads to one that exists, and one that is live to
\* itself.
LEMMA LiveAccountFacts ==
  ASSUME Rows, References, NEW a \in Accounts
  PROVE  /\ LiveAccount(a) \in Accounts
         /\ Exists(a) => Exists(LiveAccount(a))
         /\ ~Tombstone(a) => LiveAccount(a) = a
<1>1. LiveAccount(a) \in Accounts
  BY HopsStay DEF Hop, Tombstone, Rows
<1>2. ASSUME Exists(a) PROVE Exists(LiveAccount(a))
  <2>1. PICK S : S = {b \in Accounts : Exists(b)} OBVIOUS
  <2>2. \A b \in S : Hop(b) \in S BY <2>1 DEF Hop, Tombstone, Rows, References
  <2>3. LiveAccount(a) \in S BY <1>2, <2>1, <2>2, HopsStay
  <2>4. QED BY <2>1, <2>3
<1>3. ASSUME ~Tombstone(a) PROVE LiveAccount(a) = a
  <2>1. \A b \in {a} : Hop(b) \in {a} BY <1>3 DEF Hop
  <2>2. LiveAccount(a) \in {a} BY <2>1, HopsStay
  <2>3. QED BY <2>2
<1>4. QED BY <1>1, <1>2, <1>3

-----------------------------------------------------------------------------
(* Devices and requests.                                                   *)

\* A request that ends, or was never out, is in order.
LEMMA AnswerFits ==
  ASSUME Rows, References, NEW d \in Devices, Answer(d)
  PROVE  /\ req' \in [Devices -> Request]
         /\ \A e \in Devices : req'[e].step # "idle" => req'[e].account \in Accounts
<1>1. Idle \in Request /\ Idle.step = "idle" BY DEF Idle, Request
<1>2. req' = [req EXCEPT ![d] = Idle] BY DEF Answer
<1>3. req' \in [Devices -> Request] BY <1>1, <1>2 DEF Rows
<1>4. \A e \in Devices : req'[e] = IF e = d THEN Idle ELSE req[e] BY <1>2 DEF Rows
<1>5. QED BY <1>1, <1>3, <1>4 DEF References

\* The account a handler runs with is an account.
LEMMA CallerFits ==
  ASSUME Rows, References, NEW d \in Devices, NEW a, Caller(d, a)
  PROVE  a \in Accounts
BY DEF Rows, References, Caller

\* A new handset on an account is subscribed to its topics.
LEMMA InsertKeeps ==
  ASSUME IInv, NEW d \in Devices, NEW a \in Accounts, home[d] = None, Insert(d, a),
         UNCHANGED <<topics, chosen>>
  PROVE  /\ home' \in [Devices -> Accounts \cup {None}]
         /\ subs' \subseteq Devices \X Names
         /\ \A e \in Devices : home'[e] = IF e = d THEN a ELSE home[e]
         /\ ReleasedAreSilent' /\ RingsFollowTheAccount'
<1> USE DEF IInv
<1>1. home' = [home EXCEPT ![d] = a] /\ subs' = subs \cup ({d} \X NamesOf(a)) BY DEF Insert
<1>2. NamesOf(a) \subseteq Names BY DEF NamesOf
<1>3. home' \in [Devices -> Accounts \cup {None}] /\ subs' \subseteq Devices \X Names
  BY <1>1, <1>2 DEF Rows
<1>4. \A e \in Devices : home'[e] = IF e = d THEN a ELSE home[e] BY <1>1 DEF Rows
<1>5. \A e \in Devices, n \in Names :
        <<e, n>> \in subs' <=> <<e, n>> \in subs \/ (e = d /\ n \in NamesOf(a))
  BY <1>1
<1>6. None \notin Accounts BY ConstantsAssumption
<1>7. ReleasedAreSilent' BY <1>4, <1>5, <1>6 DEF ReleasedAreSilent
<1>8. RingsFollowTheAccount'
  <2>1. ASSUME NEW e \in Devices, NEW n \in Names, home'[e] # None, <<e, n>> \notin chosen
        PROVE  <<e, n>> \in subs' <=> <<home'[e], n>> \in topics
    <3>1. CASE e = d
      <4>1. <<e, n>> \notin subs BY <3>1 DEF ReleasedAreSilent
      <4>2. QED BY <1>4, <1>5, <3>1, <4>1 DEF NamesOf
    <3>2. CASE e # d BY <1>4, <1>5, <2>1, <3>2 DEF RingsFollowTheAccount, NamesOf
    <3>3. QED BY <3>1, <3>2
  <2>2. QED BY <2>1 DEF RingsFollowTheAccount, NamesOf
<1>9. QED BY <1>3, <1>4, <1>7, <1>8

\* A handset registers with an account of its own.
LEMMA RegisterNewKeeps == ASSUME IInv, NEW d \in Devices, RegisterNew(d) PROVE IInv'
<1> USE DEF IInv
<1>1. PICK a \in Accounts :
        /\ into[a] = Unborn /\ into' = [into EXCEPT ![a] = Live]
        /\ join' = [join EXCEPT ![a] = TRUE] /\ Insert(d, a)
  BY DEF RegisterNew, Fresh
<1>2. /\ home[d] = None
      /\ UNCHANGED <<owner, topics, tokens, alarms, chosen, req>>
  BY DEF RegisterNew
<1>3. /\ home' \in [Devices -> Accounts \cup {None}]
      /\ subs' \subseteq Devices \X Names
      /\ \A e \in Devices : home'[e] = IF e = d THEN a ELSE home[e]
      /\ ReleasedAreSilent' /\ RingsFollowTheAccount'
  BY <1>1, <1>2, InsertKeeps
<1>4. Rows' BY <1>1, <1>2, <1>3 DEF Rows
<1>5. \A b \in Accounts : Exists(b) => Exists(b)' BY <1>1 DEF Rows, Exists, Tombstone
<1>6. Exists(a)' BY <1>1 DEF Rows, Exists
<1>7. References'
  <2>1. \A b \in Accounts : Tombstone(b)' => Exists(into[b])'
    BY <1>1, <1>5, ConstantsAssumption DEF Rows, References, Exists, Tombstone
  <2>2. \A b \in Accounts : join'[b] => Exists(b)' BY <1>1, <1>5, <1>6 DEF Rows, References
  <2>3. \A u \in Users : owner'[u] # None => Exists(owner[u])'
    BY <1>2, <1>5 DEF Rows, References, Exists, Tombstone
  <2>4. \A e \in Devices : home'[e] # None => Exists(home[e])'
    BY <1>3, <1>5, <1>6 DEF Rows, References, Exists, Tombstone
  <2>5. \A t \in topics : Exists(t[1])' BY <1>5 DEF Rows, References, Topics
  <2>6. QED BY <1>2, <2>1, <2>2, <2>3, <2>4, <2>5 DEF References
<1>8. OneAlarmPerTopic' BY <1>2 DEF OneAlarmPerTopic
<1>9. QED BY <1>3, <1>4, <1>7, <1>8

\* A handset registers on an account that has a join token or a device.
LEMMA RegisterOnKeeps ==
  ASSUME IInv, NEW d \in Devices, NEW a \in Accounts, RegisterOn(d, a) PROVE IInv'
<1> USE DEF IInv
<1>1. /\ home[d] = None /\ Insert(d, a)
      /\ UNCHANGED <<into, join, owner, topics, tokens, alarms, chosen, req>>
  BY DEF RegisterOn
<1>2. Exists(a)
  <2>1. a # None BY ConstantsAssumption
  <2>2. CASE join[a] BY <2>2 DEF References
  <2>3. CASE On(a) # {} BY <2>1, <2>3 DEF On, References
  <2>4. QED BY <2>2, <2>3 DEF RegisterOn
<1>3. /\ home' \in [Devices -> Accounts \cup {None}]
      /\ subs' \subseteq Devices \X Names
      /\ \A e \in Devices : home'[e] = IF e = d THEN a ELSE home[e]
      /\ ReleasedAreSilent' /\ RingsFollowTheAccount'
  BY <1>1, InsertKeeps
<1>4. Rows' BY <1>1, <1>3 DEF Rows
<1>5. References' BY <1>1, <1>2, <1>3 DEF References, Exists, Tombstone
<1>6. OneAlarmPerTopic' BY <1>1 DEF OneAlarmPerTopic
<1>7. QED BY <1>3, <1>4, <1>5, <1>6

\* A handset leaves with its subscriptions.
LEMMA ReleaseKeeps == ASSUME IInv, NEW d \in Devices, Release(d) PROVE IInv'
<1> USE DEF IInv
<1>1. /\ home' = [home EXCEPT ![d] = None]
      /\ subs' = {s \in subs : s[1] # d} /\ chosen' = {s \in chosen : s[1] # d}
      /\ UNCHANGED <<into, join, owner, topics, tokens, alarms, req>>
  BY DEF Release
<1>2. \A e \in Devices : home'[e] = IF e = d THEN None ELSE home[e] BY <1>1 DEF Rows
<1>3. \A e \in Devices, n \in Names :
        /\ <<e, n>> \in subs' <=> <<e, n>> \in subs /\ e # d
        /\ <<e, n>> \in chosen' <=> <<e, n>> \in chosen /\ e # d
  BY <1>1
<1>4. Rows' BY <1>1 DEF Rows
<1>5. References' BY <1>1, <1>2 DEF References, Exists, Tombstone
<1>6. ReleasedAreSilent' BY <1>2, <1>3 DEF ReleasedAreSilent
<1>7. RingsFollowTheAccount' BY <1>1, <1>2, <1>3 DEF RingsFollowTheAccount, NamesOf
<1>8. OneAlarmPerTopic' BY <1>1 DEF OneAlarmPerTopic
<1>9. QED BY <1>4, <1>5, <1>6, <1>7, <1>8

\* A device chooses for itself.
LEMMA SubscribeKeeps ==
  ASSUME IInv, NEW d \in Devices, NEW n \in Names, Subscribe(d, n) PROVE IInv'
<1> USE DEF IInv
<1>1. /\ home[d] # None
      /\ subs' = subs \cup {<<d, n>>} \/ subs' = subs \ {<<d, n>>}
      /\ chosen' = chosen \cup {<<d, n>>}
      /\ UNCHANGED <<into, join, owner, home, topics, tokens, alarms, req>>
  BY DEF Subscribe
<1>2. Rows' BY <1>1 DEF Rows
<1>3. References' BY <1>1 DEF References, Exists, Tombstone
<1>4. ReleasedAreSilent' BY <1>1 DEF ReleasedAreSilent
<1>5. RingsFollowTheAccount' BY <1>1 DEF RingsFollowTheAccount, NamesOf
<1>6. OneAlarmPerTopic' BY <1>1 DEF OneAlarmPerTopic
<1>7. QED BY <1>2, <1>3, <1>4, <1>5, <1>6

\* A step that leaves the tables alone.
LEMMA TablesStay ==
  ASSUME IInv, Rows', UNCHANGED <<into, owner, home, topics, tokens, subs, chosen, alarms>>,
         \A b \in Accounts : join'[b] => Exists(b),
         \A e \in Devices : req'[e].step # "idle" => req'[e].account \in Accounts
  PROVE  IInv'
<1> USE DEF IInv
<1>1. References' BY DEF References, Exists, Tombstone
<1>2. ReleasedAreSilent' /\ OneAlarmPerTopic' BY DEF ReleasedAreSilent, OneAlarmPerTopic
<1>3. RingsFollowTheAccount' BY DEF RingsFollowTheAccount, NamesOf
<1>4. QED BY <1>1, <1>2, <1>3

\* A new join token is for the account the device is on.
LEMMA MintJoinTokenKeeps == ASSUME IInv, NEW d \in Devices, MintJoinToken(d) PROVE IInv'
<1>1. PICK a \in Accounts : a = home[d] /\ Exists(a)
  BY DEF MintJoinToken, IInv, Rows, References
<1>2. PICK b \in Accounts : b = LiveAccount(a) /\ Exists(b)
  BY <1>1, LiveAccountFacts DEF IInv
<1>3. /\ join' = [join EXCEPT ![b] = TRUE]
      /\ UNCHANGED <<into, owner, home, topics, tokens, alarms, subs, chosen, req>>
  BY <1>1, <1>2 DEF MintJoinToken
<1>4. Rows' BY <1>3 DEF IInv, Rows
<1>5. \A c \in Accounts : join'[c] => Exists(c) BY <1>2, <1>3 DEF IInv, Rows, References
<1>6. \A e \in Devices : req'[e].step # "idle" => req'[e].account \in Accounts
  BY <1>3 DEF IInv, References
<1>7. QED BY <1>3, <1>4, <1>5, <1>6, TablesStay

\* A request is authenticated.
LEMMA AuthenticateKeeps == ASSUME IInv, NEW d \in Devices, Authenticate(d) PROVE IInv'
<1>1. PICK a \in Accounts : a = home[d] BY DEF Authenticate, IInv, Rows
<1> DEFINE r == [step |-> "body", account |-> a]
<1>2. r \in Request /\ r.account \in Accounts BY DEF Request
<1>3. /\ req' = [req EXCEPT ![d] = r]
      /\ UNCHANGED <<into, join, owner, home, topics, tokens, alarms, subs, chosen>>
  BY <1>1, <1>2 DEF Authenticate
<1> HIDE DEF r
<1>4. Rows' BY <1>2, <1>3 DEF IInv, Rows
<1>5. \A e \in Devices : req'[e].step # "idle" => req'[e].account \in Accounts
  BY <1>2, <1>3 DEF IInv, Rows, References
<1>6. QED BY <1>3, <1>4, <1>5, TablesStay DEF IInv, References

\* A request ends with nothing written.
LEMMA RefuseKeeps == ASSUME IInv, NEW d \in Devices, Refuse(d) PROVE IInv'
<1>1. /\ Answer(d)
      /\ UNCHANGED <<into, join, owner, home, topics, tokens, alarms, subs, chosen>>
  BY DEF Refuse
<1>2. /\ req' \in [Devices -> Request]
      /\ \A e \in Devices : req'[e].step # "idle" => req'[e].account \in Accounts
  BY <1>1, AnswerFits DEF IInv
<1>3. Rows' BY <1>1, <1>2 DEF IInv, Rows
<1>4. QED BY <1>1, <1>2, <1>3, TablesStay DEF IInv, References

-----------------------------------------------------------------------------
(* Topics, tokens and alarms.                                              *)

\* A new token of a topic.
LEMMA IssueFits ==
  ASSUME Rows, References, NEW t \in Topics, Issue(t)
  PROVE  /\ tokens' \in [Tokens -> TokenRow]
         /\ \A k \in Tokens : tokens'[k] = tokens[k] \/ tokens'[k].topic = t
<1>1. PICK k \in Tokens : tokens' = [tokens EXCEPT ![k] = [topic |-> t, late |-> Tombstone(t[1])]]
  BY DEF Issue
<1> DEFINE r == [topic |-> t, late |-> Tombstone(t[1])]
<1>2. r \in TokenRow /\ r.topic = t BY DEF TokenRow, Tombstone
<1> HIDE DEF r
<1>3. tokens' = [tokens EXCEPT ![k] = r] BY <1>1 DEF r
<1>4. QED BY <1>2, <1>3 DEF Rows

\* A topic is created, and every device of the account is subscribed to it.
LEMMA CreateTopicKeeps ==
  ASSUME IInv, NEW d \in Devices, NEW a \in Accounts, NEW n \in Names, CreateTopic(d, a, n)
  PROVE  IInv'
<1> USE DEF IInv
<1> DEFINE t == <<a, n>>
<1>1. /\ Exists(a) /\ topics' = topics \cup {t} /\ Issue(t)
      /\ subs' = subs \cup (On(a) \X {n}) /\ chosen' = chosen \ (On(a) \X {n})
      /\ Answer(d)
      /\ UNCHANGED <<into, join, owner, home, alarms>>
  BY DEF CreateTopic, SweepTopic
<1>2. t \in Topics /\ t[1] = a BY DEF Topics
<1>3. /\ tokens' \in [Tokens -> TokenRow]
      /\ \A k \in Tokens : tokens'[k] = tokens[k] \/ tokens'[k].topic = t
  BY <1>1, <1>2, IssueFits
<1>4. /\ req' \in [Devices -> Request]
      /\ \A e \in Devices : req'[e].step # "idle" => req'[e].account \in Accounts
  BY <1>1, AnswerFits
<1>5. On(a) \subseteq Devices BY DEF On
<1>6. \A e \in Devices, m \in Names :
        /\ <<e, m>> \in subs' <=> <<e, m>> \in subs \/ (home[e] = a /\ m = n)
        /\ <<e, m>> \in chosen' <=> <<e, m>> \in chosen /\ ~ (home[e] = a /\ m = n)
  BY <1>1 DEF On
<1>7. Rows' BY <1>1, <1>2, <1>3, <1>4, <1>5 DEF Rows
<1>8. References'
  <2>1. \A s \in topics' : Exists(s[1])' BY <1>1, <1>2 DEF References, Exists, Tombstone
  <2>2. \A k \in Tokens : tokens'[k] = Free \/ tokens'[k].topic \in topics'
    BY <1>1, <1>3 DEF References
  <2>3. QED BY <1>1, <1>4, <2>1, <2>2 DEF References, Exists, Tombstone
<1>9. ReleasedAreSilent' BY <1>1, <1>6, ConstantsAssumption DEF ReleasedAreSilent
<1>10. RingsFollowTheAccount'
  <2>1. \A b, m : <<b, m>> \in topics' <=> <<b, m>> \in topics \/ (b = a /\ m = n) BY <1>1
  <2>2. QED BY <1>1, <1>6, <2>1 DEF RingsFollowTheAccount, NamesOf
<1>11. OneAlarmPerTopic' BY <1>1 DEF OneAlarmPerTopic
<1>12. QED BY <1>7, <1>8, <1>9, <1>10, <1>11

\* A step that changes tokens only.
LEMMA TokensMove ==
  ASSUME IInv, tokens' \in [Tokens -> TokenRow],
         \A k \in Tokens : tokens'[k] = Free \/ tokens'[k].topic \in topics,
         req' \in [Devices -> Request],
         \A e \in Devices : req'[e].step # "idle" => req'[e].account \in Accounts,
         UNCHANGED <<into, join, owner, home, topics, alarms, subs, chosen>>
  PROVE  IInv'
<1> USE DEF IInv
<1>1. Rows' BY DEF Rows
<1>2. References' BY DEF References, Exists, Tombstone
<1>3. ReleasedAreSilent' /\ OneAlarmPerTopic' BY DEF ReleasedAreSilent, OneAlarmPerTopic
<1>4. RingsFollowTheAccount' BY DEF RingsFollowTheAccount, NamesOf
<1>5. QED BY <1>1, <1>2, <1>3, <1>4

\* One more token of a topic.
LEMMA AddTokenKeeps ==
  ASSUME IInv, NEW d \in Devices, NEW a \in Accounts, NEW n \in Names, AddToken(d, a, n)
  PROVE  IInv'
<1>1. /\ <<a, n>> \in topics /\ Issue(<<a, n>>) /\ Answer(d)
      /\ UNCHANGED <<into, join, owner, home, topics, alarms, subs, chosen>>
  BY DEF AddToken
<1>2. PICK t \in Topics : t = <<a, n>> BY DEF Topics
<1>3. Issue(t) /\ t \in topics BY <1>1, <1>2
<1>4. /\ tokens' \in [Tokens -> TokenRow]
      /\ \A k \in Tokens : tokens'[k] = tokens[k] \/ tokens'[k].topic = t
  BY <1>3, IssueFits DEF IInv
<1>5. \A k \in Tokens : tokens'[k] = Free \/ tokens'[k].topic \in topics
  BY <1>3, <1>4 DEF IInv, References
<1>6. /\ req' \in [Devices -> Request]
      /\ \A e \in Devices : req'[e].step # "idle" => req'[e].account \in Accounts
  BY <1>1, AnswerFits DEF IInv
<1>7. QED BY <1>1, <1>4, <1>5, <1>6, TokensMove

\* A token is deleted.
LEMMA DeleteTokenKeeps ==
  ASSUME IInv, NEW d \in Devices, NEW k \in Tokens, DeleteToken(d, k) PROVE IInv'
<1>1. /\ tokens' = [tokens EXCEPT ![k] = Free]
      /\ UNCHANGED <<into, join, owner, home, topics, alarms, subs, chosen, req>>
  BY DEF DeleteToken
<1>2. Free \in TokenRow BY DEF Free, TokenRow
<1>3. tokens' \in [Tokens -> TokenRow] BY <1>1, <1>2 DEF IInv, Rows
<1>4. \A j \in Tokens : tokens'[j] = Free \/ tokens'[j].topic \in topics
  BY <1>1 DEF IInv, Rows, References
<1>5. QED BY <1>1, <1>3, <1>4, TokensMove DEF IInv, Rows, References

\* Topics go with their tokens and alarms.
LEMMA WithoutFits ==
  ASSUME IInv, NEW T, Without(T)
  PROVE  /\ topics' = topics \ T /\ topics' \subseteq Topics
         /\ tokens' \in [Tokens -> TokenRow]
         /\ alarms' \in [Incidents -> AlarmRow \cup {None}]
         /\ \A k \in Tokens : tokens'[k] = Free \/ tokens'[k].topic \in topics'
         /\ \A i \in Incidents : alarms'[i] # None => alarms'[i].topic \in topics'
         /\ OneAlarmPerTopic'
<1> USE DEF IInv
<1>1. /\ topics' = topics \ T
      /\ tokens' = [k \in Tokens |-> IF tokens[k].topic \in T THEN Free ELSE tokens[k]]
      /\ alarms' = [i \in Incidents |->
                     IF alarms[i] # None /\ alarms[i].topic \in T THEN None ELSE alarms[i]]
  BY DEF Without
<1>2. topics' \subseteq Topics BY <1>1 DEF Rows
<1>3. Free \in TokenRow BY DEF Free, TokenRow
<1>4. tokens' \in [Tokens -> TokenRow] BY <1>1, <1>3 DEF Rows
<1>5. alarms' \in [Incidents -> AlarmRow \cup {None}] BY <1>1 DEF Rows
<1>6. \A k \in Tokens : tokens'[k] = Free \/ tokens'[k].topic \in topics'
  BY <1>1 DEF References
<1>7. \A i \in Incidents : alarms'[i] # None => alarms'[i].topic \in topics'
  BY <1>1 DEF References
<1>8. OneAlarmPerTopic' BY <1>1 DEF OneAlarmPerTopic
<1>9. QED BY <1>1, <1>2, <1>4, <1>5, <1>6, <1>7, <1>8

\* A topic is deleted.
LEMMA DeleteTopicKeeps ==
  ASSUME IInv, NEW d \in Devices, NEW n \in Names, DeleteTopic(d, n) PROVE IInv'
<1> USE DEF IInv
<1>1. PICK a : a = home[d] OBVIOUS
<1>2. PICK T : T = {<<a, n>>} OBVIOUS
<1>3. /\ <<a, n>> \in topics /\ Without(T)
      /\ subs' = subs \ (On(a) \X {n}) /\ chosen' = chosen \ (On(a) \X {n})
      /\ UNCHANGED <<into, join, owner, home, req>>
  BY <1>1, <1>2 DEF DeleteTopic
<1>4. a \in Accounts BY <1>3 DEF Rows, Topics
<1>5. /\ topics' = topics \ T /\ topics' \subseteq Topics
      /\ tokens' \in [Tokens -> TokenRow]
      /\ alarms' \in [Incidents -> AlarmRow \cup {None}]
      /\ \A k \in Tokens : tokens'[k] = Free \/ tokens'[k].topic \in topics'
      /\ \A i \in Incidents : alarms'[i] # None => alarms'[i].topic \in topics'
      /\ OneAlarmPerTopic'
  BY <1>3, WithoutFits
<1>6. \A e \in Devices, m \in Names :
        /\ <<e, m>> \in subs' <=> <<e, m>> \in subs /\ ~ (home[e] = a /\ m = n)
        /\ <<e, m>> \in chosen' <=> <<e, m>> \in chosen /\ ~ (home[e] = a /\ m = n)
  BY <1>3 DEF On
<1>7. Rows' BY <1>3, <1>5 DEF Rows
<1>8. References' BY <1>3, <1>5 DEF References, Exists, Tombstone
<1>9. ReleasedAreSilent' BY <1>3, <1>6 DEF ReleasedAreSilent
<1>10. RingsFollowTheAccount'
  <2>1. \A b, m : <<b, m>> \in topics' <=> <<b, m>> \in topics /\ ~ (b = a /\ m = n)
    BY <1>2, <1>5
  <2>2. QED BY <1>3, <1>6, <2>1 DEF RingsFollowTheAccount, NamesOf
<1>11. QED BY <1>5, <1>7, <1>8, <1>9, <1>10

\* A step that changes alarms only.
LEMMA AlarmsMove ==
  ASSUME IInv, alarms' \in [Incidents -> AlarmRow \cup {None}],
         \A i \in Incidents : alarms'[i] # None => alarms'[i].topic \in topics,
         OneAlarmPerTopic',
         UNCHANGED <<into, join, owner, home, topics, tokens, subs, chosen, req>>
  PROVE  IInv'
<1> USE DEF IInv
<1>1. Rows' BY DEF Rows
<1>2. References' BY DEF References, Exists, Tombstone
<1>3. ReleasedAreSilent' BY DEF ReleasedAreSilent
<1>4. RingsFollowTheAccount' BY DEF RingsFollowTheAccount, NamesOf
<1>5. QED BY <1>1, <1>2, <1>3, <1>4

\* A publish raises an alarm on a topic that has none.
LEMMA PublishKeeps == ASSUME IInv, NEW k \in Tokens, Publish(k) PROVE IInv'
<1> USE DEF IInv
<1>1. PICK t : t = tokens[k].topic OBVIOUS
<1>2. /\ t # None /\ \A j \in Incidents : alarms[j] # None => alarms[j].topic # t
      /\ UNCHANGED <<into, join, owner, home, topics, tokens, subs, chosen, req>>
  BY <1>1 DEF Publish
<1>3. PICK i \in Incidents : alarms' = [alarms EXCEPT ![i] = [topic |-> t, state |-> "open"]]
  BY <1>1 DEF Publish
<1> DEFINE r == [topic |-> t, state |-> "open"]
<1>4. t \in topics /\ t \in Topics BY <1>1, <1>2 DEF References, Rows, Free
<1>5. r \in AlarmRow /\ r.topic = t BY <1>4 DEF AlarmRow
<1> HIDE DEF r
<1>6. alarms' = [alarms EXCEPT ![i] = r] BY <1>3 DEF r
<1>7. alarms' \in [Incidents -> AlarmRow \cup {None}] BY <1>5, <1>6 DEF Rows
<1>8. \A j \in Incidents : alarms'[j] = IF j = i THEN r ELSE alarms[j] BY <1>6 DEF Rows
<1>9. \A j \in Incidents : alarms'[j] # None => alarms'[j].topic \in topics
  BY <1>4, <1>5, <1>8 DEF References
<1>10. OneAlarmPerTopic' BY <1>2, <1>5, <1>8 DEF OneAlarmPerTopic
<1>11. QED BY <1>2, <1>7, <1>9, <1>10, AlarmsMove

\* An alarm is acknowledged, rings again or ends.
LEMMA AlarmMovesKeeps == ASSUME IInv, NEW i \in Incidents, AlarmMoves(i) PROVE IInv'
<1> USE DEF IInv
<1>1. alarms[i] # None /\ alarms[i] \in AlarmRow BY DEF AlarmMoves, Rows
<1>2. PICK r \in AlarmRow \cup {None} :
        /\ alarms' = [alarms EXCEPT ![i] = r]
        /\ r # None => r.topic = alarms[i].topic
  <2> DEFINE r == [alarms[i] EXCEPT !.state = IF alarms[i].state = "open" THEN "acked" ELSE "open"]
  <2>1. r \in AlarmRow /\ r.topic = alarms[i].topic BY <1>1 DEF AlarmRow
  <2>2. alarms' = [alarms EXCEPT ![i] = r] \/ alarms' = [alarms EXCEPT ![i] = None]
    BY DEF AlarmMoves
  <2>3. QED BY <2>1, <2>2
<1>3. UNCHANGED <<into, join, owner, home, topics, tokens, subs, chosen, req>> BY DEF AlarmMoves
<1>4. alarms' \in [Incidents -> AlarmRow \cup {None}] BY <1>2 DEF Rows
<1>5. \A j \in Incidents : alarms'[j] = IF j = i THEN r ELSE alarms[j] BY <1>2 DEF Rows
<1>6. \A j \in Incidents : alarms'[j] # None => alarms'[j].topic \in topics
  BY <1>1, <1>2, <1>5 DEF References
<1>7. OneAlarmPerTopic' BY <1>1, <1>2, <1>5 DEF OneAlarmPerTopic
<1>8. QED BY <1>3, <1>4, <1>6, <1>7, AlarmsMove

-----------------------------------------------------------------------------
(* Link, switch and merge.                                                 *)

\* An identity's account exists.
LEMMA IdentityFits ==
  ASSUME IInv, NEW u \in Users, IdentityAccount(u) # None
  PROVE  IdentityAccount(u) \in Accounts /\ Exists(IdentityAccount(u))
<1>1. PICK a \in Accounts : a = owner[u] /\ Exists(a) /\ IdentityAccount(u) = LiveAccount(a)
  BY DEF IdentityAccount, IInv, Rows, References
<1>2. QED BY <1>1, LiveAccountFacts DEF IInv

\* A new identity joins the account the device is on.
LEMMA ClaimKeeps ==
  ASSUME IInv, NEW d \in Devices, NEW a \in Accounts, NEW u \in Users, NEW intent,
         Claim(d, a, u, intent)
  PROVE  IInv'
<1> USE DEF IInv
<1>1. PICK s \in Accounts : s = LiveAccount(a) /\ Exists(s)
  BY LiveAccountFacts DEF Claim
<1>2. /\ owner' = [owner EXCEPT ![u] = s] /\ Answer(d)
      /\ UNCHANGED <<into, join, home, topics, tokens, alarms, subs, chosen>>
  BY <1>1 DEF Claim
<1>3. /\ req' \in [Devices -> Request]
      /\ \A e \in Devices : req'[e].step # "idle" => req'[e].account \in Accounts
  BY <1>2, AnswerFits
<1>4. Rows' BY <1>2, <1>3 DEF Rows
<1>5. \A v \in Users : owner'[v] = IF v = u THEN s ELSE owner[v] BY <1>2 DEF Rows
<1>6. References' BY <1>1, <1>2, <1>3, <1>5 DEF References, Exists, Tombstone
<1>7. ReleasedAreSilent' /\ OneAlarmPerTopic' BY <1>2 DEF ReleasedAreSilent, OneAlarmPerTopic
<1>8. RingsFollowTheAccount' BY <1>2 DEF RingsFollowTheAccount, NamesOf
<1>9. QED BY <1>4, <1>6, <1>7, <1>8

\* Devices that move are subscribed to what they are given, and the others
\* keep what they have.
LEMMA MoveDevicesFits ==
  ASSUME Rows, NEW from \in Accounts, NEW to \in Accounts,
         NEW names \in SUBSET Names, NEW S \in SUBSET (Devices \X Names),
         MoveDevices(from, to, names, S)
  PROVE  /\ home' \in [Devices -> Accounts \cup {None}]
         /\ subs' \subseteq Devices \X Names /\ chosen' \subseteq Devices \X Names
         /\ \A e \in Devices : home'[e] = IF home[e] = from THEN to ELSE home[e]
         /\ \A e \in Devices, m \in Names :
              /\ <<e, m>> \in subs' <=> IF home[e] = from THEN m \in names ELSE <<e, m>> \in S
              /\ <<e, m>> \in chosen' <=> <<e, m>> \in chosen /\ home[e] # from
<1>1. /\ home' = [d \in Devices |-> IF home[d] = from THEN to ELSE home[d]]
      /\ subs' = {s \in S : s[1] \notin On(from)} \cup (On(from) \X names)
      /\ chosen' = {s \in chosen : s[1] \notin On(from)}
  BY DEF MoveDevices
<1>2. On(from) \subseteq Devices /\ \A e \in Devices : e \in On(from) <=> home[e] = from
  BY DEF On
<1>3. home' \in [Devices -> Accounts \cup {None}] BY <1>1 DEF Rows
<1>4. subs' \subseteq Devices \X Names BY <1>1, <1>2
<1>5. chosen' \subseteq Devices \X Names BY <1>1 DEF Rows
<1>6. \A e \in Devices, m \in Names :
        <<e, m>> \in subs' <=> IF home[e] = from THEN m \in names ELSE <<e, m>> \in S
  BY <1>1, <1>2
<1>7. \A e \in Devices, m \in Names :
        <<e, m>> \in chosen' <=> <<e, m>> \in chosen /\ home[e] # from
  BY <1>1, <1>2
<1>8. QED BY <1>1, <1>3, <1>4, <1>5, <1>6, <1>7

\* A tombstone loses its join token and its identities.
LEMMA BuryFits ==
  ASSUME Rows, NEW from \in Accounts, NEW to \in Accounts, Bury(from, to)
  PROVE  /\ join' \in [Accounts -> BOOLEAN] /\ owner' \in [Users -> Accounts \cup {None}]
         /\ \A b \in Accounts : join'[b] <=> join[b] /\ b # from
         /\ \A u \in Users : owner'[u] = IF owner[u] = from THEN to ELSE owner[u]
BY DEF Bury, Rows

\* An account that exists is pointed at another one that exists.
LEMMA MoveAccount ==
  ASSUME IInv, NEW source \in Accounts, NEW target \in Accounts, NEW d \in Devices,
         source # target, Exists(source), Exists(target),
         into' = [into EXCEPT ![source] = target],
         MoveDevices(source, target, NamesOf(target), subs), Bury(source, target), Answer(d),
         tokens' \in [Tokens -> TokenRow],
         \A k \in Tokens : tokens'[k] = Free \/ tokens'[k] = tokens[k],
         UNCHANGED <<topics, alarms>>
  PROVE  IInv'
<1> USE DEF IInv
<1>1. PICK names \in SUBSET Names : names = NamesOf(target) BY DEF NamesOf
<1>2. PICK S \in SUBSET (Devices \X Names) : S = subs BY DEF Rows
<1>3. MoveDevices(source, target, names, S) BY <1>1, <1>2 DEF MoveDevices
<1>4. /\ home' \in [Devices -> Accounts \cup {None}]
      /\ subs' \subseteq Devices \X Names /\ chosen' \subseteq Devices \X Names
      /\ \A e \in Devices : home'[e] = IF home[e] = source THEN target ELSE home[e]
      /\ \A e \in Devices, m \in Names :
           /\ <<e, m>> \in subs' <=> IF home[e] = source THEN m \in names ELSE <<e, m>> \in S
           /\ <<e, m>> \in chosen' <=> <<e, m>> \in chosen /\ home[e] # source
  BY <1>3, MoveDevicesFits
<1>5. /\ join' \in [Accounts -> BOOLEAN] /\ owner' \in [Users -> Accounts \cup {None}]
      /\ \A b \in Accounts : join'[b] <=> join[b] /\ b # source
      /\ \A u \in Users : owner'[u] = IF owner[u] = source THEN target ELSE owner[u]
  BY BuryFits
<1>6. /\ req' \in [Devices -> Request]
      /\ \A e \in Devices : req'[e].step # "idle" => req'[e].account \in Accounts
  BY AnswerFits
<1>7. Rows' BY <1>4, <1>5, <1>6 DEF Rows
<1>8. \A b \in Accounts : into'[b] = IF b = source THEN target ELSE into[b] BY DEF Rows
<1>9. \A b \in Accounts : Exists(b) => Exists(b)' BY <1>8 DEF Exists, Tombstone
<1>10. References'
  <2>1. \A b \in Accounts : Tombstone(b)' => Exists(into[b])'
    BY <1>8, <1>9 DEF References, Tombstone, Exists
  <2>2. \A b \in Accounts : join'[b] => Exists(b)' BY <1>5, <1>9 DEF References
  <2>3. \A u \in Users : owner'[u] # None => Exists(owner[u])'
    BY <1>5, <1>8, <1>9 DEF Rows, References, Exists, Tombstone
  <2>4. \A e \in Devices : home'[e] # None => Exists(home[e])'
    BY <1>4, <1>8, <1>9 DEF Rows, References, Exists, Tombstone
  <2>5. \A t \in topics : Exists(t[1])' BY <1>9 DEF Rows, References, Topics
  <2>6. QED BY <1>6, <2>1, <2>2, <2>3, <2>4, <2>5 DEF References
<1>11. ReleasedAreSilent'
  BY <1>2, <1>4, ConstantsAssumption DEF ReleasedAreSilent
<1>12. RingsFollowTheAccount' BY <1>1, <1>2, <1>4 DEF RingsFollowTheAccount, NamesOf
<1>13. OneAlarmPerTopic' BY DEF OneAlarmPerTopic
<1>14. QED BY <1>7, <1>10, <1>11, <1>12, <1>13

\* An empty account joins the identity's account.
LEMMA AttachKeeps ==
  ASSUME IInv, NEW d \in Devices, NEW a \in Accounts, NEW u \in Users, NEW intent,
         Attach(d, a, u, intent)
  PROVE  IInv'
<1>1. PICK source \in Accounts : source = LiveAccount(a) /\ Exists(source)
  BY LiveAccountFacts DEF Attach, IInv
<1>2. PICK target \in Accounts : target = IdentityAccount(u) /\ Exists(target) /\ target # source
  BY <1>1, IdentityFits DEF Attach
<1>3. /\ into' = [into EXCEPT ![source] = target]
      /\ MoveDevices(source, target, NamesOf(target), subs)
      /\ Bury(source, target) /\ Answer(d) /\ UNCHANGED <<topics, tokens, alarms>>
  BY <1>1, <1>2 DEF Attach
<1>4. tokens' \in [Tokens -> TokenRow] BY <1>3 DEF IInv, Rows
<1>5. QED BY <1>1, <1>2, <1>3, <1>4, MoveAccount

\* An account is left for the identity's, and its tokens are revoked.
LEMMA SwitchKeeps ==
  ASSUME IInv, NEW d \in Devices, NEW a \in Accounts, NEW u \in Users, Switch(d, a, u)
  PROVE  IInv'
<1>1. PICK source \in Accounts : source = LiveAccount(a) /\ Exists(source)
  BY LiveAccountFacts DEF Switch, IInv
<1>2. PICK target \in Accounts : target = IdentityAccount(u) /\ Exists(target) /\ target # source
  BY <1>1, IdentityFits DEF Switch
<1>3. /\ into' = [into EXCEPT ![source] = target]
      /\ MoveDevices(source, target, NamesOf(target), subs)
      /\ tokens' = [k \in Tokens |-> IF Revoked(k, source) THEN Free ELSE tokens[k]]
      /\ Bury(source, target) /\ Answer(d) /\ UNCHANGED <<topics, alarms>>
  BY <1>1, <1>2 DEF Switch
<1>4. Free \in TokenRow BY DEF Free, TokenRow
<1>5. tokens' \in [Tokens -> TokenRow] BY <1>3, <1>4 DEF IInv, Rows
<1>6. \A k \in Tokens : tokens'[k] = Free \/ tokens'[k] = tokens[k] BY <1>3
<1>7. QED BY <1>1, <1>2, <1>3, <1>5, <1>6, MoveAccount

\* Where a fold leaves a topic.
Folded(t, source, target) == IF t[1] = source THEN <<target, t[2]>> ELSE t

\* A merge, with its operators written out.
LEMMA MergeFacts ==
  ASSUME IInv, NEW d \in Devices, NEW source \in Accounts, NEW u \in Users,
         Merge(d, source, u)
  PROVE  \E target \in Accounts :
           /\ target = IdentityAccount(u) /\ Exists(target) /\ target # source
           /\ into[source] = Live /\ Quiet(source, target)
           /\ into' = [b \in Accounts |->
                         IF b = source \/ into[b] = source THEN target ELSE into[b]]
           /\ topics' = {Folded(t, source, target) : t \in topics}
           /\ \A k \in Tokens :
                tokens'[k] = IF tokens[k] = Free THEN Free
                             ELSE [tokens[k] EXCEPT !.topic = Folded(tokens[k].topic, source, target)]
           /\ tokens' \in [Tokens -> TokenRow]
           /\ alarms' = [i \in Incidents |-> IF alarms[i] = None THEN None
                ELSE [alarms[i] EXCEPT !.topic = Folded(alarms[i].topic, source, target)]]
           /\ MoveDevices(source, target, NamesOf(source) \cup NamesOf(target),
                 subs \cup (On(target) \X (NamesOf(source) \ NamesOf(target))))
           /\ Bury(source, target) /\ Answer(d)
<1> USE DEF IInv
<1>1. PICK target \in Accounts : target = IdentityAccount(u) /\ Exists(target) /\ target # source
  BY IdentityFits DEF Merge
<1> DEFINE Fold(t) == IF t # None /\ t[1] = source THEN <<target, t[2]>> ELSE t
<1>2. \A t \in Topics : Fold(t) = Folded(t, source, target) /\ Folded(t, source, target) \in Topics
  BY ConstantsAssumption DEF Folded, Topics
<1>3. /\ into[source] = Live /\ Quiet(source, target)
      /\ into' = [b \in Accounts |-> IF b = source \/ into[b] = source THEN target ELSE into[b]]
      /\ MoveDevices(source, target, NamesOf(source) \cup NamesOf(target),
            subs \cup (On(target) \X (NamesOf(source) \ NamesOf(target))))
      /\ Bury(source, target) /\ Answer(d)
  BY <1>1 DEF Merge, SweepTopic
<1>4. topics' = {Folded(t, source, target) : t \in topics}
  <2>1. topics' = {Fold(t) : t \in topics} BY <1>1 DEF Merge
  <2>2. \A t \in topics : Fold(t) = Folded(t, source, target) BY <1>2 DEF Rows
  <2> HIDE DEF Fold
  <2>3. QED BY <2>1, <2>2
<1>5. alarms' = [i \in Incidents |-> IF alarms[i] = None THEN None
                  ELSE [alarms[i] EXCEPT !.topic = Folded(alarms[i].topic, source, target)]]
  <2>1. alarms' = [i \in Incidents |-> IF alarms[i] = None THEN None
                    ELSE [alarms[i] EXCEPT !.topic = Fold(alarms[i].topic)]]
    BY <1>1 DEF Merge
  <2>2. \A i \in Incidents : alarms[i] # None =>
          Fold(alarms[i].topic) = Folded(alarms[i].topic, source, target)
    BY <1>2 DEF Rows, References
  <2> HIDE DEF Fold
  <2>3. QED BY <2>1, <2>2
<1>6. \A k \in Tokens :
        tokens'[k] = IF tokens[k] = Free THEN Free
                     ELSE [tokens[k] EXCEPT !.topic = Folded(tokens[k].topic, source, target)]
  <2>1. tokens' = [k \in Tokens |-> [tokens[k] EXCEPT !.topic = Fold(tokens[k].topic)]]
    BY <1>1 DEF Merge
  <2>2. \A k \in Tokens : tokens[k] # Free =>
          Fold(tokens[k].topic) = Folded(tokens[k].topic, source, target)
    BY <1>2 DEF Rows, References
  <2>3. [Free EXCEPT !.topic = Fold(Free.topic)] = Free BY DEF Free
  <2> HIDE DEF Fold
  <2>4. QED BY <2>1, <2>2, <2>3
<1>7. tokens' \in [Tokens -> TokenRow]
  <2>1. tokens' = [k \in Tokens |-> [tokens[k] EXCEPT !.topic = Fold(tokens[k].topic)]]
    BY <1>1 DEF Merge
  <2>2. \A t \in Topics \cup {None} : Fold(t) \in Topics \cup {None} BY <1>2
  <2> HIDE DEF Fold
  <2>3. \A k \in Tokens : [tokens[k] EXCEPT !.topic = Fold(tokens[k].topic)] \in TokenRow
    BY <2>2 DEF Rows, TokenRow
  <2>4. QED BY <2>1, <2>3
<1>8. QED BY <1>1, <1>3, <1>4, <1>5, <1>6, <1>7

\* No fold brings two alarms together: neither family has one.
LEMMA MergeKeepsAlarms ==
  ASSUME IInv, NEW source \in Accounts, NEW target \in Accounts, Quiet(source, target),
         alarms' = [i \in Incidents |-> IF alarms[i] = None THEN None
                ELSE [alarms[i] EXCEPT !.topic = Folded(alarms[i].topic, source, target)]]
  PROVE  alarms' = alarms /\ \A i \in Incidents : alarms[i] # None => alarms[i].topic[1] # source
<1> USE DEF IInv
<1>1. source \in Family(source) BY FamilyFacts
<1>2. ASSUME NEW i \in Incidents, alarms[i] # None PROVE alarms[i].topic[1] # source
  <2>1. alarms[i] \in AlarmRow BY <1>2 DEF Rows
  <2>2. alarms[i].state \in {"open", "acked"} BY <2>1 DEF AlarmRow
  <2>3. QED BY <1>1, <1>2, <2>2 DEF Quiet, Ringing
<1>3. ASSUME NEW i \in Incidents PROVE alarms'[i] = alarms[i]
  <2>1. CASE alarms[i] = None BY <2>1
  <2>2. CASE alarms[i] # None
    <3>1. alarms[i] \in AlarmRow BY <2>2 DEF Rows
    <3>2. Folded(alarms[i].topic, source, target) = alarms[i].topic BY <1>2, <2>2 DEF Folded
    <3>3. QED BY <2>2, <3>1, <3>2 DEF AlarmRow
  <2>3. QED BY <2>1, <2>2
<1>4. QED BY <1>2, <1>3 DEF Rows

\* Two accounts become one.
LEMMA MergeKeeps ==
  ASSUME IInv, NEW d \in Devices, NEW source \in Accounts, NEW u \in Users,
         Merge(d, source, u)
  PROVE  IInv'
<1> USE DEF IInv
<1>1. PICK target \in Accounts :
           /\ target = IdentityAccount(u) /\ Exists(target) /\ target # source
           /\ into[source] = Live /\ Quiet(source, target)
           /\ into' = [b \in Accounts |->
                         IF b = source \/ into[b] = source THEN target ELSE into[b]]
           /\ topics' = {Folded(t, source, target) : t \in topics}
           /\ \A k \in Tokens :
                tokens'[k] = IF tokens[k] = Free THEN Free
                             ELSE [tokens[k] EXCEPT !.topic = Folded(tokens[k].topic, source, target)]
           /\ tokens' \in [Tokens -> TokenRow]
           /\ alarms' = [i \in Incidents |-> IF alarms[i] = None THEN None
                ELSE [alarms[i] EXCEPT !.topic = Folded(alarms[i].topic, source, target)]]
           /\ MoveDevices(source, target, NamesOf(source) \cup NamesOf(target),
                 subs \cup (On(target) \X (NamesOf(source) \ NamesOf(target))))
           /\ Bury(source, target) /\ Answer(d)
  BY MergeFacts
<1>2. PICK names \in SUBSET Names : names = NamesOf(source) \cup NamesOf(target) BY DEF NamesOf
<1>3. PICK S \in SUBSET (Devices \X Names) :
        S = subs \cup (On(target) \X (NamesOf(source) \ NamesOf(target)))
  <2>1. On(target) \subseteq Devices /\ NamesOf(source) \subseteq Names BY DEF On, NamesOf
  <2>2. QED BY <2>1 DEF Rows
<1>4. MoveDevices(source, target, names, S) BY <1>1, <1>2, <1>3 DEF MoveDevices
<1>5. /\ home' \in [Devices -> Accounts \cup {None}]
      /\ subs' \subseteq Devices \X Names /\ chosen' \subseteq Devices \X Names
      /\ \A e \in Devices : home'[e] = IF home[e] = source THEN target ELSE home[e]
      /\ \A e \in Devices, m \in Names :
           /\ <<e, m>> \in subs' <=> IF home[e] = source THEN m \in names ELSE <<e, m>> \in S
           /\ <<e, m>> \in chosen' <=> <<e, m>> \in chosen /\ home[e] # source
  BY <1>4, MoveDevicesFits
<1>6. /\ join' \in [Accounts -> BOOLEAN] /\ owner' \in [Users -> Accounts \cup {None}]
      /\ \A b \in Accounts : join'[b] <=> join[b] /\ b # source
      /\ \A v \in Users : owner'[v] = IF owner[v] = source THEN target ELSE owner[v]
  BY <1>1, BuryFits
<1>7. /\ req' \in [Devices -> Request]
      /\ \A e \in Devices : req'[e].step # "idle" => req'[e].account \in Accounts
  BY <1>1, AnswerFits
<1>8. alarms' = alarms /\ \A i \in Incidents : alarms[i] # None => alarms[i].topic[1] # source
  BY <1>1, MergeKeepsAlarms
<1>9. \A t \in topics : t \in Topics /\ Folded(t, source, target) \in Topics
                        /\ Folded(t, source, target) \in topics'
  <2>1. ASSUME NEW t \in topics PROVE t \in Topics /\ Folded(t, source, target) \in Topics
    BY DEF Rows, Topics, Folded
  <2>2. QED BY <1>1, <2>1
<1>10. topics' \subseteq Topics BY <1>1, <1>9
<1>11. \A b \in Accounts, m \in Names :
         <<b, m>> \in topics' <=>
           \/ b = target /\ m \in names
           \/ b \notin {source, target} /\ <<b, m>> \in topics
  <2>1. ASSUME NEW b \in Accounts, NEW m \in Names, <<b, m>> \in topics'
        PROVE  (b = target /\ m \in names) \/ (b \notin {source, target} /\ <<b, m>> \in topics)
    <3>1. PICK t \in topics : <<b, m>> = Folded(t, source, target) BY <1>1, <2>1
    <3>2. t = <<t[1], t[2]>> /\ t[1] \in Accounts /\ t[2] \in Names BY <3>1 DEF Rows, Topics
    <3>3. QED BY <1>1, <1>2, <3>1, <3>2 DEF Folded, NamesOf
  <2>2. ASSUME NEW b \in Accounts, NEW m \in Names, b = target, m \in names
        PROVE  <<b, m>> \in topics'
    <3>1. CASE <<source, m>> \in topics BY <1>9, <2>2, <3>1 DEF Folded
    <3>2. CASE <<target, m>> \in topics BY <1>1, <1>9, <2>2, <3>2 DEF Folded
    <3>3. QED BY <1>2, <2>2, <3>1, <3>2 DEF NamesOf
  <2>3. ASSUME NEW b \in Accounts, NEW m \in Names, b # source, <<b, m>> \in topics
        PROVE  <<b, m>> \in topics'
    BY <1>9, <2>3 DEF Folded
  <2>4. QED BY <2>1, <2>2, <2>3
<1>12. Rows' BY <1>1, <1>5, <1>6, <1>7, <1>8, <1>10 DEF Rows
<1>13. \A b \in Accounts :
         into'[b] = IF b = source \/ into[b] = source THEN target ELSE into[b]
  BY <1>1
<1>14. \A b \in Accounts : Exists(b) => Exists(b)' BY <1>13 DEF Exists, Tombstone
<1>15. References'
  <2>1. \A b \in Accounts : Tombstone(b)' => Exists(into[b])'
    BY <1>1, <1>13, <1>14 DEF References, Tombstone, Exists
  <2>2. \A b \in Accounts : join'[b] => Exists(b)' BY <1>6, <1>14 DEF References
  <2>3. \A v \in Users : owner'[v] # None => Exists(owner[v])'
    BY <1>1, <1>6, <1>13, <1>14 DEF Rows, References, Exists, Tombstone
  <2>4. \A e \in Devices : home'[e] # None => Exists(home[e])'
    BY <1>1, <1>5, <1>13, <1>14 DEF Rows, References, Exists, Tombstone
  <2>5. \A t \in topics' : Exists(t[1])'
    <3>1. ASSUME NEW t \in topics' PROVE Exists(t[1])'
      <4>1. PICK s \in topics : t = Folded(s, source, target) BY <1>1, <3>1
      <4>2. s[1] \in Accounts /\ Exists(s[1]) BY <4>1 DEF Rows, References, Topics
      <4>3. t[1] = target \/ t[1] = s[1] BY <4>1 DEF Folded
      <4>4. QED BY <1>1, <1>13, <1>14, <4>2, <4>3 DEF Exists, Tombstone
    <3>2. QED BY <3>1
  <2>6. \A k \in Tokens : tokens'[k] = Free \/ tokens'[k].topic \in topics'
    <3>1. ASSUME NEW k \in Tokens, tokens[k] # Free PROVE tokens'[k].topic \in topics'
      <4>1. tokens[k] \in TokenRow /\ tokens[k].topic \in topics BY <3>1 DEF Rows, References
      <4>2. tokens'[k].topic = Folded(tokens[k].topic, source, target)
        BY <1>1, <3>1, <4>1 DEF TokenRow
      <4>3. QED BY <1>9, <4>1, <4>2
    <3>2. QED BY <1>1, <3>1
  <2>7. \A i \in Incidents : alarms'[i] # None => alarms'[i].topic \in topics'
    BY <1>8, <1>9 DEF References, Folded
  <2>8. QED BY <1>7, <2>1, <2>2, <2>3, <2>4, <2>5, <2>6, <2>7 DEF References
<1>16. \A e \in Devices, m \in Names :
         <<e, m>> \in S <=>
           (<<e, m>> \in subs \/ (home[e] = target /\ m \in names /\ m \notin NamesOf(target)))
  <2>1. \A e \in Devices : e \in On(target) <=> home[e] = target BY DEF On
  <2>2. \A m \in Names : m \in NamesOf(source) \ NamesOf(target) <=>
                           (m \in names /\ m \notin NamesOf(target))
    BY <1>2
  <2>3. QED BY <1>3, <2>1, <2>2
<1>17. ReleasedAreSilent'
  BY <1>1, <1>5, <1>16, ConstantsAssumption DEF ReleasedAreSilent
<1>18. RingsFollowTheAccount'
  <2>1. ASSUME NEW e \in Devices, NEW m \in Names, home'[e] # None, <<e, m>> \notin chosen'
        PROVE  <<e, m>> \in subs' <=> <<home'[e], m>> \in topics'
    <3>1. CASE home[e] = source BY <1>5, <1>11, <3>1
    <3>2. CASE home[e] = target
      <4>1. home'[e] = target /\ <<e, m>> \notin chosen BY <1>1, <1>5, <2>1, <3>2
      <4>2. <<e, m>> \in subs <=> m \in NamesOf(target)
        BY <1>5, <2>1, <3>2, <4>1 DEF RingsFollowTheAccount
      <4>3. <<e, m>> \in subs' <=> m \in names BY <1>1, <1>2, <1>5, <1>16, <3>2, <4>2
      <4>4. QED BY <1>11, <4>1, <4>3
    <3>3. CASE home[e] \notin {source, target}
      <4>1. home'[e] = home[e] /\ home[e] \in Accounts /\ <<e, m>> \notin chosen
        BY <1>5, <2>1, <3>3 DEF Rows
      <4>2. <<e, m>> \in subs' <=> <<e, m>> \in subs BY <1>5, <1>16, <3>3
      <4>3. <<e, m>> \in subs <=> <<home[e], m>> \in topics
        BY <2>1, <4>1 DEF RingsFollowTheAccount, NamesOf
      <4>4. QED BY <1>11, <3>3, <4>1, <4>2, <4>3
    <3>4. QED BY <3>1, <3>2, <3>3
  <2>2. QED BY <2>1 DEF RingsFollowTheAccount, NamesOf
<1>19. OneAlarmPerTopic' BY <1>8 DEF OneAlarmPerTopic
<1>20. QED BY <1>12, <1>15, <1>17, <1>18, <1>19

-----------------------------------------------------------------------------
(* Erase.                                                                  *)

\* What an erase does to the rows, the family as it is then given.
LEMMA EraseFacts ==
  ASSUME IInv, NEW a \in Accounts, Erase(a)
  PROVE  \E F \in SUBSET Accounts :
           /\ LiveAccount(a) \in F
           /\ \A b \in Accounts : into[b] \in F => b \in F
           /\ \A b \in Accounts : into'[b] = IF b \in F /\ Exists(b) THEN Gone ELSE into[b]
           /\ into' \in [Accounts -> Accounts \cup {Unborn, Live, Gone}]
           /\ join' \in [Accounts -> BOOLEAN]
           /\ \A b \in Accounts : join'[b] <=> join[b] /\ b \notin F
           /\ owner' \in [Users -> Accounts \cup {None}]
           /\ \A u \in Users : owner'[u] = IF owner[u] \in F THEN None ELSE owner[u]
           /\ home' \in [Devices -> Accounts \cup {None}]
           /\ \A d \in Devices : home'[d] = IF home[d] \in F THEN None ELSE home[d]
           /\ Without({t \in topics : t[1] \in F})
           /\ subs' = {s \in subs : home[s[1]] \notin F}
           /\ chosen' = {s \in chosen : home[s[1]] \notin F}
<1> USE DEF IInv
<1>1. LiveAccount(a) \in Accounts BY LiveAccountFacts
<1>2. PICK F \in SUBSET Accounts : F = Family(LiveAccount(a)) /\ LiveAccount(a) \in F
  BY <1>1, FamilyFacts
<1>3. PICK D : D = {d \in Devices : home[d] \in F} OBVIOUS
<1>4. /\ Behind(F) \subseteq F
      /\ into' = [b \in Accounts |-> IF b \in F /\ Exists(b) THEN Gone ELSE into[b]]
      /\ join' = [b \in Accounts |-> join[b] /\ b \notin F]
      /\ owner' = [u \in Users |-> IF owner[u] \in F THEN None ELSE owner[u]]
      /\ home' = [d \in Devices |-> IF d \in D THEN None ELSE home[d]]
      /\ Without({t \in topics : t[1] \in F})
      /\ subs' = {s \in subs : s[1] \notin D}
      /\ chosen' = {s \in chosen : s[1] \notin D}
  BY <1>2, <1>3 DEF Erase
<1>5. \A b \in Accounts : into[b] \in F => b \in F BY <1>4 DEF Behind
<1>6. \A s \in Devices \X Names : s[1] \in D <=> home[s[1]] \in F BY <1>3
<1>7. subs' = {s \in subs : home[s[1]] \notin F} /\ chosen' = {s \in chosen : home[s[1]] \notin F}
  BY <1>4, <1>6 DEF Rows
<1>8. /\ into' \in [Accounts -> Accounts \cup {Unborn, Live, Gone}]
      /\ owner' \in [Users -> Accounts \cup {None}]
      /\ home' \in [Devices -> Accounts \cup {None}]
  BY <1>4 DEF Rows
<1>9. join' \in [Accounts -> BOOLEAN] /\ \A b \in Accounts : join'[b] <=> join[b] /\ b \notin F
  BY <1>4 DEF Rows
<1>10. \A d \in Devices : home'[d] = IF home[d] \in F THEN None ELSE home[d] BY <1>3, <1>4
<1>11. QED BY <1>2, <1>4, <1>5, <1>7, <1>8, <1>9, <1>10

\* The whole family goes, and nothing is left that names one of it.
LEMMA EraseKeeps ==
  ASSUME IInv, NEW a \in Accounts, Erase(a), req' \in [Devices -> Request],
         \A e \in Devices : req'[e].step # "idle" => req'[e].account \in Accounts
  PROVE  IInv'
<1> USE DEF IInv
<1>1. PICK F \in SUBSET Accounts :
           /\ LiveAccount(a) \in F
           /\ \A b \in Accounts : into[b] \in F => b \in F
           /\ \A b \in Accounts : into'[b] = IF b \in F /\ Exists(b) THEN Gone ELSE into[b]
           /\ into' \in [Accounts -> Accounts \cup {Unborn, Live, Gone}]
           /\ join' \in [Accounts -> BOOLEAN]
           /\ \A b \in Accounts : join'[b] <=> join[b] /\ b \notin F
           /\ owner' \in [Users -> Accounts \cup {None}]
           /\ \A u \in Users : owner'[u] = IF owner[u] \in F THEN None ELSE owner[u]
           /\ home' \in [Devices -> Accounts \cup {None}]
           /\ \A d \in Devices : home'[d] = IF home[d] \in F THEN None ELSE home[d]
           /\ Without({t \in topics : t[1] \in F})
           /\ subs' = {s \in subs : home[s[1]] \notin F}
           /\ chosen' = {s \in chosen : home[s[1]] \notin F}
  BY EraseFacts
<1>2. PICK T : T = {t \in topics : t[1] \in F} OBVIOUS
<1>3. Without(T) BY <1>1, <1>2 DEF Without
<1>4. /\ topics' = topics \ T /\ topics' \subseteq Topics
      /\ tokens' \in [Tokens -> TokenRow]
      /\ alarms' \in [Incidents -> AlarmRow \cup {None}]
      /\ \A k \in Tokens : tokens'[k] = Free \/ tokens'[k].topic \in topics'
      /\ \A i \in Incidents : alarms'[i] # None => alarms'[i].topic \in topics'
      /\ OneAlarmPerTopic'
  BY <1>3, WithoutFits
<1>5. \A t : t \in topics' <=> t \in topics /\ t[1] \notin F BY <1>2, <1>4
<1>6. Rows'
  <2>1. subs' \subseteq Devices \X Names /\ chosen' \subseteq Devices \X Names BY <1>1 DEF Rows
  <2>2. QED BY <1>1, <1>4, <2>1 DEF Rows
<1>7. {Live, Unborn, Gone} \cap Accounts = {} /\ None \notin Accounts BY ConstantsAssumption
<1>8. \A b \in Accounts : Exists(b) /\ b \notin F => Exists(b)' BY <1>1 DEF Exists, Tombstone
<1>9. References'
  <2>1. \A b \in Accounts : Tombstone(b)' => Exists(into[b])'
    <3>1. ASSUME NEW b \in Accounts, Tombstone(b)' PROVE Exists(into[b])'
      <4>1. into'[b] = into[b] /\ into[b] \in Accounts /\ b \notin F
        BY <1>1, <1>7, <3>1 DEF Tombstone, Exists
      <4>2. into[b] \notin F /\ Exists(into[b]) BY <1>1, <4>1 DEF References, Tombstone
      <4>3. QED BY <1>8, <4>1, <4>2 DEF Exists, Tombstone
    <3>2. QED BY <3>1
  <2>2. \A b \in Accounts : join'[b] => Exists(b)' BY <1>1, <1>8 DEF References
  <2>3. \A u \in Users : owner'[u] # None => Exists(owner[u])'
    <3>1. ASSUME NEW u \in Users, owner'[u] # None PROVE Exists(owner[u])'
      <4>1. owner'[u] = owner[u] /\ owner[u] \notin F /\ owner[u] \in Accounts
        BY <1>1, <3>1 DEF Rows
      <4>2. Exists(owner[u]) BY <3>1, <4>1 DEF References
      <4>3. QED BY <1>8, <4>1, <4>2 DEF Exists, Tombstone
    <3>2. QED BY <3>1
  <2>4. \A e \in Devices : home'[e] # None => Exists(home[e])'
    <3>1. ASSUME NEW e \in Devices, home'[e] # None PROVE Exists(home[e])'
      <4>1. home'[e] = home[e] /\ home[e] \notin F /\ home[e] \in Accounts
        BY <1>1, <3>1 DEF Rows
      <4>2. Exists(home[e]) BY <3>1, <4>1 DEF References
      <4>3. QED BY <1>8, <4>1, <4>2 DEF Exists, Tombstone
    <3>2. QED BY <3>1
  <2>5. \A t \in topics' : Exists(t[1])' BY <1>5, <1>8 DEF Rows, References, Topics
  <2>6. QED BY <1>4, <2>1, <2>2, <2>3, <2>4, <2>5 DEF References
<1>10. \A e \in Devices, m \in Names :
         /\ <<e, m>> \in subs' <=> <<e, m>> \in subs /\ home[e] \notin F
         /\ <<e, m>> \in chosen' <=> <<e, m>> \in chosen /\ home[e] \notin F
  BY <1>1
<1>11. ReleasedAreSilent' BY <1>1, <1>10 DEF ReleasedAreSilent
<1>12. RingsFollowTheAccount'
  <2>1. ASSUME NEW e \in Devices, NEW m \in Names, home'[e] # None, <<e, m>> \notin chosen'
        PROVE  <<e, m>> \in subs' <=> <<home'[e], m>> \in topics'
    <3>1. home'[e] = home[e] /\ home[e] \notin F BY <1>1, <2>1
    <3>2. <<home[e], m>> \in topics' <=> <<home[e], m>> \in topics BY <1>5, <3>1
    <3>3. QED BY <1>10, <2>1, <3>1, <3>2 DEF RingsFollowTheAccount, NamesOf
  <2>2. QED BY <2>1 DEF RingsFollowTheAccount, NamesOf
<1>13. QED BY <1>4, <1>6, <1>9, <1>11, <1>12

\* The erase a device asks for waits for the providers, or does not.
LEMMA EraseAskedKeeps ==
  ASSUME IInv, NEW d \in Devices, NEW a \in Accounts, NEW u \in Users, EraseAsked(d, a, u)
  PROVE  IInv'
<1>1. PICK b \in Accounts : b = LiveAccount(a) BY LiveAccountFacts DEF IInv
<1>2. CASE /\ req' = [req EXCEPT ![d] = [step |-> "revoke", account |-> b]]
           /\ UNCHANGED <<into, join, owner, home, topics, tokens, alarms, subs, chosen>>
  <2> DEFINE r == [step |-> "revoke", account |-> b]
  <2>1. r \in Request /\ r.account \in Accounts BY DEF Request
  <2> HIDE DEF r
  <2>2. req' = [req EXCEPT ![d] = r] BY <1>2 DEF r
  <2>3. Rows' BY <1>2, <2>1, <2>2 DEF IInv, Rows
  <2>4. \A e \in Devices : req'[e].step # "idle" => req'[e].account \in Accounts
    BY <2>1, <2>2 DEF IInv, Rows, References
  <2>5. QED BY <1>2, <2>3, <2>4, TablesStay DEF IInv, References
<1>3. CASE Erase(b) /\ Answer(d)
  BY <1>3, AnswerFits, EraseKeeps DEF IInv
<1>4. QED
  <2>1. Erase(LiveAccount(a)) => Erase(b) BY <1>1 DEF Erase
  <2>2. QED BY <1>1, <1>2, <1>3, <2>1 DEF EraseAsked

\* The providers have answered.
LEMMA EraseDoneKeeps == ASSUME IInv, NEW d \in Devices, EraseDone(d) PROVE IInv'
<1>1. PICK a \in Accounts : a = req[d].account BY DEF EraseDone, IInv, References
<1>2. Erase(a) /\ Answer(d) BY <1>1 DEF EraseDone, Erase
<1>3. QED BY <1>2, AnswerFits, EraseKeeps DEF IInv

\* The operator erases an account.
LEMMA EraseByOperatorKeeps ==
  ASSUME IInv, NEW a \in Accounts, EraseByOperator(a) PROVE IInv'
<1>1. Erase(a) /\ req' = req BY DEF EraseByOperator
<1>2. QED BY <1>1, EraseKeeps DEF IInv, Rows, References

-----------------------------------------------------------------------------
(* While chains fit: what points at an account points at a live one.       *)

\* A step that creates and buries no account and moves no token.
LEMMA AccountsStay ==
  ASSUME IInv, CInv, UNCHANGED <<into, topics, tokens>>,
         \A d \in Devices : home'[d] # None => into[home'[d]] = Live,
         \A u \in Users : owner'[u] # None => into[owner'[u]] = Live,
         \A a \in Accounts : join'[a] => into[a] = Live
  PROVE  CInv'
<1>1. LiveEnds' BY DEF LiveEnds
<1>2. TokensFollowTheAccount' BY DEF CInv, TokensFollowTheAccount, TokensOf, Tombstone
<1>3. QED BY <1>1, <1>2 DEF CInv

\* An account that exists resolves to a live one.
LEMMA ResolvesLive ==
  ASSUME IInv, ChainsFit, NEW a \in Accounts, Exists(a)
  PROVE  into[LiveAccount(a)] = Live
BY LiveAccountFacts DEF IInv, ChainsFit, Exists

\* A new account is live, and had no topic before.
LEMMA RegisterNewResolves ==
  ASSUME IInv, CInv, NEW d \in Devices, RegisterNew(d) PROVE CInv'
<1> USE DEF IInv, CInv
<1>1. PICK a \in Accounts :
        /\ into[a] = Unborn /\ into' = [into EXCEPT ![a] = Live]
        /\ join' = [join EXCEPT ![a] = TRUE] /\ home' = [home EXCEPT ![d] = a]
  BY DEF RegisterNew, Fresh, Insert
<1>2. UNCHANGED <<owner, topics, tokens>> BY DEF RegisterNew
<1>3. \A b \in Accounts : into'[b] = IF b = a THEN Live ELSE into[b] BY <1>1 DEF Rows
<1>4. \A e \in Devices : home'[e] = IF e = d THEN a ELSE home[e] BY <1>1 DEF Rows
<1>5. \A b \in Accounts : join'[b] => join[b] \/ b = a BY <1>1 DEF Rows
<1>6. LiveEnds' BY <1>2, <1>3, <1>4, <1>5 DEF LiveEnds, Rows
<1>7. {Live, Unborn, Gone} \cap Accounts = {} BY ConstantsAssumption
<1>8. \A t \in topics : t[1] \in Accounts /\ t[1] # a
  <2>1. ~Exists(a) BY <1>1, <1>7 DEF Exists, Tombstone, Live, Unborn
  <2>2. \A t \in topics : t[1] \in Accounts /\ Exists(t[1]) BY DEF Rows, References, Topics
  <2>3. QED BY <2>1, <2>2
<1>9. TokensFollowTheAccount'
  <2>1. \A t \in topics : into'[t[1]] = into[t[1]] BY <1>3, <1>8
  <2>2. \A k \in Tokens : tokens[k] # Free => tokens[k].topic \in topics BY DEF References
  <2>3. QED BY <1>2, <2>1, <2>2 DEF TokensFollowTheAccount, TokensOf, Tombstone
<1>10. QED BY <1>6, <1>9

\* An account that takes a handset is live.
LEMMA RegisterOnResolves ==
  ASSUME IInv, CInv, NEW d \in Devices, NEW a \in Accounts, RegisterOn(d, a) PROVE CInv'
<1> USE DEF IInv, CInv
<1>1. home' = [home EXCEPT ![d] = a] /\ UNCHANGED <<into, join, owner, topics, tokens>>
  BY DEF RegisterOn, Insert
<1>2. a # None BY ConstantsAssumption
<1>3. into[a] = Live
  <2>1. CASE join[a] BY <2>1 DEF LiveEnds
  <2>2. CASE On(a) # {} BY <1>2, <2>2 DEF On, LiveEnds
  <2>3. QED BY <2>1, <2>2 DEF RegisterOn
<1>4. \A e \in Devices : home'[e] = IF e = d THEN a ELSE home[e] BY <1>1 DEF Rows
<1>5. QED BY <1>1, <1>3, <1>4, AccountsStay DEF LiveEnds

\* A handset that leaves is on no account.
LEMMA ReleaseResolves ==
  ASSUME IInv, CInv, NEW d \in Devices, Release(d) PROVE CInv'
<1> USE DEF IInv, CInv
<1>1. home' = [home EXCEPT ![d] = None] /\ UNCHANGED <<into, join, owner, topics, tokens>>
  BY DEF Release
<1>2. \A e \in Devices : home'[e] = IF e = d THEN None ELSE home[e] BY <1>1 DEF Rows
<1>3. QED BY <1>1, <1>2, AccountsStay DEF LiveEnds

\* A join token is for the account of a device, a live one.
LEMMA MintJoinTokenResolves ==
  ASSUME IInv, CInv, NEW d \in Devices, MintJoinToken(d) PROVE CInv'
<1> USE DEF IInv, CInv
<1>1. PICK a \in Accounts : a = home[d] /\ into[a] = Live BY DEF MintJoinToken, Rows, LiveEnds
<1>2. ~Tombstone(a) BY <1>1, ConstantsAssumption DEF Tombstone
<1>3. LiveAccount(a) = a BY <1>2, LiveAccountFacts
<1>4. join' = [join EXCEPT ![a] = TRUE] /\ UNCHANGED <<into, owner, home, topics, tokens>>
  BY <1>1, <1>3 DEF MintJoinToken
<1>5. \A b \in Accounts : join'[b] => join[b] \/ b = a BY <1>4 DEF Rows
<1>6. QED BY <1>1, <1>4, <1>5, AccountsStay DEF LiveEnds

\* An identity joins the account its device resolves to.
LEMMA ClaimResolves ==
  ASSUME IInv, CInv, ChainsFit, NEW d \in Devices, NEW a \in Accounts, NEW u \in Users,
         NEW intent, Claim(d, a, u, intent)
  PROVE  CInv'
<1> USE DEF IInv, CInv
<1>1. PICK s \in Accounts : s = LiveAccount(a) /\ into[s] = Live
  <2>1. LiveAccount(a) \in Accounts /\ Exists(LiveAccount(a)) BY LiveAccountFacts DEF Claim
  <2>2. ~Tombstone(LiveAccount(a)) BY DEF ChainsFit
  <2>3. QED BY <2>1, <2>2 DEF Exists
<1>2. owner' = [owner EXCEPT ![u] = s] /\ UNCHANGED <<into, join, home, topics, tokens>>
  BY <1>1 DEF Claim
<1>3. \A v \in Users : owner'[v] = IF v = u THEN s ELSE owner[v] BY <1>2 DEF Rows
<1>4. QED BY <1>1, <1>2, <1>3, AccountsStay DEF LiveEnds

\* A new token leaves the others, and is late if its account is a tombstone.
LEMMA IssueFollows ==
  ASSUME IInv, CInv, NEW t \in Topics, Issue(t), topics' = topics \cup {t},
         UNCHANGED <<into, owner, home, join>>
  PROVE  CInv'
<1> USE DEF IInv, CInv
<1>1. LiveEnds' BY DEF LiveEnds
<1> DEFINE r == [topic |-> t, late |-> Tombstone(t[1])]
<1>2. PICK k \in Tokens : tokens[k] = Free /\ tokens' = [tokens EXCEPT ![k] = r] BY DEF Issue
<1>3. r.topic = t /\ r.late = Tombstone(t[1]) OBVIOUS
<1> HIDE DEF r
<1>4. \A j \in Tokens : tokens'[j] = IF j = k THEN r ELSE tokens[j] BY <1>2 DEF Rows
<1>5. tokens[k].topic \notin topics
  BY <1>2, ConstantsAssumption DEF Free, Rows
<1>6. \A s \in topics' : into[s[1]] = Live => TokensOf(s)' # {}
  <2>1. CASE \A s \in topics' : s \in topics
    BY <1>4, <1>5, <2>1 DEF TokensFollowTheAccount, TokensOf
  <2>2. k \in {j \in Tokens : tokens'[j].topic = t} BY <1>3, <1>4
  <2>3. ASSUME NEW s \in topics', into[s[1]] = Live PROVE TokensOf(s)' # {}
    <3>1. CASE s = t BY <2>2, <3>1 DEF TokensOf
    <3>2. CASE s # t
      <4>1. PICK j \in Tokens : tokens[j].topic = s
        BY <2>3, <3>2 DEF TokensFollowTheAccount, TokensOf
      <4>2. j # k BY <1>5, <2>3, <3>2, <4>1
      <4>3. QED BY <1>4, <4>1, <4>2 DEF TokensOf
    <3>3. QED BY <3>1, <3>2
  <2>4. QED BY <2>3
<1>7. \A j \in Tokens : tokens'[j] # Free /\ Tombstone(tokens'[j].topic[1]) => tokens'[j].late
  BY <1>3, <1>4 DEF TokensFollowTheAccount
<1>8. TokensFollowTheAccount' BY <1>6, <1>7 DEF TokensFollowTheAccount, Tombstone
<1>9. QED BY <1>1, <1>8

\* A new topic comes with a token.
LEMMA CreateTopicResolves ==
  ASSUME IInv, CInv, NEW d \in Devices, NEW a \in Accounts, NEW n \in Names,
         CreateTopic(d, a, n)
  PROVE  CInv'
<1> DEFINE t == <<a, n>>
<1>1. t \in Topics BY DEF Topics
<1>2. Issue(t) /\ topics' = topics \cup {t} /\ UNCHANGED <<into, owner, home, join>>
  BY DEF CreateTopic
<1> HIDE DEF t
<1>3. QED BY <1>1, <1>2, IssueFollows

\* A topic gets one more token.
LEMMA AddTokenResolves ==
  ASSUME IInv, CInv, NEW d \in Devices, NEW a \in Accounts, NEW n \in Names,
         AddToken(d, a, n)
  PROVE  CInv'
<1> DEFINE t == <<a, n>>
<1>1. t \in Topics BY DEF Topics
<1>2. Issue(t) /\ t \in topics /\ UNCHANGED <<topics, into, owner, home, join>>
  BY DEF AddToken
<1> HIDE DEF t
<1>3. topics' = topics \cup {t} BY <1>2
<1>4. QED BY <1>1, <1>2, <1>3, IssueFollows

\* The last token of a topic stays.
LEMMA DeleteTokenResolves ==
  ASSUME IInv, CInv, NEW d \in Devices, NEW k \in Tokens, DeleteToken(d, k)
  PROVE  CInv'
<1> USE DEF IInv, CInv
<1>1. /\ tokens[k] # Free /\ KeepOne(tokens[k].topic)
      /\ tokens' = [tokens EXCEPT ![k] = Free]
      /\ UNCHANGED <<into, join, owner, home, topics>>
  BY DEF DeleteToken
<1>2. \A j \in Tokens : tokens'[j] = IF j = k THEN Free ELSE tokens[j] BY <1>1 DEF Rows
<1>3. \E j \in Tokens : j # k /\ tokens[j].topic = tokens[k].topic
  <2>1. SUFFICES ASSUME \A j \in Tokens : tokens[j].topic = tokens[k].topic => j = k
                 PROVE  FALSE
    OBVIOUS
  <2>2. TokensOf(tokens[k].topic) = {k} BY <2>1 DEF TokensOf
  <2>3. Cardinality({k}) = 1 BY FS_Singleton
  <2>4. QED BY <1>1, <2>2, <2>3 DEF KeepOne
<1>4. ASSUME NEW t \in topics, into[t[1]] = Live PROVE TokensOf(t)' # {}
  <2>1. PICK j \in Tokens : tokens[j].topic = t BY <1>4 DEF TokensFollowTheAccount, TokensOf
  <2>2. PICK i \in Tokens : i # k /\ tokens[i].topic = t BY <1>3, <2>1
  <2>3. tokens'[i].topic = t BY <1>2, <2>2
  <2>4. QED BY <2>3 DEF TokensOf
<1>5. TokensFollowTheAccount' BY <1>1, <1>2, <1>4 DEF TokensFollowTheAccount, Tombstone
<1>6. QED BY <1>1, <1>5 DEF LiveEnds

\* What goes with a set of topics leaves the tokens of the others.
LEMMA WithoutFollows ==
  ASSUME IInv, TokensFollowTheAccount, NEW T, Without(T),
         \A b \in Accounts : into'[b] = Live => into[b] = Live,
         \A b \in Accounts : Tombstone(b)' => Tombstone(b)
  PROVE  TokensFollowTheAccount'
<1> USE DEF IInv
<1>1. topics' = topics \ T
      /\ \A k \in Tokens : tokens'[k] = IF tokens[k].topic \in T THEN Free ELSE tokens[k]
  BY DEF Without
<1>2. ASSUME NEW t \in topics', into'[t[1]] = Live PROVE TokensOf(t)' # {}
  <2>1. t \in topics /\ t \notin T /\ t[1] \in Accounts BY <1>1, <1>2 DEF Rows, Topics
  <2>2. PICK k \in Tokens : tokens[k].topic = t
    BY <1>2, <2>1 DEF TokensFollowTheAccount, TokensOf
  <2>3. tokens'[k].topic = t BY <1>1, <2>1, <2>2
  <2>4. QED BY <2>3 DEF TokensOf
<1>3. ASSUME NEW k \in Tokens, tokens'[k] # Free, tokens'[k] = tokens[k],
             Tombstone(tokens[k].topic[1])'
      PROVE  tokens'[k].late
  <2>1. tokens[k].topic \in topics BY <1>3 DEF References
  <2>2. tokens[k].topic[1] \in Accounts BY <2>1 DEF Rows, Topics
  <2>3. PICK b \in Accounts : b = tokens[k].topic[1] BY <2>2
  <2>4. QED BY <1>3, <2>3 DEF TokensFollowTheAccount
<1>4. \A k \in Tokens : tokens'[k] # Free => tokens'[k] = tokens[k] BY <1>1
<1>5. QED BY <1>2, <1>3, <1>4 DEF TokensFollowTheAccount

\* A topic goes with all its tokens.
LEMMA DeleteTopicResolves ==
  ASSUME IInv, CInv, NEW d \in Devices, NEW n \in Names, DeleteTopic(d, n)
  PROVE  CInv'
<1>1. PICK T : T = {<<home[d], n>>} OBVIOUS
<1>2. Without(T) /\ UNCHANGED <<into, join, owner, home>> BY <1>1 DEF DeleteTopic, Without
<1>3. TokensFollowTheAccount' BY <1>2, WithoutFollows DEF CInv, Tombstone
<1>4. QED BY <1>2, <1>3 DEF CInv, LiveEnds

\* A live account is pointed at another, and nothing works on it any more.
LEMMA MoveAccountResolves ==
  ASSUME IInv, CInv, NEW source \in Accounts, NEW target \in Accounts,
         source # target, into[source] = Live, into[target] = Live,
         into' = [into EXCEPT ![source] = target],
         MoveDevices(source, target, NamesOf(target), subs), Bury(source, target),
         \A k \in Tokens : tokens'[k] = IF Revoked(k, source) THEN Free ELSE tokens[k],
         UNCHANGED topics
  PROVE  CInv'
<1> USE DEF IInv, CInv
<1>1. /\ \A b \in Accounts : join'[b] <=> join[b] /\ b # source
      /\ \A u \in Users : owner'[u] = IF owner[u] = source THEN target ELSE owner[u]
  BY BuryFits
<1>2. \A e \in Devices : home'[e] = IF home[e] = source THEN target ELSE home[e]
  BY DEF MoveDevices, Rows
<1>3. \A b \in Accounts : into'[b] = IF b = source THEN target ELSE into[b] BY DEF Rows
<1>4. target # Live BY ConstantsAssumption
<1>5. LiveEnds' BY <1>1, <1>2, <1>3 DEF LiveEnds, Rows
<1>6. ASSUME NEW t \in topics, into'[t[1]] = Live PROVE TokensOf(t)' # {}
  <2>1. t[1] \in Accounts /\ t[1] # source BY <1>3, <1>4, <1>6 DEF Rows, Topics
  <2>2. into[t[1]] = Live BY <1>3, <1>6, <2>1
  <2>3. PICK k \in Tokens : tokens[k].topic = t BY <2>2 DEF TokensFollowTheAccount, TokensOf
  <2>4. tokens'[k].topic = t BY <2>1, <2>3 DEF Revoked
  <2>5. QED BY <2>4 DEF TokensOf
<1>7. ASSUME NEW k \in Tokens, tokens'[k] # Free, Tombstone(tokens[k].topic[1])'
      PROVE  tokens'[k] = tokens[k] /\ tokens[k].late
  <2>1. tokens[k] # Free /\ tokens[k].topic[1] # source /\ tokens'[k] = tokens[k]
    BY <1>7 DEF Revoked
  <2>2. PICK b \in Accounts : b = tokens[k].topic[1] BY <2>1 DEF Rows, References, Topics
  <2>3. Tombstone(b) BY <1>3, <1>7, <2>1, <2>2 DEF Tombstone
  <2>4. QED BY <2>1, <2>2, <2>3 DEF TokensFollowTheAccount
<1>8. \A k \in Tokens : tokens'[k] # Free => tokens'[k] = tokens[k] OBVIOUS
<1>9. TokensFollowTheAccount' BY <1>6, <1>7, <1>8 DEF TokensFollowTheAccount
<1>10. QED BY <1>5, <1>9

\* What a device and an identity resolve to is live.
LEMMA EndsLive ==
  ASSUME IInv, ChainsFit, NEW a \in Accounts, Exists(LiveAccount(a))
  PROVE  LiveAccount(a) \in Accounts /\ into[LiveAccount(a)] = Live
BY LiveAccountFacts DEF IInv, ChainsFit, Exists

\* An empty account has no topic whose tokens could be left behind.
LEMMA AttachResolves ==
  ASSUME IInv, CInv, ChainsFit, NEW d \in Devices, NEW a \in Accounts, NEW u \in Users,
         NEW intent, Attach(d, a, u, intent)
  PROVE  CInv'
<1>1. PICK source \in Accounts : source = LiveAccount(a) /\ into[source] = Live
  BY EndsLive DEF Attach
<1>2. PICK b \in Accounts : b = owner[u] /\ IdentityAccount(u) = LiveAccount(b)
  BY DEF Attach, IdentityAccount, IInv, Rows
<1>3. Exists(LiveAccount(b)) BY <1>2, IdentityFits DEF Attach
<1>4. PICK target \in Accounts : target = IdentityAccount(u) /\ into[target] = Live
  BY <1>2, <1>3, EndsLive
<1>5. /\ source # target /\ NamesOf(source) = {}
      /\ into' = [into EXCEPT ![source] = target]
      /\ MoveDevices(source, target, NamesOf(target), subs)
      /\ Bury(source, target) /\ UNCHANGED <<topics, tokens>>
  BY <1>1, <1>4 DEF Attach
<1>6. \A t \in topics : t[1] # source BY <1>5 DEF IInv, Rows, Topics, NamesOf
<1>7. \A k \in Tokens : ~Revoked(k, source) BY <1>6 DEF IInv, References, Revoked
<1>8. \A k \in Tokens : tokens'[k] = IF Revoked(k, source) THEN Free ELSE tokens[k]
  BY <1>5, <1>7
<1>9. QED BY <1>1, <1>4, <1>5, <1>8, MoveAccountResolves

\* The tokens of an abandoned account are revoked.
LEMMA SwitchResolves ==
  ASSUME IInv, CInv, ChainsFit, NEW d \in Devices, NEW a \in Accounts, NEW u \in Users,
         Switch(d, a, u)
  PROVE  CInv'
<1>1. PICK source \in Accounts : source = LiveAccount(a) /\ into[source] = Live
  BY EndsLive DEF Switch
<1>2. PICK b \in Accounts : b = owner[u] /\ IdentityAccount(u) = LiveAccount(b)
  BY DEF Switch, IdentityAccount, IInv, Rows
<1>3. Exists(LiveAccount(b)) BY <1>2, IdentityFits DEF Switch
<1>4. PICK target \in Accounts : target = IdentityAccount(u) /\ into[target] = Live
  BY <1>2, <1>3, EndsLive
<1>5. /\ source # target
      /\ into' = [into EXCEPT ![source] = target]
      /\ MoveDevices(source, target, NamesOf(target), subs)
      /\ tokens' = [k \in Tokens |-> IF Revoked(k, source) THEN Free ELSE tokens[k]]
      /\ Bury(source, target) /\ UNCHANGED topics
  BY <1>1, <1>4 DEF Switch
<1>6. \A k \in Tokens : tokens'[k] = IF Revoked(k, source) THEN Free ELSE tokens[k] BY <1>5
<1>7. QED BY <1>1, <1>4, <1>5, <1>6, MoveAccountResolves

\* The tokens go where their topics go.
LEMMA MergeResolves ==
  ASSUME IInv, CInv, ChainsFit, NEW d \in Devices, NEW source \in Accounts, NEW u \in Users,
         Merge(d, source, u)
  PROVE  CInv'
<1> USE DEF IInv, CInv
<1>1. PICK target \in Accounts :
           /\ target = IdentityAccount(u) /\ Exists(target) /\ target # source
           /\ into[source] = Live
           /\ into' = [b \in Accounts |->
                         IF b = source \/ into[b] = source THEN target ELSE into[b]]
           /\ topics' = {Folded(t, source, target) : t \in topics}
           /\ \A k \in Tokens :
                tokens'[k] = IF tokens[k] = Free THEN Free
                             ELSE [tokens[k] EXCEPT !.topic = Folded(tokens[k].topic, source, target)]
           /\ MoveDevices(source, target, NamesOf(source) \cup NamesOf(target),
                 subs \cup (On(target) \X (NamesOf(source) \ NamesOf(target))))
           /\ Bury(source, target)
  BY MergeFacts
<1>2. into[target] = Live
  <2>1. PICK b \in Accounts : b = owner[u] /\ IdentityAccount(u) = LiveAccount(b)
    BY <1>1, ConstantsAssumption DEF IdentityAccount, Rows
  <2>2. QED BY <1>1, <2>1, EndsLive
<1>3. /\ \A b \in Accounts : join'[b] <=> join[b] /\ b # source
      /\ \A v \in Users : owner'[v] = IF owner[v] = source THEN target ELSE owner[v]
  BY <1>1, BuryFits
<1>4. \A e \in Devices : home'[e] = IF home[e] = source THEN target ELSE home[e]
  BY <1>1 DEF MoveDevices, Rows
<1>5. \A b \in Accounts :
        into'[b] = IF b = source \/ into[b] = source THEN target ELSE into[b]
  BY <1>1
<1>6. Live \notin Accounts BY ConstantsAssumption
<1>7. \A b \in Accounts : into[b] = Live /\ b # source => into'[b] = Live BY <1>5, <1>6
<1>8. LiveEnds' BY <1>1, <1>2, <1>3, <1>4, <1>7 DEF LiveEnds, Rows
<1>9. ASSUME NEW k \in Tokens, tokens[k] # Free
      PROVE  /\ tokens[k].topic \in topics /\ tokens'[k].late = tokens[k].late
             /\ tokens'[k].topic = Folded(tokens[k].topic, source, target)
  <2>1. tokens[k] \in TokenRow BY DEF Rows
  <2>2. QED BY <1>1, <1>9, <2>1 DEF References, TokenRow
<1>10. ASSUME NEW t \in topics', into'[t[1]] = Live PROVE TokensOf(t)' # {}
  <2>1. PICK s \in topics : t = Folded(s, source, target) BY <1>1
  <2>2. s[1] \in Accounts BY DEF Rows, Topics
  <2>3. into[s[1]] = Live
    <3>1. CASE s[1] = source BY <1>1, <3>1
    <3>2. CASE s[1] # source BY <1>5, <1>6, <1>10, <2>1, <2>2, <3>2 DEF Folded
    <3>3. QED BY <3>1, <3>2
  <2>4. PICK k \in Tokens : tokens[k].topic = s BY <2>3 DEF TokensFollowTheAccount, TokensOf
  <2>5. tokens[k] # Free BY <2>4, ConstantsAssumption DEF Free, Rows
  <2>6. tokens'[k].topic = t BY <1>9, <2>1, <2>4, <2>5
  <2>7. QED BY <2>6 DEF TokensOf
<1>11. ASSUME NEW k \in Tokens, tokens'[k] # Free, Tombstone(tokens[k].topic[1])'
       PROVE  tokens'[k].late
  <2>1. tokens[k] # Free BY <1>1, <1>11
  <2>2. PICK s \in topics : tokens[k].topic = s /\ tokens'[k].topic = Folded(s, source, target)
    BY <1>9, <2>1
  <2>3. s[1] \in Accounts BY DEF Rows, Topics
  <2>4. into'[target] = Live BY <1>1, <1>2, <1>7
  <2>5. s[1] # source /\ into'[s[1]] \in Accounts
    BY <1>6, <1>11, <2>2, <2>4 DEF Folded, Tombstone
  <2>6. Tombstone(s[1]) BY <1>1, <1>5, <2>3, <2>5 DEF Tombstone
  <2>7. QED BY <1>9, <2>1, <2>2, <2>6 DEF TokensFollowTheAccount
<1>12. TokensFollowTheAccount' BY <1>10, <1>11 DEF TokensFollowTheAccount
<1>13. QED BY <1>8, <1>12

\* Nothing of a family stays, and no other account moves.
LEMMA EraseResolves == ASSUME IInv, CInv, NEW a \in Accounts, Erase(a) PROVE CInv'
<1> USE DEF IInv, CInv
<1>1. PICK F \in SUBSET Accounts :
           /\ \A b \in Accounts : into'[b] = IF b \in F /\ Exists(b) THEN Gone ELSE into[b]
           /\ \A b \in Accounts : join'[b] <=> join[b] /\ b \notin F
           /\ \A u \in Users : owner'[u] = IF owner[u] \in F THEN None ELSE owner[u]
           /\ \A d \in Devices : home'[d] = IF home[d] \in F THEN None ELSE home[d]
           /\ Without({t \in topics : t[1] \in F})
  BY EraseFacts
<1>2. PICK T : T = {t \in topics : t[1] \in F} OBVIOUS
<1>3. Without(T) BY <1>1, <1>2 DEF Without
<1>4. Gone \notin Accounts /\ Gone # Live BY ConstantsAssumption DEF Gone, Live
<1>5. TokensFollowTheAccount' BY <1>1, <1>3, <1>4, WithoutFollows DEF Tombstone
<1>6. LiveEnds' BY <1>1 DEF LiveEnds, Rows
<1>7. QED BY <1>5, <1>6

-----------------------------------------------------------------------------
(* Every step.                                                             *)

\* With no row in any table nothing can be wrong.
LEMMA InitHolds == Init => IInv /\ CInv
<1> SUFFICES ASSUME Init PROVE IInv /\ CInv OBVIOUS
<1> USE DEF Init
<1>1. Free \in TokenRow /\ Idle \in Request BY DEF Free, TokenRow, Idle, Request
<1>2. \A a \in Accounts : ~Exists(a)
  BY ConstantsAssumption DEF Exists, Tombstone, Live, Unborn
<1>3. Rows BY <1>1 DEF Rows
<1>4. References BY <1>2 DEF References, Exists, Idle
<1>5. ReleasedAreSilent /\ RingsFollowTheAccount /\ OneAlarmPerTopic
  BY DEF ReleasedAreSilent, RingsFollowTheAccount, OneAlarmPerTopic
<1>6. CInv BY DEF CInv, LiveEnds, TokensFollowTheAccount
<1>7. QED BY <1>3, <1>4, <1>5, <1>6 DEF IInv

\* Every step keeps the tables in order.
LEMMA NextKeeps == IInv /\ [Next]_vars => IInv'
<1> SUFFICES ASSUME IInv, [Next]_vars PROVE IInv' OBVIOUS
<1>1. CASE UNCHANGED vars
  BY <1>1 DEF vars, IInv, Rows, References, ReleasedAreSilent, RingsFollowTheAccount,
              OneAlarmPerTopic, NamesOf, Exists, Tombstone
<1>2. ASSUME NEW d \in Devices,
             RegisterNew(d) \/ Release(d) \/ MintJoinToken(d) \/ Authenticate(d)
               \/ Refuse(d) \/ EraseDone(d)
      PROVE  IInv'
  BY <1>2, RegisterNewKeeps, ReleaseKeeps, MintJoinTokenKeeps, AuthenticateKeeps,
     RefuseKeeps, EraseDoneKeeps
<1>3. ASSUME NEW d \in Devices, NEW n \in Names, Subscribe(d, n) \/ DeleteTopic(d, n)
      PROVE  IInv'
  BY <1>3, SubscribeKeeps, DeleteTopicKeeps
<1>4. ASSUME NEW d \in Devices, NEW k \in Tokens, DeleteToken(d, k) PROVE IInv'
  BY <1>4, DeleteTokenKeeps
<1>5. ASSUME NEW d \in Devices, NEW a \in Accounts, RegisterOn(d, a) PROVE IInv'
  BY <1>5, RegisterOnKeeps
<1>6. ASSUME NEW d \in Devices, NEW a \in Accounts, NEW n \in Names,
             CreateTopic(d, a, n) \/ AddToken(d, a, n)
      PROVE  IInv'
  BY <1>6, CreateTopicKeeps, AddTokenKeeps
<1>7. ASSUME NEW d \in Devices, NEW a \in Accounts, NEW u \in Users,
             NEW intent \in {"sign_in", "link"}, Claim(d, a, u, intent) \/ Attach(d, a, u, intent)
      PROVE  IInv'
  BY <1>7, ClaimKeeps, AttachKeeps
<1>8. ASSUME NEW d \in Devices, NEW a \in Accounts, NEW u \in Users,
             Switch(d, a, u) \/ Merge(d, a, u) \/ EraseAsked(d, a, u)
      PROVE  IInv'
  BY <1>8, SwitchKeeps, MergeKeeps, EraseAskedKeeps
<1>9. ASSUME NEW i \in Incidents, AlarmMoves(i) PROVE IInv' BY <1>9, AlarmMovesKeeps
<1>10. ASSUME NEW k \in Tokens, Publish(k) PROVE IInv' BY <1>10, PublishKeeps
<1>11. ASSUME NEW a \in Accounts, EraseByOperator(a) PROVE IInv'
  BY <1>11, EraseByOperatorKeeps
<1>12. QED
  BY <1>1, <1>2, <1>3, <1>4, <1>5, <1>6, <1>7, <1>8, <1>9, <1>10, <1>11 DEF Next

\* While chains fit, every step leaves what points at an account on a live one.
LEMMA NextResolves == IInv /\ CInv /\ ChainsFit /\ [Next]_vars => CInv'
<1> SUFFICES ASSUME IInv, CInv, ChainsFit, [Next]_vars PROVE CInv' OBVIOUS
<1>1. ASSUME UNCHANGED <<into, join, owner, home, topics, tokens>> PROVE CInv'
  BY <1>1, AccountsStay DEF CInv, LiveEnds
<1>2. CASE UNCHANGED vars BY <1>1, <1>2 DEF vars
<1>3. ASSUME NEW d \in Devices, RegisterNew(d) \/ Release(d) \/ MintJoinToken(d)
      PROVE  CInv'
  BY <1>3, RegisterNewResolves, ReleaseResolves, MintJoinTokenResolves
<1>4. ASSUME NEW d \in Devices, Authenticate(d) \/ Refuse(d) PROVE CInv'
  BY <1>1, <1>4 DEF Authenticate, Refuse
<1>5. ASSUME NEW d \in Devices, EraseDone(d) PROVE CInv'
  <2>1. PICK a \in Accounts : a = req[d].account BY <1>5 DEF EraseDone, IInv, References
  <2>2. Erase(a) BY <1>5, <2>1 DEF EraseDone, Erase
  <2>3. QED BY <2>2, EraseResolves
<1>6. ASSUME NEW d \in Devices, NEW n \in Names, Subscribe(d, n) PROVE CInv'
  BY <1>1, <1>6 DEF Subscribe
<1>7. ASSUME NEW d \in Devices, NEW n \in Names, DeleteTopic(d, n) PROVE CInv'
  BY <1>7, DeleteTopicResolves
<1>8. ASSUME NEW d \in Devices, NEW k \in Tokens, DeleteToken(d, k) PROVE CInv'
  BY <1>8, DeleteTokenResolves
<1>9. ASSUME NEW d \in Devices, NEW a \in Accounts, RegisterOn(d, a) PROVE CInv'
  BY <1>9, RegisterOnResolves
<1>10. ASSUME NEW d \in Devices, NEW a \in Accounts, NEW n \in Names,
             CreateTopic(d, a, n) \/ AddToken(d, a, n)
      PROVE  CInv'
  BY <1>10, CreateTopicResolves, AddTokenResolves
<1>11. ASSUME NEW d \in Devices, NEW a \in Accounts, NEW u \in Users,
             NEW intent \in {"sign_in", "link"}, Claim(d, a, u, intent) \/ Attach(d, a, u, intent)
      PROVE  CInv'
  BY <1>11, ClaimResolves, AttachResolves
<1>12. ASSUME NEW d \in Devices, NEW a \in Accounts, NEW u \in Users,
              Switch(d, a, u) \/ Merge(d, a, u)
       PROVE  CInv'
  BY <1>12, SwitchResolves, MergeResolves
<1>13. ASSUME NEW d \in Devices, NEW a \in Accounts, NEW u \in Users, EraseAsked(d, a, u)
       PROVE  CInv'
  <2>1. PICK b \in Accounts : b = LiveAccount(a) BY LiveAccountFacts DEF IInv
  <2>2. CASE UNCHANGED <<into, join, owner, home, topics, tokens>> BY <1>1, <2>2
  <2>3. CASE Erase(b) BY <2>3, EraseResolves
  <2>4. Erase(LiveAccount(a)) => Erase(b) BY <2>1 DEF Erase
  <2>5. QED BY <1>13, <2>1, <2>2, <2>3, <2>4 DEF EraseAsked
<1>14. ASSUME NEW i \in Incidents, AlarmMoves(i) PROVE CInv' BY <1>1, <1>14 DEF AlarmMoves
<1>15. ASSUME NEW k \in Tokens, Publish(k) PROVE CInv' BY <1>1, <1>15 DEF Publish
<1>16. ASSUME NEW a \in Accounts, EraseByOperator(a) PROVE CInv'
  BY <1>16, EraseResolves DEF EraseByOperator
<1>17. QED
  BY <1>2, <1>3, <1>4, <1>5, <1>6, <1>7, <1>8, <1>9, <1>10, <1>11, <1>12, <1>13, <1>14,
     <1>15, <1>16 DEF Next

-----------------------------------------------------------------------------
(* Theorems.                                                               *)

\* The inductive invariant: rows of their types, references that lead to rows
\* that exist, whatever order registrations, links, switches, merges, erases
\* and requests that waited come in.
THEOREM Invariance == Spec => []IInv
<1>1. Init => IInv BY InitHolds
<1>2. QED BY <1>1, NextKeeps, PTL DEF Spec

\* Every table holds rows of its type, and tokens and alarms are of topics
\* that are there: the cascades and repointings of accounts.ts leave none
\* behind.
THEOREM TypeCorrect == Spec => []TypeOK
<1>1. IInv => TypeOK
  <2> SUFFICES ASSUME IInv PROVE TypeOK OBVIOUS
  <2>1. Free.topic = None BY DEF Free
  <2>2. \A k \in Tokens : tokens[k].topic \in topics \cup {None}
    BY <2>1 DEF IInv, References
  <2>3. \A d \in Devices : req[d].step \in {"idle", "body", "revoke"}
    BY DEF IInv, Rows, Request
  <2>4. QED BY <2>2, <2>3 DEF TypeOK, IInv, Rows, References
<1>2. QED BY <1>1, Invariance, PTL

\* A device that did not choose for itself rings for the topics of the account
\* it is on and for no other, across moveDevices, sweepTopicIntoDevices and
\* the deletes.
THEOREM RingsFollow == Spec => []RingsFollowTheAccount
<1>1. IInv => RingsFollowTheAccount BY DEF IInv
<1>2. QED BY <1>1, Invariance, PTL

\* No fold of two topics in a merge brings two active incidents together, so
\* the unique index incidents_one_active_per_topic never stops it.
THEOREM OneAlarm == Spec => []OneAlarmPerTopic
<1>1. IInv => OneAlarmPerTopic BY DEF IInv
<1>2. QED BY <1>1, Invariance, PTL

\* As long as no chain of tombstones outgrows the hops liveAccount follows,
\* no device, identity or join token is left on a tombstone or an erased
\* account, and a tombstone leads to a live account.
THEOREM AccountsResolveWhileChainsFit == Spec /\ []ChainsFit => []AccountsResolve
<1>1. Init => CInv BY InitHolds
<1>2. IInv /\ CInv /\ ChainsFit => AccountsResolve
  <2> SUFFICES ASSUME IInv, CInv, ChainsFit PROVE AccountsResolve OBVIOUS
  <2>1. \A a \in Accounts : Tombstone(a) => into[LiveAccount(a)] = Live
    BY ResolvesLive DEF Exists
  <2>2. QED BY <2>1 DEF AccountsResolve, CInv, LiveEnds
<1>3. QED BY <1>1, <1>2, NextResolves, Invariance, PTL DEF Spec

\* As long as chains fit, a topic of a live account keeps a token, and a token
\* of a tombstone comes from a request authenticated before the switch.
THEOREM TokensFollowWhileChainsFit == Spec /\ []ChainsFit => []TokensFollowTheAccount
<1>1. Init => CInv BY InitHolds
<1>2. CInv => TokensFollowTheAccount BY DEF CInv
<1>3. QED BY <1>1, <1>2, NextResolves, Invariance, PTL DEF Spec
=============================================================================
