-------------------------- MODULE WeeklyCheckProofs --------------------------
(***************************************************************************)
(* Theorems about WeeklyCheck, for every set of devices, every schedule     *)
(* and every bound.                                                        *)
(***************************************************************************)
EXTENDS WeeklyCheck, TLAPS, FiniteSetTheorems, WellFoundedInduction

Verdict == {"received", "missed", "refused", "skipped"}
Reason  == {"none", "tier", "no_token", "disabled", "held", "unsent"}
Outcome == {"none", "accepted", "refused", "failed"}

\* The rows of a device.
Row == [token : 0..MaxTokens, minted : 0..MaxTokens, hosted : BOOLEAN, alarmAt : Int,
        check : Checks \cup {NoCheck}, rounds : Seq(Rounds)]

\* A device has one round without a result at most, its last, which its check
\* points at; a round with a result has no attempts left, and what left is one
\* of the attempts on record.
Shape(b) ==
  /\ b.check = NoCheck => b.rounds = <<>>
  /\ \A r \in DOMAIN b.rounds :
       /\ b.rounds[r].result = "none" => /\ r = Len(b.rounds) /\ b.check.round = r
                                         /\ b.rounds[r].reason = "none"
       /\ b.rounds[r].result # "none" => b.rounds[r].attempts = <<>>
       /\ Len(b.rounds[r].attempts) <= MaxAttempts
       /\ b.rounds[r].left \subseteq 1..Len(b.rounds[r].attempts)
  /\ b.check.round # 0 => /\ b.check.round = Len(b.rounds)
                          /\ b.rounds[b.check.round].result = "none"
                          /\ b.check.enabled

\* The counts of a check are those of its rounds: MissesAreTheRun of one device.
Counts(b) ==
  /\ b.check.misses = Cardinality(MissRun(b))
  /\ IF Counted(b) = {} THEN b.check.last = "none"
     ELSE \E r \in Counted(b) : b.check.last = b.rounds[r].result /\ \A q \in Counted(b) : q <= r
  /\ b.check.misses >= 2 =>
        \E q, r \in MissRun(b) :
           /\ q < r /\ \A x \in MissRun(b) : x \in {q, r} \/ x > r
           /\ b.check.secondMiss = b.rounds[r].closedAt

\* A device whose check is on and has no round is due when its next round is,
\* which is not before the gap is over, unless a new token came on a miss.
Spaced(b) ==
  /\ b.check.enabled /\ b.check.round = 0 => b.check.attemptAt = b.check.dueAt
  /\ b.rounds # <<>> => \/ b.check.dueAt >= b.rounds[Len(b.rounds)].opened + MinGap
                        \/ b.check.misses > 0 /\ b.check.round = 0

\* The rows of a device that is registered.
Good(b) ==
  /\ b \in Row
  /\ Shape(b)
  /\ b.check # NoCheck => Counts(b) /\ Spaced(b)
GoodRow(b) == b = NoDevice \/ Good(b)

\* The push that is sent has its attempt on record as long as its round has no
\* result, has not left while its sender waits for an access token, and is none
\* of a device the pass comes to again.
Send == [device : Devices, round : Nat, attempt : Nat, token : Int, host : {1, 2}, stage : {"token", "out"}]
OnRecord(b, s) ==
  b # NoDevice =>
    /\ s.round \in DOMAIN b.rounds
    /\ b.rounds[s.round].result = "none" =>
         /\ s.attempt \in 1..Len(b.rounds[s.round].attempts)
         /\ s.stage = "token" => s.attempt \notin b.rounds[s.round].left
Distinct(list) == \A j, k \in DOMAIN list : j # k => list[j] # list[k]
ScanOK ==
  scan = NoScan \/ /\ scan \in [on : {TRUE}, left : Seq(Devices), send : Send]
                   /\ Distinct(scan.left)
                   /\ \A k \in DOMAIN scan.left : scan.left[k] # scan.send.device
                   /\ OnRecord(db[scan.send.device], scan.send)

\* Every column and every row is of its type.
Typed ==
  /\ population \in Populations /\ clock \in 0..MaxTime[population]
  /\ db \in [Devices -> Row \cup {NoDevice}] /\ notes \in [Devices -> Int]
  /\ again \in BOOLEAN /\ changes \in 0..MaxChanges[population]

\* What every reachable state satisfies.
IInv == Typed /\ (\A d \in Devices : GoodRow(db[d])) /\ ScanOK /\ SentOnce

-----------------------------------------------------------------------------
(* Records.                                                                *)

\* Nothing enrolled is no check, and no device has no rows.
LEMMA NoneFacts == NoCheck \notin Checks /\ NoDevice \notin Row /\ NoCheck.round = 0
<1>1. NoCheck \notin Checks BY DEF NoCheck, Checks
<1>2. NoDevice \notin Row BY DEF NoDevice, Row
<1>3. QED BY <1>1, <1>2 DEF NoCheck

\* A round that is closed is a round.
LEMMA ClosedFacts ==
  ASSUME NEW x \in Rounds, NEW result \in Verdict, NEW reason \in Reason, NEW at \in Int
  PROVE  LET y == Closed(x, result, reason, at) IN
         /\ y \in Rounds /\ y.result = result /\ y.reason = reason /\ y.closedAt = at
         /\ y.opened = x.opened /\ y.closes = x.closes
         /\ y.attempts = <<>> /\ y.left = {}
<1> DEFINE y == Closed(x, result, reason, at)
<1>1. /\ y.result = result /\ y.reason = reason /\ y.closedAt = at
      /\ y.opened = x.opened /\ y.closes = x.closes
      /\ y.attempts = <<>> /\ y.left = {} /\ y.heldUntil = NoTime
  BY DEF Closed, Rounds
<1>2. y \in Rounds
  <2> DEFINE y1 == [x EXCEPT !.result = result]
             y2 == [y1 EXCEPT !.reason = reason]
             y3 == [y2 EXCEPT !.closedAt = at]
             y4 == [y3 EXCEPT !.attempts = <<>>]
             y5 == [y4 EXCEPT !.heldUntil = NoTime]
  <2>1. y1 \in Rounds BY DEF Rounds, Verdict
  <2>2. y2 \in Rounds
    <3> HIDE DEF y1
    <3>1. QED BY <2>1 DEF Rounds, Reason
  <2>3. y3 \in Rounds
    <3> HIDE DEF y2
    <3>1. QED BY <2>2 DEF Rounds
  <2>4. y4 \in Rounds
    <3> HIDE DEF y3
    <3>1. <<>> \in Seq({"none", "accepted", "refused", "failed"}) OBVIOUS
    <3>2. QED BY <2>3, <3>1 DEF Rounds
  <2>5. y5 \in Rounds
    <3> HIDE DEF y4
    <3>1. NoTime \in Int BY DEF NoTime
    <3>2. QED BY <2>4, <3>1 DEF Rounds
  <2>6. [y5 EXCEPT !.left = {}] \in Rounds
    <3> HIDE DEF y5
    <3>1. QED BY <2>5 DEF Rounds
  <2>7. y = [y5 EXCEPT !.left = {}] BY DEF Closed
  <2>8. QED BY <2>6, <2>7
<1>3. QED BY <1>1, <1>2

\* One round of a sequence is written.
LEMMA SeqSet ==
  ASSUME NEW s \in Seq(Rounds), NEW r \in DOMAIN s, NEW y \in Rounds
  PROVE  LET t == [s EXCEPT ![r] = y] IN
         /\ t \in Seq(Rounds) /\ Len(t) = Len(s) /\ DOMAIN t = DOMAIN s /\ t[r] = y
         /\ \A q \in DOMAIN s : q # r => t[q] = s[q]
OBVIOUS

\* One round is added.
LEMMA SeqAdd ==
  ASSUME NEW s \in Seq(Rounds), NEW y \in Rounds
  PROVE  LET t == Append(s, y) IN
         /\ t \in Seq(Rounds) /\ Len(t) = Len(s) + 1 /\ Len(s) \in Nat
         /\ DOMAIN s = 1..Len(s) /\ DOMAIN t = 1..(Len(s) + 1) /\ t[Len(s) + 1] = y
         /\ \A q \in DOMAIN s : q \in DOMAIN t /\ t[q] = s[q]
OBVIOUS

-----------------------------------------------------------------------------
(* Counts.                                                                 *)

\* The rounds that count are finitely many.
LEMMA RunFinite ==
  ASSUME NEW b \in Row
  PROVE  IsFiniteSet(MissRun(b)) /\ MissRun(b) \subseteq Counted(b) /\ Counted(b) \subseteq 1..Len(b.rounds)
<1>1. Len(b.rounds) \in Nat /\ DOMAIN b.rounds = 1..Len(b.rounds) BY DEF Row
<1>2. IsFiniteSet(1..Len(b.rounds)) BY <1>1, FS_Interval
<1>3. MissRun(b) \subseteq Counted(b) /\ Counted(b) \subseteq 1..Len(b.rounds)
  BY <1>1 DEF MissRun, Counted
<1>4. IsFiniteSet(MissRun(b)) BY <1>2, <1>3, FS_Subset
<1>5. QED BY <1>3, <1>4

\* The counts stay right when the rounds that count stay as they are.
LEMMA CountsSame ==
  ASSUME NEW b \in Row, NEW c \in Row, Counts(b), Counted(c) = Counted(b),
         \A q \in Counted(b) : /\ c.rounds[q].result = b.rounds[q].result
                               /\ c.rounds[q].closedAt = b.rounds[q].closedAt,
         c.check.misses = b.check.misses, c.check.last = b.check.last,
         c.check.secondMiss = b.check.secondMiss
  PROVE  Counts(c)
<1>1. MissRun(c) = MissRun(b) /\ MissRun(b) \subseteq Counted(b) BY DEF MissRun
<1>2. QED BY <1>1 DEF Counts

\* The counts after a round, the last one, got the result of its own.
LEMMA CountsClosed ==
  ASSUME NEW b \in Row, NEW c \in Row, Counts(b), NEW y \in Rounds, y.result \in Verdict,
         b.rounds # <<>>, b.rounds[Len(b.rounds)].result = "none",
         c.rounds = [b.rounds EXCEPT ![Len(b.rounds)] = y],
         \/ /\ y.result = "received"
            /\ c.check.misses = 0 /\ c.check.last = y.result
         \/ /\ y.result = "skipped"
            /\ c.check.misses = b.check.misses /\ c.check.last = b.check.last
            /\ c.check.secondMiss = b.check.secondMiss
         \/ /\ y.result \in {"missed", "refused"}
            /\ c.check.misses = b.check.misses + 1 /\ c.check.last = y.result
            /\ c.check.secondMiss = IF b.check.misses = 1 THEN y.closedAt ELSE b.check.secondMiss
  PROVE  Counts(c)
<1> DEFINE r == Len(b.rounds)
<1>1. /\ r \in Nat /\ r >= 1 /\ DOMAIN b.rounds = 1..r /\ r \in DOMAIN b.rounds
      /\ b.rounds \in Seq(Rounds)
  BY DEF Row
<1>2. /\ DOMAIN c.rounds = 1..r /\ c.rounds[r] = y
      /\ \A q \in 1..r : q # r => c.rounds[q] = b.rounds[q]
  BY <1>1, SeqSet
<1>3. b.rounds[r].result = "none" OBVIOUS
<1> HIDE DEF r
<1>4. Counted(b) \subseteq 1..r /\ r \notin Counted(b) BY <1>1, <1>3 DEF Counted
<1>5. \A q \in Counted(b) : q \in Int /\ q < r /\ c.rounds[q] = b.rounds[q]
  BY <1>1, <1>2, <1>4
<1>6. CASE y.result = "skipped"
  <2>1. Counted(c) = Counted(b)
    <3>1. \A q \in 1..r : q \in Counted(c) <=> q \in Counted(b)
      BY <1>1, <1>2, <1>3, <1>6 DEF Counted
    <3>2. Counted(c) \subseteq 1..r BY <1>2 DEF Counted
    <3>3. QED BY <1>4, <3>1, <3>2
  <2>2. QED BY <1>5, <1>6, <2>1, CountsSame
<1>7. ASSUME y.result # "skipped" PROVE Counted(c) = Counted(b) \cup {r}
  <2>1. \A q \in 1..r : q \in Counted(c) <=> q \in Counted(b) \/ q = r
    BY <1>1, <1>2, <1>7 DEF Counted, Verdict
  <2>2. Counted(c) \subseteq 1..r BY <1>2 DEF Counted
  <2>3. QED BY <1>1, <1>4, <2>1, <2>2
<1>8. ASSUME y.result # "skipped"
      PROVE  \E q \in Counted(c) : c.rounds[q] = y /\ \A x \in Counted(c) : x <= q
  <2>1. \A x \in Counted(c) : x <= r BY <1>1, <1>5, <1>7, <1>8
  <2>2. QED BY <1>2, <1>7, <1>8, <2>1
<1>9. CASE y.result = "received"
  <2>1. MissRun(c) = {}
    <3>1. ASSUME NEW x \in MissRun(c) PROVE FALSE
      <4>1. r < x /\ x \in Counted(c) BY <1>2, <1>7, <1>9, <3>1 DEF MissRun
      <4>2. QED BY <1>1, <1>5, <1>7, <1>9, <4>1
    <3>2. QED BY <3>1
  <2>2. Cardinality(MissRun(c)) = 0 BY <2>1, FS_EmptySet
  <2>3. c.check.misses = 0 /\ c.check.last = y.result BY <1>9
  <2>4. Counted(c) # {} BY <1>7, <1>9
  <2>5. QED BY <1>8, <1>9, <2>2, <2>3, <2>4 DEF Counts
<1>10. CASE y.result \in {"missed", "refused"}
  <2>1. MissRun(c) = MissRun(b) \cup {r}
    <3>1. \A x \in Counted(b) : x \in MissRun(c) <=> x \in MissRun(b)
      BY <1>2, <1>5, <1>7, <1>10 DEF MissRun
    <3>2. r \in MissRun(c) BY <1>2, <1>5, <1>7, <1>10 DEF MissRun
    <3>3. MissRun(c) \subseteq Counted(b) \cup {r} BY <1>7, <1>10 DEF MissRun
    <3>4. MissRun(b) \subseteq Counted(b) BY DEF MissRun
    <3>5. QED BY <3>1, <3>2, <3>3, <3>4
  <2>2. MissRun(b) \subseteq Counted(b) /\ IsFiniteSet(MissRun(b)) BY RunFinite
  <2>3. r \notin MissRun(b) BY <1>4, <2>2
  <2>4. Cardinality(MissRun(c)) = Cardinality(MissRun(b)) + 1 /\ Cardinality(MissRun(b)) \in Nat
    BY <2>1, <2>2, <2>3, FS_AddElement, FS_CardinalityType
  <2>5. b.check.misses = Cardinality(MissRun(b)) BY DEF Counts
  <2>6. ASSUME c.check.misses >= 2
        PROVE  \E q, x \in MissRun(c) :
                 /\ q < x /\ \A z \in MissRun(c) : z \in {q, x} \/ z > x
                 /\ c.check.secondMiss = c.rounds[x].closedAt
    <3>1. CASE b.check.misses = 1
      <4>1. PICK q : MissRun(b) = {q}
        <5>1. PICK run : run = MissRun(b) OBVIOUS
        <5>2. IsFiniteSet(run) /\ Cardinality(run) = 1 BY <2>2, <2>5, <3>1, <5>1
        <5>3. \E q : run = {q} BY <5>2, FS_Singleton
        <5>4. QED BY <5>1, <5>3
      <4>2. q < r /\ MissRun(c) = {q, r} BY <1>5, <2>1, <2>2, <4>1
      <4>3. c.check.secondMiss = c.rounds[r].closedAt BY <1>2, <1>10, <3>1
      <4>4. QED BY <4>2, <4>3
    <3>2. CASE b.check.misses # 1
      <4>1. b.check.misses >= 2 BY <1>10, <2>4, <2>5, <2>6, <3>2
      <4>2. PICK q, x \in MissRun(b) :
              /\ q < x /\ \A z \in MissRun(b) : z \in {q, x} \/ z > x
              /\ b.check.secondMiss = b.rounds[x].closedAt
        BY <4>1 DEF Counts
      <4>3. x < r /\ x \in Int /\ c.rounds[x] = b.rounds[x] BY <1>5, <2>2, <4>2
      <4>4. c.check.secondMiss = c.rounds[x].closedAt BY <1>10, <3>2, <4>2, <4>3
      <4>5. \A z \in MissRun(c) : z \in {q, x} \/ z > x BY <1>1, <2>1, <4>2, <4>3
      <4>6. QED BY <2>1, <4>2, <4>4, <4>5
    <3>3. QED BY <3>1, <3>2
  <2>7. c.check.misses = Cardinality(MissRun(c)) /\ c.check.last = y.result BY <1>10, <2>4, <2>5
  <2>8. Counted(c) # {} BY <1>7, <1>10
  <2>9. QED BY <1>8, <1>10, <2>6, <2>7, <2>8 DEF Counts
<1>11. QED BY <1>6, <1>9, <1>10 DEF Verdict

-----------------------------------------------------------------------------
(* What an operation may do to the rows of a device.                       *)

\* A result is written once, and earned: VerdictsAreFair of one device.
Fair(b, c) ==
  \A r \in DOMAIN b.rounds :
    /\ b.rounds[r].result # "none" => c.rounds[r].result = b.rounds[r].result
    /\ b.rounds[r].result = "none" =>
         /\ c.rounds[r].result = "received" =>
              c.rounds[r].closedAt < b.rounds[r].closes /\ b.rounds[r].left # {}
         /\ c.rounds[r].result = "missed" => "accepted" \in Range(b.rounds[r].attempts)
         /\ c.rounds[r].reason = "held" => b.rounds[r].left = {}

\* An attempt on record stays there while its round has no result, and what
\* left is what the scan sent.
Kept(b, c) ==
  /\ DOMAIN b.rounds \subseteq DOMAIN c.rounds
  /\ \A r \in DOMAIN b.rounds :
       c.rounds[r].result = "none" =>
         /\ b.rounds[r].result = "none"
         /\ Len(c.rounds[r].attempts) >= Len(b.rounds[r].attempts)
         /\ c.rounds[r].left = b.rounds[r].left

\* A round opens when the gap is over, or a new token came on a miss:
\* RoundsApart of one device.
Apart(b, c) ==
  Len(c.rounds) > Len(b.rounds) /\ b.rounds # <<>> =>
    b.check.misses > 0 \/ clock >= b.rounds[Len(b.rounds)].opened + MinGap

Step(b, c) == Fair(b, c) /\ Kept(b, c) /\ Apart(b, c)

\* What is no part of the check stays.
Same(b, c) == c.token = b.token /\ c.minted = b.minted /\ c.hosted = b.hosted /\ c.alarmAt = b.alarmAt

\* A row with another check.
LEMMA RowCheck ==
  ASSUME NEW b \in Row, NEW k \in Checks
  PROVE  LET c == [b EXCEPT !.check = k] IN
         c \in Row /\ c.check = k /\ c.rounds = b.rounds /\ Same(b, c)
BY DEF Row, Same

\* A row with other rounds.
LEMMA RowRounds ==
  ASSUME NEW b \in Row, NEW rs \in Seq(Rounds)
  PROVE  LET c == [b EXCEPT !.rounds = rs] IN
         c \in Row /\ c.check = b.check /\ c.rounds = rs /\ Same(b, c)
BY DEF Row, Same

\* A check that has no round any more.
LEMMA FreedCheck ==
  ASSUME NEW k \in Checks
  PROVE  LET f == [k EXCEPT !.round = 0, !.attemptAt = IF k.enabled THEN k.dueAt ELSE NoTime] IN
         /\ f \in Checks /\ f.round = 0 /\ f.attemptAt = IF k.enabled THEN k.dueAt ELSE NoTime
         /\ f.enabled = k.enabled /\ f.dueAt = k.dueAt /\ f.misses = k.misses
         /\ f.last = k.last /\ f.secondMiss = k.secondMiss
<1> DEFINE v == IF k.enabled THEN k.dueAt ELSE NoTime
<1>1. v \in Int BY DEF Checks, NoTime
<1> HIDE DEF v
<1>2. [k EXCEPT !.round = 0] \in Checks BY DEF Checks
<1>3. [[k EXCEPT !.round = 0] EXCEPT !.attemptAt = v] \in Checks
  <2>1. PICK f \in Checks : f = [k EXCEPT !.round = 0] BY <1>2
  <2>2. [f EXCEPT !.attemptAt = v] \in Checks BY <1>1 DEF Checks
  <2>3. QED BY <2>1, <2>2
<1>4. LET f == [k EXCEPT !.round = 0, !.attemptAt = v] IN
      /\ f.round = 0 /\ f.attemptAt = v
      /\ f.enabled = k.enabled /\ f.dueAt = k.dueAt /\ f.misses = k.misses
      /\ f.last = k.last /\ f.secondMiss = k.secondMiss
  BY DEF Checks
<1>5. QED BY <1>3, <1>4 DEF v

\* A round of a device that has no result is the open one.
LEMMA OpenRound ==
  ASSUME NEW b, Good(b), NEW r \in DOMAIN b.rounds, b.rounds[r].result = "none"
  PROVE  /\ b \in Row /\ b.check \in Checks /\ Counts(b) /\ Spaced(b)
         /\ r = Len(b.rounds) /\ b.check.round = r /\ r \in Nat /\ r >= 1
         /\ b.check.enabled /\ b.rounds \in Seq(Rounds) /\ b.rounds # <<>>
         /\ b.rounds[r] \in Rounds /\ b.rounds[r].reason = "none"
<1>1. b \in Row /\ Shape(b) BY DEF Good
<1>2. b.rounds \in Seq(Rounds) /\ b.rounds # <<>> /\ b.rounds[r] \in Rounds BY <1>1 DEF Row
<1>3. b.check # NoCheck BY <1>1, <1>2 DEF Shape
<1>4. b.check \in Checks /\ Counts(b) /\ Spaced(b) BY <1>1, <1>3 DEF Good, Row
<1>5. r = Len(b.rounds) /\ b.check.round = r /\ b.rounds[r].reason = "none" BY <1>1 DEF Shape
<1>6. r \in Nat /\ r >= 1 BY <1>2, <1>5
<1>7. b.check.enabled BY <1>1, <1>5, <1>6 DEF Shape
<1>8. QED BY <1>1, <1>2, <1>4, <1>5, <1>6, <1>7

\* A row that has a check written, in place.
LEMMA CheckFreed ==
  ASSUME NEW b \in Row, b.check \in Checks, NEW v
  PROVE  [b EXCEPT !.check.round = 0, !.check.attemptAt = v]
           = [b EXCEPT !.check = [b.check EXCEPT !.round = 0, !.attemptAt = v]]
BY DEF Row, Checks

\* The same, of the counts.
LEMMA CheckCounted ==
  ASSUME NEW b \in Row, b.check \in Checks, NEW n, NEW last, NEW at
  PROVE  [b EXCEPT !.check.misses = n, !.check.last = last, !.check.secondMiss = at]
           = [b EXCEPT !.check = [b.check EXCEPT !.misses = n, !.last = last, !.secondMiss = at]]
BY DEF Row, Checks

\* What a check is when its round closed with a result.
Freed(j, k, result, at) ==
  /\ k.round = 0 /\ k.attemptAt = (IF j.enabled THEN j.dueAt ELSE NoTime)
  /\ k.enabled = j.enabled /\ k.dueAt = j.dueAt
  /\ \/ result = "received" /\ k.misses = 0 /\ k.last = result /\ k.secondMiss = NoTime
     \/ result = "skipped" /\ k.misses = j.misses /\ k.last = j.last /\ k.secondMiss = j.secondMiss
     \/ /\ result \in {"missed", "refused"} /\ k.misses = j.misses + 1 /\ k.last = result
        /\ k.secondMiss = IF j.misses = 1 THEN at ELSE j.secondMiss

\* What a close writes.
LEMMA CloseRow ==
  ASSUME NEW b \in Row, NEW k \in Checks, k = b.check, NEW r \in DOMAIN b.rounds,
         b.rounds[r].result = "none", k.round = r,
         NEW result \in Verdict, NEW reason \in Reason, NEW at \in Int
  PROVE  LET c == Close(b, r, result, reason, at) IN
         /\ c \in Row /\ c.check \in Checks /\ Freed(k, c.check, result, at) /\ Same(b, c)
         /\ c.rounds = [b.rounds EXCEPT ![r] = Closed(b.rounds[r], result, reason, at)]
<1> DEFINE y  == Closed(b.rounds[r], result, reason, at)
           rs == [b.rounds EXCEPT ![r] = y]
           c  == Close(b, r, result, reason, at)
<1>1. /\ b \in Row /\ b.check \in Checks /\ k = b.check /\ k.round = r /\ b.rounds \in Seq(Rounds)
      /\ b.rounds[r] \in Rounds
  BY DEF Row
<1>2. y \in Rounds BY <1>1, ClosedFacts
<1>3. rs \in Seq(Rounds)
  <2> HIDE DEF y
  <2>1. QED BY <1>1, <1>2, SeqSet
<1>4. PICK kf, kc :
        /\ kf = [k EXCEPT !.round = 0, !.attemptAt = IF k.enabled THEN k.dueAt ELSE NoTime]
        /\ kc = IF result = "received" THEN [kf EXCEPT !.misses = 0, !.last = result, !.secondMiss = NoTime]
                ELSE IF result = "skipped" THEN kf
                ELSE [kf EXCEPT !.misses = k.misses + 1, !.last = result,
                                !.secondMiss = IF k.misses = 1 THEN at ELSE k.secondMiss]
  OBVIOUS
<1>5. /\ kf \in Checks /\ kf.misses = k.misses /\ kf.secondMiss = k.secondMiss
      /\ kc \in Checks /\ kc.round = 0 /\ kc.attemptAt = (IF k.enabled THEN k.dueAt ELSE NoTime)
      /\ kc.enabled = k.enabled /\ kc.dueAt = k.dueAt
      /\ \/ result = "received" /\ kc.misses = 0 /\ kc.last = result /\ kc.secondMiss = NoTime
         \/ /\ result = "skipped" /\ kc.misses = k.misses /\ kc.last = k.last
            /\ kc.secondMiss = k.secondMiss
         \/ /\ result \in {"missed", "refused"}
            /\ kc.misses = k.misses + 1 /\ kc.last = result
            /\ kc.secondMiss = IF k.misses = 1 THEN at ELSE k.secondMiss
  <2>1. PICK f \in Checks :
          /\ f = [k EXCEPT !.round = 0, !.attemptAt = IF k.enabled THEN k.dueAt ELSE NoTime]
          /\ f.round = 0 /\ f.attemptAt = (IF k.enabled THEN k.dueAt ELSE NoTime)
          /\ f.enabled = k.enabled /\ f.dueAt = k.dueAt /\ f.misses = k.misses
          /\ f.last = k.last /\ f.secondMiss = k.secondMiss
    <3> DEFINE g == [k EXCEPT !.round = 0, !.attemptAt = IF k.enabled THEN k.dueAt ELSE NoTime]
    <3>1. /\ g \in Checks /\ g.round = 0 /\ g.attemptAt = (IF k.enabled THEN k.dueAt ELSE NoTime)
          /\ g.enabled = k.enabled /\ g.dueAt = k.dueAt /\ g.misses = k.misses
          /\ g.last = k.last /\ g.secondMiss = k.secondMiss
      BY <1>1, FreedCheck
    <3> HIDE DEF g
    <3>2. \E f \in Checks :
            /\ f = g /\ f.round = 0 /\ f.attemptAt = (IF k.enabled THEN k.dueAt ELSE NoTime)
            /\ f.enabled = k.enabled /\ f.dueAt = k.dueAt /\ f.misses = k.misses
            /\ f.last = k.last /\ f.secondMiss = k.secondMiss
      BY <3>1
    <3>3. QED BY <3>2 DEF g
  <2>2. k.misses \in Nat /\ k.secondMiss \in Int /\ k.misses + 1 \in Nat BY DEF Checks
  <2>3. CASE result = "skipped" BY <1>1, <1>4, <2>1, <2>3
  <2>4. CASE result # "skipped"
    <3>1. PICK n \in Nat, second \in Int :
            /\ n = IF result = "received" THEN 0 ELSE k.misses + 1
            /\ second = IF result = "received" THEN NoTime ELSE IF k.misses = 1 THEN at ELSE k.secondMiss
      BY <2>2 DEF NoTime
    <3>2. result \in {"received", "missed", "refused"} BY <2>4 DEF Verdict
    <3>3. kc = [f EXCEPT !.misses = n, !.last = result, !.secondMiss = second]
      BY <1>4, <2>1, <2>4, <3>1
    <3>4. PICK f1 \in Checks : f1 = [f EXCEPT !.misses = n] BY DEF Checks
    <3>5. PICK f2 \in Checks : f2 = [f1 EXCEPT !.last = result] BY <3>2 DEF Checks
    <3>6. [f2 EXCEPT !.secondMiss = second] \in Checks BY DEF Checks
    <3>7. kc \in Checks BY <3>3, <3>4, <3>5, <3>6
    <3>8. /\ kc.misses = n /\ kc.last = result /\ kc.secondMiss = second
          /\ kc.round = f.round /\ kc.attemptAt = f.attemptAt /\ kc.enabled = f.enabled
          /\ kc.dueAt = f.dueAt
      BY <3>3 DEF Checks
    <3>9. CASE result = "received" BY <1>1, <1>4, <2>1, <3>1, <3>7, <3>8, <3>9
    <3>10. CASE result \in {"missed", "refused"} BY <1>1, <1>4, <2>1, <2>2, <3>1, <3>7, <3>8, <3>10
    <3>11. QED BY <3>2, <3>9, <3>10
  <2>5. QED BY <2>3, <2>4
<1>6. c \in Row /\ c.check = kc /\ c.rounds = rs /\ Same(b, c)
  <2>1. PICK c1 \in Row : /\ c1 = [b EXCEPT !.rounds[r] = Closed(@, result, reason, at)]
                          /\ c1.check = k /\ c1.rounds = rs /\ Same(b, c1)
    <3>1. [b EXCEPT !.rounds[r] = Closed(@, result, reason, at)] = [b EXCEPT !.rounds = rs] OBVIOUS
    <3>2. PICK ss \in Seq(Rounds) : ss = rs BY <1>3
    <3>3. [b EXCEPT !.rounds = ss] \in Row BY <1>1, <3>2, RowRounds
    <3>4. QED BY <1>1, <3>1, <3>2, <3>3, RowRounds
  <2>2. PICK cf \in Row : /\ cf = [c1 EXCEPT !.check.round = 0,
                                   !.check.attemptAt = IF b.check.enabled THEN b.check.dueAt ELSE NoTime]
                          /\ cf = [c1 EXCEPT !.check = kf]
                          /\ cf.check = kf /\ cf.rounds = rs /\ Same(c1, cf)
    <3>1. [c1 EXCEPT !.check.round = 0, !.check.attemptAt = IF b.check.enabled THEN b.check.dueAt ELSE NoTime]
            = [c1 EXCEPT !.check = kf]
      <4>1. PICK v : v = IF b.check.enabled THEN b.check.dueAt ELSE NoTime OBVIOUS
      <4>2. QED BY <1>1, <1>4, <2>1, <4>1, CheckFreed
    <3>2. LET e == [c1 EXCEPT !.check = kf] IN
          e \in Row /\ e.check = kf /\ e.rounds = c1.rounds /\ Same(c1, e)
      <4>1. kf \in Checks BY <1>5
      <4>2. QED BY <4>1, RowCheck
    <3>3. c1.rounds = rs BY <2>1
    <3>4. QED BY <3>1, <3>2, <3>3
  <2>3. c = [cf EXCEPT !.check = kc]
    <3>1. CASE result = "received"
      <4>1. c = [cf EXCEPT !.check.misses = 0, !.check.last = result, !.check.secondMiss = NoTime]
        BY <1>1, <2>1, <2>2, <3>1 DEF Close
      <4>2. PICK n, no : n = 0 /\ no = NoTime OBVIOUS
      <4>3. kc = [kf EXCEPT !.misses = n, !.last = result, !.secondMiss = no] BY <1>4, <3>1, <4>2
      <4>4. c = [cf EXCEPT !.check.misses = n, !.check.last = result, !.check.secondMiss = no]
        BY <4>1, <4>2
      <4>5. cf \in Row /\ cf.check = kf /\ kf \in Checks BY <1>5, <2>2
      <4>6. QED BY <4>3, <4>4, <4>5, CheckCounted
    <3>2. CASE result = "skipped"
      <4>1. c = cf BY <1>1, <2>1, <2>2, <3>2 DEF Close
      <4>2. kc = kf BY <1>4, <3>2
      <4>3. QED BY <2>2, <4>1, <4>2
    <3>3. CASE result \in {"missed", "refused"}
      <4>1. c = [cf EXCEPT !.check.misses = @ + 1, !.check.last = result,
                           !.check.secondMiss = IF b.check.misses = 1 THEN at ELSE @]
        BY <1>1, <2>1, <2>2, <3>3 DEF Close
      <4>2. PICK n, second : n = k.misses + 1 /\ second = IF k.misses = 1 THEN at ELSE k.secondMiss
        OBVIOUS
      <4>3. c = [cf EXCEPT !.check.misses = n, !.check.last = result, !.check.secondMiss = second]
        BY <1>5, <2>2, <4>1, <4>2
      <4>4. kc = [kf EXCEPT !.misses = n, !.last = result, !.secondMiss = second]
        BY <1>4, <3>3, <4>2
      <4>5. cf \in Row /\ cf.check = kf /\ kf \in Checks BY <1>5, <2>2
      <4>6. QED BY <4>3, <4>4, <4>5, CheckCounted
    <3>4. QED BY <3>1, <3>2, <3>3 DEF Verdict
  <2>4. c \in Row /\ c.check = kc /\ c.rounds = cf.rounds /\ Same(cf, c)
    <3>1. kc \in Checks BY <1>5
    <3>2. LET e == [cf EXCEPT !.check = kc] IN
          e \in Row /\ e.check = kc /\ e.rounds = cf.rounds /\ Same(cf, e)
      BY <3>1, RowCheck
    <3>3. QED BY <2>3, <3>2
  <2>5. QED BY <2>1, <2>2, <2>4 DEF Same
<1>7. Freed(k, kc, result, at) BY <1>5 DEF Freed
<1> HIDE DEF c, y, rs
<1>8. c.check \in Checks /\ Freed(k, c.check, result, at) BY <1>5, <1>6, <1>7
<1>9. QED BY <1>6, <1>8 DEF c, rs, y

\* What a close does.
LEMMA CloseFacts ==
  ASSUME NEW b, Good(b), NEW r \in DOMAIN b.rounds, b.rounds[r].result = "none",
         NEW result \in Verdict, NEW reason \in Reason, NEW at \in Int
  PROVE  LET c == Close(b, r, result, reason, at) IN
         /\ Good(c) /\ Same(b, c) /\ c.check \in Checks /\ c.check.round = 0
         /\ c.check.enabled = b.check.enabled /\ c.check.dueAt = b.check.dueAt
         /\ c.rounds = [b.rounds EXCEPT ![r] = Closed(b.rounds[r], result, reason, at)]
<1> DEFINE y  == Closed(b.rounds[r], result, reason, at)
           rs == [b.rounds EXCEPT ![r] = y]
           c  == Close(b, r, result, reason, at)
<1>k. PICK k \in Checks : k = b.check BY OpenRound
<1>1. /\ b \in Row /\ b.check \in Checks /\ Counts(b) /\ Spaced(b) /\ Shape(b)
      /\ r = Len(b.rounds) /\ k.round = r /\ r \in Nat /\ r >= 1
      /\ k.enabled /\ b.rounds \in Seq(Rounds) /\ b.rounds # <<>>
      /\ b.rounds[r] \in Rounds /\ b.rounds[r].reason = "none"
  BY <1>k, OpenRound DEF Good
<1>2. /\ y \in Rounds /\ y.result = result /\ y.reason = reason /\ y.closedAt = at
      /\ y.opened = b.rounds[r].opened /\ y.closes = b.rounds[r].closes
      /\ y.attempts = <<>> /\ y.left = {}
  BY <1>1, ClosedFacts
<1>3. /\ rs \in Seq(Rounds) /\ Len(rs) = r /\ DOMAIN rs = DOMAIN b.rounds /\ rs[r] = y
      /\ \A q \in DOMAIN b.rounds : q # r => rs[q] = b.rounds[q]
  <2> HIDE DEF y
  <2>1. QED BY <1>1, <1>2, SeqSet
<1>4. c \in Row /\ c.check \in Checks /\ Freed(k, c.check, result, at) /\ Same(b, c) /\ c.rounds = rs
  BY <1>1, <1>k, CloseRow
<1>5. PICK kc \in Checks : kc = c.check BY <1>4
<1>6. /\ c \in Row /\ c.check = kc /\ c.rounds = rs /\ Same(b, c)
      /\ kc.round = 0 /\ kc.attemptAt = k.dueAt /\ kc.enabled = k.enabled /\ kc.dueAt = k.dueAt
      /\ \/ result = "received" /\ kc.misses = 0 /\ kc.last = result
         \/ /\ result = "skipped" /\ kc.misses = k.misses /\ kc.last = k.last
            /\ kc.secondMiss = k.secondMiss
         \/ /\ result \in {"missed", "refused"}
            /\ kc.misses = k.misses + 1 /\ kc.last = result
            /\ kc.secondMiss = IF k.misses = 1 THEN at ELSE k.secondMiss
  <2> HIDE DEF c, rs, y
  <2>1. QED BY <1>1, <1>4, <1>5 DEF Freed
<1> HIDE DEF c, y, rs
<1>7. Shape(c)
  <2>1. c.check.round = 0 /\ c.check # NoCheck BY <1>5, <1>6, NoneFacts
  <2>2. ASSUME NEW q \in DOMAIN c.rounds
        PROVE  /\ c.rounds[q].result = "none" => /\ q = Len(c.rounds) /\ c.check.round = q
                                                 /\ c.rounds[q].reason = "none"
               /\ c.rounds[q].result # "none" => c.rounds[q].attempts = <<>>
               /\ Len(c.rounds[q].attempts) <= MaxAttempts
               /\ c.rounds[q].left \subseteq 1..Len(c.rounds[q].attempts)
    <3>1. CASE q = r
      <4>1. c.rounds[q] = y BY <1>3, <1>6, <3>1
      <4>2. MaxAttempts \in Nat BY WeeklyAssumption DEF MaxAttempts
      <4>3. Len(<<>>) = 0 OBVIOUS
      <4>4. QED BY <1>2, <4>1, <4>2, <4>3 DEF Verdict
    <3>2. CASE q # r
      <4>1. q \in DOMAIN b.rounds /\ c.rounds[q] = b.rounds[q] BY <1>3, <1>6, <2>2, <3>2
      <4>2. b.rounds[q].result # "none" BY <1>1, <3>2, <4>1 DEF Shape
      <4>3. QED BY <1>1, <4>1, <4>2 DEF Shape
    <3>3. QED BY <3>1, <3>2
  <2>3. QED BY <2>1, <2>2 DEF Shape
<1>8. Counts(c)
  <2>1. c.check.misses = kc.misses /\ c.check.last = kc.last /\ c.check.secondMiss = kc.secondMiss
    BY <1>6
  <2>2. c.rounds = [b.rounds EXCEPT ![Len(b.rounds)] = y] BY <1>1, <1>6 DEF rs
  <2>3. PICK z \in Rounds : z = y BY <1>2
  <2>4. QED BY <1>1, <1>2, <1>5, <1>6, <2>1, <2>2, <2>3, <1>k, CountsClosed
<1>9. Spaced(c)
  <2>1. c.check.round = 0 /\ c.check.attemptAt = b.check.dueAt /\ c.check.dueAt = b.check.dueAt
    BY <1>5, <1>6, <1>k
  <2>2. b.check.dueAt >= b.rounds[r].opened + MinGap BY <1>1, <1>k DEF Spaced
  <2>3. Len(c.rounds) = r /\ c.rounds[r].opened = b.rounds[r].opened BY <1>1, <1>2, <1>3, <1>6
  <2>4. QED BY <2>1, <2>2, <2>3 DEF Spaced
<1>10. Good(c) BY <1>6, <1>7, <1>8, <1>9 DEF Good
<1>11. QED BY <1>5, <1>6, <1>10, <1>k DEF c, rs, y

-----------------------------------------------------------------------------
(* The times of rounds.                                                    *)

\* What the quotient and the remainder are.
LEMMA Division ==
  ASSUME NEW a \in Int, NEW w \in Nat \ {0}
  PROVE  a = w * (a \div w) + (a % w) /\ a % w \in 0..(w - 1) /\ a \div w \in Int
OBVIOUS

\* Multiples of w are w apart.
LEMMA Multiples ==
  ASSUME NEW w \in Nat \ {0}, NEW p \in Int, NEW q \in Int, p < q
  PROVE  w * q >= w * p + w
<1>1. PICK k \in Nat : q = p + 1 + k
  <2>1. q >= p + 1 OBVIOUS
  <2>2. QED BY <2>1
<1>2. w * k >= 0 OBVIOUS
<1>3. w * (p + 1 + k) = w * p + w + w * k OBVIOUS
<1>4. w * p \in Int /\ w * k \in Int OBVIOUS
<1>5. QED BY <1>1, <1>2, <1>3, <1>4

\* A remainder is the only one.
LEMMA Remainder ==
  ASSUME NEW w \in Nat \ {0}, NEW q \in Int, NEW s \in 0..(w - 1)
  PROVE  (w * q + s) % w = s
<1>1. PICK a \in Int : a = w * q + s OBVIOUS
<1>2. PICK p \in Int : p = a \div w BY Division
<1>3. PICK m \in 0..(w - 1) : m = a % w BY Division
<1>4. a = w * p + m BY <1>2, <1>3, Division
<1>5. PICK x \in Int, y \in Int : x = w * p /\ y = w * q OBVIOUS
<1>6. ~(p < q)
  <2>1. ASSUME p < q PROVE y >= x + w BY Multiples, <1>5, <2>1
  <2>2. QED BY <1>1, <1>4, <1>5, <2>1
<1>7. ~(q < p)
  <2>1. ASSUME q < p PROVE x >= y + w BY Multiples, <1>5, <2>1
  <2>2. QED BY <1>1, <1>4, <1>5, <2>1
<1>8. p = q BY <1>6, <1>7
<1>9. QED BY <1>1, <1>3, <1>4, <1>5, <1>8

\* Every week has a time of the slot.
LEMMA SlotInWeek ==
  ASSUME NEW a \in Int, NEW w \in Nat \ {0}, NEW s \in 0..(w - 1)
  PROVE  \E t \in a..(a + w - 1) : t % w = s
<1>1. PICK q \in Int : q = a \div w BY Division
<1>2. PICK m \in 0..(w - 1) : m = a % w BY Division
<1>3. a = w * q + m BY <1>1, <1>2, Division
<1>4. PICK x \in Int : x = w * q OBVIOUS
<1>5. CASE m <= s
  <2>1. x + s \in a..(a + w - 1) BY <1>3, <1>4, <1>5
  <2>2. (x + s) % w = s BY <1>4, Remainder
  <2>3. QED BY <2>1, <2>2
<1>6. CASE s < m
  <2>1. PICK z \in Int : z = w * (q + 1) OBVIOUS
  <2>2. z = x + w BY <1>4, <2>1
  <2>3. z + s \in a..(a + w - 1) BY <1>3, <1>4, <1>6, <2>2
  <2>4. PICK q1 \in Int : q1 = q + 1 OBVIOUS
  <2>5. (z + s) % w = s BY <2>1, <2>4, Remainder
  <2>6. QED BY <2>3, <2>5
<1>7. QED BY <1>5, <1>6

\* The constants are numbers.
LEMMA Numbers ==
  /\ MinGap \in Nat /\ MinGap > 0 /\ Week \in Nat \ {0} /\ RoundLength \in Nat /\ Hold \in Nat
  /\ MaxTokens \in Nat /\ MaxAttempts \in Nat /\ MaxAttempts >= 1 /\ NoTime \in Int
  /\ \A d \in Devices : Slot[d] \in 0..(Week - 1)
BY WeeklyAssumption DEF MaxAttempts, NoTime

\* The next round of a device is a gap away or more.
LEMMA NextRound ==
  ASSUME NEW d \in Devices, NEW t \in Nat
  PROVE  RoundAfter(d, t) \in Nat /\ RoundAfter(d, t) >= t + MinGap
<1>1. PICK a \in Int, s \in 0..(Week - 1) : a = t + MinGap /\ s = Slot[d] BY Numbers
<1>2. \E x \in a..(a + Week - 1) : x % Week = s BY SlotInWeek, Numbers
<1>3. RoundAfter(d, t) \in a..(a + Week - 1) BY <1>1, <1>2 DEF RoundAfter
<1>4. QED BY <1>1, <1>3, Numbers

-----------------------------------------------------------------------------
(* What a close of an open round may do.                                   *)

\* A result that is earned is a fair step.
LEMMA CloseStep ==
  ASSUME NEW b, Good(b), NEW r \in DOMAIN b.rounds, b.rounds[r].result = "none",
         NEW result \in Verdict, NEW reason \in Reason, NEW at \in Int,
         result = "received" => at < b.rounds[r].closes /\ b.rounds[r].left # {},
         result = "missed" => "accepted" \in Range(b.rounds[r].attempts),
         reason = "held" => b.rounds[r].left = {}
  PROVE  LET c == Close(b, r, result, reason, at) IN
         /\ Good(c) /\ Same(b, c) /\ Step(b, c) /\ c.check.round = 0
         /\ c.check.enabled = b.check.enabled /\ c.check.dueAt = b.check.dueAt
         /\ DOMAIN c.rounds = DOMAIN b.rounds
         /\ c.rounds[r].result = result /\ c.rounds[r].reason = reason
<1> DEFINE y == Closed(b.rounds[r], result, reason, at)
<1>1. PICK c : c = Close(b, r, result, reason, at) OBVIOUS
<1>2. /\ Good(c) /\ Same(b, c) /\ c.check.round = 0
      /\ c.check.enabled = b.check.enabled /\ c.check.dueAt = b.check.dueAt
      /\ c.rounds = [b.rounds EXCEPT ![r] = y]
  BY <1>1, CloseFacts
<1>3. /\ b \in Row /\ Shape(b) /\ r = Len(b.rounds) /\ b.rounds \in Seq(Rounds) /\ b.rounds[r] \in Rounds
  BY OpenRound DEF Good
<1>4. /\ y \in Rounds /\ y.result = result /\ y.reason = reason /\ y.closedAt = at
      /\ y.closes = b.rounds[r].closes /\ y.attempts = <<>> /\ y.left = {}
  BY <1>3, ClosedFacts
<1> HIDE DEF y
<1>5. /\ Len(c.rounds) = Len(b.rounds) /\ DOMAIN c.rounds = DOMAIN b.rounds /\ c.rounds[r] = y
      /\ \A q \in DOMAIN b.rounds : q # r => c.rounds[q] = b.rounds[q]
  BY <1>2, <1>3, <1>4, SeqSet
<1>6. \A q \in DOMAIN b.rounds : q # r => b.rounds[q].result # "none" BY <1>3 DEF Shape
<1>7. Fair(b, c) BY <1>4, <1>5, <1>6 DEF Fair
<1>8. Kept(b, c) BY <1>4, <1>5, <1>6 DEF Kept, Verdict
<1>9. Apart(b, c)
  <2>1. Len(b.rounds) \in Nat BY <1>3
  <2>2. QED BY <1>5, <2>1 DEF Apart
<1>10. Step(b, c) BY <1>7, <1>8, <1>9 DEF Step
<1>11. QED BY <1>1, <1>2, <1>4, <1>5, <1>10

\* A round that closes without a receipt is held only when it sent nothing.
Told(b, c) ==
  \A r \in DOMAIN b.rounds : b.rounds[r].result = "none" =>
    /\ c.rounds[r].result # "received"
    /\ c.rounds[r].reason = "held" => b.rounds[r].attempts = <<>>

\* A step of the relay, which no phone has a part in.
Moved(b, c) == Good(c) /\ Same(b, c) /\ Step(b, c) /\ Told(b, c)

\* A close without a receipt.
LEMMA RelayClose ==
  ASSUME NEW b, Good(b), NEW r \in DOMAIN b.rounds, b.rounds[r].result = "none",
         NEW result \in Verdict, NEW reason \in Reason, NEW at \in Int,
         result # "received",
         result = "missed" => "accepted" \in Range(b.rounds[r].attempts),
         reason = "held" => b.rounds[r].attempts = <<>>
  PROVE  LET c == Close(b, r, result, reason, at) IN
         /\ Moved(b, c) /\ c.check.round = 0 /\ c.check.enabled = b.check.enabled
         /\ c.check.dueAt = b.check.dueAt /\ DOMAIN c.rounds = DOMAIN b.rounds
         /\ c.rounds[r].result = result
<1>1. reason = "held" => b.rounds[r].left = {}
  <2>1. b.rounds[r].left \subseteq 1..Len(b.rounds[r].attempts) BY DEF Good, Shape
  <2>2. Len(<<>>) = 0 /\ 1..0 = {} OBVIOUS
  <2>3. QED BY <2>1, <2>2
<1>2. PICK c : c = Close(b, r, result, reason, at) OBVIOUS
<1>3. /\ Good(c) /\ Same(b, c) /\ Step(b, c) /\ c.check.round = 0
      /\ c.check.enabled = b.check.enabled /\ c.check.dueAt = b.check.dueAt
      /\ DOMAIN c.rounds = DOMAIN b.rounds
      /\ c.rounds[r].result = result /\ c.rounds[r].reason = reason
  BY <1>1, <1>2, CloseStep
<1>4. Told(b, c)
  <2>1. \A q \in DOMAIN b.rounds : b.rounds[q].result = "none" => q = r
    BY DEF Good, Shape
  <2>2. QED BY <1>3, <2>1 DEF Told
<1>5. QED BY <1>2, <1>3, <1>4 DEF Moved

\* A round whose close time came is missed, held or unsent.
LEMMA ExpireFacts ==
  ASSUME NEW b, Good(b), NEW r \in DOMAIN b.rounds, b.rounds[r].result = "none"
  PROVE  LET c == Expire(b, r) IN
         /\ Moved(b, c) /\ c.check.round = 0 /\ c.check.enabled = b.check.enabled
         /\ c.check.dueAt = b.check.dueAt /\ DOMAIN c.rounds = DOMAIN b.rounds
         /\ c.rounds[r].result # "none" /\ c.rounds[r].result # "refused"
<1>1. PICK at \in Int : at = b.rounds[r].closes BY OpenRound DEF Rounds
<1>2. PICK c : c = Expire(b, r) OBVIOUS
<1>3. CASE "accepted" \in Range(b.rounds[r].attempts)
  <2>1. c = Close(b, r, "missed", "none", at) BY <1>1, <1>2, <1>3 DEF Expire
  <2>2. PICK result \in Verdict, reason \in Reason : result = "missed" /\ reason = "none"
    BY DEF Verdict, Reason
  <2>3. c = Close(b, r, result, reason, at) BY <2>1, <2>2
  <2>4. QED BY <1>2, <1>3, <2>2, <2>3, RelayClose
<1>4. CASE "accepted" \notin Range(b.rounds[r].attempts)
  <2>1. PICK result \in Verdict, reason \in Reason :
          /\ result = "skipped" /\ c = Close(b, r, result, reason, at)
          /\ reason = "held" => b.rounds[r].attempts = <<>>
    <3>1. "skipped" \in Verdict /\ "held" \in Reason /\ "unsent" \in Reason BY DEF Verdict, Reason
    <3>2. \/ c = Close(b, r, "skipped", "held", at) /\ b.rounds[r].attempts = <<>>
          \/ c = Close(b, r, "skipped", "unsent", at)
      BY <1>1, <1>2, <1>4 DEF Expire
    <3>3. QED BY <3>1, <3>2
  <2>2. QED BY <1>2, <2>1, RelayClose
<1>5. QED BY <1>3, <1>4

\* A device stays as it is, to the relay.
LEMMA StayMoved ==
  ASSUME NEW b, Good(b)
  PROVE  Moved(b, b)
<1>1. b \in Row /\ Shape(b) BY DEF Good
<1>2. Fair(b, b) BY <1>1 DEF Fair, Shape
<1>3. Kept(b, b)
  <2>1. \A r \in DOMAIN b.rounds : Len(b.rounds[r].attempts) \in Nat
    <3>1. \A r \in DOMAIN b.rounds : b.rounds[r] \in Rounds BY <1>1 DEF Row
    <3>2. QED BY <3>1 DEF Rounds
  <2>2. QED BY <2>1 DEF Kept
<1>4. Apart(b, b)
  <2>1. Len(b.rounds) \in Nat BY <1>1 DEF Row
  <2>2. QED BY <2>1 DEF Apart
<1>5. Told(b, b)
  <2>1. \A r \in DOMAIN b.rounds : b.rounds[r].result = "none" => b.rounds[r].reason = "none"
    BY <1>1 DEF Shape
  <2>2. QED BY <2>1 DEF Told
<1>6. QED BY <1>2, <1>3, <1>4, <1>5 DEF Moved, Step, Same

\* The round of a device that has one open.
LEMMA TheOpenRound ==
  ASSUME NEW b, Good(b)
  PROVE  /\ HasOpen(b) => /\ b.check.round \in DOMAIN b.rounds /\ b.check.round = Len(b.rounds)
                          /\ b.rounds[b.check.round].result = "none" /\ Enrolled(b)
         /\ ~HasOpen(b) => \A r \in DOMAIN b.rounds : b.rounds[r].result # "none"
         /\ Enrolled(b) => b.check \in Checks
         /\ Enrolled(b) /\ ~HasOpen(b) => b.check.round = 0
<1>1. b \in Row /\ Shape(b) /\ b # NoDevice BY NoneFacts DEF Good
<1>2. b.rounds \in Seq(Rounds) /\ b.check \in Checks \cup {NoCheck} BY <1>1 DEF Row
<1>3. ASSUME HasOpen(b)
      PROVE  /\ b.check.round \in DOMAIN b.rounds /\ b.check.round = Len(b.rounds)
             /\ b.rounds[b.check.round].result = "none" /\ Enrolled(b)
  <2>1. Enrolled(b) /\ b.check.round # 0 BY <1>3 DEF HasOpen
  <2>2. b.check.round = Len(b.rounds) /\ b.rounds[b.check.round].result = "none"
    BY <1>1, <2>1 DEF Shape
  <2>3. QED BY <1>2, <2>1, <2>2
<1>4. ASSUME ~HasOpen(b), NEW r \in DOMAIN b.rounds, b.rounds[r].result = "none" PROVE FALSE
  <2>1. b.check \in Checks /\ b.check.round = r /\ r >= 1 /\ r \in Nat BY <1>4, OpenRound
  <2>2. QED BY <1>1, <1>4, <2>1, NoneFacts DEF HasOpen, Enrolled
<1>5. ASSUME Enrolled(b), ~HasOpen(b) PROVE b.check.round = 0
  BY <1>1, <1>5 DEF HasOpen, Shape
<1>6. QED BY <1>2, <1>3, <1>4, <1>5 DEF Enrolled

\* What a view or a route writes for a round whose close time came.
LEMMA SettleFacts ==
  ASSUME NEW b, Good(b)
  PROVE  Moved(b, Settle(b))
<1>1. CASE HasOpen(b) /\ Over(b, b.check.round)
  <2>1. PICK r : r = b.check.round OBVIOUS
  <2>2. r \in DOMAIN b.rounds /\ b.rounds[r].result = "none" BY <1>1, <2>1, TheOpenRound
  <2>3. Settle(b) = Expire(b, r) BY <1>1, <2>1 DEF Settle
  <2>4. QED BY <2>2, <2>3, ExpireFacts
<1>2. CASE ~(HasOpen(b) /\ Over(b, b.check.round)) BY <1>2, StayMoved DEF Settle
<1>3. QED BY <1>1, <1>2

\* A round that keeps its result, with more attempts or other outcomes.
Edited(x, y) ==
  /\ x \in Rounds /\ y \in Rounds
  /\ y.result = x.result /\ y.reason = x.reason /\ y.opened = x.opened /\ y.closedAt = x.closedAt
  /\ y.result # "none" => y.attempts = <<>>
  /\ Len(y.attempts) >= Len(x.attempts) /\ Len(y.attempts) <= MaxAttempts
  /\ y.left \subseteq 1..Len(y.attempts)

\* A check of which only the time of the next attempt is another.
Retimed(j, k) ==
  /\ k \in Checks /\ k.misses = j.misses /\ k.last = j.last /\ k.secondMiss = j.secondMiss
  /\ k.enabled = j.enabled /\ k.dueAt = j.dueAt /\ k.round = j.round
  /\ k.attemptAt = j.attemptAt \/ j.round # 0

\* A row in which round r was edited to y.
Rewritten(b, r, y, c) ==
  /\ c \in Row /\ c.rounds = [b.rounds EXCEPT ![r] = y] /\ Same(b, c)
  /\ Edited(b.rounds[r], y) /\ Retimed(b.check, c.check)

\* A round, the open one or a closed one, that keeps its result.
LEMMA EditFacts ==
  ASSUME NEW b, Good(b), NEW r \in DOMAIN b.rounds, NEW y, NEW c, Rewritten(b, r, y, c)
  PROVE  /\ Good(c) /\ Fair(b, c) /\ Told(b, c) /\ Apart(b, c) /\ DOMAIN c.rounds = DOMAIN b.rounds
         /\ y.left = b.rounds[r].left => Moved(b, c)
<1> USE DEF Edited, Retimed, Rewritten
<1>1. /\ b \in Row /\ Shape(b) /\ b.rounds \in Seq(Rounds) /\ b.rounds # <<>> /\ b.rounds[r] \in Rounds
      /\ \A q \in DOMAIN b.rounds : b.rounds[q] \in Rounds
  BY DEF Good, Row
<1>2. b.check # NoCheck BY <1>1 DEF Shape
<1>3. b.check \in Checks /\ Counts(b) /\ Spaced(b) BY <1>1, <1>2 DEF Good, Row
<1>4. /\ Len(c.rounds) = Len(b.rounds) /\ DOMAIN c.rounds = DOMAIN b.rounds /\ c.rounds[r] = y
      /\ \A q \in DOMAIN b.rounds : q # r => c.rounds[q] = b.rounds[q]
  BY <1>1, SeqSet
<1>5. \A q \in DOMAIN b.rounds :
        /\ c.rounds[q].result = b.rounds[q].result /\ c.rounds[q].reason = b.rounds[q].reason
        /\ c.rounds[q].opened = b.rounds[q].opened /\ c.rounds[q].closedAt = b.rounds[q].closedAt
  BY <1>4
<1>6. Shape(c)
  <2>1. c.check # NoCheck BY NoneFacts
  <2>2. ASSUME NEW q \in DOMAIN c.rounds
        PROVE  /\ c.rounds[q].result = "none" => /\ q = Len(c.rounds) /\ c.check.round = q
                                                 /\ c.rounds[q].reason = "none"
               /\ c.rounds[q].result # "none" => c.rounds[q].attempts = <<>>
               /\ Len(c.rounds[q].attempts) <= MaxAttempts
               /\ c.rounds[q].left \subseteq 1..Len(c.rounds[q].attempts)
    <3>1. q \in DOMAIN b.rounds BY <1>4, <2>2
    <3>2. c.rounds[q].result = "none" => /\ q = Len(c.rounds) /\ c.check.round = q
                                         /\ c.rounds[q].reason = "none"
      BY <1>1, <1>4, <1>5, <3>1 DEF Shape
    <3>3. CASE q = r BY <1>4, <3>2, <3>3
    <3>4. CASE q # r
      <4>1. c.rounds[q] = b.rounds[q] BY <1>4, <3>1, <3>4
      <4>2. QED BY <1>1, <3>1, <3>2, <4>1 DEF Shape
    <3>5. QED BY <3>3, <3>4
  <2>3. c.check.round # 0 => /\ c.check.round = Len(c.rounds)
                             /\ c.rounds[c.check.round].result = "none"
                             /\ c.check.enabled
    <3>1. HAVE c.check.round # 0
    <3>2. /\ b.check.round = Len(b.rounds) /\ b.rounds[b.check.round].result = "none"
          /\ b.check.enabled
      BY <1>1, <3>1 DEF Shape
    <3>3. b.check.round \in DOMAIN b.rounds BY <1>1, <3>2
    <3>4. QED BY <1>4, <1>5, <3>2, <3>3
  <2>4. QED BY <2>1, <2>2, <2>3 DEF Shape
<1>7. Counts(c)
  <2>1. Counted(c) = Counted(b) BY <1>4, <1>5 DEF Counted
  <2>2. \A q \in Counted(b) : /\ c.rounds[q].result = b.rounds[q].result
                              /\ c.rounds[q].closedAt = b.rounds[q].closedAt
    BY <1>5 DEF Counted
  <2>3. QED BY <1>1, <1>3, <2>1, <2>2, CountsSame
<1>8. Spaced(c)
  <2>1. c.rounds # <<>> => c.rounds[Len(c.rounds)].opened = b.rounds[Len(b.rounds)].opened
    <3>1. Len(b.rounds) \in DOMAIN b.rounds BY <1>1
    <3>2. QED BY <1>4, <1>5, <3>1
  <2>2. QED BY <1>1, <1>3, <2>1 DEF Spaced
<1>9. Good(c) BY <1>6, <1>7, <1>8 DEF Good
<1>10. \A q \in DOMAIN b.rounds : b.rounds[q].result = "none" => b.rounds[q].reason = "none"
  BY <1>1 DEF Shape
<1>11. Fair(b, c) BY <1>5, <1>10 DEF Fair
<1>12. Told(b, c) BY <1>5, <1>10 DEF Told
<1>13. Apart(b, c)
  <2>1. Len(b.rounds) \in Nat BY <1>1
  <2>2. QED BY <1>4, <2>1 DEF Apart
<1>14. ASSUME y.left = b.rounds[r].left PROVE Kept(b, c)
  <2>1. \A q \in DOMAIN b.rounds : q # r => Len(c.rounds[q].attempts) = Len(b.rounds[q].attempts)
    BY <1>4
  <2>2. \A q \in DOMAIN b.rounds : Len(b.rounds[q].attempts) \in Nat BY <1>1 DEF Rounds
  <2>3. \A q \in DOMAIN b.rounds : Len(c.rounds[q].attempts) >= Len(b.rounds[q].attempts)
    BY <1>4, <2>1, <2>2
  <2>4. QED BY <1>4, <1>5, <1>14, <2>3 DEF Kept
<1>15. QED BY <1>4, <1>9, <1>11, <1>12, <1>13, <1>14 DEF Moved, Step

\* A round is added: one that opens, or one that is skipped at once.
LEMMA AppendFacts ==
  ASSUME NEW b, Good(b), ~HasOpen(b), NEW y \in Rounds, NEW c \in Row,
         clock \in Nat, c.rounds = Append(b.rounds, y), Same(b, c),
         b.check \in Checks, b.check.enabled, b.check.attemptAt <= clock, c.check \in Checks,
         c.check.misses = b.check.misses, c.check.last = b.check.last,
         c.check.secondMiss = b.check.secondMiss, c.check.enabled,
         c.check.dueAt >= clock + MinGap,
         y.opened = clock, y.attempts = <<>>, y.left = {},
         \/ y.result = "none" /\ y.reason = "none" /\ c.check.round = Len(b.rounds) + 1
         \/ y.result = "skipped" /\ c.check.round = 0 /\ c.check.attemptAt = c.check.dueAt
  PROVE  Moved(b, c) /\ c.rounds[Len(b.rounds) + 1] = y /\ Len(c.rounds) = Len(b.rounds) + 1
<1> DEFINE n == Len(b.rounds)
<1>1. /\ b \in Row /\ Shape(b) /\ b.rounds \in Seq(Rounds)
      /\ \A q \in DOMAIN b.rounds : b.rounds[q] \in Rounds
  BY DEF Good, Row
<1>2. Counts(b) /\ Spaced(b) /\ Enrolled(b) BY NoneFacts DEF Good, Enrolled
<1>3. /\ n \in Nat /\ Len(c.rounds) = n + 1 /\ DOMAIN b.rounds = 1..n /\ DOMAIN c.rounds = 1..(n + 1)
      /\ c.rounds[n + 1] = y /\ \A q \in 1..n : c.rounds[q] = b.rounds[q]
  BY <1>1, SeqAdd
<1>4. b.check.round = 0 /\ \A q \in 1..n : b.rounds[q].result # "none"
  BY <1>2, <1>3, TheOpenRound
<1>5. b.rounds = <<>> <=> n = 0 BY <1>1
<1> HIDE DEF n
<1>6. Shape(c)
  <2>1. c.check # NoCheck BY NoneFacts
  <2>2. ASSUME NEW q \in DOMAIN c.rounds
        PROVE  /\ c.rounds[q].result = "none" => /\ q = Len(c.rounds) /\ c.check.round = q
                                                 /\ c.rounds[q].reason = "none"
               /\ c.rounds[q].result # "none" => c.rounds[q].attempts = <<>>
               /\ Len(c.rounds[q].attempts) <= MaxAttempts
               /\ c.rounds[q].left \subseteq 1..Len(c.rounds[q].attempts)
    <3>1. CASE q = n + 1
      <4>1. Len(<<>>) = 0 OBVIOUS
      <4>2. QED BY <1>3, <3>1, <4>1, Numbers DEF n
    <3>2. CASE q # n + 1
      <4>1. q \in 1..n /\ q \in DOMAIN b.rounds /\ c.rounds[q] = b.rounds[q] BY <1>3, <2>2, <3>2
      <4>2. QED BY <1>1, <1>4, <4>1 DEF Shape
    <3>3. QED BY <3>1, <3>2
  <2>3. c.check.round # 0 => /\ c.check.round = Len(c.rounds)
                             /\ c.rounds[c.check.round].result = "none"
                             /\ c.check.enabled
    BY <1>3 DEF n
  <2>4. QED BY <2>1, <2>2, <2>3 DEF Shape
<1>7. Counts(c)
  <2>1. Counted(c) = Counted(b)
    <3>1. n + 1 \notin Counted(c) BY <1>3 DEF Counted
    <3>2. \A q \in 1..n : q \in Counted(c) <=> q \in Counted(b) BY <1>3 DEF Counted
    <3>3. Counted(c) \subseteq 1..(n + 1) /\ Counted(b) \subseteq 1..n BY <1>3 DEF Counted
    <3>4. \A q \in 1..(n + 1) : q \in 1..n \/ q = n + 1 BY <1>3
    <3>5. QED BY <3>1, <3>2, <3>3, <3>4
  <2>2. \A q \in Counted(b) : /\ c.rounds[q].result = b.rounds[q].result
                              /\ c.rounds[q].closedAt = b.rounds[q].closedAt
    BY <1>3 DEF Counted
  <2>3. QED BY <1>1, <1>2, <2>1, <2>2, CountsSame
<1>8. Spaced(c)
  <2>1. c.rounds[Len(c.rounds)].opened = clock BY <1>3
  <2>2. c.check.round = 0 => c.check.attemptAt = c.check.dueAt BY <1>3 DEF n
  <2>3. QED BY <2>1, <2>2 DEF Spaced
<1>9. Good(c) BY <1>6, <1>7, <1>8 DEF Good
<1>10. Fair(b, c) BY <1>3, <1>4 DEF Fair
<1>11. Kept(b, c) BY <1>3, <1>4 DEF Kept
<1>12. Told(b, c) BY <1>3, <1>4 DEF Told
<1>13. Apart(b, c)
  <2>1. b.check.dueAt <= clock BY <1>2, <1>4 DEF Spaced
  <2>2. ASSUME b.rounds # <<>>
        PROVE  b.check.misses > 0 \/ clock >= b.rounds[Len(b.rounds)].opened + MinGap
    <3>1. Len(b.rounds) \in DOMAIN b.rounds BY <1>1, <2>2
    <3>2. b.rounds[Len(b.rounds)].opened \in Nat BY <1>1, <3>1 DEF Rounds
    <3>3. b.check.dueAt \in Nat BY DEF Checks
    <3>4. PICK o \in Nat : o = b.rounds[Len(b.rounds)].opened BY <3>2
    <3>5. PICK due \in Nat : due = b.check.dueAt BY <3>3
    <3>6. due >= o + MinGap \/ b.check.misses > 0 BY <1>2, <2>2, <3>4, <3>5 DEF Spaced
    <3>7. due <= clock BY <2>1, <3>5
    <3>8. CASE due >= o + MinGap BY <3>4, <3>7, <3>8, Numbers
    <3>9. QED BY <3>6, <3>8
  <2>3. QED BY <2>2 DEF Apart
<1>14. QED BY <1>3, <1>9, <1>10, <1>11, <1>12, <1>13 DEF Moved, Step, n

-----------------------------------------------------------------------------
(* What the scan plans.                                                    *)

\* A set of natural numbers has a least element.
LEMMA LeastNumber ==
  ASSUME NEW T, T \subseteq Nat, T # {}
  PROVE  Min(T) \in T
<1> DEFINE R == OpToRel(<, Nat)
<1>1. PICK x \in T : \A y \in T : ~ (<<y, x>> \in R)
  <2>1. IsWellFoundedOn(R, Nat) BY NatLessThanWellFounded
  <2> HIDE DEF R
  <2>2. QED BY <2>1, WFMin
<1>2. ASSUME NEW y \in T PROVE x <= y
  <2>1. x \in Nat /\ y \in Nat OBVIOUS
  <2>2. ~ (y < x) BY <1>1, <2>1 DEF OpToRel
  <2>3. QED BY <2>1, <2>2
<1>3. QED BY <1>2 DEF Min

\* The lesser of two times is one of them.
LEMMA MinOfTwo ==
  ASSUME NEW s \in Int, NEW t \in Int
  PROVE  Min({s, t}) \in Int
<1>1. \E x \in {s, t} : \A y \in {s, t} : x <= y
  <2>1. CASE s <= t BY <2>1
  <2>2. CASE t <= s BY <2>2
  <2>3. QED BY <2>1, <2>2
<1>2. QED BY <1>1 DEF Min

\* A round that opens now.
LEMMA NewRoundFacts ==
  ASSUME clock \in Nat
  PROVE  /\ NewRound \in Rounds /\ NewRound.opened = clock /\ NewRound.attempts = <<>>
         /\ NewRound.left = {} /\ NewRound.result = "none" /\ NewRound.reason = "none"
<1>1. <<>> \in Seq({"none", "accepted", "refused", "failed"}) OBVIOUS
<1>2. clock + RoundLength \in Nat BY Numbers
<1>3. QED BY <1>1, <1>2, Numbers DEF NewRound, Rounds

\* What an opened round does.
LEMMA OpenFacts ==
  ASSUME NEW b, Good(b), ~HasOpen(b), Due(b), NEW d \in Devices, clock \in Nat
  PROVE  LET o == Open(b, d) IN
         /\ Moved(b, o) /\ o.check \in Checks /\ o.check.round = Len(b.rounds) + 1
         /\ o.check.enabled /\ Len(o.rounds) = Len(b.rounds) + 1
         /\ o.rounds[Len(b.rounds) + 1] = NewRound
<1>1. /\ b \in Row /\ b.rounds \in Seq(Rounds) /\ b.check \in Checks /\ b.check.enabled
      /\ b.check.attemptAt <= clock /\ b.check.round = 0
  BY TheOpenRound DEF Good, Due, Row
<1>2. PICK due \in Nat, n \in Nat : due = RoundAfter(d, clock) /\ n = Len(b.rounds) + 1
  BY <1>1, NextRound
<1>3. due >= clock + MinGap BY <1>2, NextRound
<1>4. PICK j \in Checks : j = b.check BY <1>1
<1>5. PICK k : k = [j EXCEPT !.round = n, !.dueAt = due] OBVIOUS
<1>6. /\ k \in Checks /\ k.round = n /\ k.dueAt = due /\ k.enabled = j.enabled
      /\ k.misses = j.misses /\ k.last = j.last /\ k.secondMiss = j.secondMiss
      /\ k.attemptAt = j.attemptAt
  <2>1. PICK f \in Checks : f = [j EXCEPT !.round = n] BY DEF Checks
  <2>2. [f EXCEPT !.dueAt = due] \in Checks BY DEF Checks
  <2>3. k \in Checks BY <1>5, <2>1, <2>2
  <2>4. QED BY <1>5, <2>3 DEF Checks
<1>7. PICK y \in Rounds : y = NewRound BY NewRoundFacts
<1>8. PICK rs \in Seq(Rounds) : rs = Append(b.rounds, y)
  <2>1. PICK s \in Seq(Rounds) : s = b.rounds BY <1>1
  <2>2. QED BY <2>1, SeqAdd
<1>9. PICK c : c = Open(b, d) OBVIOUS
<1>10. c = [b EXCEPT !.check = k, !.rounds = rs]
  <2>1. c = [b EXCEPT !.rounds = rs, !.check.round = n, !.check.dueAt = due]
    BY <1>2, <1>7, <1>8, <1>9 DEF Open
  <2>2. QED BY <1>1, <1>4, <1>5, <2>1 DEF Row, Checks
<1>11. c \in Row /\ c.check = k /\ c.rounds = rs /\ Same(b, c)
  <2>1. b \in Row /\ k \in Checks BY <1>1, <1>6
  <2>2. PICK b1 \in Row : b1 = [b EXCEPT !.check = k] /\ b1.check = k /\ Same(b, b1)
    BY <2>1, RowCheck
  <2>3. PICK e \in Row : /\ e = [b1 EXCEPT !.rounds = rs] /\ e.check = b1.check
                          /\ e.rounds = rs /\ Same(b1, e)
    BY RowRounds
  <2>4. e = c BY <1>10, <2>2, <2>3
  <2>5. QED BY <2>2, <2>3, <2>4 DEF Same
<1>12. Moved(b, c) /\ c.rounds[Len(b.rounds) + 1] = y /\ Len(c.rounds) = Len(b.rounds) + 1
  <2>1. /\ y.opened = clock /\ y.attempts = <<>> /\ y.left = {} /\ y.result = "none"
        /\ y.reason = "none"
    BY <1>7, NewRoundFacts
  <2>2. QED BY <1>1, <1>2, <1>3, <1>4, <1>6, <1>8, <1>11, <2>1, AppendFacts
<1>13. QED BY <1>1, <1>2, <1>4, <1>6, <1>7, <1>9, <1>11, <1>12

\* What a skip does, to an open round or to one that never opens.
LEMMA SkipFacts ==
  ASSUME NEW b, Good(b), Due(b), NEW d \in Devices, clock \in Nat,
         NEW reason \in {"tier", "no_token"}
  PROVE  LET c == Skip(b, d, reason) IN Moved(b, c) /\ c.check.round = 0
<1>1. CASE HasOpen(b)
  <2>1. PICK r \in DOMAIN b.rounds : r = b.check.round /\ b.rounds[r].result = "none"
    BY <1>1, TheOpenRound
  <2>2. PICK result \in Verdict, why \in Reason, at \in Int :
          result = "skipped" /\ why = reason /\ at = clock
    BY DEF Verdict, Reason
  <2>3. Skip(b, d, reason) = Close(b, r, result, why, at) BY <1>1, <2>1, <2>2 DEF Skip
  <2>4. QED BY <2>1, <2>2, <2>3, RelayClose
<1>2. CASE ~HasOpen(b)
  <2>1. /\ b \in Row /\ b.rounds \in Seq(Rounds) /\ b.check \in Checks /\ b.check.enabled
        /\ b.check.attemptAt <= clock /\ b.check.round = 0
    BY <1>2, TheOpenRound DEF Good, Due, Row
  <2>2. PICK due \in Nat : due = RoundAfter(d, clock) /\ due >= clock + MinGap BY NextRound
  <2>3. PICK j \in Checks : j = b.check BY <2>1
  <2>4. PICK k : k = [j EXCEPT !.dueAt = due, !.attemptAt = due] OBVIOUS
  <2>5. /\ k \in Checks /\ k.round = j.round /\ k.dueAt = due /\ k.enabled = j.enabled
        /\ k.misses = j.misses /\ k.last = j.last /\ k.secondMiss = j.secondMiss
        /\ k.attemptAt = due
    <3>1. PICK f \in Checks : f = [j EXCEPT !.dueAt = due] BY DEF Checks
    <3>2. [f EXCEPT !.attemptAt = due] \in Checks BY DEF Checks
    <3>3. k \in Checks BY <2>4, <3>1, <3>2
    <3>4. QED BY <2>4, <3>3 DEF Checks
  <2>6. PICK x \in Rounds : x = NewRound BY NewRoundFacts
  <2>7. PICK y : y = [x EXCEPT !.closedAt = clock, !.result = "skipped", !.reason = reason] OBVIOUS
  <2>8. y \in Rounds /\ y.opened = x.opened /\ y.attempts = x.attempts /\ y.left = x.left
        /\ y.result = "skipped"
    <3>0. PICK now \in Int : now = clock OBVIOUS
    <3>1. PICK x1 \in Rounds : x1 = [x EXCEPT !.closedAt = clock] BY <3>0 DEF Rounds
    <3>2. PICK x2 \in Rounds : x2 = [x1 EXCEPT !.result = "skipped"] BY DEF Rounds
    <3>3. [x2 EXCEPT !.reason = reason] \in Rounds BY DEF Rounds
    <3>4. y \in Rounds BY <2>7, <3>1, <3>2, <3>3
    <3>5. QED BY <2>7, <3>4 DEF Rounds
  <2>9. PICK rs \in Seq(Rounds) : rs = Append(b.rounds, y)
    <3>1. PICK s \in Seq(Rounds), z \in Rounds : s = b.rounds /\ z = y BY <2>1, <2>8
    <3>2. QED BY <3>1, SeqAdd
  <2>10. PICK c : c = Skip(b, d, reason) OBVIOUS
  <2>11. PICK b1 \in Row : b1 = [b EXCEPT !.check = k] /\ b1.check = k /\ Same(b, b1)
    <3>1. b \in Row /\ k \in Checks BY <2>1, <2>5
    <3>2. QED BY <3>1, RowCheck
  <2>12. c = [b1 EXCEPT !.rounds = rs]
    <3>1. c = [b EXCEPT !.rounds = rs, !.check.dueAt = due, !.check.attemptAt = due]
      BY <1>2, <2>2, <2>6, <2>7, <2>9, <2>10 DEF Skip
    <3>2. QED BY <2>1, <2>3, <2>4, <2>11, <3>1 DEF Row, Checks
  <2>13. c \in Row /\ c.check = k /\ c.rounds = rs /\ Same(b, c)
    <3>1. c \in Row /\ c.check = b1.check /\ c.rounds = rs /\ Same(b1, c) BY <2>12, RowRounds
    <3>2. QED BY <2>11, <3>1 DEF Same
  <2>14. y.opened = clock /\ y.attempts = <<>> /\ y.left = {} BY <2>6, <2>8, NewRoundFacts
  <2>15. Moved(b, c)
    BY <1>2, <2>1, <2>2, <2>3, <2>5, <2>8, <2>9, <2>13, <2>14, AppendFacts
  <2>16. QED BY <2>1, <2>3, <2>5, <2>10, <2>13, <2>15
<1>3. QED BY <1>1, <1>2

\* The round a push would be for.
RoundOf(b, d) == IF HasOpen(b) THEN b ELSE Open(b, d)

\* It is open, and has the attempts the device had.
LEMMA RoundOfFacts ==
  ASSUME NEW b, Good(b), Due(b), NEW d \in Devices, clock \in Nat
  PROVE  LET o == RoundOf(b, d) IN
         /\ Moved(b, o) /\ HasOpen(o) /\ o.check.round \in DOMAIN o.rounds
         /\ o.rounds[o.check.round].result = "none"
         /\ Attempts(o) = Attempts(b)
<1>1. PICK o : o = RoundOf(b, d) OBVIOUS
<1>2. CASE HasOpen(b)
  <2>1. o = b BY <1>1, <1>2 DEF RoundOf
  <2>2. QED BY <1>1, <1>2, <2>1, StayMoved, TheOpenRound
<1>3. CASE ~HasOpen(b)
  <2>1. /\ Moved(b, o) /\ o.check \in Checks /\ o.check.round = Len(b.rounds) + 1
        /\ o.check.enabled /\ Len(o.rounds) = Len(b.rounds) + 1
        /\ o.rounds[Len(b.rounds) + 1] = NewRound
    BY <1>1, <1>3, OpenFacts DEF RoundOf
  <2>2. Good(o) /\ o \in Row /\ o.rounds \in Seq(Rounds) BY <2>1 DEF Moved, Good, Row
  <2>3. Enrolled(o) BY <2>1, <2>2, NoneFacts DEF Enrolled
  <2>4. PICK n \in Nat : n = Len(b.rounds) BY DEF Good, Row
  <2>5. o.check.round \in DOMAIN o.rounds /\ o.check.round # 0 BY <2>1, <2>2, <2>4
  <2>6. o.rounds[o.check.round].result = "none" BY <2>1, NewRoundFacts
  <2>7. HasOpen(o) BY <2>3, <2>5, <2>6 DEF HasOpen
  <2>8. Attempts(o) = 0
    <3>1. Last(o.rounds) = NewRound BY <2>1 DEF Last
    <3>2. Len(<<>>) = 0 OBVIOUS
    <3>3. QED BY <2>7, <3>1, <3>2, NewRoundFacts DEF Attempts
  <2>9. Attempts(b) = 0 BY <1>3 DEF Attempts
  <2>10. QED BY <1>1, <2>1, <2>5, <2>6, <2>7, <2>8, <2>9
<1>4. QED BY <1>2, <1>3

\* A step of that round is a step of the device.
LEMMA Through ==
  ASSUME NEW b, Good(b), Due(b), NEW d \in Devices, clock \in Nat,
         NEW o, o = RoundOf(b, d), NEW c, Moved(o, c), DOMAIN c.rounds = DOMAIN o.rounds,
         Len(c.rounds) = Len(o.rounds)
  PROVE  Moved(b, c)
<1>1. CASE HasOpen(b) BY <1>1 DEF RoundOf
<1>2. CASE ~HasOpen(b)
  <2>1. Moved(b, o) BY RoundOfFacts
  <2>2. \A r \in DOMAIN b.rounds : b.rounds[r].result # "none" BY <1>2, TheOpenRound
  <2>3. DOMAIN b.rounds \subseteq DOMAIN o.rounds BY <2>1 DEF Moved, Step, Kept
  <2>4. \A r \in DOMAIN b.rounds : o.rounds[r].result = b.rounds[r].result
    BY <2>1, <2>2 DEF Moved, Step, Fair
  <2>5. \A r \in DOMAIN b.rounds : c.rounds[r].result = b.rounds[r].result
    BY <2>2, <2>3, <2>4 DEF Moved, Step, Fair
  <2>6. Fair(b, c) /\ Kept(b, c) /\ Told(b, c)
    BY <2>2, <2>3, <2>5 DEF Fair, Kept, Told
  <2>7. Apart(b, c) BY <2>1 DEF Moved, Step, Apart
  <2>8. Same(b, c) /\ Good(c) BY <2>1 DEF Moved, Same
  <2>9. QED BY <2>6, <2>7, <2>8 DEF Moved, Step
<1>3. QED BY <1>1, <1>2

\* An open round and the time of the next attempt.
Retry(b, r, v, y) == [[b EXCEPT !.check = [b.check EXCEPT !.attemptAt = v]] EXCEPT !.rounds[r] = y]

\* They are edited together.
LEMMA EditBoth ==
  ASSUME NEW b, Good(b), NEW r \in DOMAIN b.rounds, b.rounds[r].result = "none",
         NEW v \in Int, NEW y, Edited(b.rounds[r], y), y.left = b.rounds[r].left,
         NEW c, c = Retry(b, r, v, y)
  PROVE  /\ Moved(b, c) /\ DOMAIN c.rounds = DOMAIN b.rounds /\ Len(c.rounds) = Len(b.rounds)
         /\ c.rounds[r] = y
<1>0. PICK k, b1 : /\ k = [b.check EXCEPT !.attemptAt = v] /\ b1 = [b EXCEPT !.check = k]
                   /\ c = [b1 EXCEPT !.rounds[r] = y]
  BY DEF Retry
<1>1. /\ b \in Row /\ b.check \in Checks /\ b.rounds \in Seq(Rounds) /\ b.check.round = r /\ r >= 1
      /\ r \in Nat
  BY OpenRound
<1>2. PICK j \in Checks : j = b.check BY <1>1
<1>3. k \in Checks /\ Retimed(j, k)
  <2>1. j.round # 0 BY <1>1, <1>2
  <2>2. QED BY <1>0, <1>2, <2>1 DEF Checks, Retimed
<1>4. PICK e1 \in Row : e1 = b1 /\ e1.check = k /\ e1.rounds = b.rounds /\ Same(b, e1)
  BY <1>0, <1>1, <1>3, RowCheck
<1>5. PICK z \in Rounds : z = y BY DEF Edited
<1>6. PICK rs : rs = [b.rounds EXCEPT ![r] = z] OBVIOUS
<1>7. rs \in Seq(Rounds) /\ rs[r] = z /\ DOMAIN rs = DOMAIN b.rounds /\ Len(rs) = Len(b.rounds)
  BY <1>1, <1>6, SeqSet
<1>8. PICK e \in Row : /\ e = [e1 EXCEPT !.rounds = rs] /\ e.check = e1.check
                       /\ e.rounds = rs /\ Same(e1, e)
  BY <1>7, RowRounds
<1>9. e = c BY <1>0, <1>4, <1>5, <1>6, <1>8
<1>10. Same(b, c) BY <1>4, <1>8, <1>9 DEF Same
<1>11. c.rounds = [b.rounds EXCEPT ![r] = y] BY <1>5, <1>6, <1>8, <1>9
<1>12. Retimed(b.check, c.check) BY <1>2, <1>3, <1>4, <1>8, <1>9
<1>13. Moved(b, c)
  <2>1. Rewritten(b, r, y, c) BY <1>8, <1>9, <1>10, <1>11, <1>12 DEF Rewritten
  <2>2. QED BY <2>1, EditFacts
<1>14. QED BY <1>5, <1>7, <1>8, <1>9, <1>13

\* The attempts of a row whose last round is open.
LEMMA AttemptsOf ==
  ASSUME NEW c, Good(c), NEW r \in DOMAIN c.rounds, c.rounds[r].result = "none"
  PROVE  HasOpen(c) /\ Attempts(c) = Len(c.rounds[r].attempts) /\ c.check.round = r /\ r = Len(c.rounds)
         /\ Last(c.rounds) = c.rounds[r]
<1>1. r = Len(c.rounds) /\ c.check.round = r /\ r \in Nat /\ r >= 1 /\ c \in Row /\ c.check \in Checks
  BY OpenRound
<1>2. HasOpen(c) BY <1>1, NoneFacts DEF HasOpen, Enrolled
<1>3. QED BY <1>1, <1>2 DEF Attempts, Last

\* What a hold does.
LEMMA HoldFacts ==
  ASSUME NEW b, Good(b), NEW r \in DOMAIN b.rounds, b.rounds[r].result = "none", NEW until \in Int
  PROVE  LET c == [b EXCEPT !.check.attemptAt = Min({until, b.rounds[r].closes}), !.rounds[r].heldUntil = until] IN
         /\ Moved(b, c) /\ DOMAIN c.rounds = DOMAIN b.rounds /\ Len(c.rounds) = Len(b.rounds)
         /\ Attempts(c) = Attempts(b)
<1>1. PICK x \in Rounds : x = b.rounds[r] /\ x.reason = "none" /\ x.result = "none" BY OpenRound
<1>2. PICK closes \in Int : closes = x.closes BY DEF Rounds
<1>3. PICK v \in Int : v = Min({until, closes}) BY MinOfTwo
<1>4. PICK y \in Rounds : y = [x EXCEPT !.heldUntil = until] BY DEF Rounds
<1>5. PICK k : k = [b.check EXCEPT !.attemptAt = v] OBVIOUS
<1>6. PICK b1 : b1 = [b EXCEPT !.check = k] OBVIOUS
<1>7. PICK c : c = Retry(b, r, v, y) OBVIOUS
<1>8. /\ y.result = "none" /\ y.reason = "none" /\ y.opened = x.opened /\ y.closedAt = x.closedAt
      /\ y.left = x.left /\ y.attempts = x.attempts
  BY <1>1, <1>4 DEF Rounds
<1>9. Len(x.attempts) \in Nat /\ Len(x.attempts) <= MaxAttempts BY <1>1 DEF Rounds, Good, Shape
<1>10. /\ Moved(b, c) /\ DOMAIN c.rounds = DOMAIN b.rounds /\ Len(c.rounds) = Len(b.rounds)
       /\ c.rounds[r] = y
  <2>1. x.left \subseteq 1..Len(x.attempts) BY <1>1 DEF Good, Shape
  <2>2. Edited(b.rounds[r], y) BY <1>1, <1>8, <1>9, <2>1 DEF Edited
  <2>3. y.left = b.rounds[r].left BY <1>1, <1>8
  <2>4. QED BY <1>7, <2>2, <2>3, EditBoth
<1>11. Attempts(c) = Attempts(b)
  <2>1. r \in DOMAIN c.rounds /\ c.rounds[r].result = "none" /\ Good(c) BY <1>8, <1>10 DEF Moved
  <2>2. Attempts(c) = Len(y.attempts) BY <1>10, <2>1, AttemptsOf
  <2>3. Attempts(b) = Len(x.attempts) BY <1>1, AttemptsOf
  <2>4. QED BY <1>8, <2>2, <2>3
<1>12. c = [b EXCEPT !.check.attemptAt = Min({until, b.rounds[r].closes}), !.rounds[r].heldUntil = until]
  <2>1. b \in Row /\ b.check \in Checks /\ b.rounds \in Seq(Rounds) BY OpenRound
  <2>2. c = [b1 EXCEPT !.rounds[r] = y] BY <1>5, <1>6, <1>7 DEF Retry
  <2>3. QED BY <1>1, <1>2, <1>3, <1>4, <1>5, <1>6, <2>1, <2>2 DEF Row, Checks
<1>13. QED BY <1>10, <1>11, <1>12

\* What the last attempt leaves: the time the round closes.
LEMMA WaitFacts ==
  ASSUME NEW b, Good(b), NEW r \in DOMAIN b.rounds, b.rounds[r].result = "none"
  PROVE  LET c == [b EXCEPT !.check.attemptAt = b.rounds[r].closes] IN
         /\ Moved(b, c) /\ DOMAIN c.rounds = DOMAIN b.rounds /\ Len(c.rounds) = Len(b.rounds)
         /\ Attempts(c) = Attempts(b)
<1>1. PICK x \in Rounds : x = b.rounds[r] /\ x.reason = "none" /\ x.result = "none" BY OpenRound
<1>2. PICK v \in Int : v = x.closes BY DEF Rounds
<1>3. PICK k : k = [b.check EXCEPT !.attemptAt = v] OBVIOUS
<1>4. PICK b1 : b1 = [b EXCEPT !.check = k] OBVIOUS
<1>5. PICK c : c = Retry(b, r, v, x) OBVIOUS
<1>6. Len(x.attempts) \in Nat /\ Len(x.attempts) <= MaxAttempts BY <1>1 DEF Rounds, Good, Shape
<1>7. /\ Moved(b, c) /\ DOMAIN c.rounds = DOMAIN b.rounds /\ Len(c.rounds) = Len(b.rounds)
      /\ c.rounds[r] = x
  <2>1. x.left \subseteq 1..Len(x.attempts) BY <1>1 DEF Good, Shape
  <2>2. Edited(b.rounds[r], x) BY <1>1, <1>6, <2>1 DEF Edited
  <2>3. x.left = b.rounds[r].left BY <1>1
  <2>4. QED BY <1>5, <2>2, <2>3, EditBoth
<1>8. Attempts(c) = Attempts(b)
  <2>1. r \in DOMAIN c.rounds /\ c.rounds[r].result = "none" /\ Good(c) BY <1>1, <1>7 DEF Moved
  <2>2. Attempts(c) = Len(x.attempts) BY <1>7, <2>1, AttemptsOf
  <2>3. Attempts(b) = Len(x.attempts) BY <1>1, AttemptsOf
  <2>4. QED BY <2>2, <2>3
<1>9. c = [b EXCEPT !.check.attemptAt = b.rounds[r].closes]
  <2>1. b \in Row /\ b.check \in Checks /\ b.rounds \in Seq(Rounds) BY OpenRound
  <2>2. b1 = [b EXCEPT !.check.attemptAt = b.rounds[r].closes]
    BY <1>1, <1>2, <1>3, <1>4, <2>1 DEF Row, Checks
  <2>3. b1.rounds = b.rounds /\ b1 = [b1 EXCEPT !.rounds = b.rounds] BY <1>4, <2>1 DEF Row
  <2>4. [b.rounds EXCEPT ![r] = x] = b.rounds BY <1>1, <2>1
  <2>5. c = [b1 EXCEPT !.rounds[r] = x] BY <1>3, <1>4, <1>5 DEF Retry
  <2>6. QED BY <2>2, <2>3, <2>4, <2>5
<1>10. QED BY <1>7, <1>8, <1>9

\* What an attempt does: it is one more, and none that left.
LEMMA AttemptFacts ==
  ASSUME NEW b, Good(b), NEW r \in DOMAIN b.rounds, b.rounds[r].result = "none", clock \in Nat,
         Len(b.rounds[r].attempts) < MaxAttempts
  PROVE  LET c == Attempt(b, r) IN
         /\ Moved(b, c) /\ DOMAIN c.rounds = DOMAIN b.rounds /\ Len(c.rounds) = Len(b.rounds)
         /\ c.rounds[r].result = "none" /\ Len(c.rounds[r].attempts) \notin c.rounds[r].left
<1>1. PICK x \in Rounds : x = b.rounds[r] /\ x.reason = "none" /\ x.result = "none" BY OpenRound
<1>2. PICK closes \in Nat : closes = x.closes BY DEF Rounds
<1>3. PICK n \in Nat : n = Len(x.attempts) BY DEF Rounds
<1> DEFINE ahead == {x.opened + Offsets[i] : i \in DOMAIN Offsets} \cap (clock + 1)..closes
<1>4. PICK v \in Int : v = IF n + 1 >= MaxAttempts THEN closes ELSE Min(ahead \cup {closes})
  <2>0. PICK T : T = ahead \cup {closes} OBVIOUS
  <2>1. T \subseteq Nat /\ T # {} BY <2>0
  <2>2. Min(T) \in Int
    <3>1. Min(T) \in T BY <2>1, LeastNumber
    <3>2. Min(T) \in Nat BY <2>1, <3>1
    <3> HIDE DEF ahead
    <3>3. QED BY <3>2
  <2> HIDE DEF ahead
  <2>3. QED BY <2>0, <2>2
<1>5. PICK y \in Rounds : y = [x EXCEPT !.attempts = Append(@, "none")]
  <2>1. x.attempts \in Seq({"none", "accepted", "refused", "failed"}) BY DEF Rounds
  <2>2. PICK s \in Seq({"none", "accepted", "refused", "failed"}) : s = Append(x.attempts, "none")
    <3>1. PICK a \in Seq({"none", "accepted", "refused", "failed"}) : a = x.attempts BY <2>1
    <3>2. Append(a, "none") \in Seq({"none", "accepted", "refused", "failed"}) OBVIOUS
    <3>3. QED BY <3>1, <3>2
  <2>3. [x EXCEPT !.attempts = s] \in Rounds BY DEF Rounds
  <2>4. QED BY <2>2, <2>3
<1>6. PICK k : k = [b.check EXCEPT !.attemptAt = v] OBVIOUS
<1>7. PICK b1 : b1 = [b EXCEPT !.check = k] OBVIOUS
<1>8. PICK c : c = Retry(b, r, v, y) OBVIOUS
<1>9. /\ y.result = "none" /\ y.reason = "none" /\ y.opened = x.opened /\ y.closedAt = x.closedAt
      /\ y.left = x.left /\ Len(y.attempts) = n + 1
  BY <1>1, <1>3, <1>5 DEF Rounds
<1>10. n + 1 <= MaxAttempts BY <1>1, <1>3, Numbers
<1>11. /\ Moved(b, c) /\ DOMAIN c.rounds = DOMAIN b.rounds /\ Len(c.rounds) = Len(b.rounds)
       /\ c.rounds[r] = y
  <2>1. x.left \subseteq 1..n /\ 1..n \subseteq 1..(n + 1) BY <1>1, <1>3 DEF Good, Shape
  <2>2. Edited(b.rounds[r], y) BY <1>1, <1>3, <1>9, <1>10, <2>1 DEF Edited
  <2>3. y.left = b.rounds[r].left BY <1>1, <1>9
  <2>4. QED BY <1>8, <2>2, <2>3, EditBoth
<1>12. n + 1 \notin x.left
  <2>1. x.left \subseteq 1..n BY <1>1, <1>3 DEF Good, Shape
  <2>2. QED BY <2>1
<1>13. c = Attempt(b, r)
  <2>1. b \in Row /\ b.check \in Checks /\ b.rounds \in Seq(Rounds) BY OpenRound
  <2>2. Attempt(b, r) = [b EXCEPT !.rounds[r].attempts = Append(@, "none"), !.check.attemptAt = v]
    BY <1>1, <1>2, <1>3, <1>4 DEF Attempt
  <2>3. c = [b1 EXCEPT !.rounds[r] = y] BY <1>6, <1>7, <1>8 DEF Retry
  <2>4. QED BY <1>1, <1>5, <1>6, <1>7, <2>1, <2>2, <2>3 DEF Row, Checks
<1>14. QED BY <1>9, <1>11, <1>12, <1>13

\* What a device has on record is a number of attempts.
LEMMA AttemptsNat ==
  ASSUME NEW b, Good(b)
  PROVE  Attempts(b) \in Nat
<1>1. CASE HasOpen(b)
  <2>1. PICK r \in DOMAIN b.rounds : r = b.check.round /\ b.rounds[r].result = "none"
    BY <1>1, TheOpenRound
  <2>2. Attempts(b) = Len(b.rounds[r].attempts) /\ b.rounds[r] \in Rounds
    BY <2>1, AttemptsOf, OpenRound
  <2>3. QED BY <2>2 DEF Rounds
<1>2. CASE ~HasOpen(b) BY <1>2 DEF Attempts
<1>3. QED BY <1>1, <1>2

\* The last attempt of a device is one that did not leave.
Fresh(c) ==
  /\ HasOpen(c) /\ c.check.round \in DOMAIN c.rounds
  /\ c.rounds[c.check.round].result = "none"
  /\ Attempts(c) \notin c.rounds[c.check.round].left

\* What a turn plans for a device.
LEMMA PlanFacts ==
  ASSUME NEW b, Good(b), NEW d \in Devices, clock \in Nat
  PROVE  LET c == Plan(b, d) IN
         Moved(b, c) /\ (Attempts(c) > Attempts(b) => Fresh(c))
<1> DEFINE o == RoundOf(b, d)
<1>1. PICK c : c = Plan(b, d) OBVIOUS
<1>2. CASE ~Due(b)
  <2>1. c = b BY <1>1, <1>2 DEF Plan
  <2>2. ~(Attempts(b) > Attempts(b)) BY AttemptsNat
  <2>3. QED BY <1>1, <2>1, <2>2, StayMoved
<1>3. ASSUME Moved(b, c), c.check.round = 0 PROVE Moved(b, c) /\ ~(Attempts(c) > Attempts(b))
  <2>1. Attempts(c) = 0 BY <1>3 DEF Attempts, HasOpen
  <2>2. QED BY <1>3, <2>1, AttemptsNat
<1>4. CASE Due(b) /\ HasOpen(b) /\ Over(b, b.check.round)
  <2>1. PICK r \in DOMAIN b.rounds : r = b.check.round /\ b.rounds[r].result = "none"
    BY <1>4, TheOpenRound
  <2>2. c = Expire(b, r) BY <1>1, <1>4, <2>1 DEF Plan
  <2>3. Moved(b, c) /\ c.check.round = 0 BY <2>1, <2>2, ExpireFacts
  <2>4. QED BY <1>1, <1>3, <2>3
<1>5. CASE Due(b) /\ ~(HasOpen(b) /\ Over(b, b.check.round))
  <2>1. CASE ~b.hosted
    <3>1. c = Skip(b, d, "tier") BY <1>1, <1>5, <2>1 DEF Plan
    <3>2. PICK why \in {"tier", "no_token"} : why = "tier" OBVIOUS
    <3>3. c = Skip(b, d, why) BY <3>1, <3>2
    <3>4. Moved(b, c) /\ c.check.round = 0 BY <1>5, <3>3, SkipFacts
    <3>5. QED BY <1>1, <1>3, <3>4
  <2>2. CASE b.hosted /\ b.token = 0
    <3>1. c = Skip(b, d, "no_token") BY <1>1, <1>5, <2>2 DEF Plan
    <3>2. PICK why \in {"tier", "no_token"} : why = "no_token" OBVIOUS
    <3>3. c = Skip(b, d, why) BY <3>1, <3>2
    <3>4. Moved(b, c) /\ c.check.round = 0 BY <1>5, <3>3, SkipFacts
    <3>5. QED BY <1>1, <1>3, <3>4
  <2>3. CASE b.hosted /\ b.token # 0
    <3>1. PICK x : x = RoundOf(b, d) OBVIOUS
    <3>2. PICK r : r = x.check.round OBVIOUS
    <3>3. /\ Moved(b, x) /\ HasOpen(x) /\ r \in DOMAIN x.rounds
          /\ x.rounds[r].result = "none" /\ Attempts(x) = Attempts(b)
      BY <1>5, <3>1, <3>2, RoundOfFacts
    <3>4. Good(x) BY <3>3 DEF Moved
    <3>5. ASSUME Moved(x, c), DOMAIN c.rounds = DOMAIN x.rounds, Len(c.rounds) = Len(x.rounds)
          PROVE  Moved(b, c)
      BY <1>5, <3>1, <3>5, Through
    <3>6. PICK until \in Int : until = b.alarmAt + Hold
      BY Numbers DEF Good, Row
    <3>7. CASE Held(b)
      <4>1. c = [x EXCEPT !.check.attemptAt = Min({until, x.rounds[r].closes}), !.rounds[r].heldUntil = until]
        BY <1>1, <1>5, <2>3, <3>1, <3>2, <3>6, <3>7 DEF Plan, RoundOf
      <4>2. /\ Moved(x, c) /\ DOMAIN c.rounds = DOMAIN x.rounds /\ Len(c.rounds) = Len(x.rounds)
            /\ Attempts(c) = Attempts(x)
        BY <3>3, <3>4, <4>1, HoldFacts
      <4>3. Moved(b, c) BY <3>5, <4>2
      <4>4. QED BY <1>1, <3>3, <4>2, <4>3, AttemptsNat
    <3>8. CASE ~Held(b) /\ Len(x.rounds[r].attempts) >= MaxAttempts
      <4>1. c = [x EXCEPT !.check.attemptAt = x.rounds[r].closes]
        BY <1>1, <1>5, <2>3, <3>1, <3>2, <3>8 DEF Plan, RoundOf
      <4>2. /\ Moved(x, c) /\ DOMAIN c.rounds = DOMAIN x.rounds /\ Len(c.rounds) = Len(x.rounds)
            /\ Attempts(c) = Attempts(x)
        BY <3>3, <3>4, <4>1, WaitFacts
      <4>3. Moved(b, c) BY <3>5, <4>2
      <4>4. QED BY <1>1, <3>3, <4>2, <4>3, AttemptsNat
    <3>9. CASE ~Held(b) /\ ~(Len(x.rounds[r].attempts) >= MaxAttempts)
      <4>1. c = Attempt(x, r)
        BY <1>1, <1>5, <2>3, <3>1, <3>2, <3>9 DEF Plan, RoundOf
      <4>2. Len(x.rounds[r].attempts) < MaxAttempts
        <5>1. x.rounds[r] \in Rounds BY <3>3, <3>4, OpenRound
        <5>2. PICK n \in Nat : n = Len(x.rounds[r].attempts) BY <5>1 DEF Rounds
        <5>3. QED BY <3>9, <5>2, Numbers
      <4>3. /\ Moved(x, c) /\ DOMAIN c.rounds = DOMAIN x.rounds /\ Len(c.rounds) = Len(x.rounds)
            /\ c.rounds[r].result = "none" /\ Len(c.rounds[r].attempts) \notin c.rounds[r].left
        BY <3>3, <3>4, <4>1, <4>2, AttemptFacts
      <4>4. Moved(b, c) BY <3>5, <4>3
      <4>5. Fresh(c)
        <5>1. Good(c) /\ r \in DOMAIN c.rounds BY <3>3, <4>3, <4>4 DEF Moved
        <5>2. HasOpen(c) /\ c.check.round = r /\ Attempts(c) = Len(c.rounds[r].attempts)
          BY <4>3, <5>1, AttemptsOf
        <5>3. QED BY <4>3, <5>1, <5>2 DEF Fresh
      <4>6. QED BY <1>1, <4>4, <4>5
    <3>10. QED BY <3>7, <3>8, <3>9
  <2>4. QED BY <2>1, <2>2, <2>3
<1>6. QED BY <1>2, <1>4, <1>5

-----------------------------------------------------------------------------
(* What sending does.                                                      *)

\* The verdicts of a device are the same.
SameVerdicts(b, c) ==
  /\ DOMAIN c.rounds = DOMAIN b.rounds /\ Len(c.rounds) = Len(b.rounds)
  /\ \A r \in DOMAIN b.rounds :
       /\ c.rounds[r].result = b.rounds[r].result /\ c.rounds[r].reason = b.rounds[r].reason
       /\ c.rounds[r].closedAt = b.rounds[r].closedAt

\* A device with other attempts that left.
Marked(b, r, away) == [b EXCEPT !.rounds[r].left = away]

\* Attempt a of round r is on record.
Listed(b, r, a) == r \in DOMAIN b.rounds /\ a \in 1..Len(b.rounds[r].attempts)

\* The attempts of a device are the same, and so are the times its rounds opened.
SameAttempts(b, c) ==
  \A q \in DOMAIN b.rounds :
    c.rounds[q].attempts = b.rounds[q].attempts /\ c.rounds[q].opened = b.rounds[q].opened

\* Those on record are the ones that can have left.
OfRecord(b, r, away) == away \subseteq 1..Len(b.rounds[r].attempts)

\* It is the same in all else.
LEMMA LeftFacts ==
  ASSUME NEW b, Good(b), NEW r, r \in DOMAIN b.rounds, NEW away,
         OfRecord(b, r, away), NEW c, c = Marked(b, r, away)
  PROVE  /\ Good(c) /\ SameVerdicts(b, c) /\ Fair(b, c) /\ Told(b, c) /\ Apart(b, c) /\ Same(b, c)
         /\ c.check = b.check /\ c.rounds[r].left = away /\ SameAttempts(b, c)
<1>1. /\ b \in Row /\ Shape(b) /\ b.rounds \in Seq(Rounds) /\ b.rounds # <<>>
  BY DEF Good, Row
<1>2. PICK j \in Checks : j = b.check BY <1>1 DEF Shape, Row
<1>3. PICK x \in Rounds : x = b.rounds[r] BY <1>1
<1>4. PICK n \in Nat : n = Len(x.attempts) BY DEF Rounds
<1>5. n <= MaxAttempts /\ away \subseteq 1..n BY <1>1, <1>3, <1>4 DEF Shape, OfRecord
<1>6. away \in SUBSET (1..MaxAttempts) BY <1>5, Numbers
<1>7. PICK y \in Rounds : y = [x EXCEPT !.left = away] BY <1>6 DEF Rounds
<1>8. /\ y.result = x.result /\ y.reason = x.reason /\ y.opened = x.opened
      /\ y.closedAt = x.closedAt /\ y.attempts = x.attempts /\ y.left = away
  BY <1>7 DEF Rounds
<1>9. PICK rs : rs = [b.rounds EXCEPT ![r] = y] OBVIOUS
<1>10. /\ rs \in Seq(Rounds) /\ rs[r] = y /\ DOMAIN rs = DOMAIN b.rounds /\ Len(rs) = Len(b.rounds)
       /\ \A q \in DOMAIN b.rounds : q # r => rs[q] = b.rounds[q]
  BY <1>1, <1>9, SeqSet
<1>11. PICK e \in Row : /\ e = [b EXCEPT !.rounds = rs] /\ e.check = b.check
                        /\ e.rounds = rs /\ Same(b, e)
  BY <1>1, <1>10, RowRounds
<1>12. e = c
  <2>1. c = [b EXCEPT !.rounds = rs] BY <1>3, <1>7, <1>9 DEF Marked
  <2>2. QED BY <1>11, <2>1
<1>13. Edited(b.rounds[r], y)
  <2>1. y.result # "none" => y.attempts = <<>> BY <1>1, <1>3, <1>8 DEF Shape
  <2>2. QED BY <1>3, <1>4, <1>5, <1>8, <2>1 DEF Edited
<1>14. Retimed(b.check, e.check) BY <1>2, <1>11 DEF Retimed
<1>15. Rewritten(b, r, y, e) BY <1>9, <1>11, <1>13, <1>14 DEF Rewritten
<1>16. Good(e) /\ Fair(b, e) /\ Told(b, e) /\ Apart(b, e) BY <1>15, EditFacts
<1>17. SameVerdicts(b, e) BY <1>3, <1>8, <1>10, <1>11 DEF SameVerdicts
<1>18. SameAttempts(b, e) BY <1>3, <1>8, <1>10, <1>11 DEF SameAttempts
<1>19. e.rounds[r].left = away BY <1>8, <1>10, <1>11
<1>20. QED BY <1>11, <1>12, <1>16, <1>17, <1>18, <1>19

\* One outcome is written.
LEMMA SeqPut ==
  ASSUME NEW S, NEW s \in Seq(S), NEW a, a \in 1..Len(s), NEW e \in S
  PROVE  LET t == [s EXCEPT ![a] = e] IN t \in Seq(S) /\ Len(t) = Len(s) /\ Len(s) \in Nat
OBVIOUS

\* What a push came to is recorded for its attempt, or closes the round.
LEMMA RecordFacts ==
  ASSUME NEW b, Good(b), NEW s, OnRecord(b, s), NEW outcome \in Outcome \ {"none"}, clock \in Nat
  PROVE  Moved(b, Record(b, s, outcome))
<1>1. PICK c : c = Record(b, s, outcome) OBVIOUS
<1>2. b # NoDevice BY NoneFacts DEF Good
<1>3. PICK r \in DOMAIN b.rounds : r = s.round BY <1>2 DEF OnRecord
<1>4. CASE b.rounds[r].result # "none"
  BY <1>1, <1>2, <1>3, <1>4, StayMoved DEF Record
<1>5. CASE b.rounds[r].result = "none" /\ outcome = "refused"
  <2>1. PICK result \in Verdict, reason \in Reason, at \in Int :
          result = "refused" /\ reason = "none" /\ at = clock
    BY DEF Verdict, Reason
  <2>2. c = Close(b, r, result, reason, at) BY <1>1, <1>2, <1>3, <1>5, <2>1 DEF Record
  <2>3. QED BY <1>1, <1>5, <2>1, <2>2, RelayClose
<1>6. CASE b.rounds[r].result = "none" /\ outcome # "refused"
  <2>1. PICK x \in Rounds : x = b.rounds[r] /\ x.result = "none" BY <1>6, OpenRound
  <2>2. x.attempts \in Seq(Outcome) BY DEF Rounds, Outcome
  <2>3. PICK seen \in Seq(Outcome) : seen = x.attempts BY <2>2
  <2>4. PICK a : a = s.attempt /\ a \in 1..Len(seen)
    BY <1>2, <1>3, <1>6, <2>1, <2>3 DEF OnRecord
  <2>5. PICK new : /\ new \in Seq(Outcome) /\ new = [seen EXCEPT ![a] = outcome]
                   /\ Len(new) = Len(seen) /\ Len(seen) \in Nat
    <3>1. outcome \in Outcome OBVIOUS
    <3>2. QED BY <2>4, <3>1, SeqPut
  <2>6. PICK y \in Rounds : y = [x EXCEPT !.attempts = new] BY <2>5 DEF Rounds, Outcome
  <2>7. /\ y.result = x.result /\ y.reason = x.reason /\ y.opened = x.opened
        /\ y.closedAt = x.closedAt /\ y.attempts = new /\ y.left = x.left
    BY <2>6 DEF Rounds
  <2>8. /\ b \in Row /\ Shape(b) /\ b.rounds \in Seq(Rounds) /\ b.check \in Checks
    BY <1>6, OpenRound DEF Good
  <2>9. PICK rs : rs = [b.rounds EXCEPT ![r] = y] OBVIOUS
  <2>10. rs \in Seq(Rounds) BY <2>8, <2>9, SeqSet
  <2>11. PICK e \in Row : /\ e = [b EXCEPT !.rounds = rs] /\ e.check = b.check
                          /\ e.rounds = rs /\ Same(b, e)
    BY <2>8, <2>10, RowRounds
  <2>12. e = c
    <3>1. c = [b EXCEPT !.rounds[r].attempts[a] = outcome]
      BY <1>1, <1>2, <1>3, <1>6, <2>4 DEF Record
    <3>2. y = [x EXCEPT !.attempts = [x.attempts EXCEPT ![a] = outcome]] BY <2>3, <2>5, <2>6
    <3>3. c = [b EXCEPT !.rounds = rs] BY <2>1, <2>9, <3>1, <3>2
    <3>4. QED BY <2>11, <3>3
  <2>13. Edited(b.rounds[r], y)
    <3>1. PICK n \in Nat : n = Len(seen) BY <2>5
    <3>2. n <= MaxAttempts /\ x.left \subseteq 1..n BY <2>1, <2>3, <2>8, <3>1 DEF Shape
    <3>3. QED BY <2>1, <2>3, <2>5, <2>7, <3>1, <3>2 DEF Edited
  <2>14. Retimed(b.check, e.check) BY <2>8, <2>11 DEF Retimed
  <2>15. Rewritten(b, r, y, e) BY <2>9, <2>11, <2>13, <2>14 DEF Rewritten
  <2>16. y.left = b.rounds[r].left BY <2>1, <2>7
  <2>17. Moved(b, e) BY <2>15, <2>16, EditFacts
  <2>18. QED BY <1>1, <2>12, <2>17
<1>7. QED BY <1>4, <1>5, <1>6

\* What is written when a push is no longer wanted closes its round, or
\* nothing is.
LEMMA ConfirmFacts ==
  ASSUME NEW b, Good(b), NEW s, OnRecord(b, s), clock \in Nat
  PROVE  LET c == Confirm(b, s) IN
         /\ Moved(b, c)
         /\ c = b \/ (s.round \in DOMAIN c.rounds /\ c.rounds[s.round].result # "none")
<1>1. PICK c : c = Confirm(b, s) OBVIOUS
<1>2. b # NoDevice BY NoneFacts DEF Good
<1>3. PICK r \in DOMAIN b.rounds : r = s.round BY <1>2 DEF OnRecord
<1>4. CASE c = b
  <2>1. Moved(b, b) BY StayMoved
  <2>2. QED BY <1>1, <1>4, <2>1
<1>5. CASE c # b
  <2>1. b.rounds[r].result = "none" BY <1>1, <1>3, <1>5 DEF Confirm
  <2>2. \/ c = Close(b, r, "skipped", "disabled", clock)
        \/ c = Expire(b, r)
        \/ c = Close(b, r, "skipped", "tier", clock)
        \/ c = Close(b, r, "skipped", "no_token", clock)
    BY <1>1, <1>3, <1>5 DEF Confirm
  <2>3. CASE c = Expire(b, r) BY <1>1, <1>3, <2>1, <2>3, ExpireFacts
  <2>4. CASE c # Expire(b, r)
    <3>1. PICK result \in Verdict, reason \in Reason, at \in Int :
            /\ result = "skipped" /\ reason \in {"disabled", "tier", "no_token"} /\ at = clock
            /\ c = Close(b, r, result, reason, at)
      <4>1. "skipped" \in Verdict /\ {"disabled", "tier", "no_token"} \subseteq Reason /\ clock \in Int
        BY DEF Verdict, Reason
      <4>2. QED BY <2>2, <2>4, <4>1
    <3>2. Moved(b, c) /\ DOMAIN c.rounds = DOMAIN b.rounds /\ c.rounds[r].result = result
      BY <2>1, <3>1, RelayClose
    <3>3. QED BY <1>1, <1>3, <3>1, <3>2
  <2>5. QED BY <2>3, <2>4
<1>6. QED BY <1>4, <1>5

-----------------------------------------------------------------------------
(* The table of all devices.                                               *)

\* Every device is registered with good rows, or it is not registered.
Table(t) == t \in [Devices -> Row \cup {NoDevice}] /\ \A d \in Devices : GoodRow(t[d])

\* A device over a step: it does not come back, its verdicts are fair and its
\* rounds are apart.
Stepped(b, c) ==
  /\ b = NoDevice => c = NoDevice
  /\ b # NoDevice /\ c # NoDevice => Fair(b, c) /\ Apart(b, c)

\* The rows are good whatever else the device has.
LEMMA GoodSame ==
  ASSUME NEW b, Good(b), NEW c \in Row, c.check = b.check, c.rounds = b.rounds
  PROVE  Good(c) /\ c # NoDevice
<1>1. Counted(c) = Counted(b) BY DEF Counted
<1>2. MissRun(c) = MissRun(b) BY <1>1 DEF MissRun
<1>3. Counts(b) => Counts(c) BY <1>1, <1>2 DEF Counts
<1>4. Shape(b) => Shape(c) BY DEF Shape
<1>5. Spaced(b) => Spaced(c) BY DEF Spaced
<1>6. QED BY <1>3, <1>4, <1>5, NoneFacts DEF Good

\* One row of the table is written.
Put(t, e, c) == [t EXCEPT ![e] = c]

\* The table is good when the row is, and the others are as they were.
LEMMA TablePut ==
  ASSUME NEW t, Table(t), NEW e \in Devices, NEW c, GoodRow(c), NEW u, u = Put(t, e, c)
  PROVE  Table(u) /\ u[e] = c /\ \A d \in Devices : d # e => u[d] = t[d]
<1>1. c \in Row \cup {NoDevice} BY DEF Good, GoodRow
<1>2. QED BY <1>1 DEF Table, Put

\* A device that stays as it is.
LEMMA SteppedSame ==
  ASSUME NEW b, GoodRow(b)
  PROVE  Stepped(b, b)
<1>1. CASE b = NoDevice BY <1>1 DEF Stepped
<1>2. CASE Good(b)
  <2>1. Fair(b, b) /\ Apart(b, b) BY <1>2, StayMoved DEF Moved, Step
  <2>2. QED BY <2>1 DEF Stepped
<1>3. QED BY <1>1, <1>2 DEF GoodRow

\* A device that is moved.
LEMMA SteppedMoved ==
  ASSUME NEW b, Good(b), NEW c, Moved(b, c)
  PROVE  Stepped(b, c) /\ b # NoDevice /\ c # NoDevice /\ Good(c)
BY NoneFacts DEF Moved, Step, Stepped, Good

\* A step goes on to the same verdicts.
LEMMA SteppedOn ==
  ASSUME NEW b, NEW u, NEW c, Stepped(b, u), b # NoDevice, u # NoDevice,
         DOMAIN b.rounds \subseteq DOMAIN u.rounds, SameVerdicts(u, c)
  PROVE  Stepped(b, c)
<1>1. Fair(b, u) /\ Apart(b, u) BY DEF Stepped
<1>2. Fair(b, c) BY <1>1 DEF Fair, SameVerdicts
<1>3. Apart(b, c) BY <1>1 DEF Apart, SameVerdicts
<1>4. QED BY <1>2, <1>3 DEF Stepped

\* A step comes from the same rounds and the same check.
LEMMA SteppedFrom ==
  ASSUME NEW b, NEW u, NEW c, Stepped(u, c), u # NoDevice, c # NoDevice, b # NoDevice,
         u.rounds = b.rounds, u.check = b.check
  PROVE  Stepped(b, c)
<1>1. Fair(u, c) /\ Apart(u, c) BY DEF Stepped
<1>2. Fair(b, c) BY <1>1 DEF Fair
<1>3. Apart(b, c) BY <1>1 DEF Apart
<1>4. QED BY <1>2, <1>3 DEF Stepped

\* A row with another alarm.
LEMMA RowAlarm ==
  ASSUME NEW b \in Row, NEW at \in Int
  PROVE  LET c == [b EXCEPT !.alarmAt = at] IN c \in Row /\ c.rounds = b.rounds /\ c.check = b.check
BY DEF Row

\* The notes are written down and nothing else.
LEMMA FlushedFacts ==
  ASSUME NEW t, Table(t), notes \in [Devices -> Int]
  PROVE  LET u == Flushed(t) IN
         /\ Table(u)
         /\ \A d \in Devices : /\ u[d] = NoDevice <=> t[d] = NoDevice
                               /\ u[d].rounds = t[d].rounds
                               /\ t[d] # NoDevice => u[d].check = t[d].check
<1>1. PICK u : u = Flushed(t) OBVIOUS
<1>2. ASSUME NEW d \in Devices
      PROVE  /\ GoodRow(u[d]) /\ u[d] \in Row \cup {NoDevice}
             /\ u[d] = NoDevice <=> t[d] = NoDevice
             /\ u[d].rounds = t[d].rounds
             /\ t[d] # NoDevice => u[d].check = t[d].check
  <2>1. GoodRow(t[d]) BY DEF Table
  <2>2. CASE u[d] = t[d] BY <2>1, <2>2 DEF GoodRow, Good
  <2>3. CASE u[d] # t[d]
    <3>1. t[d] # NoDevice /\ u[d] = [t[d] EXCEPT !.alarmAt = notes[d]]
      BY <1>1, <2>3 DEF Flushed
    <3>2. PICK b \in Row : b = t[d] BY <2>1, <3>1 DEF GoodRow, Good
    <3>3. Good(b) BY <2>1, <3>1, <3>2 DEF GoodRow
    <3>4. PICK at \in Int : at = notes[d] OBVIOUS
    <3>5. PICK c \in Row : c = [b EXCEPT !.alarmAt = at] /\ c.rounds = b.rounds /\ c.check = b.check
      BY RowAlarm
    <3>6. Good(c) /\ c # NoDevice BY <3>3, <3>5, GoodSame
    <3>7. u[d] = c BY <3>1, <3>2, <3>4, <3>5
    <3>8. QED BY <3>1, <3>2, <3>5, <3>6, <3>7 DEF GoodRow
  <2>4. QED BY <2>2, <2>3
<1>3. u \in [Devices -> Row \cup {NoDevice}]
  <2>1. u = [d \in Devices |-> u[d]] BY <1>1 DEF Flushed
  <2>2. QED BY <1>2, <2>1
<1>4. QED BY <1>1, <1>2, <1>3 DEF Table

\* What a turn plans for the devices it comes to.
LEMMA PlannedFacts ==
  ASSUME NEW t, Table(t), NEW list, clock \in Nat
  PROVE  LET u == Planned(t, list) IN
         /\ Table(u)
         /\ \A d \in Devices :
              /\ Stepped(t[d], u[d]) /\ (t[d] # NoDevice => Moved(t[d], u[d]))
              /\ d \notin Range(list) => u[d] = t[d]
              /\ d \in Range(list) => u[d] = Plan(t[d], d)
<1>1. PICK u : u = Planned(t, list) OBVIOUS
<1>2. ASSUME NEW d \in Devices
      PROVE  /\ GoodRow(u[d]) /\ u[d] \in Row \cup {NoDevice}
             /\ Stepped(t[d], u[d]) /\ (t[d] # NoDevice => Moved(t[d], u[d]))
             /\ d \notin Range(list) => u[d] = t[d]
             /\ d \in Range(list) => u[d] = Plan(t[d], d)
  <2>1. GoodRow(t[d]) /\ t[d] \in Row \cup {NoDevice} BY DEF Table
  <2>2. u[d] = IF d \in Range(list) THEN Plan(t[d], d) ELSE t[d] BY <1>1 DEF Planned
  <2>3. CASE t[d] = NoDevice
    <3>1. ~Due(t[d]) BY <2>3 DEF Due, Enrolled
    <3>2. Plan(t[d], d) = t[d] BY <3>1 DEF Plan
    <3>3. u[d] = t[d] BY <2>2, <3>2
    <3>4. QED BY <2>1, <2>2, <2>3, <3>3, SteppedSame
  <2>4. CASE t[d] # NoDevice
    <3>1. Good(t[d]) BY <2>1, <2>4 DEF GoodRow
    <3>2. PICK b : b = t[d] OBVIOUS
    <3>3. Moved(b, u[d])
      <4>1. CASE d \in Range(list) BY <2>2, <3>1, <3>2, <4>1, PlanFacts
      <4>2. CASE d \notin Range(list) BY <2>2, <3>1, <3>2, <4>2, StayMoved
      <4>3. QED BY <4>1, <4>2
    <3>4. PICK c : c = u[d] OBVIOUS
    <3>5. Stepped(b, c) /\ Good(c) BY <3>1, <3>2, <3>3, <3>4, SteppedMoved
    <3>6. QED BY <2>2, <3>2, <3>3, <3>4, <3>5 DEF GoodRow, Good
  <2>5. QED BY <2>3, <2>4
<1>3. u \in [Devices -> Row \cup {NoDevice}]
  <2>1. u = [d \in Devices |-> u[d]] BY <1>1 DEF Planned
  <2>2. QED BY <1>2, <2>1
<1>4. QED BY <1>1, <1>2, <1>3 DEF Table

\* The table once attempt a of round r of device e left.
Away(t, e, r, a) == [t EXCEPT ![e] = Marked(t[e], r, t[e].rounds[r].left \cup {a})]

\* A push leaves: its attempt is marked.
LEMMA AwayFacts ==
  ASSUME NEW t, Table(t), NEW e \in Devices, NEW b, b = t[e], b # NoDevice,
         NEW r, NEW a, Listed(b, r, a), NEW u, u = Away(t, e, r, a), NEW c, c = u[e]
  PROVE  /\ Table(u) /\ (\A d \in Devices : d # e => u[d] = t[d])
         /\ Good(c) /\ c # NoDevice /\ SameVerdicts(b, c) /\ c.check = b.check
         /\ SameAttempts(b, c)
<1>1. Good(b) /\ r \in DOMAIN b.rounds /\ a \in 1..Len(b.rounds[r].attempts)
  BY DEF Table, GoodRow, Listed
<1>2. PICK away : away = b.rounds[r].left \cup {a} OBVIOUS
<1>3. PICK x : x = Marked(b, r, away) OBVIOUS
<1>4. b.rounds[r].left \subseteq 1..Len(b.rounds[r].attempts) BY <1>1 DEF Good, Shape
<1>5. OfRecord(b, r, away) BY <1>1, <1>2, <1>4 DEF OfRecord
<1>6. Good(x) /\ SameVerdicts(b, x) /\ x.check = b.check /\ SameAttempts(b, x)
  BY <1>1, <1>3, <1>5, LeftFacts
<1>7. u = [t EXCEPT ![e] = x] BY <1>2, <1>3 DEF Away
<1>8. GoodRow(x) BY <1>6 DEF GoodRow
<1>8a. Table(u) /\ u[e] = x /\ \A d \in Devices : d # e => u[d] = t[d]
  <2>1. PICK w : w = Put(t, e, x) OBVIOUS
  <2>2. Table(w) /\ w[e] = x /\ \A d \in Devices : d # e => w[d] = t[d] BY <1>8, <2>1, TablePut
  <2>3. w = u BY <1>7, <2>1 DEF Put
  <2>4. QED BY <2>2, <2>3
<1>9. x # NoDevice BY <1>6, NoneFacts DEF Good
<1>10. QED BY <1>6, <1>8a, <1>9

\* A push that leaves is one that is away.
LEMMA LeftAway ==
  ASSUME NEW t, Table(t), NEW s, s.stage = "out"
  PROVE  Left(t, s) = Away(t, s.device, s.round, s.attempt)
<1>1. t \in [Devices -> Row \cup {NoDevice}] BY DEF Table
<1>2. QED BY <1>1 DEF Left, Away, Marked

\* A slice of a list.
LEMMA Slice ==
  ASSUME NEW S, NEW s \in Seq(S), NEW m \in Nat, NEW n \in Nat, m >= 1, n <= Len(s),
         NEW t, t = SubSeq(s, m, n)
  PROVE  /\ t \in Seq(S) /\ Len(t) = IF m <= n THEN n - m + 1 ELSE 0
         /\ \A i \in 1..Len(t) : t[i] = s[m + i - 1]
OBVIOUS

\* The list up to its k-th device, and the rest of it.
Upto(list, k) == SubSeq(list, 1, k)
After(list, k) == SubSeq(list, k + 1, Len(list))

\* The k-th device is in the first and not in the second.
LEMMA Lists ==
  ASSUME NEW S, NEW list \in Seq(S), NEW k \in DOMAIN list, Distinct(list),
         NEW head, head = Upto(list, k), NEW rest, rest = After(list, k)
  PROVE  /\ list[k] \in S /\ list[k] \in Range(head) /\ Range(head) \subseteq Range(list)
         /\ rest \in Seq(S) /\ Distinct(rest) /\ \A j \in DOMAIN rest : rest[j] # list[k]
<1>1. PICK n \in Nat : n = Len(list) /\ DOMAIN list = 1..n OBVIOUS
<1>2. k \in Nat /\ k >= 1 /\ k <= n BY <1>1
<1>3. DOMAIN head = 1..k /\ \A j \in 1..k : head[j] = list[j]
  <2>1. PICK one \in Nat : one = 1 OBVIOUS
  <2>2. one >= 1 /\ k <= Len(list) /\ head = SubSeq(list, one, k) BY <1>1, <1>2, <2>1 DEF Upto
  <2>3. /\ head \in Seq(S) /\ Len(head) = IF one <= k THEN k - one + 1 ELSE 0
        /\ \A i \in 1..Len(head) : head[i] = list[one + i - 1]
    BY <1>2, <2>2, Slice
  <2>4. Len(head) = k BY <1>2, <2>1, <2>3
  <2>5. DOMAIN head = 1..k BY <2>3, <2>4
  <2>6. ASSUME NEW j \in 1..k PROVE head[j] = list[j]
    <3>1. one + j - 1 = j BY <2>1
    <3>2. QED BY <2>3, <2>4, <3>1
  <2>7. QED BY <2>5, <2>6
<1>4. /\ rest \in Seq(S) /\ DOMAIN rest = 1..(n - k) /\ \A j \in 1..(n - k) : rest[j] = list[k + j]
  <2>1. PICK low \in Nat : low = k + 1 BY <1>2
  <2>2. low >= 1 /\ n <= Len(list) /\ rest = SubSeq(list, low, n) BY <1>1, <1>2, <2>1 DEF After
  <2>3. /\ rest \in Seq(S) /\ Len(rest) = IF low <= n THEN n - low + 1 ELSE 0
        /\ \A i \in 1..Len(rest) : rest[i] = list[low + i - 1]
    BY <1>1, <2>1, <2>2, Slice
  <2>4. Len(rest) = n - k BY <1>2, <2>1, <2>3
  <2>5. DOMAIN rest = 1..(n - k) BY <2>3, <2>4
  <2>6. ASSUME NEW j \in 1..(n - k) PROVE rest[j] = list[k + j]
    <3>1. low + j - 1 = k + j BY <1>2, <2>1
    <3>2. QED BY <2>3, <2>4, <3>1
  <2>7. QED BY <2>3, <2>5, <2>6
<1>5. list[k] \in Range(head)
  <2>1. k \in DOMAIN head /\ head[k] = list[k] BY <1>2, <1>3
  <2>2. QED BY <2>1 DEF Range
<1>6. Range(head) \subseteq Range(list)
  <2>1. ASSUME NEW j \in DOMAIN head PROVE j \in DOMAIN list /\ head[j] = list[j]
    BY <1>1, <1>2, <1>3
  <2>2. QED BY <2>1 DEF Range
<1>7. ASSUME NEW j \in 1..(n - k) PROVE k + j \in DOMAIN list /\ k + j # k
  BY <1>1, <1>2
<1>8. Distinct(rest)
  <2>1. ASSUME NEW i \in 1..(n - k), NEW j \in 1..(n - k), i # j PROVE rest[i] # rest[j]
    <3>1. PICK x, y : x = k + i /\ y = k + j OBVIOUS
    <3>2. x # y BY <1>2, <2>1, <3>1
    <3>3. x \in DOMAIN list /\ y \in DOMAIN list BY <1>7, <3>1
    <3>4. list[x] # list[y] BY <3>2, <3>3 DEF Distinct
    <3>5. QED BY <1>4, <3>1, <3>4
  <2>2. QED BY <1>4, <2>1 DEF Distinct
<1>9. ASSUME NEW j \in DOMAIN rest PROVE rest[j] # list[k]
  <2>1. PICK x : x = k + j OBVIOUS
  <2>2. x \in DOMAIN list /\ x # k /\ rest[j] = list[x] BY <1>4, <1>7, <2>1
  <2>3. QED BY <2>2 DEF Distinct
<1>10. list[k] \in S OBVIOUS
<1>11. QED BY <1>4, <1>5, <1>6, <1>8, <1>9, <1>10

\* A turn of the scan from a table, over devices none of which comes twice.
LEMMA TurnFacts ==
  ASSUME NEW t, Table(t), NEW list \in Seq(Devices), Distinct(list), clock \in Nat,
         again = FALSE, Turn(t, list)
  PROVE  /\ Table(db') /\ notes' \in [Devices -> Int] /\ again' = FALSE /\ ScanOK'
         /\ \A d \in Devices : Stepped(t[d], db'[d]) /\ (d \notin Range(list) => db'[d] = t[d])
<1>1. notes' \in [Devices -> Int] BY Numbers DEF Turn
<1>2. CASE db' = Planned(t, list) /\ scan' = NoScan /\ UNCHANGED again
  <2>1. ScanOK' BY <1>2 DEF ScanOK
  <2>2. PICK u : u = Planned(t, list) OBVIOUS
  <2>3. /\ Table(u)
        /\ \A d \in Devices : Stepped(t[d], u[d]) /\ (d \notin Range(list) => u[d] = t[d])
    BY <2>2, PlannedFacts
  <2>4. QED BY <1>1, <1>2, <2>1, <2>2, <2>3
<1>3. ASSUME NEW k \in DOMAIN list, Pushes(t, list[k]),
             NEW u, u = Planned(t, SubSeq(list, 1, k)), NEW s, s = SendOf(u[list[k]], list[k]),
             db' = Left(u, s), again' = (again \/ LeftBefore(u, s)),
             scan' = [on |-> TRUE, left |-> SubSeq(list, k + 1, Len(list)), send |-> s]
      PROVE  /\ Table(db') /\ again' = FALSE /\ ScanOK'
             /\ \A d \in Devices : Stepped(t[d], db'[d]) /\ (d \notin Range(list) => db'[d] = t[d])
  <2>0. PICK e, head, rest :
          e = list[k] /\ head = SubSeq(list, 1, k) /\ rest = SubSeq(list, k + 1, Len(list))
    OBVIOUS
  <2>1. /\ e \in Devices /\ e \in Range(head) /\ Range(head) \subseteq Range(list)
        /\ rest \in Seq(Devices) /\ Distinct(rest) /\ \A j \in DOMAIN rest : rest[j] # e
    <3>1. /\ list[k] \in Devices /\ list[k] \in Range(head) /\ Range(head) \subseteq Range(list)
          /\ rest \in Seq(Devices) /\ Distinct(rest) /\ \A j \in DOMAIN rest : rest[j] # list[k]
      <4>1. k \in DOMAIN list /\ list \in Seq(Devices) /\ Distinct(list) BY <1>3
      <4>2. head = Upto(list, k) /\ rest = After(list, k) BY <2>0 DEF Upto, After
      <4>3. QED BY <4>1, <4>2, Lists
    <3>2. QED BY <2>0, <3>1
  <2>2. /\ Table(u)
        /\ \A d \in Devices :
             /\ Stepped(t[d], u[d]) /\ (t[d] # NoDevice => Moved(t[d], u[d]))
             /\ d \notin Range(head) => u[d] = t[d]
             /\ d \in Range(head) => u[d] = Plan(t[d], d)
    BY <1>3, <2>0, PlannedFacts
  <2>3. u[e] = Plan(t[e], e) BY <2>1, <2>2
  <2>4. t[e] # NoDevice
    <3>1. ASSUME t[e] = NoDevice PROVE FALSE
      <4>1. ~Due(t[e]) BY <3>1 DEF Due, Enrolled
      <4>2. Plan(t[e], e) = NoDevice BY <3>1, <4>1 DEF Plan
      <4>3. Attempts(NoDevice) = 0 BY DEF Attempts, HasOpen, Enrolled
      <4>4. ~Pushes(t, e) BY <3>1, <4>2, <4>3 DEF Pushes
      <4>5. QED BY <1>3, <2>0, <4>4
    <3>2. QED BY <3>1
  <2>5. PICK b, c : b = t[e] /\ c = u[e] OBVIOUS
  <2>6. Good(b) /\ Moved(b, c) /\ Good(c) /\ c # NoDevice /\ b # NoDevice /\ Stepped(b, c)
    <3>1. Good(b) BY <2>1, <2>4, <2>5 DEF Table, GoodRow
    <3>2. Moved(b, c) BY <2>1, <2>2, <2>4, <2>5
    <3>3. QED BY <3>1, <3>2, SteppedMoved
  <2>7. Attempts(c) > Attempts(b) BY <1>3, <2>0, <2>3, <2>5 DEF Pushes
  <2>8. Fresh(c)
    <3>1. c = Plan(b, e) BY <2>3, <2>5
    <3>2. QED BY <2>1, <2>6, <2>7, <3>1, PlanFacts
  <2>9. PICK r \in DOMAIN c.rounds : r = c.check.round /\ c.rounds[r].result = "none"
                                     /\ Attempts(c) \notin c.rounds[r].left
    BY <2>8 DEF Fresh
  <2>10. PICK n \in Nat : n = Attempts(c) /\ n >= 1
    <3>1. PICK m \in Nat, n \in Nat : m = Attempts(b) /\ n = Attempts(c) BY <2>6, AttemptsNat
    <3>2. n > m BY <2>7, <3>1
    <3>3. QED BY <3>1, <3>2
  <2>11. n = Len(c.rounds[r].attempts) /\ Last(c.rounds) = c.rounds[r] /\ r \in Nat
    BY <2>6, <2>9, <2>10, AttemptsOf, OpenRound
  <2>12. s = [device |-> e, round |-> r, attempt |-> n, token |-> c.token, host |-> 1,
              stage |-> IF e \in Apple THEN "out" ELSE "token"]
    BY <1>3, <2>0, <2>5, <2>9, <2>11 DEF SendOf
  <2>13. /\ s.device = e /\ s.round = r /\ s.attempt = n /\ s.stage \in {"token", "out"}
    BY <2>12
  <2>14. s \in Send
    <3>1. c.token \in Int
      <4>1. c \in Row BY <2>6 DEF Good
      <4>2. c.token \in 0..MaxTokens BY <4>1 DEF Row
      <4>3. QED BY <4>2, Numbers
    <3>2. QED BY <2>1, <2>10, <2>11, <2>12, <3>1 DEF Send
  <2>15. PICK v : v = Left(u, s) /\ v = db' BY <1>3
  <2>16. /\ Table(v) /\ \A d \in Devices : d # e => v[d] = u[d]
         /\ v[e] # NoDevice /\ SameVerdicts(c, v[e])
         /\ \A q \in DOMAIN c.rounds : v[e].rounds[q].attempts = c.rounds[q].attempts
         /\ s.stage # "out" => v = u
    <3>1. CASE s.stage # "out"
      <4>1. v = u BY <2>15, <3>1 DEF Left
      <4>2. SameVerdicts(c, c) BY DEF SameVerdicts
      <4>3. QED BY <2>2, <2>5, <2>6, <4>1, <4>2
    <3>2. CASE s.stage = "out"
      <4>1. v = Away(u, e, r, n) BY <2>2, <2>13, <2>15, <3>2, LeftAway
      <4>2. Listed(c, r, n) BY <2>9, <2>10, <2>11 DEF Listed
      <4>4. PICK z : z = v[e] OBVIOUS
      <4>4a. c = u[e] /\ c # NoDevice /\ Table(u) /\ e \in Devices
        BY <2>1, <2>2, <2>5, <2>6, <2>9
      <4>5. /\ Table(v) /\ \A d \in Devices : d # e => v[d] = u[d]
            /\ z # NoDevice /\ SameVerdicts(c, z) /\ SameAttempts(c, z)
        BY <4>1, <4>2, <4>4, <4>4a, AwayFacts
      <4>6. QED BY <3>2, <4>4, <4>5 DEF SameAttempts
    <3>3. QED BY <3>1, <3>2
  <2>17. again' = FALSE
    <3>1. ~LeftBefore(u, s) BY <2>5, <2>9, <2>10, <2>13 DEF LeftBefore
    <3>2. QED BY <1>3, <3>1
  <2>18. OnRecord(v[e], s)
    <3>1. s.round \in DOMAIN v[e].rounds BY <2>9, <2>13, <2>16 DEF SameVerdicts
    <3>2. s.attempt \in 1..Len(v[e].rounds[s.round].attempts)
      <4>1. v[e].rounds[r].attempts = c.rounds[r].attempts BY <2>9, <2>16
      <4>2. n \in 1..n BY <2>10
      <4>3. QED BY <2>11, <2>13, <4>1, <4>2
    <3>3. ASSUME s.stage = "token" PROVE s.attempt \notin v[e].rounds[s.round].left
      <4>1. v[e] = c BY <2>5, <2>16, <3>3
      <4>2. QED BY <2>9, <2>10, <2>13, <4>1
    <3>4. QED BY <3>1, <3>2, <3>3 DEF OnRecord
  <2>19. ScanOK'
    <3>1. PICK x : x = scan' OBVIOUS
    <3>2. /\ x \in [on : {TRUE}, left : Seq(Devices), send : Send] /\ x.send = s /\ x.left = rest
      BY <1>3, <2>0, <2>1, <2>14, <3>1
    <3>3. QED BY <2>1, <2>13, <2>14, <2>15, <2>18, <3>1, <3>2 DEF ScanOK
  <2>20. ASSUME NEW d \in Devices PROVE Stepped(t[d], v[d]) /\ (d \notin Range(list) => v[d] = t[d])
    <3>1. CASE d # e BY <2>1, <2>2, <2>16, <3>1
    <3>2. CASE d = e
      <4>1. DOMAIN b.rounds \subseteq DOMAIN c.rounds BY <2>6 DEF Moved, Step, Kept
      <4>2. Stepped(b, v[e])
        <5>1. PICK z : z = v[e] OBVIOUS
        <5>2. SameVerdicts(c, z) BY <2>16, <5>1
        <5>3. Stepped(b, z) BY <2>6, <4>1, <5>2, SteppedOn
        <5>4. QED BY <5>1, <5>3
      <4>3. e \in Range(list) BY <2>1
      <4>4. QED BY <2>5, <3>2, <4>2, <4>3
    <3>3. QED BY <3>1, <3>2
  <2>21. QED BY <2>15, <2>16, <2>17, <2>19, <2>20
<1>4. QED BY <1>1, <1>2, <1>3 DEF Turn

\* The list a turn starts from.
LEMMA DueListFacts ==
  ASSUME NEW t, Table(t), NEW list \in DueLists(t)
  PROVE  list \in Seq(Devices) /\ Distinct(list)
<1>1. PICK due : due = {d \in Devices : Due(t[d])} OBVIOUS
<1>2. PICK n \in Nat : n = Cardinality(due)
  <2>1. IsFiniteSet(due) BY <1>1, WeeklyAssumption, FS_Subset
  <2>2. QED BY <2>1, FS_CardinalityType
<1>3. PICK m \in Nat : m = Min({Batch, Cardinality(due)})
  <2>1. PICK T : T = {Batch, n} OBVIOUS
  <2>2. T \subseteq Nat /\ T # {} BY <2>1, WeeklyAssumption
  <2>3. Min(T) \in T BY <2>2, LeastNumber
  <2>4. QED BY <1>2, <2>1, <2>2, <2>3
<1>4. list \in [1..m -> due]
  BY <1>1, <1>3 DEF DueLists
<1>5. ASSUME NEW j \in DOMAIN list, NEW k \in DOMAIN list, j < k
      PROVE  \/ t[list[j]].check.attemptAt < t[list[k]].check.attemptAt
             \/ t[list[j]].check.attemptAt = t[list[k]].check.attemptAt /\ list[j] < list[k]
  BY <1>5 DEF DueLists
<1>6. list \in Seq(Devices)
  <2>1. due \subseteq Devices BY <1>1
  <2>2. list \in [1..m -> Devices] BY <1>4, <2>1
  <2>3. QED BY <2>2
<1>7. ASSUME NEW d \in due PROVE d \in Nat /\ t[d].check.attemptAt \in Int
  <2>1. d \in Devices /\ Due(t[d]) BY <1>1
  <2>2. Good(t[d]) /\ Enrolled(t[d]) BY <2>1 DEF Table, GoodRow, Due, Enrolled
  <2>3. PICK k \in Checks : k = t[d].check BY <2>2, TheOpenRound
  <2>4. k.attemptAt \in Int BY DEF Checks
  <2>5. QED BY <2>1, <2>3, <2>4, WeeklyAssumption
<1>8. ASSUME NEW j \in DOMAIN list, NEW k \in DOMAIN list, j < k PROVE list[j] # list[k]
  <2>1. PICK d \in due : d = list[j] BY <1>4
  <2>2. PICK v \in Int : v = t[d].check.attemptAt BY <1>7
  <2>3. d \in Nat BY <1>7
  <2>4. ASSUME list[k] = d PROVE FALSE
    <3>1. v < v \/ d < d BY <1>5, <1>8, <2>1, <2>2, <2>4
    <3>2. QED BY <2>3, <3>1
  <2>5. QED BY <2>1, <2>4
<1>9. Distinct(list)
  <2>1. DOMAIN list = 1..m BY <1>4
  <2>2. ASSUME NEW j \in DOMAIN list, NEW k \in DOMAIN list, j # k PROVE j < k \/ k < j
    BY <2>1, <2>2
  <2>3. QED BY <1>8, <2>2 DEF Distinct
<1>10. QED BY <1>6, <1>9

\* What is written when a push is asked for or ends: a push that is wanted
\* leaves the row alone.
LEMMA ConfirmRecord ==
  ASSUME NEW b, Good(b), NEW s, OnRecord(b, s), clock \in Nat, NEW c, c = Confirm(b, s),
         NEW outcome \in Outcome \ {"none"}
  PROVE  /\ Moved(b, Record(c, s, outcome))
         /\ Wanted(c, s) => c = b
<1>1. Moved(b, c) /\ (c = b \/ (s.round \in DOMAIN c.rounds /\ c.rounds[s.round].result # "none"))
  BY ConfirmFacts
<1>2. Wanted(c, s) => c = b BY <1>1 DEF Wanted
<1>3. CASE c = b BY <1>2, <1>3, RecordFacts
<1>4. CASE c # b
  <2>1. Record(c, s, outcome) = c BY <1>1, <1>4 DEF Record
  <2>2. QED BY <1>1, <1>2, <2>1
<1>5. QED BY <1>3, <1>4

\* The row a push is asked for: the one of its device, but for the marks of
\* what left.
Near(b, c) ==
  \/ b = NoDevice /\ c = NoDevice
  \/ Good(b) /\ Good(c) /\ SameVerdicts(b, c) /\ SameAttempts(b, c) /\ c.check = b.check

\* A row is near to itself.
LEMMA NearSame ==
  ASSUME NEW b, GoodRow(b)
  PROVE  Near(b, b)
BY DEF Near, GoodRow, SameVerdicts, SameAttempts

\* A push that the host turned down has not left: its mark is gone.
LEMMA TurnedDownFacts ==
  ASSUME NEW b, GoodRow(b), NEW s, OnRecord(b, s), NEW c, c = TurnedDown(b, s)
  PROVE  /\ Near(b, c) /\ OnRecord(c, s)
         /\ c # NoDevice => s.attempt \notin c.rounds[s.round].left
<1>1. CASE b = NoDevice
  <2>1. c = NoDevice BY <1>1 DEF TurnedDown
  <2>2. QED BY <1>1, <2>1 DEF Near, OnRecord
<1>2. CASE Good(b)
  <2>1. b # NoDevice BY <1>2, NoneFacts DEF Good
  <2>2. PICK r, a : r = s.round /\ a = s.attempt OBVIOUS
  <2>3. r \in DOMAIN b.rounds BY <2>1, <2>2 DEF OnRecord
  <2>4. PICK away : away = b.rounds[r].left \ {a} OBVIOUS
  <2>5. OfRecord(b, r, away)
    <3>1. b.rounds[r].left \subseteq 1..Len(b.rounds[r].attempts) BY <1>2, <2>3 DEF Good, Shape
    <3>2. QED BY <2>4, <3>1 DEF OfRecord
  <2>6. c = Marked(b, r, away) BY <2>1, <2>2, <2>4 DEF TurnedDown, Marked
  <2>7. /\ Good(c) /\ SameVerdicts(b, c) /\ c.check = b.check /\ c.rounds[r].left = away
        /\ SameAttempts(b, c)
    BY <1>2, <2>3, <2>5, <2>6, LeftFacts
  <2>8. Near(b, c) BY <1>2, <2>7 DEF Near
  <2>9. a \notin c.rounds[r].left BY <2>4, <2>7
  <2>10. OnRecord(c, s)
    <3>1. r \in DOMAIN c.rounds /\ c.rounds[r].result = b.rounds[r].result
          /\ c.rounds[r].attempts = b.rounds[r].attempts
      BY <2>3, <2>7 DEF SameVerdicts, SameAttempts
    <3>2. QED BY <2>1, <2>2, <2>9, <3>1 DEF OnRecord
  <2>11. QED BY <2>2, <2>8, <2>9, <2>10
<1>3. QED BY <1>1, <1>2 DEF GoodRow

\* What the relay does from a row near to that of the device is a step of the
\* device.
LEMMA NearMoved ==
  ASSUME NEW a, NEW b, Near(a, b), b # NoDevice, NEW c, Moved(b, c)
  PROVE  GoodRow(c) /\ Stepped(a, c) /\ c # NoDevice
<1>1. Good(a) /\ Good(b) /\ SameVerdicts(a, b) /\ SameAttempts(a, b) /\ b.check = a.check
  BY DEF Near
<1>2. Good(c) /\ Step(b, c) /\ Told(b, c) /\ c # NoDevice BY NoneFacts DEF Moved, Good
<1>3. DOMAIN b.rounds = DOMAIN a.rounds BY <1>1 DEF SameVerdicts
<1>4. ASSUME NEW r \in DOMAIN a.rounds, a.rounds[r].result = "none", c.rounds[r].reason = "held"
      PROVE  a.rounds[r].left = {}
  <2>1. b.rounds[r].result = "none" /\ r \in DOMAIN b.rounds BY <1>1, <1>3, <1>4 DEF SameVerdicts
  <2>2. b.rounds[r].attempts = <<>> BY <1>2, <1>4, <2>1 DEF Told
  <2>3. a.rounds[r].attempts = <<>> BY <1>1, <2>2 DEF SameAttempts
  <2>4. a.rounds[r].left \subseteq 1..Len(a.rounds[r].attempts) BY <1>1 DEF Good, Shape
  <2>5. Len(<<>>) = 0 /\ 1..0 = {} OBVIOUS
  <2>6. QED BY <2>3, <2>4, <2>5
<1>5. ASSUME NEW r \in DOMAIN a.rounds
      PROVE  /\ b.rounds[r].result = a.rounds[r].result /\ b.rounds[r].attempts = a.rounds[r].attempts
             /\ r \in DOMAIN b.rounds
  BY <1>1, <1>3 DEF SameVerdicts, SameAttempts
<1>6. Fair(a, c)
  <2>1. ASSUME NEW r \in DOMAIN a.rounds, a.rounds[r].result # "none"
        PROVE  c.rounds[r].result = a.rounds[r].result
    BY <1>2, <1>5, <2>1 DEF Step, Fair
  <2>2. ASSUME NEW r \in DOMAIN a.rounds, a.rounds[r].result = "none"
        PROVE  /\ c.rounds[r].result # "received"
               /\ c.rounds[r].result = "missed" => "accepted" \in Range(a.rounds[r].attempts)
    <3>1. b.rounds[r].result = "none" /\ r \in DOMAIN b.rounds BY <1>5, <2>2
    <3>2. c.rounds[r].result # "received" BY <1>2, <3>1 DEF Told
    <3>3. c.rounds[r].result = "missed" => "accepted" \in Range(b.rounds[r].attempts)
      BY <1>2, <3>1 DEF Step, Fair
    <3>4. QED BY <1>5, <3>2, <3>3
  <2>3. QED BY <1>4, <2>1, <2>2 DEF Fair
<1>7. Apart(a, c)
  <2>1. CASE a.rounds = <<>> BY <2>1 DEF Apart
  <2>2. CASE a.rounds # <<>>
    <3>1. a.rounds \in Seq(Rounds) /\ b.rounds \in Seq(Rounds) BY <1>1 DEF Good, Row
    <3>2. Len(b.rounds) = Len(a.rounds) BY <1>1 DEF SameVerdicts
    <3>3. Len(a.rounds) \in DOMAIN a.rounds /\ b.rounds # <<>> BY <2>2, <3>1, <3>2
    <3>4. b.rounds[Len(a.rounds)].opened = a.rounds[Len(a.rounds)].opened
      BY <1>1, <3>3 DEF SameAttempts
    <3>5. QED BY <1>1, <1>2, <3>2, <3>3, <3>4 DEF Step, Apart
  <2>3. QED BY <2>1, <2>2
<1>8. a # NoDevice BY <1>1, NoneFacts DEF Good
<1>9. QED BY <1>2, <1>6, <1>7, <1>8 DEF Stepped, GoodRow

-----------------------------------------------------------------------------
(* The steps of the scan.                                                  *)

\* A step of the system, over all devices: it keeps the tables good, no push
\* leaves again, and every device takes a step of its own.
Carried ==
  /\ Table(db') /\ notes' \in [Devices -> Int] /\ again' = FALSE /\ ScanOK'
  /\ \A d \in Devices : Stepped(db[d], db'[d])

\* A device that comes to the rounds of another row.
LEMMA SteppedTo ==
  ASSUME NEW b, NEW x, NEW c, Stepped(b, x), x = NoDevice <=> c = NoDevice, c.rounds = x.rounds
  PROVE  Stepped(b, c)
BY DEF Stepped, Fair, Apart

\* A device that goes through a row with its rounds and its check.
LEMMA SteppedVia ==
  ASSUME NEW b, NEW u, NEW c, Stepped(u, c), u = NoDevice <=> b = NoDevice, u.rounds = b.rounds,
         b # NoDevice => u.check = b.check
  PROVE  Stepped(b, c)
BY DEF Stepped, Fair, Apart

\* A push ends: what it came to is written down, and the pass goes on or stops.
LEMMA EndsFacts ==
  ASSUME Table(db), notes \in [Devices -> Int], again = FALSE, ScanOK, scan # NoScan, clock \in Nat,
         NEW s, s = scan.send, NEW b, NEW outcome, NEW x, x = Record(b, s, outcome),
         GoodRow(x), Stepped(db[s.device], x), Ends(s, b, outcome)
  PROVE  Carried
<1>1. PICK e \in Devices : e = s.device BY DEF ScanOK, Send
<1>2. PICK t : t = Put(db, e, x) OBVIOUS
<1>3. Table(t) /\ t[e] = x /\ \A d \in Devices : d # e => t[d] = db[d] BY <1>2, TablePut
<1>4. t = [db EXCEPT ![s.device] = Record(b, s, outcome)] BY <1>1, <1>2 DEF Put
<1>5. Stepped(db[e], x) BY <1>1
<1>6. PICK list \in Seq(Devices) : /\ list = scan.left /\ Distinct(list)
                                   /\ \A k \in DOMAIN list : list[k] # e
  BY <1>1 DEF ScanOK
<1>7. e \notin Range(list) BY <1>6 DEF Range
<1>8. CASE \E u \in {Flushed(t)} : Turn(u, scan.left)
  <2>1. PICK u : u = Flushed(t) OBVIOUS
  <2>2. Turn(u, list) BY <1>6, <1>8, <2>1
  <2>3. /\ Table(u)
        /\ \A d \in Devices : /\ u[d] = NoDevice <=> t[d] = NoDevice
                              /\ u[d].rounds = t[d].rounds
                              /\ t[d] # NoDevice => u[d].check = t[d].check
    BY <1>3, <2>1, FlushedFacts
  <2>4. /\ Table(db') /\ notes' \in [Devices -> Int] /\ again' = FALSE /\ ScanOK'
        /\ \A d \in Devices : Stepped(u[d], db'[d]) /\ (d \notin Range(list) => db'[d] = u[d])
    BY <1>6, <2>2, <2>3, TurnFacts
  <2>5. ASSUME NEW d \in Devices PROVE Stepped(db[d], db'[d])
    <3>1. PICK y, v, z : y = db[d] /\ v = u[d] /\ z = db'[d] OBVIOUS
    <3>2. CASE d # e
      <4>1. v = NoDevice <=> y = NoDevice BY <1>3, <2>3, <3>1, <3>2
      <4>2. v.rounds = y.rounds /\ (y # NoDevice => v.check = y.check) BY <1>3, <2>3, <3>1, <3>2
      <4>3. Stepped(v, z) BY <2>4, <3>1
      <4>4. Stepped(y, z) BY <4>1, <4>2, <4>3, SteppedVia
      <4>5. QED BY <3>1, <4>4
    <3>3. CASE d = e
      <4>1. z = v BY <1>7, <2>4, <3>1, <3>3
      <4>2. (x = NoDevice <=> z = NoDevice) /\ z.rounds = x.rounds
        BY <1>3, <2>3, <3>1, <3>3, <4>1
      <4>3. Stepped(y, x) BY <1>5, <3>1, <3>3
      <4>4. Stepped(y, z) BY <4>2, <4>3, SteppedTo
      <4>5. QED BY <3>1, <4>4
    <3>4. QED BY <3>2, <3>3
  <2>6. QED BY <2>4, <2>5 DEF Carried
<1>9. CASE db' = t /\ scan' = NoScan /\ UNCHANGED <<notes, again>>
  <2>1. ScanOK' BY <1>9 DEF ScanOK
  <2>2. ASSUME NEW d \in Devices PROVE Stepped(db[d], t[d])
    <3>1. GoodRow(db[d]) BY DEF Table
    <3>2. CASE d # e BY <1>3, <3>1, <3>2, SteppedSame
    <3>3. CASE d = e BY <1>3, <1>5, <3>3
    <3>4. QED BY <3>2, <3>3
  <2>3. QED BY <1>3, <1>9, <2>1, <2>2 DEF Carried
<1>10. \/ \E u \in {Flushed(t)} : Turn(u, scan.left)
       \/ db' = t /\ scan' = NoScan /\ UNCHANGED <<notes, again>>
  BY <1>4 DEF Ends
<1>11. QED BY <1>8, <1>9, <1>10

\* A push is asked for: it leaves, for the first time, or ends unasked.
LEMMA AskFacts ==
  ASSUME Table(db), notes \in [Devices -> Int], again = FALSE, ScanOK, scan # NoScan, clock \in Nat,
         NEW s, s = scan.send, NEW b, Near(db[s.device], b), OnRecord(b, s),
         b # NoDevice /\ b.rounds[s.round].result = "none" => s.attempt \notin b.rounds[s.round].left,
         NEW host \in {1, 2}, Ask(s, b, host)
  PROVE  Carried
<1>1. PICK e \in Devices : e = s.device BY DEF ScanOK, Send
<1>2. PICK a : a = db[e] OBVIOUS
<1>3. Near(a, b) BY <1>1, <1>2
<1>4. PICK c : c = Confirm(b, s) OBVIOUS
<1>5. PICK out : out = [s EXCEPT !.stage = "out", !.host = host] OBVIOUS
<1>6. s \in Send BY DEF ScanOK
<1>7. /\ out \in Send /\ out.device = e /\ out.round = s.round /\ out.attempt = s.attempt
      /\ out.stage = "out"
  BY <1>1, <1>5, <1>6 DEF Send
<1>8. CASE /\ Wanted(c, s)
           /\ db' = Left([db EXCEPT ![s.device] = c], out)
           /\ again' = (again \/ LeftBefore([db EXCEPT ![s.device] = c], out))
           /\ scan' = [scan EXCEPT !.send = out] /\ UNCHANGED notes
  <2>1. b # NoDevice
    <3>1. ASSUME b = NoDevice PROVE FALSE
      <4>1. c = NoDevice BY <1>4, <3>1 DEF Confirm
      <4>2. QED BY <1>8, <4>1 DEF Wanted
    <3>2. QED BY <3>1
  <2>2. Good(a) /\ Good(b) /\ SameVerdicts(a, b) BY <1>3, <2>1 DEF Near
  <2>3. c = b
    <3>1. PICK outcome \in Outcome \ {"none"} : outcome = "failed" BY DEF Outcome
    <3>2. QED BY <1>4, <1>8, <2>2, ConfirmRecord
  <2>4. PICK r, k : r = s.round /\ k = s.attempt OBVIOUS
  <2>5. /\ r \in DOMAIN b.rounds /\ b.rounds[r].result = "none"
        /\ k \in 1..Len(b.rounds[r].attempts) /\ k \notin b.rounds[r].left
    <3>1. b.rounds[r].result = "none" BY <1>8, <2>3, <2>4 DEF Wanted
    <3>2. QED BY <2>1, <2>4, <3>1 DEF OnRecord
  <2>6. PICK t : t = Put(db, e, b) OBVIOUS
  <2>7. Table(t) /\ t[e] = b /\ \A d \in Devices : d # e => t[d] = db[d]
    <3>1. GoodRow(b) BY <2>2 DEF GoodRow
    <3>2. QED BY <2>6, <3>1, TablePut
  <2>8. t = [db EXCEPT ![s.device] = c] BY <1>1, <2>3, <2>6 DEF Put
  <2>9. PICK v : v = db' OBVIOUS
  <2>10. v = Left(t, out) BY <1>8, <2>8, <2>9
  <2>11. v = Away(t, e, r, k) BY <1>7, <2>4, <2>7, <2>10, LeftAway
  <2>12. Listed(b, r, k) BY <2>5 DEF Listed
  <2>13. PICK z : z = v[e] OBVIOUS
  <2>14. /\ Table(v) /\ (\A d \in Devices : d # e => v[d] = t[d])
         /\ Good(z) /\ z # NoDevice /\ SameVerdicts(b, z) /\ SameAttempts(b, z)
    BY <2>1, <2>7, <2>11, <2>12, <2>13, AwayFacts
  <2>15. again' = FALSE
    <3>1. ~LeftBefore(t, out) BY <1>7, <2>4, <2>5, <2>7 DEF LeftBefore
    <3>2. QED BY <1>8, <2>8, <3>1
  <2>16. OnRecord(z, out)
    <3>1. r \in DOMAIN z.rounds BY <2>5, <2>14 DEF SameVerdicts
    <3>2. z.rounds[r].attempts = b.rounds[r].attempts BY <2>5, <2>14 DEF SameAttempts
    <3>3. QED BY <1>7, <2>4, <2>5, <3>1, <3>2 DEF OnRecord
  <2>17. ScanOK'
    <3>1. PICK x : x = scan' OBVIOUS
    <3>2. x \in [on : {TRUE}, left : Seq(Devices), send : Send] /\ x.send = out /\ x.left = scan.left
      <4>1. x = [scan EXCEPT !.send = out] BY <1>8, <3>1
      <4>2. scan \in [on : {TRUE}, left : Seq(Devices), send : Send] BY DEF ScanOK
      <4>3. QED BY <1>7, <4>1, <4>2
    <3>3. /\ scan.left \in Seq(Devices) /\ Distinct(scan.left)
          /\ \A j \in DOMAIN scan.left : scan.left[j] # e
      BY <1>1 DEF ScanOK
    <3>4. QED BY <1>7, <2>9, <2>13, <2>16, <3>1, <3>2, <3>3 DEF ScanOK
  <2>18. ASSUME NEW d \in Devices PROVE Stepped(db[d], v[d])
    <3>1. GoodRow(db[d]) BY DEF Table
    <3>2. CASE d # e BY <2>7, <2>14, <3>1, <3>2, SteppedSame
    <3>3. CASE d = e
      <4>1. Stepped(a, a) BY <1>2, <3>1, <3>3, SteppedSame
      <4>2. a # NoDevice BY <2>2, NoneFacts DEF Good
      <4>3. SameVerdicts(a, z) BY <2>2, <2>14 DEF SameVerdicts
      <4>4. DOMAIN a.rounds \subseteq DOMAIN a.rounds OBVIOUS
      <4>5. Stepped(a, z) BY <4>1, <4>2, <4>3, <4>4, SteppedOn
      <4>6. QED BY <1>2, <2>13, <3>3, <4>5
    <3>4. QED BY <3>2, <3>3
  <2>19. QED BY <1>8, <2>9, <2>14, <2>15, <2>17, <2>18 DEF Carried
<1>9. CASE Ends(s, c, "failed")
  <2>1. PICK outcome \in Outcome \ {"none"} : outcome = "failed" BY DEF Outcome
  <2>2. PICK x : x = Record(c, s, outcome) OBVIOUS
  <2>3. Ends(s, c, outcome) BY <1>9, <2>1
  <2>4. GoodRow(x) /\ Stepped(a, x)
    <3>1. CASE b = NoDevice
      <4>1. c = NoDevice BY <1>4, <3>1 DEF Confirm
      <4>2. x = NoDevice BY <2>2, <4>1 DEF Record
      <4>3. a = NoDevice BY <1>3, <3>1, NoneFacts DEF Near, Good
      <4>4. QED BY <4>2, <4>3 DEF GoodRow, Stepped
    <3>2. CASE b # NoDevice
      <4>1. Good(b) BY <1>3, <3>2 DEF Near
      <4>2. Moved(b, x) BY <1>4, <2>2, <4>1, ConfirmRecord
      <4>3. QED BY <1>3, <3>2, <4>2, NearMoved
    <3>3. QED BY <3>1, <3>2
  <2>5. Stepped(db[s.device], x) BY <1>1, <1>2, <2>4
  <2>6. QED BY <2>2, <2>3, <2>4, <2>5, EndsFacts
<1>10. \/ /\ Wanted(c, s)
          /\ db' = Left([db EXCEPT ![s.device] = c], out)
          /\ again' = (again \/ LeftBefore([db EXCEPT ![s.device] = c], out))
          /\ scan' = [scan EXCEPT !.send = out] /\ UNCHANGED notes
       \/ Ends(s, c, "failed")
  BY <1>4, <1>5 DEF Ask
<1>11. QED BY <1>8, <1>9, <1>10

-----------------------------------------------------------------------------
(* The routes, on the row of one device.                                   *)

\* A step of one row that keeps what is on record.
Routed(b, c) == GoodRow(c) /\ Stepped(b, c) /\ (c # NoDevice => Kept(b, c))

\* A step to other columns of the same rounds.
LEMMA RoutedTo ==
  ASSUME NEW b, Good(b), NEW x, Step(b, x), NEW c, Good(c), c.rounds = x.rounds
  PROVE  Routed(b, c)
<1>1. b # NoDevice /\ c # NoDevice BY NoneFacts DEF Good
<1>2. Fair(b, c) /\ Kept(b, c) /\ Apart(b, c) BY DEF Step, Fair, Kept, Apart
<1>3. QED BY <1>1, <1>2 DEF Routed, Stepped, GoodRow

\* A step from other columns of the same rounds.
LEMMA RoutedVia ==
  ASSUME NEW b, Good(b), NEW u, u.rounds = b.rounds,
         u.rounds # <<>> => u.check.misses = b.check.misses, NEW c, Good(c), Step(u, c)
  PROVE  Routed(b, c)
<1>1. b # NoDevice /\ c # NoDevice BY NoneFacts DEF Good
<1>2. Fair(b, c) /\ Kept(b, c) /\ Apart(b, c) BY DEF Step, Fair, Kept, Apart
<1>3. QED BY <1>1, <1>2 DEF Routed, Stepped, GoodRow

\* A step of the relay, and none at all.
LEMMA RoutedMoved ==
  ASSUME NEW b, Good(b), NEW c, Moved(b, c)
  PROVE  Routed(b, c)
BY RoutedTo DEF Moved

\* Other columns of the same rounds are no step.
LEMMA RoutedSame ==
  ASSUME NEW b, Good(b), NEW c, Good(c), c.rounds = b.rounds
  PROVE  Routed(b, c)
<1>1. Step(b, b) BY StayMoved DEF Moved
<1>2. QED BY <1>1, RoutedTo

\* Other times and another switch of a check that counts the same.
LEMMA Rechecked ==
  ASSUME NEW b, Good(b), NEW c \in Row, c.rounds = b.rounds, b.check \in Checks, c.check \in Checks,
         c.check.misses = b.check.misses, c.check.last = b.check.last,
         c.check.secondMiss = b.check.secondMiss, c.check.round = b.check.round,
         c.check.round # 0 => c.check.enabled,
         c.check.enabled /\ c.check.round = 0 => c.check.attemptAt = c.check.dueAt,
         c.check.dueAt = b.check.dueAt \/ (c.check.misses > 0 /\ c.check.round = 0)
  PROVE  Good(c) /\ c # NoDevice
<1>1. b \in Row /\ Shape(b) /\ Counts(b) /\ Spaced(b) /\ c.check # NoCheck BY NoneFacts DEF Good
<1>2. Shape(c) BY <1>1 DEF Shape
<1>3. Counts(c)
  <2>1. Counted(c) = Counted(b) BY DEF Counted
  <2>2. QED BY <1>1, <2>1, CountsSame
<1>4. Spaced(c) BY <1>1 DEF Spaced
<1>5. QED BY <1>1, <1>2, <1>3, <1>4, NoneFacts DEF Good

\* The first enrolment: a check with nothing counted.
LEMMA EnrolFacts ==
  ASSUME NEW b, Good(b), b.check = NoCheck, clock \in Nat,
         NEW c, c = [b EXCEPT !.check = [enabled |-> TRUE, attemptAt |-> clock, dueAt |-> clock, round |-> 0,
                                         misses |-> 0, last |-> "none", secondMiss |-> NoTime]]
  PROVE  Good(c) /\ c.rounds = b.rounds /\ b.rounds = <<>>
<1>1. b \in Row /\ Shape(b) /\ b.rounds = <<>> BY DEF Good, Shape
<1>2. PICK k \in Checks :
        /\ k = [enabled |-> TRUE, attemptAt |-> clock, dueAt |-> clock, round |-> 0,
                misses |-> 0, last |-> "none", secondMiss |-> NoTime]
        /\ k.enabled /\ k.attemptAt = k.dueAt /\ k.round = 0 /\ k.misses = 0 /\ k.last = "none"
  <2>1. PICK no \in Int : no = NoTime BY DEF NoTime
  <2>2. PICK now \in Nat : now = clock OBVIOUS
  <2>3. PICK k : k = [enabled |-> TRUE, attemptAt |-> now, dueAt |-> now, round |-> 0,
                      misses |-> 0, last |-> "none", secondMiss |-> no]
    OBVIOUS
  <2>4. k \in Checks
    <3>1. TRUE \in BOOLEAN /\ now \in Int /\ 0 \in Nat OBVIOUS
    <3>2. QED BY <2>3, <3>1 DEF Checks
  <2>5. k.enabled /\ k.attemptAt = k.dueAt /\ k.round = 0 /\ k.misses = 0 /\ k.last = "none"
    BY <2>3
  <2>6. QED BY <2>1, <2>2, <2>3, <2>4, <2>5
<1>3. PICK e : e = [b EXCEPT !.check = k] OBVIOUS
<1>4. e \in Row /\ e.check = k /\ e.rounds = <<>> BY <1>1, <1>3, RowCheck
<1>5. e = c BY <1>2, <1>3
<1>6. DOMAIN e.rounds = {} BY <1>4
<1>7. Shape(e) BY <1>2, <1>4, <1>6, NoneFacts DEF Shape
<1>8. Counts(e)
  <2>1. Counted(e) = {} BY <1>6 DEF Counted
  <2>2. MissRun(e) = {} BY <2>1 DEF MissRun
  <2>3. Cardinality(MissRun(e)) = 0 BY <2>2, FS_EmptySet
  <2>4. QED BY <1>2, <1>4, <2>1, <2>3 DEF Counts
<1>9. Spaced(e) BY <1>2, <1>4 DEF Spaced
<1>10. QED BY <1>1, <1>4, <1>5, <1>7, <1>8, <1>9 DEF Good

\* The check is switched on.
LEMMA EnableFacts ==
  ASSUME NEW b, Good(b), clock \in Nat,
         NEW c, c = Settle(IF b.check = NoCheck
                           THEN [b EXCEPT !.check = [enabled |-> TRUE, attemptAt |-> clock, dueAt |-> clock,
                                                     round |-> 0, misses |-> 0, last |-> "none",
                                                     secondMiss |-> NoTime]]
                           ELSE IF b.check.enabled THEN b
                           ELSE [b EXCEPT !.check.enabled = TRUE, !.check.attemptAt = b.check.dueAt])
  PROVE  Routed(b, c)
<1>1. ASSUME NEW u, Good(u), c = Settle(u), u.rounds = b.rounds,
             u.rounds # <<>> => u.check.misses = b.check.misses
      PROVE  Routed(b, c)
  <2>1. Moved(u, c) BY <1>1, SettleFacts
  <2>2. Good(c) /\ Step(u, c) BY <2>1 DEF Moved
  <2>3. QED BY <1>1, <2>2, RoutedVia
<1>2. CASE b.check = NoCheck
  <2>1. PICK u : u = [b EXCEPT !.check = [enabled |-> TRUE, attemptAt |-> clock, dueAt |-> clock, round |-> 0,
                                          misses |-> 0, last |-> "none", secondMiss |-> NoTime]]
    OBVIOUS
  <2>2. c = Settle(u) BY <1>2, <2>1
  <2>3. Good(u) /\ u.rounds = b.rounds /\ b.rounds = <<>> BY <1>2, <2>1, EnrolFacts
  <2>4. QED BY <1>1, <2>2, <2>3
<1>3. CASE b.check # NoCheck /\ b.check.enabled
  <2>1. c = Settle(b) BY <1>3
  <2>2. QED BY <1>1, <2>1
<1>4. CASE b.check # NoCheck /\ ~b.check.enabled
  <2>1. b \in Row /\ Shape(b) BY DEF Good
  <2>2. PICK k \in Checks : k = b.check BY <1>4, <2>1 DEF Row
  <2>3. k.round = 0 BY <1>4, <2>1, <2>2 DEF Shape
  <2>4. PICK due \in Int : due = k.dueAt BY DEF Checks
  <2>5. PICK j1 \in Checks : j1 = [k EXCEPT !.enabled = TRUE] BY DEF Checks
  <2>6. PICK j \in Checks : j = [j1 EXCEPT !.attemptAt = due] BY DEF Checks
  <2>7. /\ j.attemptAt = j.dueAt /\ j.dueAt = k.dueAt /\ j.round = k.round
        /\ j.misses = k.misses /\ j.last = k.last /\ j.secondMiss = k.secondMiss
    BY <2>4, <2>5, <2>6 DEF Checks
  <2>8. PICK u \in Row : u = [b EXCEPT !.check = j] /\ u.check = j /\ u.rounds = b.rounds
    BY <2>1, RowCheck
  <2>9. Good(u) BY <2>2, <2>3, <2>7, <2>8, Rechecked
  <2>10. u = [b EXCEPT !.check.enabled = TRUE, !.check.attemptAt = b.check.dueAt]
    BY <2>1, <2>2, <2>4, <2>5, <2>6, <2>8 DEF Row, Checks
  <2>11. c = Settle(u) BY <1>4, <2>10
  <2>12. u.check.misses = b.check.misses BY <2>2, <2>7, <2>8
  <2>13. QED BY <1>1, <2>8, <2>9, <2>11, <2>12
<1>5. QED BY <1>2, <1>3, <1>4

\* The check is switched off.
Off(b) == [b EXCEPT !.check.enabled = FALSE, !.check.attemptAt = NoTime]

\* What that writes.
LEMMA OffRow ==
  ASSUME NEW b \in Row, NEW k \in Checks, k = b.check, NEW c, c = Off(b)
  PROVE  /\ c \in Row /\ c.rounds = b.rounds /\ Same(b, c)
         /\ c.check \in Checks /\ ~c.check.enabled /\ c.check.attemptAt = NoTime
         /\ c.check.dueAt = k.dueAt /\ c.check.round = k.round /\ c.check.misses = k.misses
         /\ c.check.last = k.last /\ c.check.secondMiss = k.secondMiss
<1>1. PICK no \in Int : no = NoTime BY DEF NoTime
<1>2. PICK j1 \in Checks : j1 = [k EXCEPT !.enabled = FALSE] BY DEF Checks
<1>3. PICK j \in Checks : j = [j1 EXCEPT !.attemptAt = no] BY DEF Checks
<1>4. /\ ~j.enabled /\ j.attemptAt = no /\ j.dueAt = k.dueAt /\ j.round = k.round
      /\ j.misses = k.misses /\ j.last = k.last /\ j.secondMiss = k.secondMiss
  BY <1>2, <1>3 DEF Checks
<1>5. PICK e \in Row : e = [b EXCEPT !.check = j] /\ e.check = j /\ e.rounds = b.rounds /\ Same(b, e)
  BY RowCheck
<1>6. e = c
  <2>1. c = [b EXCEPT !.check.enabled = FALSE, !.check.attemptAt = no] BY <1>1 DEF Off
  <2>2. QED BY <1>2, <1>3, <1>5, <2>1 DEF Row, Checks
<1>7. QED BY <1>1, <1>4, <1>5, <1>6

\* A check that has no round may be switched off.
LEMMA OffGood ==
  ASSUME NEW b, Good(b), b.check \in Checks, b.check.round = 0, NEW c, c = Off(b)
  PROVE  Good(c) /\ c.rounds = b.rounds
<1>1. b \in Row BY DEF Good
<1>2. PICK k \in Checks : k = b.check OBVIOUS
<1>3. /\ c \in Row /\ c.rounds = b.rounds
      /\ c.check \in Checks /\ ~c.check.enabled
      /\ c.check.dueAt = k.dueAt /\ c.check.round = k.round /\ c.check.misses = k.misses
      /\ c.check.last = k.last /\ c.check.secondMiss = k.secondMiss
  BY <1>1, <1>2, OffRow
<1>4. QED BY <1>2, <1>3, Rechecked

\* Two rows with the same columns are the same.
LEMMA RowEqual ==
  ASSUME NEW b \in Row, NEW c \in Row, Same(b, c), b.check = c.check, b.rounds = c.rounds
  PROVE  b = c
BY DEF Row, Same

\* Two checks with the same columns are the same.
LEMMA CheckEqual ==
  ASSUME NEW j \in Checks, NEW k \in Checks, j.enabled = k.enabled, j.attemptAt = k.attemptAt,
         j.dueAt = k.dueAt, j.round = k.round, j.misses = k.misses, j.last = k.last,
         j.secondMiss = k.secondMiss
  PROVE  j = k
BY DEF Checks

\* A close after the check is switched off is one before it.
LEMMA CloseOff ==
  ASSUME NEW b, Good(b), NEW r \in DOMAIN b.rounds, b.rounds[r].result = "none",
         NEW result \in Verdict, NEW reason \in Reason, NEW at \in Int
  PROVE  Close(Off(b), r, result, reason, at) = Off(Close(b, r, result, reason, at))
<1>1. PICK off : off = Off(b) OBVIOUS
<1>2. b \in Row /\ b.check.round = r BY OpenRound DEF Good
<1>3. PICK k \in Checks : k = b.check BY OpenRound
<1>4. /\ off \in Row /\ off.rounds = b.rounds /\ Same(b, off)
      /\ off.check \in Checks /\ ~off.check.enabled
      /\ off.check.dueAt = k.dueAt /\ off.check.round = k.round /\ off.check.misses = k.misses
      /\ off.check.last = k.last /\ off.check.secondMiss = k.secondMiss
  BY <1>1, <1>2, <1>3, OffRow
<1>5. PICK j \in Checks : j = off.check BY <1>4
<1>6. PICK c : c = Close(b, r, result, reason, at) OBVIOUS
<1>7. PICK e : e = Close(off, r, result, reason, at) OBVIOUS
<1>8. PICK rs : rs = [b.rounds EXCEPT ![r] = Closed(b.rounds[r], result, reason, at)] OBVIOUS
<1>9. c \in Row /\ c.check \in Checks /\ Freed(k, c.check, result, at) /\ Same(b, c) /\ c.rounds = rs
  BY <1>2, <1>3, <1>6, <1>8, CloseRow
<1>10. e \in Row /\ e.check \in Checks /\ Freed(j, e.check, result, at) /\ Same(off, e) /\ e.rounds = rs
  <2>1. r \in DOMAIN off.rounds /\ off.rounds[r].result = "none" /\ j.round = r
    BY <1>2, <1>3, <1>4, <1>5
  <2>2. rs = [off.rounds EXCEPT ![r] = Closed(off.rounds[r], result, reason, at)] BY <1>4, <1>8
  <2>3. QED BY <1>4, <1>5, <1>7, <2>1, <2>2, CloseRow
<1>11. PICK kc \in Checks, ke \in Checks : kc = c.check /\ ke = e.check BY <1>9, <1>10
<1>12. PICK o : o = Off(c) OBVIOUS
<1>13. /\ o \in Row /\ o.rounds = c.rounds /\ Same(c, o)
       /\ o.check \in Checks /\ ~o.check.enabled /\ o.check.attemptAt = NoTime
       /\ o.check.dueAt = kc.dueAt /\ o.check.round = kc.round /\ o.check.misses = kc.misses
       /\ o.check.last = kc.last /\ o.check.secondMiss = kc.secondMiss
  BY <1>9, <1>11, <1>12, OffRow
<1>14. PICK ko \in Checks : ko = o.check BY <1>13
<1>15. ~j.enabled /\ j.dueAt = k.dueAt /\ j.misses = k.misses /\ j.last = k.last /\ j.secondMiss = k.secondMiss
  BY <1>4, <1>5
<1>16. ke.round = 0 /\ ke.attemptAt = NoTime /\ ~ke.enabled /\ ke.dueAt = k.dueAt
  BY <1>10, <1>11, <1>15 DEF Freed
<1>17. ko.round = 0 /\ ko.attemptAt = NoTime /\ ~ko.enabled /\ ko.dueAt = k.dueAt
  BY <1>9, <1>11, <1>13, <1>14 DEF Freed
<1>18. ke.misses = ko.misses /\ ke.last = ko.last /\ ke.secondMiss = ko.secondMiss
  <2>1. Freed(k, kc, result, at) /\ Freed(j, ke, result, at) BY <1>9, <1>10, <1>11
  <2>2. ke.misses = kc.misses /\ ke.last = kc.last /\ ke.secondMiss = kc.secondMiss
    BY <1>15, <2>1 DEF Freed
  <2>3. QED BY <1>13, <1>14, <2>2
<1>19. ke = ko
  <2>1. ke.enabled = ko.enabled BY <1>16, <1>17 DEF Checks
  <2>2. QED BY <1>16, <1>17, <1>18, <2>1, CheckEqual
<1>20. Same(e, o) BY <1>4, <1>9, <1>10, <1>13 DEF Same
<1>21. e = o BY <1>9, <1>10, <1>11, <1>13, <1>14, <1>19, <1>20, RowEqual
<1>22. QED BY <1>1, <1>6, <1>7, <1>12, <1>21

\* So is an expiry.
LEMMA ExpireOff ==
  ASSUME NEW b, Good(b), NEW r \in DOMAIN b.rounds, b.rounds[r].result = "none"
  PROVE  Expire(Off(b), r) = Off(Expire(b, r))
<1>1. PICK off : off = Off(b) OBVIOUS
<1>2. b \in Row BY DEF Good
<1>3. PICK k \in Checks : k = b.check BY OpenRound
<1>4. off.rounds = b.rounds /\ off.alarmAt = b.alarmAt BY <1>1, <1>2, <1>3, OffRow DEF Same
<1>5. PICK at \in Int : at = b.rounds[r].closes BY OpenRound DEF Rounds
<1>6. ASSUME NEW result \in Verdict, NEW reason \in Reason
      PROVE  Close(off, r, result, reason, at) = Off(Close(b, r, result, reason, at))
  BY <1>1, CloseOff
<1>7. \E result \in Verdict, reason \in Reason :
        /\ Expire(b, r) = Close(b, r, result, reason, at)
        /\ Expire(off, r) = Close(off, r, result, reason, at)
  <2>1. {"missed", "skipped"} \subseteq Verdict /\ {"none", "held", "unsent"} \subseteq Reason
    BY DEF Verdict, Reason
  <2>2. PICK holds, held :
          /\ holds = {b.rounds[r].heldUntil} \cup (IF b.alarmAt = NoTime THEN {} ELSE {b.alarmAt + Hold})
          /\ held = (b.rounds[r].attempts = <<>> /\ b.rounds[r].heldUntil # NoTime
                       /\ \E h \in holds : h >= b.rounds[r].closes)
    OBVIOUS
  <2>3. CASE "accepted" \in Range(b.rounds[r].attempts)
    <3>1. /\ Expire(b, r) = Close(b, r, "missed", "none", at)
          /\ Expire(off, r) = Close(off, r, "missed", "none", at)
      BY <1>4, <1>5, <2>3 DEF Expire
    <3>2. QED BY <2>1, <3>1
  <2>4. CASE "accepted" \notin Range(b.rounds[r].attempts)
    <3>1. PICK why : why = IF held THEN "held" ELSE "unsent" OBVIOUS
    <3>2. Expire(b, r) = Close(b, r, "skipped", why, at) BY <1>5, <2>2, <2>4, <3>1 DEF Expire
    <3>3. Expire(off, r) = Close(off, r, "skipped", why, at)
      BY <1>4, <1>5, <2>2, <2>4, <3>1 DEF Expire
    <3>4. QED BY <2>1, <3>1, <3>2, <3>3
  <2>5. QED BY <2>3, <2>4
<1>8. QED BY <1>1, <1>6, <1>7

\* The check is switched off, and an open round with it.
LEMMA DisableFacts ==
  ASSUME NEW b, Good(b), Enrolled(b), clock \in Nat,
         NEW c, c = IF ~HasOpen(b) THEN Off(b)
                    ELSE IF Over(b, b.check.round) THEN Expire(Off(b), b.check.round)
                    ELSE Close(Off(b), b.check.round, "skipped", "disabled", clock)
  PROVE  Routed(b, c)
<1>1. b.check \in Checks BY TheOpenRound
<1>2. CASE ~HasOpen(b)
  <2>1. b.check.round = 0 /\ c = Off(b) BY <1>2, TheOpenRound
  <2>2. Good(c) /\ c.rounds = b.rounds BY <1>1, <2>1, OffGood
  <2>3. QED BY <2>2, RoutedSame
<1>3. CASE HasOpen(b)
  <2>1. PICK r \in DOMAIN b.rounds : r = b.check.round /\ b.rounds[r].result = "none"
    BY <1>3, TheOpenRound
  <2>2. ASSUME NEW x, Moved(b, x), x.check.round = 0, x.check \in Checks, c = Off(x)
        PROVE  Routed(b, c)
    <3>1. Good(x) /\ Step(b, x) BY <2>2 DEF Moved
    <3>2. Good(c) /\ c.rounds = x.rounds BY <2>2, <3>1, OffGood
    <3>3. QED BY <3>1, <3>2, RoutedTo
  <2>3. ASSUME NEW x, Moved(b, x) PROVE x.check \in Checks
    <3>1. Good(x) /\ x \in Row /\ Shape(x) /\ DOMAIN b.rounds \subseteq DOMAIN x.rounds
      BY <2>3 DEF Moved, Good, Step, Kept
    <3>2. x.rounds # <<>> BY <2>1, <3>1
    <3>3. QED BY <3>1, <3>2 DEF Shape, Row
  <2>4. CASE Over(b, r)
    <3>1. PICK x : x = Expire(b, r) OBVIOUS
    <3>2. Moved(b, x) /\ x.check.round = 0 BY <2>1, <3>1, ExpireFacts
    <3>3. c = Expire(Off(b), r) BY <1>3, <2>1, <2>4
    <3>4. c = Off(x) BY <2>1, <3>1, <3>3, ExpireOff
    <3>5. QED BY <2>2, <2>3, <3>2, <3>4
  <2>5. CASE ~Over(b, r)
    <3>1. PICK result \in Verdict, reason \in Reason, at \in Int :
            result = "skipped" /\ reason = "disabled" /\ at = clock
      BY DEF Verdict, Reason
    <3>2. PICK x : x = Close(b, r, result, reason, at) OBVIOUS
    <3>3. Moved(b, x) /\ x.check.round = 0 BY <2>1, <3>1, <3>2, RelayClose
    <3>4. c = Close(Off(b), r, result, reason, at) BY <1>3, <2>1, <2>5, <3>1
    <3>5. c = Off(x) BY <2>1, <3>2, <3>4, CloseOff
    <3>6. QED BY <2>2, <2>3, <3>3, <3>5
  <2>6. QED BY <2>4, <2>5
<1>4. QED BY <1>2, <1>3

\* A phone reports a push that left.
LEMMA ReceiptFacts ==
  ASSUME NEW b, Good(b), NEW r \in DOMAIN b.rounds, b.rounds[r].left # {}, clock \in Nat,
         NEW x, x = IF b.rounds[r].result = "none" /\ Over(b, r) THEN Expire(b, r) ELSE b,
         NEW c, c = IF x.rounds[r].result = "none" THEN Close(x, r, "received", "none", clock) ELSE x
  PROVE  Routed(b, c)
<1>1. CASE b.rounds[r].result # "none"
  <2>1. c = b BY <1>1
  <2>2. QED BY <2>1, RoutedSame
<1>2. CASE b.rounds[r].result = "none" /\ Over(b, r)
  <2>1. x = Expire(b, r) BY <1>2
  <2>2. Moved(b, x) /\ x.rounds[r].result # "none" BY <1>2, <2>1, ExpireFacts
  <2>3. c = x BY <2>2
  <2>4. QED BY <2>2, <2>3, RoutedMoved
<1>3. CASE b.rounds[r].result = "none" /\ ~Over(b, r)
  <2>1. x = b BY <1>3
  <2>2. PICK result \in Verdict, reason \in Reason, at \in Int :
          result = "received" /\ reason = "none" /\ at = clock
    BY DEF Verdict, Reason
  <2>3. c = Close(b, r, result, reason, at) BY <1>3, <2>1, <2>2
  <2>4. at < b.rounds[r].closes
    <3>1. PICK closes \in Int : closes = b.rounds[r].closes BY <1>3, OpenRound DEF Rounds
    <3>2. ~(clock >= closes) BY <1>3, <3>1 DEF Over
    <3>3. QED BY <2>2, <3>1, <3>2
  <2>5. Good(c) /\ Step(b, c) BY <1>3, <2>2, <2>3, <2>4, CloseStep
  <2>6. QED BY <2>5, RoutedTo
<1>4. QED BY <1>1, <1>2, <1>3

\* Another token and none, and another tier.
LEMMA RowColumns ==
  ASSUME NEW b \in Row, b.minted < MaxTokens
  PROVE  LET c == [b EXCEPT !.token = b.minted + 1, !.minted = @ + 1] IN
         c \in Row /\ c.check = b.check /\ c.rounds = b.rounds
<1>1. PICK n \in 0..MaxTokens : n = b.minted + 1
  <2>1. b.minted \in 0..MaxTokens BY DEF Row
  <2>2. QED BY <2>1, Numbers
<1>2. PICK c1 \in Row : c1 = [b EXCEPT !.token = n] /\ c1.check = b.check /\ c1.rounds = b.rounds
                         /\ c1.minted = b.minted
  <2>1. [b EXCEPT !.token = n] \in Row BY DEF Row
  <2>2. QED BY <2>1 DEF Row
<1>3. PICK c2 \in Row : c2 = [c1 EXCEPT !.minted = n] /\ c2.check = b.check /\ c2.rounds = b.rounds
  <2>1. [c1 EXCEPT !.minted = n] \in Row BY DEF Row
  <2>2. QED BY <1>2, <2>1 DEF Row
<1>4. c2 = [b EXCEPT !.token = b.minted + 1, !.minted = @ + 1] BY <1>1, <1>2, <1>3
<1>5. QED BY <1>3, <1>4

\* A row with the next token, and one that is due at once on a miss.
Retokened(b) == [b EXCEPT !.token = b.minted + 1, !.minted = @ + 1]
Hurried(u) == IF Enrolled(u) /\ u.check.enabled /\ u.check.misses > 0 /\ u.check.round = 0
              THEN [u EXCEPT !.check.dueAt = clock, !.check.attemptAt = clock] ELSE u

\* A phone registers another push token.
LEMMA NewTokenFacts ==
  ASSUME NEW b, Good(b), b.minted < MaxTokens, clock \in Nat,
         NEW u, u = Retokened(b), NEW c, c = Hurried(u)
  PROVE  Routed(b, c)
<1>1. u \in Row /\ u.check = b.check /\ u.rounds = b.rounds BY RowColumns DEF Good, Retokened
<1>2. Good(u) BY <1>1, GoodSame
<1>3. CASE Enrolled(u) /\ u.check.enabled /\ u.check.misses > 0 /\ u.check.round = 0
  <2>1. PICK k \in Checks : k = u.check BY <1>2, <1>3, TheOpenRound
  <2>2. PICK now \in Nat : now = clock OBVIOUS
  <2>3. PICK j1 \in Checks : j1 = [k EXCEPT !.dueAt = now] BY DEF Checks
  <2>4. PICK j \in Checks : j = [j1 EXCEPT !.attemptAt = now]
    <3>1. PICK v \in Int : v = now OBVIOUS
    <3>2. [j1 EXCEPT !.attemptAt = v] \in Checks BY DEF Checks
    <3>3. QED BY <3>1, <3>2
  <2>5. /\ j.attemptAt = j.dueAt /\ j.round = k.round /\ j.misses = k.misses /\ j.last = k.last
        /\ j.secondMiss = k.secondMiss
    BY <2>3, <2>4 DEF Checks
  <2>6. PICK e \in Row : e = [u EXCEPT !.check = j] /\ e.check = j /\ e.rounds = u.rounds
    BY <1>1, RowCheck
  <2>7. Good(e) BY <1>2, <1>3, <2>1, <2>5, <2>6, Rechecked
  <2>8. e = c
    <3>1. c = [u EXCEPT !.check.dueAt = now, !.check.attemptAt = now] BY <1>3, <2>2 DEF Hurried
    <3>2. QED BY <1>1, <2>1, <2>3, <2>4, <2>6, <3>1 DEF Row, Checks
  <2>9. QED BY <1>1, <2>6, <2>7, <2>8, RoutedSame
<1>4. CASE ~(Enrolled(u) /\ u.check.enabled /\ u.check.misses > 0 /\ u.check.round = 0)
  <2>1. c = u BY <1>4 DEF Hurried
  <2>2. QED BY <1>1, <1>2, <2>1, RoutedSame
<1>5. QED BY <1>3, <1>4

\* The token is erased.
LEMMA TokenErasedFacts ==
  ASSUME NEW b, Good(b), NEW c, c = [b EXCEPT !.token = 0]
  PROVE  Routed(b, c)
<1>1. 0 \in 0..MaxTokens BY Numbers
<1>2. c \in Row /\ c.check = b.check /\ c.rounds = b.rounds BY <1>1 DEF Good, Row
<1>3. QED BY <1>2, GoodSame, RoutedSame

\* The tier changes.
LEMMA TierFacts ==
  ASSUME NEW b, Good(b), NEW c, c = [b EXCEPT !.hosted = ~@]
  PROVE  Routed(b, c)
<1>1. c \in Row /\ c.check = b.check /\ c.rounds = b.rounds BY DEF Good, Row
<1>2. QED BY <1>1, GoodSame, RoutedSame

\* The device is released.
LEMMA ReleaseFacts ==
  ASSUME NEW b, Good(b)
  PROVE  Routed(b, NoDevice)
BY NoneFacts DEF Routed, GoodRow, Stepped, Good

-----------------------------------------------------------------------------
(* The steps of the system.                                                *)

\* A row is written by a route: the push that is sent stays on record.
LEMMA WriteFacts ==
  ASSUME Table(db), notes \in [Devices -> Int], again = FALSE, ScanOK,
         NEW d \in Devices, NEW c, Routed(db[d], c), Write(d, c)
  PROVE  Carried
<1>1. PICK b : b = db[d] OBVIOUS
<1>2. GoodRow(b) /\ GoodRow(c) /\ Stepped(b, c) /\ (c # NoDevice => Kept(b, c))
  BY <1>1 DEF Table, Routed
<1>3. PICK v : v = db' OBVIOUS
<1>4. v = Put(db, d, c) /\ notes' = notes /\ scan' = scan /\ again' = again
  BY <1>3 DEF Write, Put
<1>5. Table(v) /\ v[d] = c /\ \A e \in Devices : e # d => v[e] = db[e] BY <1>2, <1>4, TablePut
<1>6. ASSUME NEW s, OnRecord(b, s) PROVE OnRecord(c, s)
  <2>1. CASE c = NoDevice BY <2>1 DEF OnRecord
  <2>2. CASE c # NoDevice
    <3>1. b # NoDevice /\ Kept(b, c) /\ Good(b) /\ Good(c)
      BY <1>2, <2>2 DEF Stepped, GoodRow
    <3>2. PICK r, a : r = s.round /\ a = s.attempt OBVIOUS
    <3>3. r \in DOMAIN b.rounds /\ r \in DOMAIN c.rounds BY <1>6, <3>1, <3>2 DEF OnRecord, Kept
    <3>4. ASSUME c.rounds[r].result = "none"
          PROVE  /\ a \in 1..Len(c.rounds[r].attempts)
                 /\ s.stage = "token" => a \notin c.rounds[r].left
      <4>1. /\ b.rounds[r].result = "none" /\ c.rounds[r].left = b.rounds[r].left
            /\ Len(c.rounds[r].attempts) >= Len(b.rounds[r].attempts)
        BY <3>1, <3>3, <3>4 DEF Kept
      <4>2. /\ a \in 1..Len(b.rounds[r].attempts)
            /\ s.stage = "token" => a \notin b.rounds[r].left
        BY <1>6, <3>1, <3>2, <4>1 DEF OnRecord
      <4>3. PICK m \in Nat, n \in Nat : m = Len(b.rounds[r].attempts) /\ n = Len(c.rounds[r].attempts)
        <5>1. b.rounds[r] \in Rounds /\ c.rounds[r] \in Rounds
          BY <3>1, <3>3, <3>4, <4>1, OpenRound
        <5>2. PICK x \in Rounds, y \in Rounds : x = b.rounds[r] /\ y = c.rounds[r] BY <5>1
        <5>3. Len(x.attempts) \in Nat /\ Len(y.attempts) \in Nat BY DEF Rounds
        <5>4. QED BY <5>2, <5>3
      <4>4. QED BY <4>1, <4>2, <4>3
    <3>5. QED BY <3>2, <3>3, <3>4 DEF OnRecord
  <2>3. QED BY <2>1, <2>2
<1>7. ScanOK'
  <2>1. CASE scan = NoScan BY <1>4, <2>1 DEF ScanOK
  <2>2. CASE scan # NoScan
    <3>0. PICK s : s = scan.send OBVIOUS
    <3>1. s \in Send /\ OnRecord(db[s.device], s) BY <2>2, <3>0 DEF ScanOK
    <3>1a. PICK e \in Devices : e = s.device BY <3>1 DEF Send
    <3>2. OnRecord(v[e], s)
      <4>1. CASE e = d BY <1>1, <1>5, <1>6, <3>1, <3>1a, <4>1
      <4>2. CASE e # d BY <1>5, <3>1, <3>1a, <4>2
      <4>3. QED BY <4>1, <4>2
    <3>3. QED BY <1>3, <1>4, <2>2, <3>0, <3>1a, <3>2 DEF ScanOK
  <2>3. QED BY <2>1, <2>2
<1>8. ASSUME NEW e \in Devices PROVE Stepped(db[e], v[e])
  <2>1. CASE e = d BY <1>1, <1>2, <1>5, <2>1
  <2>2. CASE e # d
    <3>1. GoodRow(db[e]) BY DEF Table
    <3>2. QED BY <1>5, <2>2, <3>1, SteppedSame
  <2>3. QED BY <2>1, <2>2
<1>9. QED BY <1>3, <1>4, <1>5, <1>7, <1>8 DEF Carried

\* A push ends from the row as it is.
LEMMA EndsHere ==
  ASSUME Table(db), notes \in [Devices -> Int], again = FALSE, ScanOK, scan # NoScan, clock \in Nat,
         NEW s, s = scan.send, NEW outcome \in Outcome \ {"none"}, Ends(s, db[s.device], outcome)
  PROVE  Carried
<1>1. s \in Send /\ OnRecord(db[s.device], s) BY DEF ScanOK
<1>2. PICK e \in Devices : e = s.device BY <1>1 DEF Send
<1>3. PICK b : b = db[e] OBVIOUS
<1>4. PICK x : x = Record(b, s, outcome) OBVIOUS
<1>5. OnRecord(b, s) /\ GoodRow(b) BY <1>1, <1>2, <1>3 DEF Table
<1>6. GoodRow(x) /\ Stepped(b, x)
  <2>1. CASE b = NoDevice
    <3>1. x = b BY <1>4, <2>1 DEF Record
    <3>2. QED BY <1>5, <3>1, SteppedSame
  <2>2. CASE b # NoDevice
    <3>1. Good(b) BY <1>5, <2>2 DEF GoodRow
    <3>2. Moved(b, x) BY <1>4, <1>5, <3>1, RecordFacts
    <3>3. QED BY <3>1, <3>2, SteppedMoved DEF GoodRow
  <2>3. QED BY <2>1, <2>2
<1>7. Stepped(db[s.device], x) /\ Ends(s, b, outcome) BY <1>2, <1>3, <1>6
<1>8. QED BY <1>4, <1>6, <1>7, EndsFacts

\* A pass starts.
LEMMA StartFacts ==
  ASSUME Table(db), notes \in [Devices -> Int], again = FALSE, clock \in Nat, ScanStart
  PROVE  Carried
<1>1. PICK t : t = Flushed(db) OBVIOUS
<1>2. PICK list \in DueLists(t) : Turn(t, list) BY <1>1 DEF ScanStart
<1>3. /\ Table(t)
      /\ \A d \in Devices : /\ t[d] = NoDevice <=> db[d] = NoDevice
                            /\ t[d].rounds = db[d].rounds
                            /\ db[d] # NoDevice => t[d].check = db[d].check
  BY <1>1, FlushedFacts
<1>4. list \in Seq(Devices) /\ Distinct(list) BY <1>3, DueListFacts
<1>5. /\ Table(db') /\ notes' \in [Devices -> Int] /\ again' = FALSE /\ ScanOK'
      /\ \A d \in Devices : Stepped(t[d], db'[d])
  BY <1>2, <1>3, <1>4, TurnFacts
<1>6. ASSUME NEW d \in Devices PROVE Stepped(db[d], db'[d])
  <2>1. PICK b, u, c : b = db[d] /\ u = t[d] /\ c = db'[d] OBVIOUS
  <2>2. (u = NoDevice <=> b = NoDevice) /\ u.rounds = b.rounds /\ (b # NoDevice => u.check = b.check)
    BY <1>3, <2>1
  <2>3. Stepped(u, c) BY <1>5, <2>1
  <2>4. Stepped(b, c) BY <2>2, <2>3, SteppedVia
  <2>5. QED BY <2>1, <2>4
<1>7. QED BY <1>5, <1>6 DEF Carried

\* A push goes on.
LEMMA SendingFacts ==
  ASSUME Table(db), notes \in [Devices -> Int], again = FALSE, ScanOK, clock \in Nat, Sending
  PROVE  Carried
<1>1. PICK s : s = scan.send OBVIOUS
<1>2. s.stage \in {"token", "out"} BY <1>1 DEF Sending, AccessToken, Answer
<1>3. scan # NoScan
  <2>1. NoScan.send.stage = "none" BY DEF NoScan, NoSend
  <2>2. QED BY <1>1, <1>2, <2>1
<1>4. s \in Send /\ OnRecord(db[s.device], s) BY <1>1, <1>3 DEF ScanOK
<1>5. PICK b : b = db[s.device] OBVIOUS
<1>6. GoodRow(b) BY <1>4, <1>5 DEF Table, Send
<1>7. ASSUME NEW outcome \in Outcome \ {"none"}, Ends(s, b, outcome) PROVE Carried
  <2>1. Ends(s, db[s.device], outcome) BY <1>5, <1>7
  <2>2. QED BY <1>1, <1>3, <2>1, EndsHere
<1>8. CASE AccessToken
  <2>1. s.stage = "token" /\ (Ask(s, b, 1) \/ Ends(s, b, "failed")) BY <1>1, <1>5, <1>8 DEF AccessToken
  <2>2. CASE Ask(s, b, 1)
    <3>1. Near(db[s.device], b) /\ OnRecord(b, s) BY <1>4, <1>5, <1>6, NearSame
    <3>2. b # NoDevice /\ b.rounds[s.round].result = "none" => s.attempt \notin b.rounds[s.round].left
      BY <2>1, <3>1 DEF OnRecord
    <3>3. PICK host \in {1, 2} : host = 1 OBVIOUS
    <3>4. Ask(s, b, host) BY <2>2, <3>3
    <3>5. QED BY <1>1, <1>3, <3>1, <3>2, <3>4, AskFacts
  <2>3. CASE Ends(s, b, "failed")
    <3>1. PICK outcome \in Outcome \ {"none"} : outcome = "failed" BY DEF Outcome
    <3>2. Ends(s, b, outcome) BY <2>3, <3>1
    <3>3. QED BY <1>7, <3>2
  <2>4. QED BY <2>1, <2>2, <2>3
<1>9. CASE Answer
  <2>1. \/ \E outcome \in {"accepted", "refused", "failed"} : Ends(s, b, outcome)
        \/ Ask(s, TurnedDown(b, s), 2)
    BY <1>1, <1>5, <1>9 DEF Answer
  <2>2. CASE \E outcome \in {"accepted", "refused", "failed"} : Ends(s, b, outcome)
    <3>1. PICK outcome \in {"accepted", "refused", "failed"} : Ends(s, b, outcome) BY <2>2
    <3>2. outcome \in Outcome \ {"none"} BY DEF Outcome
    <3>3. QED BY <1>7, <3>1, <3>2
  <2>3. CASE Ask(s, TurnedDown(b, s), 2)
    <3>1. PICK c : c = TurnedDown(b, s) OBVIOUS
    <3>2. PICK host \in {1, 2} : host = 2 OBVIOUS
    <3>3. Ask(s, c, host) BY <2>3, <3>1, <3>2
    <3>4. Near(b, c) /\ OnRecord(c, s) /\ (c # NoDevice => s.attempt \notin c.rounds[s.round].left)
      BY <1>4, <1>5, <1>6, <3>1, TurnedDownFacts
    <3>5. Near(db[s.device], c) BY <1>5, <3>4
    <3>6. c # NoDevice /\ c.rounds[s.round].result = "none" => s.attempt \notin c.rounds[s.round].left
      BY <3>4
    <3>7. QED BY <1>1, <1>3, <3>3, <3>4, <3>5, <3>6, AskFacts
  <2>4. QED BY <2>1, <2>2, <2>3
<1>10. QED BY <1>8, <1>9 DEF Sending

\* A route, a change of the device and what goes on around them.
LEMMA AroundFacts ==
  ASSUME Table(db), notes \in [Devices -> Int], again = FALSE, ScanOK, clock \in Nat,
         Routes \/ Around
  PROVE  Carried
<1>1. ASSUME NEW d \in Devices PROVE GoodRow(db[d]) BY DEF Table
<1>2. ASSUME NEW d \in Devices, db[d] # NoDevice PROVE Good(db[d]) BY <1>1, <1>2 DEF GoodRow
<1>3. ASSUME NEW d \in Devices, Enable(d) PROVE Carried
  <2>1. PICK b : b = db[d] OBVIOUS
  <2>2. Good(b) BY <1>2, <1>3, <2>1 DEF Enable
  <2>3. PICK c : c = Settle(IF b.check = NoCheck
                            THEN [b EXCEPT !.check = [enabled |-> TRUE, attemptAt |-> clock, dueAt |-> clock,
                                                      round |-> 0, misses |-> 0, last |-> "none",
                                                      secondMiss |-> NoTime]]
                            ELSE IF b.check.enabled THEN b
                            ELSE [b EXCEPT !.check.enabled = TRUE, !.check.attemptAt = b.check.dueAt])
    OBVIOUS
  <2>4. Routed(b, c) BY <2>2, <2>3, EnableFacts
  <2>5. Write(d, c) BY <1>3, <2>1, <2>3 DEF Enable
  <2>6. Routed(db[d], c) BY <2>1, <2>4
  <2>7. QED BY <2>5, <2>6, WriteFacts
<1>4. ASSUME NEW d \in Devices, View(d) PROVE Carried
  <2>1. PICK b, c : b = db[d] /\ c = Settle(b) OBVIOUS
  <2>2. Write(d, c) /\ c # b BY <1>4, <2>1 DEF View
  <2>3. b # NoDevice
    <3>1. ASSUME b = NoDevice PROVE FALSE
      <4>1. c = b BY <2>1, <3>1 DEF Settle, HasOpen, Enrolled
      <4>2. QED BY <2>2, <4>1
    <3>2. QED BY <3>1
  <2>4. Good(b) BY <1>2, <2>1, <2>3
  <2>5. Moved(b, c) BY <2>1, <2>4, SettleFacts
  <2>6. Routed(db[d], c) BY <2>1, <2>4, <2>5, RoutedMoved
  <2>7. QED BY <2>2, <2>6, WriteFacts
<1>5. ASSUME NEW d \in Devices, NEW r \in DOMAIN db[d].rounds, Receipt(d, r) PROVE Carried
  <2>1. PICK b : b = db[d] OBVIOUS
  <2>2. PICK x : x = IF b.rounds[r].result = "none" /\ Over(b, r) THEN Expire(b, r) ELSE b OBVIOUS
  <2>3. PICK c : c = IF x.rounds[r].result = "none" THEN Close(x, r, "received", "none", clock) ELSE x
    OBVIOUS
  <2>4. Good(b) /\ r \in DOMAIN b.rounds /\ b.rounds[r].left # {}
    BY <1>2, <1>5, <2>1 DEF Receipt
  <2>5. Routed(b, c) BY <2>2, <2>3, <2>4, ReceiptFacts
  <2>6. Write(d, c) BY <1>5, <2>1, <2>2, <2>3 DEF Receipt
  <2>7. Routed(db[d], c) BY <2>1, <2>5
  <2>8. QED BY <2>6, <2>7, WriteFacts
<1>6. ASSUME NEW d \in Devices, Disable(d) PROVE Carried
  <2>1. PICK b : b = db[d] OBVIOUS
  <2>2. Good(b) /\ Enrolled(b) BY <1>2, <1>6, <2>1 DEF Disable, Enrolled
  <2>3. PICK c : c = IF ~HasOpen(b) THEN Off(b)
                     ELSE IF Over(b, b.check.round) THEN Expire(Off(b), b.check.round)
                     ELSE Close(Off(b), b.check.round, "skipped", "disabled", clock)
    OBVIOUS
  <2>4. Routed(b, c) BY <2>2, <2>3, DisableFacts
  <2>5. Write(d, c) BY <1>6, <2>1, <2>3 DEF Disable, Off
  <2>6. Routed(db[d], c) BY <2>1, <2>4
  <2>7. QED BY <2>5, <2>6, WriteFacts
<1>7. ASSUME NEW d \in Devices, NewToken(d) PROVE Carried
  <2>1. PICK b : b = db[d] OBVIOUS
  <2>2. PICK u : u = Retokened(b) OBVIOUS
  <2>3. PICK c : c = Hurried(u) OBVIOUS
  <2>4. Good(b) /\ b.minted < MaxTokens BY <1>2, <1>7, <2>1 DEF NewToken
  <2>5. Routed(b, c) BY <2>2, <2>3, <2>4, NewTokenFacts
  <2>6. Write(d, c) BY <1>7, <2>1, <2>2, <2>3 DEF NewToken, Retokened, Hurried
  <2>7. Routed(db[d], c) BY <2>1, <2>5
  <2>8. QED BY <2>6, <2>7, WriteFacts
<1>8. ASSUME NEW d \in Devices, TokenErased(d) PROVE Carried
  <2>1. PICK b, c : b = db[d] /\ c = [b EXCEPT !.token = 0] OBVIOUS
  <2>2. Good(b) /\ Write(d, c) BY <1>2, <1>8, <2>1 DEF TokenErased
  <2>3. Routed(db[d], c) BY <2>1, <2>2, TokenErasedFacts
  <2>4. QED BY <2>2, <2>3, WriteFacts
<1>9. ASSUME NEW d \in Devices, TierChanges(d) PROVE Carried
  <2>1. PICK b, c : b = db[d] /\ c = [b EXCEPT !.hosted = ~@] OBVIOUS
  <2>2. Good(b) /\ Write(d, c) BY <1>2, <1>9, <2>1 DEF TierChanges
  <2>3. Routed(db[d], c) BY <2>1, <2>2, TierFacts
  <2>4. QED BY <2>2, <2>3, WriteFacts
<1>10. ASSUME NEW d \in Devices, Release(d) PROVE Carried
  <2>1. Good(db[d]) /\ Write(d, NoDevice) BY <1>2, <1>10 DEF Release
  <2>2. Routed(db[d], NoDevice) BY <2>1, ReleaseFacts
  <2>3. QED BY <2>1, <2>2, WriteFacts
<1>11. ASSUME NEW d \in Devices, AlarmAccepted(d) PROVE Carried
  <2>1. db' = db /\ scan' = scan /\ again' = again /\ notes' = [notes EXCEPT ![d] = clock]
    BY <1>11 DEF AlarmAccepted
  <2>2. notes' \in [Devices -> Int] BY <2>1
  <2>3. ScanOK' BY <2>1 DEF ScanOK
  <2>4. \A e \in Devices : Stepped(db[e], db[e]) BY <1>1, SteppedSame
  <2>5. QED BY <2>1, <2>2, <2>3, <2>4 DEF Carried
<1>12. ASSUME Crash PROVE Carried
  <2>1. db' = db /\ scan' = NoScan /\ again' = again /\ notes' \in [Devices -> Int]
    BY <1>12, Numbers DEF Crash
  <2>2. ScanOK' BY <2>1 DEF ScanOK
  <2>3. \A e \in Devices : Stepped(db[e], db[e]) BY <1>1, SteppedSame
  <2>4. QED BY <2>1, <2>2, <2>3 DEF Carried
<1>13. CASE Routes
  <2>1. \E d \in Devices : Enable(d) \/ View(d) \/ \E r \in DOMAIN db[d].rounds : Receipt(d, r)
    BY <1>13 DEF Routes
  <2>2. QED BY <1>3, <1>4, <1>5, <2>1
<1>14. CASE Around
  <2>1. Crash \/ \E d \in Devices :
          Disable(d) \/ NewToken(d) \/ TokenErased(d) \/ TierChanges(d) \/ Release(d) \/ AlarmAccepted(d)
    BY <1>14 DEF Around
  <2>2. QED BY <1>6, <1>7, <1>8, <1>9, <1>10, <1>11, <1>12, <2>1
<1>15. QED BY <1>13, <1>14

-----------------------------------------------------------------------------
(* The theorems.                                                           *)

\* No check is on record and nothing is sent.
LEMMA InitInv == Init => IInv
<1> SUFFICES ASSUME Init PROVE IInv OBVIOUS
<1>1. population \in Populations /\ clock = 0 /\ scan = NoScan /\ again = FALSE /\ changes = 0
  BY DEF Init
<1>2. MaxTime[population] \in Nat /\ MaxChanges[population] \in Nat BY <1>1, WeeklyAssumption
<1>3. notes \in [Devices -> Int] BY Numbers DEF Init
<1>4. PICK b : b = [token |-> 1, minted |-> 1, hosted |-> TRUE, alarmAt |-> NoTime, check |-> NoCheck,
                    rounds |-> <<>>]
  OBVIOUS
<1>5. b \in Row /\ b.check = NoCheck /\ b.rounds = <<>>
  <2>1. 1 \in 0..MaxTokens BY WeeklyAssumption
  <2>2. <<>> \in Seq(Rounds) /\ NoTime \in Int /\ TRUE \in BOOLEAN BY Numbers
  <2>3. QED BY <1>4, <2>1, <2>2 DEF Row
<1>6. Good(b)
  <2>1. DOMAIN b.rounds = {} BY <1>5
  <2>2. b.check.round = 0 BY <1>5, NoneFacts
  <2>3. Shape(b) BY <1>5, <2>1, <2>2 DEF Shape
  <2>4. QED BY <1>5, <2>3 DEF Good
<1>7. db = [d \in Devices |-> IF d \notin population THEN NoDevice ELSE b] BY <1>4 DEF Init
<1>8. ASSUME NEW d \in Devices PROVE GoodRow(db[d]) /\ db[d] \in Row \cup {NoDevice}
  BY <1>5, <1>6, <1>7 DEF GoodRow
<1>9. db \in [Devices -> Row \cup {NoDevice}] BY <1>7, <1>8
<1>10. Typed
  <2>1. 0 \in 0..MaxTime[population] /\ 0 \in 0..MaxChanges[population] BY <1>2
  <2>2. clock \in 0..MaxTime[population] /\ changes \in 0..MaxChanges[population] /\ again \in BOOLEAN
    BY <1>1, <2>1
  <2>3. QED BY <1>1, <1>3, <1>9, <2>2 DEF Typed
<1>11. QED BY <1>1, <1>8, <1>10 DEF IInv, ScanOK, SentOnce

\* A step keeps every row good and what is sent on record, and every device
\* takes a step of its own.
LEMMA NextInv ==
  ASSUME IInv, [Next]_vars
  PROVE  IInv' /\ \A d \in Devices : Stepped(db[d], db'[d])
<1>1. /\ population \in Populations /\ clock \in 0..MaxTime[population]
      /\ notes \in [Devices -> Int] /\ changes \in 0..MaxChanges[population]
      /\ again = FALSE /\ ScanOK /\ Table(db)
  BY DEF IInv, Typed, SentOnce, Table
<1>2. MaxTime[population] \in Nat /\ MaxChanges[population] \in Nat /\ clock \in Nat
  BY <1>1, WeeklyAssumption
<1>3. /\ population' = population /\ clock' \in 0..MaxTime[population]
      /\ changes' \in 0..MaxChanges[population]
  <2>1. CASE ScanStart \/ Sending
    <3>1. UNCHANGED <<population, clock, changes>>
      BY <2>1 DEF ScanStart, Sending, AccessToken, Answer
    <3>2. QED BY <1>1, <3>1
  <2>2. CASE Routes
    <3>1. UNCHANGED <<population, clock, changes>>
      BY <2>2 DEF Routes, Enable, View, Receipt, Write
    <3>2. QED BY <1>1, <3>1
  <2>3. CASE Around
    <3>1. UNCHANGED <<population, clock>>
      BY <2>3 DEF Around, Crash, Disable, NewToken, TokenErased, TierChanges, Release, AlarmAccepted, Write
    <3>2. changes < MaxChanges[population] /\ changes' = changes + 1 BY <2>3 DEF Around, Change
    <3>3. QED BY <1>1, <1>2, <3>1, <3>2
  <2>4. CASE Tick
    <3>1. population' = population /\ clock < MaxTime[population] /\ clock' = clock + 1
      BY <2>4 DEF Tick
    <3>2. changes' = changes \/ (changes < MaxChanges[population] /\ changes' = changes + 1)
      BY <2>4 DEF Tick, Change
    <3>3. QED BY <1>1, <1>2, <3>1, <3>2
  <2>5. CASE UNCHANGED vars BY <1>1, <2>5 DEF vars
  <2>6. QED BY <2>1, <2>2, <2>3, <2>4, <2>5 DEF Next
<1>4. Carried
  <2>1. CASE ScanStart BY <1>1, <1>2, <2>1, StartFacts
  <2>2. CASE Sending BY <1>1, <1>2, <2>2, SendingFacts
  <2>3. CASE Routes \/ Around BY <1>1, <1>2, <2>3, AroundFacts
  <2>4. CASE Tick \/ UNCHANGED vars
    <3>1. db' = db /\ notes' = notes /\ scan' = scan /\ again' = again BY <2>4 DEF Tick, vars
    <3>2. ScanOK' BY <1>1, <3>1 DEF ScanOK
    <3>3. ASSUME NEW d \in Devices PROVE Stepped(db[d], db[d])
      <4>1. GoodRow(db[d]) BY <1>1 DEF Table
      <4>2. QED BY <4>1, SteppedSame
    <3>4. QED BY <1>1, <3>1, <3>2, <3>3 DEF Carried
  <2>5. QED BY <2>1, <2>2, <2>3, <2>4 DEF Next
<1>5. /\ db' \in [Devices -> Row \cup {NoDevice}] /\ notes' \in [Devices -> Int]
      /\ (\A d \in Devices : GoodRow(db'[d])) /\ again' = FALSE
  BY <1>4 DEF Carried, Table
<1>6. Typed' BY <1>1, <1>3, <1>5 DEF Typed
<1>7. IInv' BY <1>4, <1>5, <1>6 DEF IInv, Carried, SentOnce
<1>8. QED BY <1>4, <1>7 DEF Carried

\* In every reachable state each device has at most one open round, its last,
\* its counts are those of its rounds, its next round is a gap away, the push
\* that is sent is on record and has not left before.
THEOREM Invariance == Spec => []IInv
<1>1. IInv /\ [Next]_vars => IInv' BY NextInv
<1>2. QED BY InitInv, <1>1, PTL DEF Spec

\* Every row the store writes is well formed (check/store.ts), and no round has
\* more attempts than the schedule has offsets.
THEOREM TypeCorrect == Spec => []TypeOK
<1>1. ASSUME IInv PROVE TypeOK
  <2>1. Typed /\ \A d \in Devices : GoodRow(db[d]) BY <1>1 DEF IInv
  <2>2. ASSUME NEW d \in Devices, db[d] # NoDevice
        PROVE  /\ db[d].token \in 0..MaxTokens /\ db[d].hosted \in BOOLEAN /\ db[d].alarmAt \in Int
               /\ db[d].check = NoCheck \/ db[d].check \in Checks
               /\ \A r \in DOMAIN db[d].rounds :
                    db[d].rounds[r] \in Rounds /\ Len(db[d].rounds[r].attempts) <= MaxAttempts
    <3>1. PICK b \in Row : b = db[d] /\ Shape(b) BY <2>1, <2>2 DEF GoodRow, Good
    <3>2. /\ b.token \in 0..MaxTokens /\ b.hosted \in BOOLEAN /\ b.alarmAt \in Int
          /\ b.check \in Checks \cup {NoCheck} /\ b.rounds \in Seq(Rounds)
      BY DEF Row
    <3>3. \A r \in DOMAIN b.rounds : b.rounds[r] \in Rounds /\ Len(b.rounds[r].attempts) <= MaxAttempts
      BY <3>1, <3>2 DEF Shape
    <3>4. QED BY <3>1, <3>2, <3>3
  <2>3. QED BY <2>1, <2>2 DEF TypeOK, Typed
<1>2. QED BY Invariance, <1>1, PTL

\* What a phone is told of its misses is what its rounds say, over every order
\* of scans, receipts, switches and crashes (viewOf and noticeAfter).
THEOREM MissesAreCounted == Spec => []MissesAreTheRun
<1>1. ASSUME IInv PROVE MissesAreTheRun
  <2>1. ASSUME NEW d \in Devices, Enrolled(db[d]) PROVE Counts(db[d])
    BY <1>1, <2>1 DEF IInv, GoodRow, Good, Enrolled
  <2>2. QED BY <2>1 DEF MissesAreTheRun, Counts
<1>2. QED BY Invariance, <1>1, PTL

\* A push on record leaves at most once, whatever the hosts answer and whenever
\* the relay crashes (planDevice writes the attempt before sendCheckPush).
THEOREM PushesLeaveOnce == Spec => []SentOnce
<1>1. IInv => SentOnce BY DEF IInv
<1>2. QED BY Invariance, <1>1, PTL

\* A result is written once; a receipt counts before the round closes, a miss
\* has an accepted push and a held round sent nothing (closeRound, expireRound).
THEOREM VerdictsFair == Spec => VerdictsAreFair
<1>1. ASSUME IInv, [Next]_vars
      PROVE  [\A d \in Devices : db'[d] # NoDevice => \A r \in DOMAIN db[d].rounds :
                LET x == db[d].rounds[r]
                    y == db'[d].rounds[r]
                IN  /\ x.result # "none" => y.result = x.result
                    /\ x.result = "none" =>
                          /\ y.result = "received" => y.closedAt < x.closes /\ x.left # {}
                          /\ y.result = "missed" => "accepted" \in Range(x.attempts)
                          /\ y.reason = "held" => x.left = {}]_vars
  <2>1. ASSUME NEW d \in Devices, db'[d] # NoDevice PROVE Fair(db[d], db'[d])
    <3>1. Stepped(db[d], db'[d]) BY <1>1, NextInv
    <3>2. QED BY <2>1, <3>1 DEF Stepped
  <2>2. QED BY <2>1 DEF Fair
<1>2. QED BY Invariance, <1>1, PTL DEF Spec, VerdictsAreFair

\* A round opens MIN_ROUND_GAP_S after the one before it or later, unless a new
\* token was registered on a miss, so nobody can ask for a push (openRound).
THEOREM RoundsStayApart == Spec => RoundsApart
<1>1. ASSUME IInv, [Next]_vars
      PROVE  [\A d \in Devices :
                db[d] # NoDevice /\ db'[d] # NoDevice /\ Len(db'[d].rounds) > Len(db[d].rounds) /\ db[d].rounds # <<>>
                => db[d].check.misses > 0 \/ clock >= Last(db[d].rounds).opened + MinGap]_vars
  <2>1. ASSUME NEW d \in Devices, db[d] # NoDevice, db'[d] # NoDevice PROVE Apart(db[d], db'[d])
    <3>1. Stepped(db[d], db'[d]) BY <1>1, NextInv
    <3>2. QED BY <2>1, <3>1 DEF Stepped
  <2>2. QED BY <2>1 DEF Apart, Last
<1>2. QED BY Invariance, <1>1, PTL DEF Spec, RoundsApart
=============================================================================
