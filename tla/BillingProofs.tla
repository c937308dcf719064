---------------------------- MODULE BillingProofs ----------------------------
(***************************************************************************)
(* Theorems about Billing, for every set of accounts and events, any lists  *)
(* of the store, any number of processes and every bound.                  *)
(***************************************************************************)
EXTENDS Billing, TLAPS, FiniteSetTheorems, WellFoundedInduction

Names == Accounts \cup {NoAccount}

\* The rows of the tables, and what the reads of a process are.
LinkedRow == [account : Accounts, tier : Tiers, pack : BOOLEAN, readSeq : Nat, appliedSeq : Nat, lastEvent : Nat]
Row       == LinkedRow \cup {NoRow}
QueueRow  == [due : BOOLEAN, attempts : 0..Retries, dirty : BOOLEAN] \cup {NoQueue}
Answer    == [kind : {"list", "partial", "never"}, tier : Tiers, pack : BOOLEAN] \cup {[kind |-> "failed"]}
ReadFlight  == [seq : Nat \ {0}, linked : BOOLEAN, from : Nat, asked : Nat, follow : Nat, covers : BOOLEAN,
                answer : Answer \cup {NoAnswer}]
SweepFlight == [seq : {0}, answer : Answer \cup {NoAnswer}]
Flight(m)   == (IF m = "on" THEN ReadFlight ELSE SweepFlight) \cup {NoFlight}
Scan        == [on : BOOLEAN, at : Names, left : SUBSET Accounts, again : BOOLEAN]
Memory(m)   == [flight : [Accounts -> Flight(m)], unlinked : [Accounts -> Nat], scan : Scan]

\* What a turn of a process in mode m works on.
Turns(m) == [tier : [Accounts -> Tiers], row : [Accounts -> Row], queue : [Accounts -> QueueRow],
             mem : [Procs -> Memory(m)], held : [Accounts -> Nat], owed : [Accounts -> BOOLEAN]]

\* No account is found for a customer whose account is x, now or ever.
Lost(x) == FollowMerge(x) = NoAccount

\* The tombstones from c to x: nothing on the way is live.
Trail(c, x, S) ==
  /\ S \subseteq Accounts /\ c \in S /\ x \in S
  /\ \A y \in S \ {x} : into[y] \in S /\ into[y] # y

\* A row is with an account that its customer's own leads to.
Trails(s) == \A c \in Accounts : s.row[c] # NoRow => \E S \in SUBSET Accounts : Trail(c, s.row[c].account, S)

\* The read p has out for c, with a number of c's row or of p's own.
Out(s, p, c)  == s.mem[p].flight[c].seq # 0
Numbered(s, p, c) == Out(s, p, c) /\ s.mem[p].flight[c].linked
Early(s, p, c)    == Out(s, p, c) /\ ~s.mem[p].flight[c].linked

\* The fence: reads with higher numbers were asked for later, those without a
\* number of the row before them all, and one that may still be written was
\* asked for after the result that the row holds.
Fence(s) ==
  \A c \in Accounts :
    /\ s.held[c] <= store[c]
    /\ \A p \in Procs : Out(s, p, c) => /\ s.mem[p].flight[c].from <= store[c]
                                        /\ s.mem[p].flight[c].asked <= s.mem[p].flight[c].from
                                        /\ s.mem[p].flight[c].follow <= store[c]
    /\ s.row[c] = NoRow => \A p \in Procs : Numbered(s, p, c) => Lost(c)
    /\ s.row[c] # NoRow =>
         /\ s.row[c].appliedSeq <= s.row[c].readSeq
         /\ \A p \in Procs : Numbered(s, p, c) =>
              /\ s.mem[p].flight[c].seq <= s.row[c].readSeq
              /\ s.mem[p].flight[c].seq > s.row[c].appliedSeq => s.mem[p].flight[c].from >= s.held[c]
              /\ \A q \in Procs : /\ Early(s, q, c) => s.mem[q].flight[c].from <= s.mem[p].flight[c].from
                                  /\ Numbered(s, q, c) /\ s.mem[q].flight[c].seq < s.mem[p].flight[c].seq
                                       => s.mem[q].flight[c].from <= s.mem[p].flight[c].from

\* An event that marked a customer is on its row, unless the customer is lost.
MarkedBy(ap, f, c) == (ap[f] = "on" /\ c \in f.named) \/ (ap[f] = "off" /\ c = f.first /\ f.tier # NoTier)
Marks(ap, s) ==
  \A c \in Accounts, f \in Events : MarkedBy(ap, f, c) =>
    IF s.row[c] = NoRow THEN Lost(c) ELSE s.row[c].lastEvent >= f.at \/ Lost(s.row[c].account)

\* TierIsBacked, of a turn.
Backed(s) ==
  \A a \in Accounts : Live(a) =>
    \/ s.tier[a] = Highest(s.row, a)
    \/ \E c \in Accounts : s.row[c] # NoRow /\ s.row[c].account = a /\ ~Live(c) /\ s.row[c].tier > s.tier[a]

\* As long as no two processes ran at once, a read that is out is written.
Fresh(o, s) ==
  ~o => \A p \in Procs, c \in Accounts :
          Out(s, p, c) /\ s.row[c] # NoRow => s.mem[p].flight[c].seq > s.row[c].appliedSeq

Sound(m, ap, s)   == s \in Turns(m) /\ Trails(s) /\ Fence(s) /\ Marks(ap, s) /\ Backed(s)
Good(m, ap, o, s) == Sound(m, ap, s) /\ Fresh(o, s)

\* The variables that no turn of a read writes, and the processes.
World ==
  /\ mode \in Modes /\ rolling \in Deployments
  /\ into \in [Accounts -> Names]
  /\ applied \in [Events -> {"new", "on", "off"}]
  /\ store \in [Accounts -> Nat] /\ \A c \in Accounts : store[c] \in DOMAIN Lists[c]
  /\ proc \in [Procs -> {"new", "up", "down"}]
  /\ overlapped \in BOOLEAN

Processes ==
  /\ \A p \in Procs : ~Up(p) => mem[p] = NoMemory
  /\ mode # "on" => \A p \in Procs : mem[p].scan = NoScan
  /\ ~overlapped => \A p, q \in Procs : Up(p) /\ Up(q) => p = q

IInv == World /\ Processes /\ Good(mode, applied, overlapped, Now)

-----------------------------------------------------------------------------
(* Eight hops: a function on Names taken three times twice.                *)

Eight(h) == Twice(Twice(Twice(h)))

\* Twice a function on Names is one again.
LEMMA TwiceIs ==
  ASSUME NEW h \in [Names -> Names]
  PROVE  Twice(h) \in [Names -> Names] /\ \A x \in Names : Twice(h)[x] = h[h[x]]
BY DEF Twice

\* Eight times as well.
LEMMA EightIs ==
  ASSUME NEW h \in [Names -> Names]
  PROVE  Eight(h) \in [Names -> Names]
BY TwiceIs DEF Eight

\* Who starts in a set that the hops do not leave stays in it.
LEMMA TwiceClosed ==
  ASSUME NEW h \in [Names -> Names], NEW S \in SUBSET Names, \A y \in S : h[y] \in S
  PROVE  \A y \in S : Twice(h)[y] \in S
BY TwiceIs

\* The same for eight hops.
LEMMA EightClosed ==
  ASSUME NEW h \in [Names -> Names], NEW S \in SUBSET Names, \A y \in S : h[y] \in S
  PROVE  \A y \in S : Eight(h)[y] \in S
<1>1. Twice(h) \in [Names -> Names] /\ \A y \in S : Twice(h)[y] \in S BY TwiceIs, TwiceClosed
<1>2. Twice(Twice(h)) \in [Names -> Names] /\ \A y \in S : Twice(Twice(h))[y] \in S
  BY <1>1, TwiceIs, TwiceClosed
<1>3. QED BY <1>2, TwiceClosed DEF Eight

\* One more hop may be made before or after.
LEMMA TwiceCommutes ==
  ASSUME NEW h \in [Names -> Names], NEW f \in [Names -> Names], \A x \in Names : f[h[x]] = h[f[x]]
  PROVE  \A x \in Names : Twice(f)[h[x]] = h[Twice(f)[x]]
BY TwiceIs

\* The same for eight hops.
LEMMA EightCommutes ==
  ASSUME NEW h \in [Names -> Names]
  PROVE  \A x \in Names : Eight(h)[h[x]] = h[Eight(h)[x]]
<1>1. Twice(h) \in [Names -> Names] /\ \A x \in Names : Twice(h)[h[x]] = h[Twice(h)[x]]
  BY TwiceIs, TwiceCommutes
<1>2. /\ Twice(Twice(h)) \in [Names -> Names]
      /\ \A x \in Names : Twice(Twice(h))[h[x]] = h[Twice(Twice(h))[x]]
  BY <1>1, TwiceIs, TwiceCommutes
<1>3. QED BY <1>2, TwiceCommutes DEF Eight

\* Hops that differ only where they lead to the fixed point a ...
Bent(h, g, a) == h[a] = a /\ \A x \in Names : h[x] = g[x] \/ h[x] = a

\* ... differ after two only there.
LEMMA TwiceBent ==
  ASSUME NEW h \in [Names -> Names], NEW g \in [Names -> Names], NEW a \in Names, Bent(h, g, a)
  PROVE  Bent(Twice(h), Twice(g), a)
BY TwiceIs DEF Bent

\* The same for eight hops.
LEMMA EightBent ==
  ASSUME NEW h \in [Names -> Names], NEW g \in [Names -> Names], NEW a \in Names, Bent(h, g, a)
  PROVE  Bent(Eight(h), Eight(g), a)
<1>1. Twice(h) \in [Names -> Names] /\ Twice(g) \in [Names -> Names] /\ Bent(Twice(h), Twice(g), a)
  BY TwiceIs, TwiceBent
<1>2. /\ Twice(Twice(h)) \in [Names -> Names] /\ Twice(Twice(g)) \in [Names -> Names]
      /\ Bent(Twice(Twice(h)), Twice(Twice(g)), a)
  BY <1>1, TwiceIs, TwiceBent
<1>3. QED BY <1>2, TwiceBent DEF Eight

\* Hops of which some now lead nowhere ...
CutOff(h, g) == g[NoAccount] = NoAccount /\ \A x \in Names : g[x] = h[x] \/ g[x] = NoAccount

\* ... lead after two to where they led, or nowhere.
LEMMA TwiceCut ==
  ASSUME NEW h \in [Names -> Names], NEW g \in [Names -> Names], CutOff(h, g)
  PROVE  CutOff(Twice(h), Twice(g))
<1>1. NoAccount \in Names BY DEF Names
<1>2. QED BY <1>1, TwiceIs DEF CutOff

\* The same for eight hops.
LEMMA EightCut ==
  ASSUME NEW h \in [Names -> Names], NEW g \in [Names -> Names], CutOff(h, g)
  PROVE  CutOff(Eight(h), Eight(g))
<1>1. Twice(h) \in [Names -> Names] /\ Twice(g) \in [Names -> Names] /\ CutOff(Twice(h), Twice(g))
  BY TwiceIs, TwiceCut
<1>2. /\ Twice(Twice(h)) \in [Names -> Names] /\ Twice(Twice(g)) \in [Names -> Names]
      /\ CutOff(Twice(Twice(h)), Twice(Twice(g)))
  BY <1>1, TwiceIs, TwiceCut
<1>3. QED BY <1>2, TwiceCut DEF Eight

\* Where eight hops end, if they do.
End(h, x) == IF h[Eight(h)[x]] = Eight(h)[x] THEN Eight(h)[x] ELSE NoAccount

\* FollowMerge is that, of the hops of this state.
LEMMA MergeEnds == \A x : FollowMerge(x) = End(Hop, x)
BY DEF FollowMerge, End, Eight

\* A customer who is live is not moved, and whoever is found is live.
LEMMA EndFacts ==
  ASSUME NEW h \in [Names -> Names], h[NoAccount] = NoAccount, NEW x \in Names
  PROVE  /\ End(h, x) \in Names /\ h[End(h, x)] = End(h, x)
         /\ h[x] = x => End(h, x) = x
         /\ End(h, x) # NoAccount => End(h, h[x]) = End(h, x)
<1>1. NoAccount \in Names BY DEF Names
<1>2. Eight(h)[x] \in Names BY EightIs
<1>3. End(h, x) \in Names /\ h[End(h, x)] = End(h, x) BY <1>1, <1>2 DEF End
<1>4. ASSUME h[x] = x PROVE End(h, x) = x
  <2>1. PICK S \in SUBSET Names : S = {x} OBVIOUS
  <2>2. Eight(h)[x] = x BY <1>4, <2>1, EightClosed
  <2>3. QED BY <1>4, <2>2 DEF End
<1>5. ASSUME End(h, x) # NoAccount PROVE End(h, h[x]) = End(h, x)
  <2>1. h[Eight(h)[x]] = Eight(h)[x] BY <1>5 DEF End
  <2>2. Eight(h)[h[x]] = Eight(h)[x] BY <2>1, EightCommutes
  <2>3. QED BY <2>1, <2>2 DEF End
<1>6. QED BY <1>3, <1>4, <1>5

\* Hops that stay in a set whose only fixed point is NoAccount end nowhere.
LEMMA EndNowhere ==
  ASSUME NEW h \in [Names -> Names], NEW S \in SUBSET Names, NEW x \in S,
         \A y \in S : h[y] \in S /\ (h[y] = y => y = NoAccount)
  PROVE  End(h, x) = NoAccount
<1>1. Eight(h)[x] \in S BY EightClosed
<1>2. QED BY <1>1 DEF End

-----------------------------------------------------------------------------
(* Accounts that lead to others.                                           *)

HopsOf(i) == [x \in Names |-> IF x = NoAccount THEN x ELSE i[x]]

\* The hops are a function on Names, in every state.
LEMMA HopsAre ==
  ASSUME NEW i \in [Accounts -> Names]
  PROVE  /\ HopsOf(i) \in [Names -> Names] /\ HopsOf(i)[NoAccount] = NoAccount
         /\ \A x \in Accounts : HopsOf(i)[x] = i[x]
         /\ NoAccount \in Names /\ NoAccount \notin Accounts
BY BillingAssumption DEF HopsOf, Names

\* FollowMerge is where the hops of this state end.
LEMMA MergeOf == \A x : FollowMerge(x) = End(HopsOf(into), x)
BY MergeEnds DEF Hop, HopsOf, Names

\* And the same of the next state.
LEMMA MergeOfNext == \A x : FollowMerge(x)' = End(HopsOf(into'), x)
BY DEF FollowMerge, Hop, HopsOf, Names, End, Eight

\* Whoever is found is live, a live account is found at once, and every
\* tombstone on the way finds the same.
LEMMA MergeFacts ==
  ASSUME into \in [Accounts -> Names], NEW x \in Names
  PROVE  /\ FollowMerge(x) \in Names
         /\ FollowMerge(x) # NoAccount => FollowMerge(x) \in Accounts /\ Live(FollowMerge(x))
         /\ x \in Accounts /\ Live(x) => FollowMerge(x) = x
         /\ x \in Accounts /\ FollowMerge(x) # NoAccount =>
              into[x] \in Accounts /\ FollowMerge(into[x]) = FollowMerge(x)
         /\ FollowMerge(NoAccount) = NoAccount
<1>1. PICK h \in [Names -> Names] : h = HopsOf(into) BY HopsAre
<1>2. /\ h[NoAccount] = NoAccount /\ \A y \in Accounts : h[y] = into[y]
      /\ NoAccount \in Names /\ NoAccount \notin Accounts
  BY <1>1, HopsAre
<1>3. \A y : FollowMerge(y) = End(h, y) BY <1>1, MergeOf
<1>4. End(h, x) \in Names /\ h[End(h, x)] = End(h, x) BY <1>2, EndFacts
<1>5. h[x] = x => End(h, x) = x BY <1>2, EndFacts
<1>6. End(h, x) # NoAccount => End(h, h[x]) = End(h, x) BY <1>2, EndFacts
<1>7. End(h, NoAccount) = NoAccount BY <1>2, EndFacts
<1>8. ASSUME x \in Accounts, FollowMerge(x) # NoAccount
      PROVE  into[x] \in Accounts /\ FollowMerge(into[x]) = FollowMerge(x)
  <2>1. End(h, into[x]) = End(h, x) BY <1>2, <1>3, <1>6, <1>8
  <2>2. into[x] \in Names BY <1>8
  <2>3. into[x] # NoAccount BY <2>1, <1>3, <1>7, <1>8
  <2>4. QED BY <2>1, <2>2, <2>3, <1>3 DEF Names
<1>9. QED BY <1>2, <1>3, <1>4, <1>5, <1>7, <1>8 DEF Names, Live

\* One account is joined into another: a joins b.
Joined(a, b) ==
  /\ a \in Accounts /\ b \in Accounts /\ a # b /\ Live(a) /\ Live(b)
  /\ into' \in [Accounts -> Names] /\ into'[b] = b
  /\ \A x \in Accounts : into'[x] = into[x] \/ (into[x] = a /\ into'[x] = b)

\* A family is erased.
Erased(F) ==
  /\ F \subseteq Accounts
  /\ into' = [x \in Accounts |-> IF x \in F THEN NoAccount ELSE into[x]]

\* Who is lost stays lost when accounts are joined.
LEMMA JoinedLost ==
  ASSUME into \in [Accounts -> Names], NEW a, NEW b, Joined(a, b), NEW x \in Names, Lost(x)
  PROVE  Lost(x)'
<1>1. PICK h \in [Names -> Names] : h = HopsOf(into) BY HopsAre
<1>2. PICK g \in [Names -> Names] : g = HopsOf(into') BY HopsAre DEF Joined
<1>3. /\ h[NoAccount] = NoAccount /\ g[NoAccount] = NoAccount /\ NoAccount \in Names
      /\ NoAccount \notin Accounts
      /\ \A y \in Accounts : h[y] = into[y] /\ g[y] = into'[y]
  BY <1>1, <1>2, HopsAre DEF Joined
<1>4. a \in Accounts /\ b \in Accounts /\ a \in Names /\ h[a] = a /\ h[b] = b /\ a # b
  BY <1>3 DEF Joined, Live, Names
<1>5. Bent(h, g, a) BY <1>3, <1>4 DEF Bent, Joined, Names
<1>6. Bent(Eight(h), Eight(g), a) BY <1>4, <1>5, EightBent
<1>7. Eight(h)[x] \in Names /\ Eight(g)[x] \in Names BY EightIs
<1>8. h[Eight(h)[x]] = Eight(h)[x] => Eight(h)[x] = NoAccount
  BY <1>1, MergeOf DEF Lost, End
<1>9. Eight(h)[x] # a BY <1>3, <1>4, <1>8
<1>10. Eight(h)[x] = Eight(g)[x] BY <1>6, <1>9 DEF Bent
<1>11. ASSUME g[Eight(g)[x]] = Eight(g)[x] PROVE Eight(g)[x] = NoAccount
  <2>1. PICK y \in Names : y = Eight(g)[x] BY <1>7
  <2>2. g[y] = y /\ Eight(h)[x] = y BY <1>10, <1>11, <2>1
  <2>3. CASE y = NoAccount BY <2>1, <2>3
  <2>4. CASE y \in Accounts
    <3>1. into'[y] = y BY <1>3, <2>2, <2>4
    <3>2. into[y] = y \/ (into[y] = a /\ y = b) BY <3>1, <2>4 DEF Joined
    <3>3. into[y] = y BY <3>2, <1>3, <1>4
    <3>4. h[y] = y BY <3>3, <1>3, <2>4
    <3>5. QED BY <3>4, <2>1, <2>2, <1>8
  <2>5. QED BY <2>3, <2>4 DEF Names
<1>12. End(g, x) = NoAccount BY <1>11 DEF End
<1>13. FollowMerge(x)' = NoAccount BY <1>12, <1>2, MergeOfNext
<1>14. QED BY <1>13 DEF Lost

\* Who is lost stays lost when a family is erased.
LEMMA ErasedLost ==
  ASSUME into \in [Accounts -> Names], NEW F, Erased(F), NEW x \in Names, Lost(x)
  PROVE  Lost(x)'
<1>0. into' \in [Accounts -> Names] BY DEF Erased, Names
<1>1. PICK h \in [Names -> Names] : h = HopsOf(into) BY HopsAre
<1>2. PICK g \in [Names -> Names] : g = HopsOf(into') BY <1>0, HopsAre
<1>3. /\ h[NoAccount] = NoAccount /\ g[NoAccount] = NoAccount /\ NoAccount \in Names
      /\ \A y \in Accounts : h[y] = into[y] /\ g[y] = into'[y]
  BY <1>0, <1>1, <1>2, HopsAre
<1>4. \A y \in Names : g[y] = h[y] \/ g[y] = NoAccount
  <2> SUFFICES ASSUME NEW y \in Names PROVE g[y] = h[y] \/ g[y] = NoAccount OBVIOUS
  <2>1. CASE y \in Accounts BY <2>1, <1>3 DEF Erased
  <2>2. CASE y = NoAccount BY <2>2, <1>3
  <2>3. QED BY <2>1, <2>2 DEF Names
<1>5. CutOff(Eight(h), Eight(g)) BY <1>3, <1>4, EightCut DEF CutOff
<1>6. Eight(h)[x] \in Names /\ Eight(g)[x] \in Names BY EightIs
<1>7. h[Eight(h)[x]] = Eight(h)[x] => Eight(h)[x] = NoAccount
  BY <1>1, MergeOf DEF Lost, End
<1>8. ASSUME g[Eight(g)[x]] = Eight(g)[x], Eight(g)[x] # NoAccount PROVE FALSE
  <2>1. PICK y \in Names : y = Eight(g)[x] BY <1>6
  <2>2. Eight(h)[x] = y BY <2>1, <1>5, <1>8 DEF CutOff
  <2>3. h[y] = y BY <2>1, <1>4, <1>8
  <2>4. QED BY <2>1, <2>2, <2>3, <1>7, <1>8
<1>9. End(g, x) = NoAccount BY <1>8 DEF End
<1>10. FollowMerge(x)' = NoAccount BY <1>9, <1>2, MergeOfNext
<1>11. QED BY <1>10 DEF Lost

-----------------------------------------------------------------------------
(* Trails: the tombstones on the way to an account.                        *)

\* The accounts that find a.
Finders(a) == {y \in Accounts : FollowMerge(y) = a}

\* A customer has a trail to the account found for it.
LEMMA TrailFound ==
  ASSUME into \in [Accounts -> Names], NEW c \in Accounts, FollowMerge(c) # NoAccount
  PROVE  FollowMerge(c) \in Accounts /\ \E S \in SUBSET Accounts : Trail(c, FollowMerge(c), S)
<1>1. PICK a \in Accounts : a = FollowMerge(c) /\ Live(a) BY MergeFacts DEF Names
<1>2. PICK S \in SUBSET Accounts : S = Finders(a) BY DEF Finders
<1>3. c \in S BY <1>1, <1>2 DEF Finders
<1>4. a \in S BY <1>1, <1>2, MergeFacts DEF Finders, Names
<1>5. ASSUME NEW y \in S \ {a} PROVE into[y] \in S /\ into[y] # y
  <2>1. y \in Names /\ FollowMerge(y) = a /\ a # NoAccount BY <1>1, <1>2, <1>5 DEF Finders, Names
  <2>2. into[y] \in Accounts /\ FollowMerge(into[y]) = a BY <2>1, <1>5, MergeFacts
  <2>3. ASSUME into[y] = y PROVE FALSE
    <3>1. FollowMerge(y) = y BY <2>1, <2>3, <1>5, MergeFacts DEF Live
    <3>2. QED BY <3>1, <2>1, <1>5
  <2>4. QED BY <2>2, <2>3, <1>2 DEF Finders
<1>6. Trail(c, a, S) BY <1>3, <1>4, <1>5 DEF Trail
<1>7. QED BY <1>1, <1>6

\* One that ends on a tombstone goes on to the account found for that one.
LEMMA TrailGoesOn ==
  ASSUME into \in [Accounts -> Names], NEW c \in Accounts, NEW x \in Accounts,
         NEW S \in SUBSET Accounts, Trail(c, x, S), FollowMerge(x) # NoAccount
  PROVE  FollowMerge(x) \in Accounts /\ \E T \in SUBSET Accounts : Trail(c, FollowMerge(x), T)
<1>1. PICK U \in SUBSET Accounts : Trail(x, FollowMerge(x), U) BY TrailFound
<1>2. FollowMerge(x) \in Accounts BY TrailFound
<1>3. PICK T \in SUBSET Accounts : T = S \cup U OBVIOUS
<1>4. Trail(c, FollowMerge(x), T) BY <1>1, <1>3 DEF Trail
<1>5. QED BY <1>2, <1>4

\* A live customer's trail leads nowhere else.
LEMMA TrailLive ==
  ASSUME NEW c \in Accounts, NEW x, NEW S, Trail(c, x, S), Live(c)
  PROVE  x = c
BY DEF Trail, Live

\* An account that is attached to another ends no trail it was not the end of.
LEMMA TrailAttached ==
  ASSUME into \in [Accounts -> Names], NEW a \in Accounts, NEW b \in Accounts, Live(a),
         into' = [into EXCEPT ![a] = b],
         NEW c, NEW x, NEW S, Trail(c, x, S)
  PROVE  Trail(c, x, S)'
<1>1. ASSUME NEW y \in S \ {x} PROVE into'[y] \in S /\ into'[y] # y
  BY <1>1 DEF Trail, Live
<1>2. QED BY <1>1 DEF Trail

\* A trail to an account that is merged leads to the target, and every other
\* one is as it was.
LEMMA TrailMerged ==
  ASSUME into \in [Accounts -> Names], NEW a \in Accounts, NEW b \in Accounts, a # b, Live(a), Live(b),
         into' = [y \in Accounts |-> IF into[y] = a THEN b ELSE into[y]],
         NEW c, NEW x, NEW S, Trail(c, x, S)
  PROVE  /\ x # a => Trail(c, x, S)'
         /\ x = a => \E T \in SUBSET Accounts : Trail(c, b, T)'
<1>1. ASSUME NEW y \in S \ {x} PROVE y \in Accounts /\ y # a /\ y # b /\ into[y] \in S /\ into[y] # y
  BY <1>1 DEF Trail, Live
<1>2. ASSUME x # a PROVE Trail(c, x, S)'
  <2>1. a \notin S BY <1>1, <1>2
  <2>2. ASSUME NEW y \in S \ {x} PROVE into'[y] \in S /\ into'[y] # y BY <1>1, <2>1, <2>2
  <2>3. QED BY <2>2 DEF Trail
<1>3. ASSUME x = a PROVE \E T \in SUBSET Accounts : Trail(c, b, T)'
  <2>1. PICK T \in SUBSET Accounts : T = S \cup {b} BY DEF Trail
  <2>2. c \in T /\ b \in T BY <2>1 DEF Trail
  <2>3. ASSUME NEW y \in T \ {b} PROVE into'[y] \in T /\ into'[y] # y
    <3>1. CASE y = a BY <3>1, <2>1 DEF Live
    <3>2. CASE y # a
      <4>1. y \in S \ {x} BY <3>2, <2>1, <2>3, <1>3
      <4>2. into'[y] = into[y] \/ into'[y] = b BY <4>1, <1>1
      <4>3. QED BY <4>1, <4>2, <1>1, <2>1
    <3>3. QED BY <3>1, <3>2
  <2>4. Trail(c, b, T)' BY <2>2, <2>3 DEF Trail
  <2>5. QED BY <2>4
<1>4. QED BY <1>2, <1>3

\* A trail to an account that is not of the family erased does not meet it.
LEMMA TrailErased ==
  ASSUME into \in [Accounts -> Names], NEW a \in Accounts, Live(a), Erased(Finders(a)),
         NEW c, NEW x, NEW S, Trail(c, x, S), x \notin Finders(a)
  PROVE  Trail(c, x, S)'
<1>1. PICK U : U = S \cap Finders(a) OBVIOUS
<1>2. ASSUME NEW y \in U PROVE into[y] \in U
  <2>1. y \in Accounts /\ y \in S /\ y # x /\ FollowMerge(y) = a BY <1>1, <1>2 DEF Finders
  <2>2. a # NoAccount BY BillingAssumption
  <2>3. into[y] \in Accounts /\ FollowMerge(into[y]) = a BY <2>1, <2>2, MergeFacts DEF Names
  <2>4. into[y] \in S BY <2>1 DEF Trail
  <2>5. QED BY <2>3, <2>4, <1>1 DEF Finders
<1>3. ASSUME NEW y \in U PROVE FALSE
  <2>1. PICK h \in [Names -> Names] : h = HopsOf(into) BY HopsAre
  <2>2. U \in SUBSET Names /\ \A z \in U : h[z] \in U
    <3>1. \A z \in U : z \in Accounts BY <1>1 DEF Finders
    <3>2. QED BY <1>2, <2>1, <3>1, HopsAre DEF Names
  <2>3. Eight(h)[y] \in U BY <2>2, EightClosed
  <2>4. FollowMerge(y) = a /\ a # NoAccount BY <1>1, BillingAssumption DEF Finders
  <2>5. Eight(h)[y] = a BY <2>1, <2>4, MergeOf DEF End
  <2>6. a \in S /\ a # x BY <2>3, <2>5, <1>1
  <2>7. QED BY <2>6 DEF Trail, Live
<1>4. ASSUME NEW y \in S \ {x} PROVE into'[y] \in S /\ into'[y] # y
  <2>1. y \in Accounts /\ y \notin Finders(a) BY <1>1, <1>3, <1>4 DEF Trail
  <2>2. into'[y] = into[y] BY <2>1 DEF Erased
  <2>3. QED BY <2>2, <1>4 DEF Trail
<1>5. QED BY <1>4 DEF Trail

\* A customer whose trail ends in the family erased is lost.
LEMMA TrailLost ==
  ASSUME into \in [Accounts -> Names], NEW F, Erased(F), NEW c, NEW x \in F, NEW S, Trail(c, x, S)
  PROVE  Lost(c)'
<1>0. into' \in [Accounts -> Names] BY DEF Erased, Names
<1>1. PICK g \in [Names -> Names] : g = HopsOf(into') BY <1>0, HopsAre
<1>2. g[NoAccount] = NoAccount /\ NoAccount \in Names /\ \A y \in Accounts : g[y] = into'[y]
  BY <1>0, <1>1, HopsAre
<1>3. PICK U : U = S \cup {NoAccount} OBVIOUS
<1>4. U \in SUBSET Names /\ c \in U BY <1>3 DEF Trail, Names
<1>5. ASSUME NEW y \in U PROVE g[y] \in U /\ (g[y] = y => y = NoAccount)
  <2>1. CASE y = NoAccount BY <2>1, <1>2, <1>3
  <2>2. CASE y = x
    <3>1. into'[y] = NoAccount /\ y \in Accounts BY <2>2 DEF Erased
    <3>2. QED BY <3>1, <1>2, <1>3
  <2>3. CASE y # x /\ y # NoAccount
    <3>1. y \in S \ {x} /\ y \in Accounts BY <2>3, <1>3, <1>5 DEF Trail
    <3>2. into[y] \in S /\ into[y] # y BY <3>1 DEF Trail
    <3>3. into'[y] = into[y] \/ into'[y] = NoAccount BY <3>1 DEF Erased
    <3>4. QED BY <3>1, <3>2, <3>3, <1>2, <1>3
  <2>4. QED BY <2>1, <2>2, <2>3
<1>6. End(g, c) = NoAccount BY <1>4, <1>5, EndNowhere
<1>7. FollowMerge(c)' = NoAccount BY <1>1, <1>6, MergeOfNext
<1>8. QED BY <1>7 DEF Lost

-----------------------------------------------------------------------------
(* The highest tier that the rows of an account pay for.                   *)

\* A set of tiers has a highest.
LEMMA HighestTier ==
  ASSUME NEW T, T \subseteq Tiers, T # {}
  PROVE  Max(T) \in T /\ \A y \in T : Max(T) >= y
<1> DEFINE R == OpToRel(<, Nat)
           Over == {n \in Nat : \A y \in T : n >= y}
<1>1. TopTier \in Nat /\ \A y \in T : y \in 0..TopTier BY BillingAssumption DEF Tiers
<1>2. TopTier \in Over BY <1>1
<1>3. PICK n \in Over : \A m \in Over : ~ (<<m, n>> \in R)
  <2>1. IsWellFoundedOn(R, Nat) BY NatLessThanWellFounded
  <2>2. Over \subseteq Nat /\ Over # {} BY <1>2
  <2> HIDE DEF R, Over
  <2>3. QED BY <2>1, <2>2, WFMin
<1>4. n \in Nat /\ \A y \in T : n >= y OBVIOUS
<1>5. n \in T
  <2> SUFFICES ASSUME n \notin T PROVE FALSE OBVIOUS
  <2>1. PICK z \in T : TRUE OBVIOUS
  <2>2. n # 0
    <3>1. z \in Nat /\ n >= z /\ z # n BY <1>1, <1>4
    <3>2. QED BY <3>1, <1>4
  <2>3. n - 1 \in Nat BY <1>4, <2>2
  <2>4. \A y \in T : n - 1 >= y
    <3> SUFFICES ASSUME NEW y \in T PROVE n - 1 >= y OBVIOUS
    <3>1. y \in Nat /\ n >= y /\ y # n BY <1>1, <1>4
    <3>2. QED BY <3>1, <1>4
  <2>5. n - 1 \in Over BY <2>3, <2>4
  <2>6. n - 1 < n BY <1>4
  <2>7. <<n - 1, n>> \in R BY <1>4, <2>3, <2>6 DEF OpToRel
  <2>8. QED BY <1>3, <2>5, <2>7
<1>6. \E x \in T : \A y \in T : x >= y BY <1>4, <1>5
<1>7. QED BY <1>6 DEF Max

\* Highest is a tier, no lower than that of any row of the account, and the
\* tier of one of them unless it is 0.
LEMMA HighestIs ==
  ASSUME NEW r \in [Accounts -> Row], NEW a \in Accounts
  PROVE  /\ Highest(r, a) \in Tiers
         /\ \A c \in Accounts : r[c] # NoRow /\ r[c].account = a => Highest(r, a) >= r[c].tier
         /\ Highest(r, a) # 0 =>
              \E c \in Accounts : r[c] # NoRow /\ r[c].account = a /\ r[c].tier = Highest(r, a)
<1>1. PICK C : C = {x \in Accounts : r[x] # NoRow /\ r[x].account = a} OBVIOUS
<1>2. PICK T : T = {0} \cup {r[c].tier : c \in C} OBVIOUS
<1>3. \A c \in C : r[c].tier \in Tiers BY <1>1 DEF Row, LinkedRow
<1>4. 0 \in Tiers BY BillingAssumption DEF Tiers
<1>5. T \subseteq Tiers /\ T # {} BY <1>2, <1>3, <1>4
<1>6. Max(T) \in T /\ \A y \in T : Max(T) >= y BY <1>5, HighestTier
<1>7. Highest(r, a) = Max(T) BY <1>1, <1>2 DEF Highest
<1>8. QED BY <1>1, <1>2, <1>5, <1>6, <1>7

-----------------------------------------------------------------------------
(* What a turn works on, changed one field after the other.                *)

\* The processes but p are as they were.
Others(s, t, p) == \A q \in Procs \ {p} : t.mem[q] = s.mem[q]

\* A step that writes no result and touches no read: the queue, the numbers of
\* unlinked customers, the scan of p.
Quiet(s, t, p) ==
  /\ t.tier = s.tier /\ t.row = s.row /\ t.held = s.held
  /\ t.mem[p].flight = s.mem[p].flight /\ Others(s, t, p)

\* A step that changes, of what processes hold, one flight only.
OneFlight(s, t, p, c, x) ==
  /\ t.tier = s.tier /\ t.row = s.row /\ t.held = s.held
  /\ t.mem[p].flight = [s.mem[p].flight EXCEPT ![c] = x] /\ Others(s, t, p)

\* A row is written.
LEMMA SetRowIs ==
  ASSUME NEW m, NEW s \in Turns(m), NEW c \in Accounts, NEW x \in Row, NEW t, t = SetRow(s, c, x)
  PROVE  /\ t \in Turns(m)
         /\ t.row = [s.row EXCEPT ![c] = x]
         /\ t.tier = s.tier /\ t.queue = s.queue /\ t.mem = s.mem /\ t.held = s.held /\ t.owed = s.owed
<1>1. PICK rs \in [Accounts -> Row] : rs = [s.row EXCEPT ![c] = x] BY DEF Turns
<1>2. t = [s EXCEPT !.row = rs] BY <1>1 DEF SetRow
<1>3. t \in Turns(m) BY <1>2 DEF Turns
<1>4. QED BY <1>1, <1>2, <1>3 DEF Turns

\* An entry of the queue is written.
LEMMA SetQueueIs ==
  ASSUME NEW m, NEW s \in Turns(m), NEW c \in Accounts, NEW x \in QueueRow, NEW t, t = SetQueue(s, c, x)
  PROVE  /\ t \in Turns(m)
         /\ t.queue = [s.queue EXCEPT ![c] = x]
         /\ t.row = s.row /\ t.tier = s.tier /\ t.mem = s.mem /\ t.held = s.held /\ t.owed = s.owed
<1>1. PICK rs \in [Accounts -> QueueRow] : rs = [s.queue EXCEPT ![c] = x] BY DEF Turns
<1>2. t = [s EXCEPT !.queue = rs] BY <1>1 DEF SetQueue
<1>3. t \in Turns(m) BY <1>2 DEF Turns
<1>4. QED BY <1>1, <1>2, <1>3 DEF Turns

\* What a process holds is written.
SetMem(s, p, k) == [s EXCEPT !.mem[p] = k]

\* What the others hold is as it was.
LEMMA SetMemIs ==
  ASSUME NEW m, NEW s \in Turns(m), NEW p \in Procs, NEW k \in Memory(m), NEW t, t = SetMem(s, p, k)
  PROVE  /\ t \in Turns(m)
         /\ t.mem = [s.mem EXCEPT ![p] = k]
         /\ t.row = s.row /\ t.tier = s.tier /\ t.queue = s.queue /\ t.held = s.held /\ t.owed = s.owed
<1>1. PICK ms \in [Procs -> Memory(m)] : ms = [s.mem EXCEPT ![p] = k] BY DEF Turns
<1>2. t = [s EXCEPT !.mem = ms] BY <1>1 DEF SetMem
<1>3. t \in Turns(m) BY <1>2 DEF Turns
<1>4. QED BY <1>1, <1>2, <1>3 DEF Turns

\* A flight of p is written.
LEMMA SetFlightIs ==
  ASSUME NEW m, NEW s \in Turns(m), NEW p \in Procs, NEW c \in Accounts, NEW x \in Flight(m),
         NEW t, t = SetFlight(s, p, c, x)
  PROVE  /\ t \in Turns(m)
         /\ OneFlight(s, t, p, c, x)
         /\ t.mem[p].unlinked = s.mem[p].unlinked /\ t.mem[p].scan = s.mem[p].scan
         /\ t.queue = s.queue /\ t.owed = s.owed
<1>1. s.mem[p] \in Memory(m) /\ s.mem \in [Procs -> Memory(m)] BY DEF Turns
<1>2. PICK fs \in [Accounts -> Flight(m)] : fs = [s.mem[p].flight EXCEPT ![c] = x] BY <1>1 DEF Memory
<1>3. PICK k : k = [s.mem[p] EXCEPT !.flight = fs] OBVIOUS
<1>4. k \in Memory(m) /\ k.flight = fs /\ k.unlinked = s.mem[p].unlinked /\ k.scan = s.mem[p].scan
  BY <1>1, <1>3 DEF Memory
<1>5. t = SetMem(s, p, k) BY <1>2, <1>3 DEF SetFlight, SetMem
<1>6. /\ t \in Turns(m)
      /\ t.mem = [s.mem EXCEPT ![p] = k]
      /\ t.row = s.row /\ t.tier = s.tier /\ t.queue = s.queue /\ t.held = s.held /\ t.owed = s.owed
  BY <1>4, <1>5, SetMemIs
<1>7. t.mem[p] = k /\ \A q \in Procs \ {p} : t.mem[q] = s.mem[q] BY <1>1, <1>6
<1>8. QED BY <1>2, <1>4, <1>6, <1>7 DEF OneFlight, Others

\* The number of an unlinked customer is written.
LEMMA SetUnlinkedIs ==
  ASSUME NEW m, NEW s \in Turns(m), NEW p \in Procs, NEW c \in Accounts, NEW n \in Nat,
         NEW t, t = SetUnlinked(s, p, c, n)
  PROVE  /\ t \in Turns(m)
         /\ Quiet(s, t, p)
         /\ t.mem[p].unlinked = [s.mem[p].unlinked EXCEPT ![c] = n] /\ t.mem[p].scan = s.mem[p].scan
         /\ t.queue = s.queue /\ t.owed = s.owed
<1>1. s.mem[p] \in Memory(m) /\ s.mem \in [Procs -> Memory(m)] BY DEF Turns
<1>2. PICK us \in [Accounts -> Nat] : us = [s.mem[p].unlinked EXCEPT ![c] = n] BY <1>1 DEF Memory
<1>3. PICK k : k = [s.mem[p] EXCEPT !.unlinked = us] OBVIOUS
<1>4. k \in Memory(m) /\ k.flight = s.mem[p].flight /\ k.unlinked = us /\ k.scan = s.mem[p].scan
  BY <1>1, <1>3 DEF Memory
<1>5. t = SetMem(s, p, k) BY <1>2, <1>3 DEF SetUnlinked, SetMem
<1>6. /\ t \in Turns(m)
      /\ t.mem = [s.mem EXCEPT ![p] = k]
      /\ t.row = s.row /\ t.tier = s.tier /\ t.queue = s.queue /\ t.held = s.held /\ t.owed = s.owed
  BY <1>4, <1>5, SetMemIs
<1>7. t.mem[p] = k /\ \A q \in Procs \ {p} : t.mem[q] = s.mem[q] BY <1>1, <1>6
<1>8. QED BY <1>2, <1>4, <1>6, <1>7 DEF Quiet, Others

\* The scan of p is written.
LEMMA SetScanIs ==
  ASSUME NEW m, NEW s \in Turns(m), NEW p \in Procs, NEW x \in Scan, NEW t, t = SetScan(s, p, x)
  PROVE  /\ t \in Turns(m)
         /\ Quiet(s, t, p)
         /\ t.mem[p].unlinked = s.mem[p].unlinked /\ t.mem[p].scan = x
         /\ t.queue = s.queue /\ t.owed = s.owed
<1>1. s.mem[p] \in Memory(m) /\ s.mem \in [Procs -> Memory(m)] BY DEF Turns
<1>2. PICK k : k = [s.mem[p] EXCEPT !.scan = x] OBVIOUS
<1>3. k \in Memory(m) /\ k.flight = s.mem[p].flight /\ k.unlinked = s.mem[p].unlinked /\ k.scan = x
  BY <1>1, <1>2 DEF Memory
<1>4. t = SetMem(s, p, k) BY <1>2 DEF SetScan, SetMem
<1>5. /\ t \in Turns(m)
      /\ t.mem = [s.mem EXCEPT ![p] = k]
      /\ t.row = s.row /\ t.tier = s.tier /\ t.queue = s.queue /\ t.held = s.held /\ t.owed = s.owed
  BY <1>3, <1>4, SetMemIs
<1>6. t.mem[p] = k /\ \A q \in Procs \ {p} : t.mem[q] = s.mem[q] BY <1>1, <1>5
<1>7. QED BY <1>3, <1>5, <1>6 DEF Quiet, Others

\* An entry of the queue as the dirty mark is taken off.
Clean(q) == IF q = NoQueue THEN q ELSE [q EXCEPT !.dirty = FALSE]

\* Entries of the queue stay entries.
LEMMA QueueRows ==
  ASSUME NEW q \in QueueRow
  PROVE  Clean(q) \in QueueRow /\ Dirtied(q) \in QueueRow
<1>1. CASE q = NoQueue
  <2>1. Retries \in Nat BY BillingAssumption
  <2>2. Dirtied(q) = [due |-> TRUE, attempts |-> 0, dirty |-> TRUE] BY <1>1 DEF Dirtied
  <2>3. QED BY <1>1, <2>1, <2>2 DEF Clean, QueueRow
<1>2. CASE q # NoQueue
  <2>1. q \in [due : BOOLEAN, attempts : 0..Retries, dirty : BOOLEAN] BY <1>2 DEF QueueRow
  <2>2. Clean(q) \in [due : BOOLEAN, attempts : 0..Retries, dirty : BOOLEAN] BY <1>2, <2>1 DEF Clean
  <2>3. Dirtied(q) \in [due : BOOLEAN, attempts : 0..Retries, dirty : BOOLEAN] BY <1>2, <2>1 DEF Dirtied
  <2>4. QED BY <2>2, <2>3 DEF QueueRow
<1>3. QED BY <1>1, <1>2

\* The queue is written: whichever entry, no read notices.
LEMMA QueueIsQuiet ==
  ASSUME NEW m, NEW s \in Turns(m), NEW p, NEW c \in Accounts, NEW x \in QueueRow,
         NEW t, t = SetQueue(s, c, x)
  PROVE  t \in Turns(m) /\ Quiet(s, t, p) /\ t.mem = s.mem
<1>1. /\ t \in Turns(m)
      /\ t.queue = [s.queue EXCEPT ![c] = x]
      /\ t.row = s.row /\ t.tier = s.tier /\ t.mem = s.mem /\ t.held = s.held /\ t.owed = s.owed
  BY SetQueueIs
<1>2. QED BY <1>1 DEF Quiet, Others

\* The dirty mark is taken off.
LEMMA TakeDirtyIs ==
  ASSUME NEW m, NEW s \in Turns(m), NEW p, NEW c \in Accounts, NEW t, t = TakeDirty(s, c)
  PROVE  t \in Turns(m) /\ Quiet(s, t, p) /\ t.mem = s.mem
<1>1. s.queue[c] \in QueueRow BY DEF Turns
<1>2. PICK x \in QueueRow : x = Clean(s.queue[c]) BY <1>1, QueueRows
<1>3. t = SetQueue(s, c, x) BY <1>2 DEF TakeDirty, SetQueue, Clean
<1>4. QED BY <1>3, QueueIsQuiet

\* The dirty mark is put on.
LEMMA MarkDirtyIs ==
  ASSUME NEW m, NEW s \in Turns(m), NEW p, NEW c \in Accounts, NEW t, t = MarkDirty(s, c)
  PROVE  t \in Turns(m) /\ Quiet(s, t, p) /\ t.mem = s.mem
<1>1. s.queue[c] \in QueueRow BY DEF Turns
<1>2. PICK x \in QueueRow : x = Dirtied(s.queue[c]) BY <1>1, QueueRows
<1>3. t = SetQueue(s, c, x) BY <1>2 DEF MarkDirty, SetQueue
<1>4. QED BY <1>3, QueueIsQuiet

\* The history of triggers is written.
SetOwed(s, c, b) == [s EXCEPT !.owed[c] = b]

\* The turn keeps everything else.
LEMMA SetOwedIs ==
  ASSUME NEW m, NEW s \in Turns(m), NEW p, NEW c \in Accounts, NEW b \in BOOLEAN, NEW t, t = SetOwed(s, c, b)
  PROVE  t \in Turns(m) /\ Quiet(s, t, p) /\ t.mem = s.mem
<1>1. PICK os \in [Accounts -> BOOLEAN] : os = [s.owed EXCEPT ![c] = b] BY DEF Turns
<1>2. t = [s EXCEPT !.owed = os] BY <1>1 DEF SetOwed
<1>3. t \in Turns(m) BY <1>2 DEF Turns
<1>4. QED BY <1>2, <1>3 DEF Turns, Quiet, Others

\* Quiet steps in a row are one.
LEMMA QuietChain ==
  ASSUME NEW s, NEW t, NEW u, NEW p, Quiet(s, t, p), Quiet(t, u, p)
  PROVE  Quiet(s, u, p)
BY DEF Quiet, Others

-----------------------------------------------------------------------------
(* Steps that write no result.                                             *)

\* Of the reads that are out, none is new, and what they were asked for is the
\* same; only who waits for the next one may have changed.
Lighter(s, t) ==
  \A p \in Procs, c \in Accounts : Out(t, p, c) =>
    /\ Out(s, p, c)
    /\ t.mem[p].flight[c].seq = s.mem[p].flight[c].seq
    /\ t.mem[p].flight[c].linked = s.mem[p].flight[c].linked
    /\ t.mem[p].flight[c].from = s.mem[p].flight[c].from
    /\ t.mem[p].flight[c].asked = s.mem[p].flight[c].asked
    /\ t.mem[p].flight[c].follow \in {s.mem[p].flight[c].follow, store[c]}

\* Every read that is out keeps its number.
Running(s, t) == \A p \in Procs, c \in Accounts : Out(s, p, c) =>
  t.mem[p].flight[c].seq = s.mem[p].flight[c].seq

\* Without a new read and without a result nothing that Sound says changes.
LEMMA LighterSound ==
  ASSUME store \in [Accounts -> Nat], NEW m, NEW n, NEW ap, NEW s, NEW t \in Turns(n),
         Sound(m, ap, s), Lighter(s, t),
         t.tier = s.tier, t.row = s.row, t.held = s.held
  PROVE  Sound(n, ap, t)
<1>1. Trails(t) BY DEF Sound, Trails
<1>2. Marks(ap, t) BY DEF Sound, Marks
<1>3. Backed(t) BY DEF Sound, Backed
<1>4. ASSUME NEW c \in Accounts PROVE
    /\ t.held[c] <= store[c]
    /\ \A p \in Procs : Out(t, p, c) => /\ t.mem[p].flight[c].from <= store[c]
                                        /\ t.mem[p].flight[c].asked <= t.mem[p].flight[c].from
                                        /\ t.mem[p].flight[c].follow <= store[c]
    /\ t.row[c] = NoRow => \A p \in Procs : Numbered(t, p, c) => Lost(c)
    /\ t.row[c] # NoRow =>
         /\ t.row[c].appliedSeq <= t.row[c].readSeq
         /\ \A p \in Procs : Numbered(t, p, c) =>
              /\ t.mem[p].flight[c].seq <= t.row[c].readSeq
              /\ t.mem[p].flight[c].seq > t.row[c].appliedSeq => t.mem[p].flight[c].from >= t.held[c]
              /\ \A q \in Procs : /\ Early(t, q, c) => t.mem[q].flight[c].from <= t.mem[p].flight[c].from
                                  /\ Numbered(t, q, c) /\ t.mem[q].flight[c].seq < t.mem[p].flight[c].seq
                                       => t.mem[q].flight[c].from <= t.mem[p].flight[c].from
  <2>1. store[c] \in Nat /\ store[c] <= store[c] OBVIOUS
  <2>2. \A p \in Procs : Numbered(t, p, c) => Numbered(s, p, c) BY DEF Lighter, Numbered
  <2>3. \A p \in Procs : Early(t, p, c) => Early(s, p, c) BY DEF Lighter, Early
  <2>4. \A p \in Procs : Out(t, p, c) =>
    /\ Out(s, p, c)
    /\ t.mem[p].flight[c].seq = s.mem[p].flight[c].seq
    /\ t.mem[p].flight[c].from = s.mem[p].flight[c].from
    /\ t.mem[p].flight[c].asked = s.mem[p].flight[c].asked
    /\ t.mem[p].flight[c].follow \in {s.mem[p].flight[c].follow, store[c]}
    BY DEF Lighter
  <2>5. \A p \in Procs : (Numbered(t, p, c) => Out(t, p, c)) /\ (Early(t, p, c) => Out(t, p, c))
    BY DEF Numbered, Early
  <2>6. Fence(s) BY DEF Sound
  <2>7. QED BY <2>1, <2>2, <2>3, <2>4, <2>5, <2>6 DEF Fence
<1>5. Fence(t) BY <1>4 DEF Fence
<1>6. QED BY <1>1, <1>2, <1>3, <1>5 DEF Sound

\* The same of Fresh.
LEMMA LighterFresh ==
  ASSUME NEW o, NEW s, NEW t, Fresh(o, s), Lighter(s, t), t.row = s.row
  PROVE  Fresh(o, t)
BY DEF Fresh, Lighter

\* A quiet step leaves the reads alone.
LEMMA QuietLighter ==
  ASSUME NEW m, NEW p \in Procs, NEW s \in Turns(m), NEW t \in Turns(m), Quiet(s, t, p)
  PROVE  Lighter(s, t) /\ Running(s, t)
<1>1. \A q \in Procs : t.mem[q].flight = s.mem[q].flight BY DEF Quiet, Others
<1>2. QED BY <1>1 DEF Lighter, Running, Out

\* So it keeps everything.
LEMMA QuietKeeps ==
  ASSUME store \in [Accounts -> Nat], NEW m, NEW ap, NEW p \in Procs, NEW s, NEW t \in Turns(m),
         Quiet(s, t, p), Sound(m, ap, s)
  PROVE  /\ Sound(m, ap, t)
         /\ \A o : Fresh(o, s) => Fresh(o, t)
<1>1. s \in Turns(m) BY DEF Sound
<1>2. Lighter(s, t) BY <1>1, QuietLighter
<1>3. t.tier = s.tier /\ t.row = s.row /\ t.held = s.held BY DEF Quiet
<1>4. Sound(m, ap, t) BY <1>2, <1>3, LighterSound
<1>5. QED BY <1>2, <1>3, <1>4, LighterFresh

-----------------------------------------------------------------------------
(* A read begins.                                                          *)

\* No row is no row; a row stays one as its fields are written.
LEMMA RowFacts ==
  /\ NoRow \notin LinkedRow
  /\ \A r \in Row : r # NoRow => r \in LinkedRow
  /\ \A a \in Accounts, n \in Nat : NewRow(a, n) \in LinkedRow
  /\ \A r \in LinkedRow, n \in Nat : [r EXCEPT !.readSeq = n] \in LinkedRow
  /\ \A r \in LinkedRow, a \in Accounts : [r EXCEPT !.account = a] \in LinkedRow
  /\ \A r \in LinkedRow, n \in Nat : [r EXCEPT !.lastEvent = n] \in LinkedRow
  /\ \A r \in LinkedRow, y \in Tiers : [r EXCEPT !.tier = y] \in LinkedRow
<1>1. NoRow \notin LinkedRow
  BY BillingAssumption DEF NoRow, LinkedRow
<1>2. \A a \in Accounts, n \in Nat : NewRow(a, n) \in LinkedRow
  BY BillingAssumption DEF NewRow, LinkedRow, Tiers
<1>3. QED BY <1>1, <1>2 DEF Row, LinkedRow

\* The highest tier of an account depends on the tiers of its rows only.
Alike(x, y) == (x = NoRow <=> y = NoRow) /\ (x # NoRow => x.account = y.account /\ x.tier = y.tier)

\* Rows alike in account and tier give the same highest tier.
LEMMA HighestAlike ==
  ASSUME NEW r, NEW q, NEW a, \A c \in Accounts : Alike(r[c], q[c])
  PROVE  Highest(r, a) = Highest(q, a)
<1>1. PICK C : C = {x \in Accounts : r[x] # NoRow /\ r[x].account = a} OBVIOUS
<1>2. PICK D : D = {x \in Accounts : q[x] # NoRow /\ q[x].account = a} OBVIOUS
<1>3. C = D BY <1>1, <1>2 DEF Alike
<1>4. \A c \in C : r[c].tier = q[c].tier BY <1>1 DEF Alike
<1>5. {r[c].tier : c \in C} = {q[c].tier : c \in D} BY <1>3, <1>4
<1>6. QED BY <1>1, <1>2, <1>5 DEF Highest

\* A read of c is begun in p.
Begun(s, t, p, c, asked) ==
  /\ t.tier = s.tier /\ t.held = s.held /\ Others(s, t, p)
  /\ \A d \in Accounts \ {c} : t.mem[p].flight[d] = s.mem[p].flight[d] /\ t.row[d] = s.row[d]
  /\ t.mem[p].flight[c].seq \in Nat \ {0}
  /\ t.mem[p].flight[c].linked = (s.row[c] # NoRow)
  /\ t.mem[p].flight[c].from = store[c]
  /\ t.mem[p].flight[c].asked = asked
  /\ t.mem[p].flight[c].follow = 0
  /\ Alike(t.row[c], s.row[c])
  /\ s.row[c] # NoRow => /\ t.row[c].appliedSeq = s.row[c].appliedSeq
                         /\ t.row[c].lastEvent = s.row[c].lastEvent
                         /\ t.row[c].readSeq = s.row[c].readSeq + 1
                         /\ t.mem[p].flight[c].seq = s.row[c].readSeq + 1

\* Start does that.
LEMMA StartIs ==
  ASSUME store \in [Accounts -> Nat], NEW s \in Turns("on"), NEW p \in Procs, NEW c \in Accounts,
         NEW asked \in Nat, NEW t, t = Start(s, p, c, asked)
  PROVE  t \in Turns("on") /\ Begun(s, t, p, c, asked)
<1>0. /\ s.row \in [Accounts -> Row] /\ s.mem \in [Procs -> Memory("on")]
      /\ s.mem[p].unlinked \in [Accounts -> Nat] /\ s.mem[p].flight \in [Accounts -> Flight("on")]
  BY DEF Turns, Memory
<1>1. PICK n : n = 1 + (IF s.row[c] # NoRow THEN s.row[c].readSeq ELSE s.mem[p].unlinked[c]) OBVIOUS
<1>2. n \in Nat \ {0}
  <2>1. CASE s.row[c] = NoRow BY <2>1, <1>0, <1>1
  <2>2. CASE s.row[c] # NoRow
    <3>1. s.row[c].readSeq \in Nat BY <2>2, <1>0, RowFacts DEF LinkedRow
    <3>2. QED BY <2>2, <3>1, <1>1
  <2>3. QED BY <2>1, <2>2
<1>3. PICK u : u = IF s.row[c] # NoRow THEN SetRow(s, c, [s.row[c] EXCEPT !.readSeq = n]) ELSE SetUnlinked(s, p, c, n)
  OBVIOUS
<1>4. PICK f : f = [seq |-> n, linked |-> s.row[c] # NoRow, from |-> store[c], asked |-> asked,
                    follow |-> 0, covers |-> TRUE, answer |-> NoAnswer] OBVIOUS
<1>5. f \in Flight("on")
  <2>1. f \in ReadFlight BY <1>2, <1>4 DEF ReadFlight
  <2>2. QED BY <2>1 DEF Flight
<1>6. t = SetFlight(u, p, c, f) BY <1>1, <1>3, <1>4 DEF Start
<1>7. /\ u \in Turns("on") /\ u.tier = s.tier /\ u.held = s.held
      /\ u.mem[p].flight = s.mem[p].flight /\ Others(s, u, p)
      /\ \A d \in Accounts \ {c} : u.row[d] = s.row[d]
      /\ Alike(u.row[c], s.row[c])
      /\ s.row[c] # NoRow => /\ u.row[c].appliedSeq = s.row[c].appliedSeq
                             /\ u.row[c].lastEvent = s.row[c].lastEvent
                             /\ u.row[c].readSeq = n
  <2>1. CASE s.row[c] = NoRow
    <3>1. u = SetUnlinked(s, p, c, n) BY <2>1, <1>3
    <3>2. /\ u \in Turns("on") /\ Quiet(s, u, p)
          /\ u.mem[p].unlinked = [s.mem[p].unlinked EXCEPT ![c] = n] /\ u.mem[p].scan = s.mem[p].scan
          /\ u.queue = s.queue /\ u.owed = s.owed
      BY <3>1, <1>2, SetUnlinkedIs
    <3>3. QED BY <3>2, <2>1 DEF Quiet, Alike
  <2>2. CASE s.row[c] # NoRow
    <3>1. s.row[c] \in LinkedRow BY <2>2, <1>0, RowFacts
    <3>2. PICK x \in LinkedRow : x = [s.row[c] EXCEPT !.readSeq = n] BY <3>1, <1>2, RowFacts
    <3>3. x \in Row /\ x # NoRow BY RowFacts DEF Row
    <3>4. u = SetRow(s, c, x) BY <2>2, <1>3, <3>2
    <3>5. /\ u \in Turns("on")
          /\ u.row = [s.row EXCEPT ![c] = x]
          /\ u.tier = s.tier /\ u.queue = s.queue /\ u.mem = s.mem /\ u.held = s.held /\ u.owed = s.owed
      BY <3>3, <3>4, SetRowIs
    <3>6. u.row[c] = x /\ \A d \in Accounts \ {c} : u.row[d] = s.row[d] BY <3>5, <1>0
    <3>7. /\ x.account = s.row[c].account /\ x.tier = s.row[c].tier /\ x.appliedSeq = s.row[c].appliedSeq
          /\ x.lastEvent = s.row[c].lastEvent /\ x.readSeq = n
      BY <3>1, <3>2 DEF LinkedRow
    <3>8. QED BY <2>2, <3>3, <3>5, <3>6, <3>7 DEF Alike, Others
  <2>3. QED BY <2>1, <2>2
<1>8. /\ t \in Turns("on")
      /\ OneFlight(u, t, p, c, f)
      /\ t.mem[p].unlinked = u.mem[p].unlinked /\ t.mem[p].scan = u.mem[p].scan
      /\ t.queue = u.queue /\ t.owed = u.owed
  BY <1>5, <1>6, <1>7, SetFlightIs
<1>9. t.mem[p].flight[c] = f /\ \A d \in Accounts \ {c} : t.mem[p].flight[d] = s.mem[p].flight[d]
  BY <1>0, <1>7, <1>8 DEF OneFlight
<1>10. /\ f.seq = n /\ f.linked = (s.row[c] # NoRow) /\ f.from = store[c] /\ f.asked = asked /\ f.follow = 0
  BY <1>4
<1>11. t.tier = s.tier /\ t.held = s.held /\ Others(s, t, p) /\ t.row = u.row
  BY <1>7, <1>8 DEF OneFlight, Others
<1>12. s.row[c] # NoRow => n = s.row[c].readSeq + 1
  <2>1. ASSUME s.row[c] # NoRow PROVE n = s.row[c].readSeq + 1
    <3>1. s.row[c].readSeq \in Nat BY <2>1, <1>0, RowFacts DEF LinkedRow
    <3>2. QED BY <3>1, <2>1, <1>1
  <2>2. QED BY <2>1
<1>13. QED BY <1>2, <1>7, <1>8, <1>9, <1>10, <1>11, <1>12 DEF Begun

\* A read that was not out before does not stop one that was.
LEMMA BegunRunning ==
  ASSUME NEW s, NEW t, NEW p \in Procs, NEW c \in Accounts, NEW asked, Begun(s, t, p, c, asked),
         s.mem[p].flight[c] = NoFlight
  PROVE  Running(s, t)
<1> SUFFICES ASSUME NEW q \in Procs, NEW d \in Accounts, Out(s, q, d)
             PROVE  t.mem[q].flight[d].seq = s.mem[q].flight[d].seq
  BY DEF Running
<1>1. CASE q # p BY <1>1 DEF Begun, Others
<1>2. CASE q = p /\ d # c BY <1>2 DEF Begun
<1>3. CASE q = p /\ d = c BY <1>3 DEF Out, NoFlight
<1>4. QED BY <1>1, <1>2, <1>3

\* Rows that only got other numbers are with the same accounts.
LEMMA AlikeKeeps ==
  ASSUME NEW ap, NEW s, NEW t, t.tier = s.tier, \A c \in Accounts : Alike(t.row[c], s.row[c]),
         \A c \in Accounts : s.row[c] # NoRow => t.row[c].lastEvent = s.row[c].lastEvent
  PROVE  /\ Trails(s) => Trails(t)
         /\ Marks(ap, s) => Marks(ap, t)
         /\ Backed(s) => Backed(t)
<1>1. Trails(s) => Trails(t) BY DEF Trails, Alike
<1>2. Marks(ap, s) => Marks(ap, t)
  <2> SUFFICES ASSUME Marks(ap, s), NEW c \in Accounts, NEW f \in Events, MarkedBy(ap, f, c)
               PROVE  IF t.row[c] = NoRow THEN Lost(c) ELSE t.row[c].lastEvent >= f.at \/ Lost(t.row[c].account)
    BY DEF Marks
  <2>1. IF s.row[c] = NoRow THEN Lost(c) ELSE s.row[c].lastEvent >= f.at \/ Lost(s.row[c].account)
    BY DEF Marks
  <2>2. QED BY <2>1 DEF Alike
<1>3. Backed(s) => Backed(t)
  <2> SUFFICES ASSUME Backed(s), NEW a \in Accounts, Live(a)
               PROVE  \/ t.tier[a] = Highest(t.row, a)
                      \/ \E c \in Accounts : /\ t.row[c] # NoRow /\ t.row[c].account = a /\ ~Live(c)
                                             /\ t.row[c].tier > t.tier[a]
    BY DEF Backed
  <2>1. Highest(t.row, a) = Highest(s.row, a) BY HighestAlike
  <2>2. QED BY <2>1 DEF Backed, Alike
<1>4. QED BY <1>1, <1>2, <1>3

\* A read that is begun has the highest number, and was asked for last.
LEMMA BegunFence ==
  ASSUME store \in [Accounts -> Nat], NEW s \in Turns("on"), NEW t, NEW p \in Procs, NEW c \in Accounts,
         NEW asked \in Nat, asked <= store[c], Begun(s, t, p, c, asked), Fence(s)
  PROVE  Fence(t)
<1>1. PICK f : f = t.mem[p].flight[c] OBVIOUS
<1>2. f.from = store[c] /\ f.asked <= f.from /\ f.follow <= store[c] /\ store[c] \in Nat BY <1>1 DEF Begun
<1>3. ASSUME NEW d \in Accounts \ {c} PROVE
        /\ t.row[d] = s.row[d] /\ t.held[d] = s.held[d]
        /\ \A q \in Procs : t.mem[q].flight[d] = s.mem[q].flight[d]
  BY <1>3 DEF Begun, Others
<1>4. /\ t.held[c] = s.held[c]
      /\ \A q \in Procs \ {p} : t.mem[q].flight[c] = s.mem[q].flight[c]
  BY DEF Begun, Others
<1>5. s.held[c] <= store[c] /\ \A q \in Procs : Out(s, q, c) => s.mem[q].flight[c].from <= store[c]
  BY DEF Fence
<1>6. \A q \in Procs : Out(t, q, c) => /\ t.mem[q].flight[c].from <= store[c]
                                       /\ t.mem[q].flight[c].asked <= t.mem[q].flight[c].from
                                       /\ t.mem[q].flight[c].follow <= store[c]
  <2> SUFFICES ASSUME NEW q \in Procs, Out(t, q, c)
               PROVE  /\ t.mem[q].flight[c].from <= store[c]
                      /\ t.mem[q].flight[c].asked <= t.mem[q].flight[c].from
                      /\ t.mem[q].flight[c].follow <= store[c]
    OBVIOUS
  <2>1. CASE q = p BY <2>1, <1>1, <1>2
  <2>2. CASE q # p BY <2>2, <1>4 DEF Fence, Out
  <2>3. QED BY <2>1, <2>2
<1>7. ASSUME t.row[c] = NoRow PROVE \A q \in Procs : Numbered(t, q, c) => Lost(c)
  <2>1. s.row[c] = NoRow BY <1>7 DEF Begun, Alike
  <2>2. ~f.linked BY <1>1, <2>1 DEF Begun
  <2>3. ASSUME NEW q \in Procs, Numbered(t, q, c) PROVE Numbered(s, q, c)
    <3>1. q # p BY <2>2, <2>3, <1>1 DEF Numbered
    <3>2. QED BY <3>1, <2>3, <1>4 DEF Numbered, Out
  <2>4. QED BY <2>1, <2>3 DEF Fence
<1>8. ASSUME t.row[c] # NoRow PROVE
         /\ t.row[c].appliedSeq <= t.row[c].readSeq
         /\ \A x \in Procs : Numbered(t, x, c) =>
              /\ t.mem[x].flight[c].seq <= t.row[c].readSeq
              /\ t.mem[x].flight[c].seq > t.row[c].appliedSeq => t.mem[x].flight[c].from >= t.held[c]
              /\ \A q \in Procs : /\ Early(t, q, c) => t.mem[q].flight[c].from <= t.mem[x].flight[c].from
                                  /\ Numbered(t, q, c) /\ t.mem[q].flight[c].seq < t.mem[x].flight[c].seq
                                       => t.mem[q].flight[c].from <= t.mem[x].flight[c].from
  <2>1. s.row[c] # NoRow BY <1>8 DEF Begun, Alike
  <2>2. /\ t.row[c].appliedSeq = s.row[c].appliedSeq
        /\ t.row[c].readSeq = s.row[c].readSeq + 1
        /\ f.seq = s.row[c].readSeq + 1
        /\ f.linked
    BY <2>1, <1>1 DEF Begun
  <2>3. /\ s.row[c].readSeq \in Nat /\ s.row[c].appliedSeq \in Nat
        /\ s.held[c] \in Nat
    <3>1. s.row[c] \in Row /\ s.held[c] \in Nat BY DEF Turns
    <3>2. QED BY <3>1, <2>1, RowFacts DEF LinkedRow
  <2>4. s.row[c].appliedSeq <= s.row[c].readSeq BY <2>1 DEF Fence
  <2>5. t.row[c].appliedSeq <= t.row[c].readSeq BY <2>2, <2>3, <2>4
  <2>6. \A q \in Procs \ {p} : /\ Numbered(t, q, c) <=> Numbered(s, q, c)
                               /\ Early(t, q, c) <=> Early(s, q, c)
    BY <1>4 DEF Numbered, Early, Out
  <2>7. ~Early(t, p, c) BY <2>2, <1>1 DEF Early
  <2>8. ASSUME NEW q \in Procs, Out(t, q, c) PROVE t.mem[q].flight[c].from <= f.from BY <1>2, <1>6, <2>8
  <2>9. ASSUME NEW x \in Procs, Numbered(t, x, c) PROVE
              /\ t.mem[x].flight[c].seq <= t.row[c].readSeq
              /\ t.mem[x].flight[c].seq > t.row[c].appliedSeq => t.mem[x].flight[c].from >= t.held[c]
              /\ \A q \in Procs : /\ Early(t, q, c) => t.mem[q].flight[c].from <= t.mem[x].flight[c].from
                                  /\ Numbered(t, q, c) /\ t.mem[q].flight[c].seq < t.mem[x].flight[c].seq
                                       => t.mem[q].flight[c].from <= t.mem[x].flight[c].from
    <3>1. CASE x = p
      <4>1. t.mem[x].flight[c].seq <= t.row[c].readSeq BY <3>1, <1>1, <2>2, <2>3
      <4>2. t.mem[x].flight[c].from >= t.held[c] BY <3>1, <1>1, <1>2, <1>4, <1>5, <2>3
      <4>3. \A q \in Procs : /\ Early(t, q, c) => t.mem[q].flight[c].from <= t.mem[x].flight[c].from
                             /\ Numbered(t, q, c) => t.mem[q].flight[c].from <= t.mem[x].flight[c].from
        BY <3>1, <1>1, <2>8 DEF Early, Numbered
      <4>4. QED BY <4>1, <4>2, <4>3
    <3>2. CASE x # p
      <4>1. Numbered(s, x, c) /\ t.mem[x].flight[c] = s.mem[x].flight[c] BY <3>2, <2>6, <2>9, <1>4
      <4>2. s.mem[x].flight[c].seq <= s.row[c].readSeq BY <4>1, <2>1 DEF Fence
      <4>3. s.mem[x].flight[c].seq \in Nat
        <5>1. s.mem[x].flight[c] \in Flight("on") BY DEF Turns, Memory
        <5>2. QED BY <5>1 DEF Flight, ReadFlight, NoFlight
      <4>4. t.mem[x].flight[c].seq <= t.row[c].readSeq /\ ~(f.seq < t.mem[x].flight[c].seq)
        BY <4>1, <4>2, <4>3, <2>2, <2>3
      <4>5. t.mem[x].flight[c].seq > t.row[c].appliedSeq => t.mem[x].flight[c].from >= t.held[c]
        BY <4>1, <1>4, <2>1, <2>2 DEF Fence
      <4>6. ASSUME NEW q \in Procs PROVE
               /\ Early(t, q, c) => t.mem[q].flight[c].from <= t.mem[x].flight[c].from
               /\ Numbered(t, q, c) /\ t.mem[q].flight[c].seq < t.mem[x].flight[c].seq
                    => t.mem[q].flight[c].from <= t.mem[x].flight[c].from
        <5>1. CASE q = p BY <5>1, <4>4, <2>7, <1>1
        <5>2. CASE q # p
          <6>1. t.mem[q].flight[c] = s.mem[q].flight[c] BY <5>2, <1>4
          <6>2. QED BY <6>1, <4>1, <5>2, <2>1, <2>6 DEF Fence
        <5>3. QED BY <5>1, <5>2
      <4>7. QED BY <4>4, <4>5, <4>6
    <3>3. QED BY <3>1, <3>2
  <2>10. QED BY <2>5, <2>9
<1>9. ASSUME NEW d \in Accounts PROVE
    /\ t.held[d] <= store[d]
    /\ \A q \in Procs : Out(t, q, d) => /\ t.mem[q].flight[d].from <= store[d]
                                        /\ t.mem[q].flight[d].asked <= t.mem[q].flight[d].from
                                        /\ t.mem[q].flight[d].follow <= store[d]
    /\ t.row[d] = NoRow => \A q \in Procs : Numbered(t, q, d) => Lost(d)
    /\ t.row[d] # NoRow =>
         /\ t.row[d].appliedSeq <= t.row[d].readSeq
         /\ \A x \in Procs : Numbered(t, x, d) =>
              /\ t.mem[x].flight[d].seq <= t.row[d].readSeq
              /\ t.mem[x].flight[d].seq > t.row[d].appliedSeq => t.mem[x].flight[d].from >= t.held[d]
              /\ \A q \in Procs : /\ Early(t, q, d) => t.mem[q].flight[d].from <= t.mem[x].flight[d].from
                                  /\ Numbered(t, q, d) /\ t.mem[q].flight[d].seq < t.mem[x].flight[d].seq
                                       => t.mem[q].flight[d].from <= t.mem[x].flight[d].from
  <2>1. CASE d = c BY <2>1, <1>4, <1>5, <1>6, <1>7, <1>8
  <2>2. CASE d # c
    <3>1. /\ t.row[d] = s.row[d] /\ t.held[d] = s.held[d]
          /\ \A q \in Procs : t.mem[q].flight[d] = s.mem[q].flight[d]
      BY <2>2, <1>3
    <3>2. \A q \in Procs : /\ Numbered(t, q, d) <=> Numbered(s, q, d)
                           /\ Early(t, q, d) <=> Early(s, q, d)
                           /\ Out(t, q, d) <=> Out(s, q, d)
      BY <3>1 DEF Numbered, Early, Out
    <3>3. QED BY <3>1, <3>2 DEF Fence
  <2>3. QED BY <2>1, <2>2
<1>10. QED BY <1>9 DEF Fence

-----------------------------------------------------------------------------
(* Steps of one process that write no result.                              *)

\* Such a step of p leaves everything sound, no running read notices it, and
\* customers stay linked or not.
Goes(ap, o, s, t, p) ==
  /\ Good("on", ap, o, t)
  /\ Running(s, t) /\ Others(s, t, p) /\ t.held = s.held
  /\ \A c \in Accounts : t.row[c] = NoRow <=> s.row[c] = NoRow

\* Two in a row are one.
LEMMA GoesChain ==
  ASSUME NEW ap, NEW o, NEW s, NEW t, NEW u, NEW p, Goes(ap, o, s, t, p), Goes(ap, o, t, u, p)
  PROVE  Goes(ap, o, s, u, p)
<1>1. Running(s, u) BY DEF Goes, Running, Out
<1>2. Others(s, u, p) BY DEF Goes, Others
<1>3. QED BY <1>1, <1>2 DEF Goes

\* A quiet step is one.
LEMMA QuietGoes ==
  ASSUME store \in [Accounts -> Nat], NEW ap, NEW o, NEW p \in Procs, NEW s, NEW t \in Turns("on"),
         Quiet(s, t, p), Good("on", ap, o, s)
  PROVE  Goes(ap, o, s, t, p)
<1>1. Sound("on", ap, s) /\ Fresh(o, s) BY DEF Good
<1>2. s \in Turns("on") BY <1>1 DEF Sound
<1>3. Lighter(s, t) /\ Running(s, t) BY <1>2, QuietLighter
<1>4. t.tier = s.tier /\ t.row = s.row /\ t.held = s.held /\ Others(s, t, p) BY DEF Quiet
<1>5. Sound("on", ap, t) BY <1>1, <1>3, <1>4, LighterSound
<1>6. Fresh(o, t) BY <1>1, <1>3, <1>4, LighterFresh
<1>7. QED BY <1>3, <1>4, <1>5, <1>6 DEF Goes, Good

\* A read that begins is one, where none was out.
LEMMA StartGoes ==
  ASSUME store \in [Accounts -> Nat], NEW ap, NEW o, NEW p \in Procs, NEW c \in Accounts, NEW s,
         Good("on", ap, o, s), s.mem[p].flight[c] = NoFlight,
         NEW asked \in Nat, asked <= store[c], NEW t, t = Start(s, p, c, asked)
  PROVE  Goes(ap, o, s, t, p)
<1>1. s \in Turns("on") /\ Trails(s) /\ Fence(s) /\ Marks(ap, s) /\ Backed(s) /\ Fresh(o, s)
  BY DEF Good, Sound
<1>2. t \in Turns("on") /\ Begun(s, t, p, c, asked) BY <1>1, StartIs
<1>3. Running(s, t) BY <1>2, BegunRunning
<1>4. \A d \in Accounts : Alike(t.row[d], s.row[d]) BY <1>2 DEF Begun, Alike
<1>5. \A d \in Accounts : s.row[d] # NoRow => t.row[d].lastEvent = s.row[d].lastEvent BY <1>2 DEF Begun
<1>6. t.tier = s.tier /\ t.held = s.held /\ Others(s, t, p) BY <1>2 DEF Begun
<1>7. Trails(t) /\ Marks(ap, t) /\ Backed(t) BY <1>1, <1>4, <1>5, <1>6, AlikeKeeps
<1>8. Fence(t) BY <1>1, <1>2, BegunFence
<1>9. Fresh(o, t)
  <2> SUFFICES ASSUME ~o, NEW q \in Procs, NEW d \in Accounts, Out(t, q, d), t.row[d] # NoRow
               PROVE  t.mem[q].flight[d].seq > t.row[d].appliedSeq
    BY DEF Fresh
  <2>1. s.row[d] # NoRow BY <1>4 DEF Alike
  <2>2. t.row[d].appliedSeq = s.row[d].appliedSeq BY <1>2, <2>1 DEF Begun
  <2>3. CASE q = p /\ d = c
    <3>1. t.mem[q].flight[d].seq = s.row[d].readSeq + 1 BY <1>2, <2>1, <2>3 DEF Begun
    <3>2. s.row[d].appliedSeq <= s.row[d].readSeq BY <1>1, <2>1 DEF Fence
    <3>3. s.row[d].readSeq \in Nat /\ s.row[d].appliedSeq \in Nat
      <4>1. s.row[d] \in Row BY <1>1 DEF Turns
      <4>2. QED BY <4>1, <2>1, RowFacts DEF LinkedRow
    <3>4. QED BY <3>1, <3>2, <3>3, <2>2
  <2>4. CASE ~(q = p /\ d = c)
    <3>1. t.mem[q].flight[d] = s.mem[q].flight[d] BY <1>2, <2>4 DEF Begun, Others
    <3>2. QED BY <3>1, <1>1, <2>1, <2>2 DEF Fresh, Out
  <2>5. QED BY <2>3, <2>4
<1>10. QED BY <1>2, <1>3, <1>4, <1>6, <1>7, <1>8, <1>9 DEF Goes, Good, Sound, Alike

\* A read of the scan.
LEMMA ScanReadGoes ==
  ASSUME store \in [Accounts -> Nat], NEW ap, NEW o, NEW p \in Procs, NEW c \in Accounts, NEW s,
         Good("on", ap, o, s), s.mem[p].flight[c] = NoFlight,
         NEW left \in SUBSET Accounts, NEW again \in BOOLEAN, NEW t, t = ScanRead(s, p, c, left, again)
  PROVE  Goes(ap, o, s, t, p)
<1>1. PICK u : u = Start(s, p, c, 0) OBVIOUS
<1>2. 0 \in Nat /\ 0 <= store[c] OBVIOUS
<1>3. Goes(ap, o, s, u, p) BY <1>1, <1>2, StartGoes
<1>4. PICK x : x = [on |-> TRUE, at |-> c, left |-> left, again |-> again] OBVIOUS
<1>5. x \in Scan BY <1>4 DEF Scan, Names
<1>6. PICK v : v = SetScan(u, p, x) OBVIOUS
<1>7. u \in Turns("on") /\ Good("on", ap, o, u) BY <1>3 DEF Goes, Good, Sound
<1>8. /\ v \in Turns("on") /\ Quiet(u, v, p)
      /\ v.mem[p].unlinked = u.mem[p].unlinked /\ v.mem[p].scan = x
      /\ v.queue = u.queue /\ v.owed = u.owed
  BY <1>5, <1>6, <1>7, SetScanIs
<1>9. Goes(ap, o, u, v, p) BY <1>7, <1>8, QuietGoes
<1>10. t = TakeDirty(v, c) BY <1>1, <1>4, <1>6 DEF ScanRead
<1>11. t \in Turns("on") /\ Quiet(v, t, p) /\ t.mem = v.mem BY <1>8, <1>10, TakeDirtyIs
<1>12. Good("on", ap, o, v) BY <1>9 DEF Goes
<1>13. Goes(ap, o, v, t, p) BY <1>11, <1>12, QuietGoes
<1>14. QED BY <1>3, <1>9, <1>13, GoesChain

\* A change of the scan.
LEMMA SetScanGoes ==
  ASSUME store \in [Accounts -> Nat], NEW ap, NEW o, NEW p \in Procs, NEW s,
         Good("on", ap, o, s), NEW x \in Scan, NEW t, t = SetScan(s, p, x)
  PROVE  Goes(ap, o, s, t, p)
<1>1. s \in Turns("on") BY DEF Good, Sound
<1>2. /\ t \in Turns("on") /\ Quiet(s, t, p)
      /\ t.mem[p].unlinked = s.mem[p].unlinked /\ t.mem[p].scan = x
      /\ t.queue = s.queue /\ t.owed = s.owed
  BY <1>1, SetScanIs
<1>3. QED BY <1>2, QuietGoes

\* The first step of a pass.
LEMMA PassGoes ==
  ASSUME store \in [Accounts -> Nat], NEW ap, NEW o, NEW p \in Procs, NEW s,
         Good("on", ap, o, s), NEW t \in Pass(s, p)
  PROVE  Goes(ap, o, s, t, p)
<1>1. PICK free : free = {c \in Due(s) : ~Flying(s, p, c)} OBVIOUS
<1>2. Due(s) \subseteq Accounts BY DEF Due
<1>3. CASE free = {}
  <2>1. t = SetScan(s, p, NoScan) BY <1>1, <1>3 DEF Pass
  <2>2. NoScan \in Scan BY DEF NoScan, Scan, Names
  <2>3. QED BY <2>1, <2>2, SetScanGoes
<1>4. CASE free # {}
  <2>1. t \in {ScanRead(s, p, c, Due(s) \ {c}, FALSE) : c \in free} BY <1>1, <1>4 DEF Pass
  <2>2. PICK c \in free : t = ScanRead(s, p, c, Due(s) \ {c}, FALSE) BY <2>1
  <2>3. c \in Accounts /\ s.mem[p].flight[c] = NoFlight BY <1>1, <1>2 DEF Flying
  <2>4. PICK left \in SUBSET Accounts : left = Due(s) \ {c} BY <1>2
  <2>5. t = ScanRead(s, p, c, left, FALSE) BY <2>2, <2>4
  <2>6. QED BY <2>3, <2>5, ScanReadGoes
<1>5. QED BY <1>3, <1>4

\* A wake, during a scan or not.
LEMMA WakeGoes ==
  ASSUME store \in [Accounts -> Nat], NEW ap, NEW o, NEW p \in Procs, NEW s,
         Good("on", ap, o, s), NEW t \in Wake(s, p)
  PROVE  Goes(ap, o, s, t, p)
<1>1. CASE s.mem[p].scan.on
  <2>1. s.mem[p].scan \in Scan BY DEF Good, Sound, Turns, Memory
  <2>2. PICK x \in Scan : x = [s.mem[p].scan EXCEPT !.again = TRUE] BY <2>1 DEF Scan
  <2>3. t = SetScan(s, p, x) BY <1>1, <2>2 DEF Wake
  <2>4. QED BY <2>3, SetScanGoes
<1>2. CASE ~s.mem[p].scan.on
  <2>1. t \in Pass(s, p) BY <1>2 DEF Wake
  <2>2. QED BY <2>1, PassGoes
<1>3. QED BY <1>1, <1>2

-----------------------------------------------------------------------------
(* A row is written, with the tiers that follow from it.                   *)

\* What Backed asks of one account.
BackedAt(ts, rs, a) ==
  \/ ts[a] = Highest(rs, a)
  \/ \E c \in Accounts : rs[c] # NoRow /\ rs[c].account = a /\ ~Live(c) /\ rs[c].tier > ts[a]

\* The tier of a row before it is written.
Before(r, c) == IF r[c] = NoRow THEN 0 ELSE r[c].tier

\* Tiers are numbers.
LEMMA TiersAre == Tiers \subseteq Nat /\ 0 \in Tiers /\ NoTier \notin Tiers
BY BillingAssumption DEF Tiers, NoTier

\* The tiers that are written are tiers, of one account.
TiersAfter(ts, rs, c, a, before) ==
  /\ ts \in [Accounts -> Tiers]
  /\ \A b \in Accounts \ {a} : ts[b] = tier[b]
  /\ into[a] # NoAccount => ts[a] = AccountTierAfter(tier[a], Highest(rs, a), before, rs[c].tier)

\* TiersWritten writes such.
LEMMA TiersWrittenAre ==
  ASSUME tier \in [Accounts -> Tiers], NEW rs \in [Accounts -> Row], NEW c \in Accounts, NEW a \in Accounts,
         NEW before, NEW ts, ts = TiersWritten(rs, a, c, before)
  PROVE  TiersAfter(ts, rs, c, a, before)
<1>0. a # NoAccount BY BillingAssumption
<1>1. CASE into[a] = NoAccount BY <1>1 DEF TiersWritten, TiersAfter
<1>2. CASE into[a] # NoAccount
  <2>1. PICK y : y = AccountTierAfter(tier[a], Highest(rs, a), before, rs[c].tier) OBVIOUS
  <2>2. y \in Tiers
    <3>1. Highest(rs, a) \in Tiers BY HighestIs
    <3>2. QED BY <2>1, <3>1 DEF AccountTierAfter
  <2>3. ts = [tier EXCEPT ![a] = y] BY <1>0, <1>2, <2>1 DEF TiersWritten
  <2>4. QED BY <2>1, <2>2, <2>3 DEF TiersAfter
<1>3. QED BY <1>1, <1>2

\* accountTierAfter keeps an account on the tier its rows pay for: either the
\* row written was what it was on, or another row still is.
LEMMA TiersFollow ==
  ASSUME into \in [Accounts -> Names], tier \in [Accounts -> Tiers], row \in [Accounts -> Row],
         NEW c \in Accounts, NEW x \in LinkedRow, NEW rs \in [Accounts -> Row], rs = [row EXCEPT ![c] = x],
         row[c] # NoRow => x.account = row[c].account \/ ~Live(row[c].account),
         NEW ts, ts = TiersWritten(rs, x.account, c, Before(row, c)),
         NEW b \in Accounts, Live(b), BackedAt(tier, row, b)
  PROVE  BackedAt(ts, rs, b)
<1>1. x # NoRow /\ x.account \in Accounts /\ x.tier \in Tiers BY RowFacts DEF LinkedRow
<1>2. rs[c] = x /\ \A d \in Accounts \ {c} : rs[d] = row[d] OBVIOUS
<1>3. /\ \A d \in Accounts \ {x.account} : ts[d] = tier[d]
      /\ into[x.account] # NoAccount =>
           ts[x.account] = AccountTierAfter(tier[x.account], Highest(rs, x.account), Before(row, c), rs[c].tier)
  <2>1. PICK a \in Accounts : a = x.account BY <1>1
  <2>2. PICK before : before = Before(row, c) OBVIOUS
  <2>3. ts = TiersWritten(rs, a, c, before) BY <2>1, <2>2
  <2>4. TiersAfter(ts, rs, c, a, before) BY <2>3, TiersWrittenAre
  <2>5. QED BY <2>1, <2>2, <2>4 DEF TiersAfter
<1>4. CASE b # x.account
  <2>1. ts[b] = tier[b] BY <1>3, <1>4
  <2>2. row[c] # NoRow => row[c].account # b BY <1>4
  <2>3. PICK C : C = {y \in Accounts : row[y] # NoRow /\ row[y].account = b} OBVIOUS
  <2>4. PICK D : D = {y \in Accounts : rs[y] # NoRow /\ rs[y].account = b} OBVIOUS
  <2>5. c \notin C /\ c \notin D BY <1>2, <1>4, <2>2, <2>3, <2>4
  <2>6. C = D BY <2>3, <2>4, <2>5, <1>2
  <2>7. \A y \in C : row[y] = rs[y] BY <2>3, <2>5, <1>2
  <2>8. {row[y].tier : y \in C} = {rs[y].tier : y \in D} BY <2>6, <2>7
  <2>9. Highest(row, b) = Highest(rs, b) BY <2>3, <2>4, <2>8 DEF Highest
  <2>10. QED BY <2>1, <2>2, <2>9, <1>2 DEF BackedAt
<1>5. CASE b = x.account
  <2>1. PICK h \in Tiers :
           /\ h = Highest(rs, b)
           /\ \A d \in Accounts : rs[d] # NoRow /\ rs[d].account = b => h >= rs[d].tier
    BY HighestIs
  <2>2. PICK g \in Tiers :
           /\ g = Highest(row, b)
           /\ g # 0 => \E d \in Accounts : row[d] # NoRow /\ row[d].account = b /\ row[d].tier = g
    BY HighestIs
  <2>3. PICK cur \in Tiers : cur = tier[b] OBVIOUS
  <2>4. into[b] # NoAccount BY BillingAssumption DEF Live
  <2>5. PICK before : before = Before(row, c) OBVIOUS
  <2>6. ts[b] = IF h > cur \/ (before > x.tier /\ before >= cur) THEN h ELSE cur
    BY <1>2, <1>3, <1>5, <2>1, <2>3, <2>4, <2>5 DEF AccountTierAfter
  <2>7. h >= x.tier BY <1>1, <1>2, <1>5, <2>1
  <2>8. CASE h > cur \/ (before > x.tier /\ before >= cur) BY <2>1, <2>6, <2>8 DEF BackedAt
  <2>9. CASE ~(h > cur) /\ ~(before > x.tier /\ before >= cur)
    <3>1. ts[b] = cur BY <2>6, <2>9
    <3>2. cur \in Nat /\ h \in Nat /\ g \in Nat /\ x.tier \in Nat BY <1>1, TiersAre
    <3>3. ASSUME NEW d \in Accounts, row[d] # NoRow, row[d].account = b, row[d].tier >= cur PROVE h >= row[d].tier
      <4>1. row[d].tier \in Nat
        <5>1. row[d] \in LinkedRow BY <3>3, RowFacts
        <5>2. row[d].tier \in Tiers BY <5>1 DEF LinkedRow
        <5>3. QED BY <5>2, TiersAre
      <4>2. CASE d # c BY <4>2, <1>2, <2>1, <3>3
      <4>3. CASE d = c
        <5>1. before = row[c].tier BY <4>3, <3>3, <2>5 DEF Before
        <5>2. before \in Nat /\ before >= cur BY <5>1, <4>1, <4>3, <3>3
        <5>3. x.tier >= before BY <5>2, <2>9, <3>2
        <5>4. QED BY <5>1, <5>2, <5>3, <2>7, <3>2, <4>3
      <4>4. QED BY <4>2, <4>3
    <3>4. h >= cur
      <4>1. CASE cur = g
        <5>1. CASE g = 0 BY <5>1, <4>1, <3>2
        <5>2. CASE g # 0
          <6>1. PICK d \in Accounts : row[d] # NoRow /\ row[d].account = b /\ row[d].tier = g BY <5>2, <2>2
          <6>2. row[d].tier >= cur BY <6>1, <4>1, <3>2
          <6>3. QED BY <6>1, <6>2, <3>3, <4>1
        <5>3. QED BY <5>1, <5>2
      <4>2. CASE cur # g
        <5>1. PICK d \in Accounts : row[d] # NoRow /\ row[d].account = b /\ row[d].tier > cur
          BY <4>2, <2>2, <2>3 DEF BackedAt
        <5>2. row[d].tier \in Nat
          <6>1. row[d] \in LinkedRow BY <5>1, RowFacts
          <6>2. row[d].tier \in Tiers BY <6>1 DEF LinkedRow
          <6>3. QED BY <6>2, TiersAre
        <5>3. row[d].tier >= cur BY <5>1, <5>2, <3>2
        <5>4. h >= row[d].tier BY <5>1, <5>3, <3>3
        <5>5. QED BY <5>2, <5>3, <5>4, <3>2
      <4>3. QED BY <4>1, <4>2
    <3>5. h = cur BY <3>2, <3>4, <2>9
    <3>6. QED BY <3>1, <3>5, <2>1 DEF BackedAt
  <2>10. QED BY <2>8, <2>9
<1>6. QED BY <1>4, <1>5

\* A row of a customer who finds an account has a trail, and leaves those of
\* other customers.
LEMMA WrittenTrails ==
  ASSUME NEW s, NEW t, NEW c \in Accounts, Trails(s), t.row[c] # NoRow,
         \A d \in Accounts \ {c} : t.row[d] = s.row[d],
         \E S \in SUBSET Accounts : Trail(c, t.row[c].account, S)
  PROVE  Trails(t)
<1> SUFFICES ASSUME NEW d \in Accounts, t.row[d] # NoRow
             PROVE  \E S \in SUBSET Accounts : Trail(d, t.row[d].account, S)
  BY DEF Trails
<1>1. CASE d = c BY <1>1
<1>2. CASE d # c BY <1>2 DEF Trails
<1>3. QED BY <1>1, <1>2

\* The account a customer's row is with, or would be, has a trail from it.
LEMMA ResolvedTrail ==
  ASSUME into \in [Accounts -> Names], NEW s, Trails(s), NEW c \in Accounts,
         s.row[c] # NoRow => s.row[c].account \in Accounts,
         NEW a, a = ResolveAccount(s.row, c), a # NoAccount
  PROVE  a \in Accounts /\ Live(a) /\ \E S \in SUBSET Accounts : Trail(c, a, S)
<1>1. CASE s.row[c] = NoRow
  <2>1. a = FollowMerge(c) BY <1>1 DEF ResolveAccount
  <2>2. a \in Accounts /\ \E S \in SUBSET Accounts : Trail(c, a, S) BY <2>1, TrailFound
  <2>3. Live(a) BY <2>1, MergeFacts DEF Names
  <2>4. QED BY <2>2, <2>3
<1>2. CASE s.row[c] # NoRow
  <2>1. PICK x \in Accounts : x = s.row[c].account BY <1>2
  <2>2. a = FollowMerge(x) BY <1>2, <2>1 DEF ResolveAccount
  <2>3. PICK S \in SUBSET Accounts : Trail(c, x, S) BY <1>2, <2>1 DEF Trails
  <2>4. a \in Accounts /\ \E T \in SUBSET Accounts : Trail(c, a, T) BY <2>2, <2>3, TrailGoesOn
  <2>5. Live(a) BY <2>2, MergeFacts DEF Names
  <2>6. QED BY <2>4, <2>5
<1>3. QED BY <1>1, <1>2

-----------------------------------------------------------------------------
(* A result is written.                                                    *)

\* A result is a row, the tiers and the version it was asked for.
LEMMA SetResultIs ==
  ASSUME NEW m, NEW s \in Turns(m), NEW rs \in [Accounts -> Row], NEW ts \in [Accounts -> Tiers],
         NEW c \in Accounts, NEW f, f.from \in Nat, NEW t, t = SetResult(s, rs, ts, c, f)
  PROVE  /\ t \in Turns(m)
         /\ t.row = rs /\ t.tier = ts /\ t.held = [s.held EXCEPT ![c] = f.from]
         /\ t.queue = s.queue /\ t.mem = s.mem /\ t.owed = s.owed
<1>1. PICK hs \in [Accounts -> Nat] : hs = [s.held EXCEPT ![c] = f.from] BY DEF Turns
<1>2. PICK t1 \in Turns(m) : t1 = [s EXCEPT !.row = rs] BY DEF Turns
<1>3. PICK t2 \in Turns(m) : t2 = [t1 EXCEPT !.tier = ts] BY DEF Turns
<1>4. PICK t3 \in Turns(m) : t3 = [t2 EXCEPT !.held = hs] BY DEF Turns
<1>5. t = t3 BY <1>1, <1>2, <1>3, <1>4 DEF SetResult, Turns
<1>6. /\ t1.row = rs /\ t1.tier = s.tier /\ t1.held = s.held
      /\ t1.queue = s.queue /\ t1.mem = s.mem /\ t1.owed = s.owed
  BY <1>2 DEF Turns
<1>7. /\ t2.row = rs /\ t2.tier = ts /\ t2.held = s.held
      /\ t2.queue = s.queue /\ t2.mem = s.mem /\ t2.owed = s.owed
  BY <1>3, <1>6 DEF Turns
<1>8. /\ t3.row = rs /\ t3.tier = ts /\ t3.held = hs
      /\ t3.queue = s.queue /\ t3.mem = s.mem /\ t3.owed = s.owed
  BY <1>4, <1>7 DEF Turns
<1>9. QED BY <1>1, <1>5, <1>8

\* The read f of p is handled: it wrote the row of c, or nothing.
Result(s, t, p, c, f) ==
  /\ Others(s, t, p) /\ t.mem[p].flight = s.mem[p].flight
  /\ \A d \in Accounts \ {c} : t.row[d] = s.row[d] /\ t.held[d] = s.held[d]
  /\ \/ t.row = s.row /\ t.held = s.held
     \/ /\ t.row[c] # NoRow /\ t.held[c] = f.from
        /\ s.row[c] # NoRow => f.seq > s.row[c].appliedSeq
        /\ s.row[c] = NoRow => ~Lost(c)

\* A row that holds the result of f is fenced: what may still be written over
\* it was asked for later.
LEMMA ResultFence ==
  ASSUME store \in [Accounts -> Nat], NEW s \in Turns("on"), NEW t, NEW p \in Procs, NEW c \in Accounts,
         Fence(s), NEW f, f = s.mem[p].flight[c], Out(s, p, c),
         \A q \in Procs : t.mem[q].flight = s.mem[q].flight,
         \A d \in Accounts \ {c} : t.row[d] = s.row[d] /\ t.held[d] = s.held[d],
         t.held[c] = f.from, t.row[c] # NoRow,
         t.row[c].appliedSeq = f.seq, t.row[c].readSeq \in Nat, t.row[c].readSeq >= f.seq,
         s.row[c] # NoRow => f.seq > s.row[c].appliedSeq /\ t.row[c].readSeq >= s.row[c].readSeq,
         s.row[c] = NoRow => ~Lost(c)
  PROVE  Fence(t)
<1>1. \A q \in Procs, d \in Accounts : t.mem[q].flight[d] = s.mem[q].flight[d] OBVIOUS
<1>2. \A q \in Procs, d \in Accounts : /\ Out(t, q, d) <=> Out(s, q, d)
                                       /\ Numbered(t, q, d) <=> Numbered(s, q, d)
                                       /\ Early(t, q, d) <=> Early(s, q, d)
  BY <1>1 DEF Out, Numbered, Early
<1>3. f.from <= store[c] BY DEF Fence
<1>4. f \in ReadFlight /\ f.seq \in Nat
  <2>1. f \in Flight("on") BY DEF Turns, Memory
  <2>2. f # NoFlight BY DEF Out, NoFlight
  <2>3. QED BY <2>1, <2>2 DEF Flight, ReadFlight
<1>5. f.linked => Numbered(s, p, c) BY DEF Numbered
<1>6. ~f.linked => Early(s, p, c) BY DEF Early
<1>7. ASSUME NEW x \in Procs, Numbered(t, x, c) PROVE
        /\ t.mem[x].flight[c].seq <= t.row[c].readSeq
        /\ t.mem[x].flight[c].seq > t.row[c].appliedSeq => t.mem[x].flight[c].from >= t.held[c]
        /\ \A q \in Procs : /\ Early(t, q, c) => t.mem[q].flight[c].from <= t.mem[x].flight[c].from
                            /\ Numbered(t, q, c) /\ t.mem[q].flight[c].seq < t.mem[x].flight[c].seq
                                 => t.mem[q].flight[c].from <= t.mem[x].flight[c].from
  <2>1. Numbered(s, x, c) BY <1>2, <1>7
  <2>2. s.row[c] # NoRow BY <2>1 DEF Fence
  <2>3. s.mem[x].flight[c].seq \in Nat /\ s.mem[x].flight[c].from \in Nat /\ f.from \in Nat
    <3>1. s.mem[x].flight[c] \in Flight("on") BY DEF Turns, Memory
    <3>2. s.mem[x].flight[c] # NoFlight BY <2>1 DEF Numbered, Out, NoFlight
    <3>3. QED BY <3>1, <3>2, <1>4 DEF Flight, ReadFlight
  <2>4. s.row[c].readSeq \in Nat
    <3>1. s.row[c] \in Row BY DEF Turns
    <3>2. QED BY <3>1, <2>2, RowFacts DEF LinkedRow
  <2>5. s.mem[x].flight[c].seq <= s.row[c].readSeq BY <2>1, <2>2 DEF Fence
  <2>6. t.mem[x].flight[c].seq <= t.row[c].readSeq BY <1>1, <2>2, <2>3, <2>4, <2>5
  <2>7. \A q \in Procs : /\ Early(s, q, c) => s.mem[q].flight[c].from <= s.mem[x].flight[c].from
                         /\ Numbered(s, q, c) /\ s.mem[q].flight[c].seq < s.mem[x].flight[c].seq
                              => s.mem[q].flight[c].from <= s.mem[x].flight[c].from
    BY <2>1, <2>2 DEF Fence
  <2>8. s.mem[x].flight[c].seq > f.seq => f.from <= s.mem[x].flight[c].from
    BY <2>3, <2>7, <1>4, <1>5, <1>6
  <2>9. QED BY <1>1, <1>2, <2>3, <2>6, <2>7, <2>8
<1>8. t.row[c].appliedSeq <= t.row[c].readSeq BY <1>4
<1>9. \A q \in Procs : Out(t, q, c) => /\ t.mem[q].flight[c].from <= store[c]
                                       /\ t.mem[q].flight[c].asked <= t.mem[q].flight[c].from
                                       /\ t.mem[q].flight[c].follow <= store[c]
  BY <1>1, <1>2 DEF Fence
<1>10. ASSUME NEW d \in Accounts PROVE
    /\ t.held[d] <= store[d]
    /\ \A q \in Procs : Out(t, q, d) => /\ t.mem[q].flight[d].from <= store[d]
                                        /\ t.mem[q].flight[d].asked <= t.mem[q].flight[d].from
                                        /\ t.mem[q].flight[d].follow <= store[d]
    /\ t.row[d] = NoRow => \A q \in Procs : Numbered(t, q, d) => Lost(d)
    /\ t.row[d] # NoRow =>
         /\ t.row[d].appliedSeq <= t.row[d].readSeq
         /\ \A x \in Procs : Numbered(t, x, d) =>
              /\ t.mem[x].flight[d].seq <= t.row[d].readSeq
              /\ t.mem[x].flight[d].seq > t.row[d].appliedSeq => t.mem[x].flight[d].from >= t.held[d]
              /\ \A q \in Procs : /\ Early(t, q, d) => t.mem[q].flight[d].from <= t.mem[x].flight[d].from
                                  /\ Numbered(t, q, d) /\ t.mem[q].flight[d].seq < t.mem[x].flight[d].seq
                                       => t.mem[q].flight[d].from <= t.mem[x].flight[d].from
  <2>1. CASE d = c BY <2>1, <1>3, <1>7, <1>8, <1>9
  <2>2. CASE d # c
    <3>1. t.row[d] = s.row[d] /\ t.held[d] = s.held[d] BY <2>2
    <3>2. QED BY <3>1, <1>1, <1>2 DEF Fence
  <2>3. QED BY <2>1, <2>2
<1>11. QED BY <1>10 DEF Fence

\* The marks of a customer's events are on the row that is written.
LEMMA ResultMarks ==
  ASSUME NEW ap, NEW s, NEW t, NEW c \in Accounts, Marks(ap, s), t.row[c] # NoRow,
         \A d \in Accounts \ {c} : t.row[d] = s.row[d],
         s.row[c] = NoRow => ~Lost(c),
         s.row[c] # NoRow => /\ t.row[c].lastEvent = s.row[c].lastEvent
                             /\ t.row[c].account = s.row[c].account \/ ~Lost(s.row[c].account)
  PROVE  Marks(ap, t)
<1> SUFFICES ASSUME NEW d \in Accounts, NEW e \in Events, MarkedBy(ap, e, d)
             PROVE  IF t.row[d] = NoRow THEN Lost(d) ELSE t.row[d].lastEvent >= e.at \/ Lost(t.row[d].account)
  BY DEF Marks
<1>1. IF s.row[d] = NoRow THEN Lost(d) ELSE s.row[d].lastEvent >= e.at \/ Lost(s.row[d].account) BY DEF Marks
<1>2. CASE d = c BY <1>1, <1>2
<1>3. CASE d # c BY <1>1, <1>3
<1>4. QED BY <1>2, <1>3

\* The fields of the turn at hand are the variables.
LEMMA NowIs ==
  /\ Now.tier = tier /\ Now.row = row /\ Now.queue = queue
  /\ Now.mem = mem /\ Now.held = held /\ Now.owed = owed
BY DEF Now

\* The row that apply writes.
LEMMA ResultRowIs ==
  ASSUME NEW old \in LinkedRow, NEW a \in Names, NEW f, f.seq \in Nat,
         f.answer.tier \in Tiers, f.answer.pack \in BOOLEAN,
         NEW x, x = ResultRow(old, a, f)
  PROVE  /\ x \in LinkedRow /\ x # NoRow
         /\ x.account = IF a = NoAccount THEN old.account ELSE a
         /\ x.appliedSeq = f.seq /\ x.readSeq >= f.seq /\ x.readSeq >= old.readSeq
         /\ x.lastEvent = old.lastEvent
<1>1. /\ old.account \in Accounts /\ old.tier \in Tiers /\ old.pack \in BOOLEAN
      /\ old.readSeq \in Nat /\ old.lastEvent \in Nat
  BY DEF LinkedRow
<1>2. PICK guarded \in BOOLEAN : guarded = (f.answer.kind = "partial") OBVIOUS
<1>3. PICK ac \in Accounts : ac = IF a = NoAccount THEN old.account ELSE a BY <1>1 DEF Names
<1>4. PICK ti \in Tiers : ti = IF guarded /\ old.tier > f.answer.tier THEN old.tier ELSE f.answer.tier BY <1>1
<1>5. PICK pa \in BOOLEAN : pa = (f.answer.pack \/ (guarded /\ old.pack)) BY <1>1
<1>6. PICK rd \in Nat : rd = IF f.seq > old.readSeq THEN f.seq ELSE old.readSeq BY <1>1
<1>7. rd >= f.seq /\ rd >= old.readSeq BY <1>1, <1>6
<1>8. x = [old EXCEPT !.account = ac, !.tier = ti, !.pack = pa, !.appliedSeq = f.seq, !.readSeq = rd]
  BY <1>2, <1>3, <1>4, <1>5, <1>6 DEF ResultRow
<1>9. PICK n \in Nat : n = f.seq OBVIOUS
<1>10. PICK e \in Nat : e = old.lastEvent BY <1>1
<1>11. x = [account |-> ac, tier |-> ti, pack |-> pa, readSeq |-> rd, appliedSeq |-> n, lastEvent |-> e]
  BY <1>8, <1>9, <1>10 DEF LinkedRow
<1>12. /\ x \in LinkedRow
       /\ x.account = ac /\ x.readSeq = rd /\ x.appliedSeq = n /\ x.lastEvent = e
  BY <1>11 DEF LinkedRow
<1>13. QED BY <1>3, <1>7, <1>9, <1>10, <1>12, RowFacts

\* A result is written as it should be, and otherwise nothing is.
LEMMA ApplyKeeps ==
  ASSUME World, NEW ap, Sound("on", ap, Now), NEW p \in Procs, NEW c \in Accounts,
         NEW f, f = mem[p].flight[c], Out(Now, p, c), f.answer \in Answer, f.answer.kind # "failed",
         NEW t, t = Apply(p, c, f)
  PROVE  /\ Sound("on", ap, t) /\ Result(Now, t, p, c, f)
         /\ StaleRead(c, f) \/ t.row[c] = NoRow \/ t.held[c] = f.from
<1>0. /\ Now \in Turns("on") /\ Trails(Now) /\ Fence(Now) /\ Marks(ap, Now) /\ Backed(Now)
      /\ into \in [Accounts -> Names] /\ store \in [Accounts -> Nat]
  BY DEF Sound, World
<1>1. /\ tier \in [Accounts -> Tiers] /\ row \in [Accounts -> Row] /\ queue \in [Accounts -> QueueRow]
      /\ mem \in [Procs -> Memory("on")] /\ held \in [Accounts -> Nat] /\ owed \in [Accounts -> BOOLEAN]
      /\ mem[p].unlinked \in [Accounts -> Nat] /\ mem[p].flight \in [Accounts -> Flight("on")]
  BY <1>0 DEF Turns, Now, Memory
<1>2. f \in ReadFlight
  <2>1. f \in Flight("on") BY <1>1
  <2>2. f # NoFlight BY NowIs DEF Out, NoFlight
  <2>3. QED BY <2>1, <2>2 DEF Flight
<1>3. f.seq \in Nat /\ f.from \in Nat BY <1>2 DEF ReadFlight
<1>4. PICK list \in Answer : list = f.answer /\ list.tier \in Tiers /\ list.pack \in BOOLEAN BY DEF Answer
<1>5. PICK a \in Names : a = ResolveAccount(row, c)
  <2>1. CASE row[c] = NoRow BY <2>1, <1>0, MergeFacts DEF ResolveAccount, Names
  <2>2. CASE row[c] # NoRow
    <3>1. row[c].account \in Names BY <2>2, <1>1, RowFacts DEF LinkedRow, Names
    <3>2. QED BY <2>2, <3>1, <1>0, MergeFacts DEF ResolveAccount
  <2>3. QED BY <2>1, <2>2
<1>6. PICK old : old = IF row[c] = NoRow THEN NewRow(a, mem[p].unlinked[c]) ELSE row[c] OBVIOUS
<1>8. PICK new : new = ResultRow(old, a, f) OBVIOUS
<1>9. PICK x \in QueueRow : x = IF Dirty(Now, c) THEN queue[c] ELSE NoQueue BY <1>1 DEF QueueRow
<1>10. PICK b \in BOOLEAN : b = (SetQueue(Now, c, x).owed[c] /\ ~f.covers) OBVIOUS
<1>11. PICK d1 : d1 = SetQueue(Now, c, x) OBVIOUS
<1>12. PICK d2 : d2 = Done(c, f) OBVIOUS
<1>20. d2 = SetOwed(d1, c, b) BY <1>9, <1>10, <1>11, <1>12 DEF Done, SetOwed
<1>13. d2 \in Turns("on") /\ Quiet(Now, d2, p) /\ d2.mem = mem
  <2>1. d1 \in Turns("on") /\ Quiet(Now, d1, p) /\ d1.mem = Now.mem BY <1>0, <1>11, QueueIsQuiet
  <2>2. d2 \in Turns("on") /\ Quiet(d1, d2, p) /\ d2.mem = d1.mem BY <2>1, <1>20, SetOwedIs
  <2>3. QED BY <2>1, <2>2, QuietChain, NowIs
<1>14. CASE StaleRead(c, f)
  <2>1. t = Now BY <1>14 DEF Apply
  <2>2. QED BY <2>1, <1>14 DEF Result, Others
<1>15. CASE ~StaleRead(c, f) /\ row[c] = NoRow /\ (a = NoAccount \/ (list.tier = 0 /\ ~list.pack))
  <2>1. t = d2 BY <1>4, <1>5, <1>12, <1>15 DEF Apply
  <2>2. Sound("on", ap, t) BY <1>0, <1>13, <2>1, QuietKeeps
  <2>3. t.row = row /\ t.held = held /\ Others(Now, t, p) /\ t.mem[p].flight = mem[p].flight
    BY <1>13, <2>1, NowIs DEF Quiet
  <2>4. QED BY <2>2, <2>3, <1>15, NowIs DEF Result
<1>16. CASE ~StaleRead(c, f) /\ ~(row[c] = NoRow /\ (a = NoAccount \/ (list.tier = 0 /\ ~list.pack)))
  <2>1. PICK u : u = IF row[c] = NoRow THEN SetUnlinked(d2, p, c, 0) ELSE d2 OBVIOUS
  <2>2. u \in Turns("on") /\ Quiet(Now, u, p)
    <3>1. CASE row[c] = NoRow
      <4>1. u = SetUnlinked(d2, p, c, 0) BY <2>1, <3>1
      <4>2. /\ u \in Turns("on") /\ Quiet(d2, u, p)
            /\ u.mem[p].unlinked = [d2.mem[p].unlinked EXCEPT ![c] = 0] /\ u.mem[p].scan = d2.mem[p].scan
            /\ u.queue = d2.queue /\ u.owed = d2.owed
        BY <4>1, <1>13, SetUnlinkedIs
      <4>3. QED BY <4>2, <1>13, QuietChain
    <3>2. CASE row[c] # NoRow BY <3>2, <2>1, <1>13
    <3>3. QED BY <3>1, <3>2
  <2>3. old \in LinkedRow
    <3>1. CASE row[c] = NoRow
      <4>1. a \in Accounts BY <3>1, <1>16 DEF Names
      <4>2. mem[p].unlinked[c] \in Nat BY <1>1
      <4>3. QED BY <3>1, <4>1, <4>2, <1>6, RowFacts
    <3>2. CASE row[c] # NoRow BY <3>2, <1>1, <1>6, RowFacts
    <3>3. QED BY <3>1, <3>2
  <2>4. /\ new \in LinkedRow /\ new # NoRow
        /\ new.account = IF a = NoAccount THEN old.account ELSE a
        /\ new.appliedSeq = f.seq /\ new.readSeq >= f.seq /\ new.readSeq >= old.readSeq
        /\ new.lastEvent = old.lastEvent
    BY <2>3, <1>3, <1>4, <1>8, ResultRowIs
  <2>5. PICK rs : rs = [row EXCEPT ![c] = new] OBVIOUS
  <2>6. rs \in [Accounts -> Row] /\ rs[c] = new /\ \A d \in Accounts \ {c} : rs[d] = row[d]
    BY <2>4, <2>5, <1>1 DEF Row
  <2>7. old.tier = Before(row, c) BY <1>6 DEF Before, NewRow
  <2>8. PICK ts : ts = TiersWritten(rs, new.account, c, Before(row, c)) OBVIOUS
  <2>9. ts \in [Accounts -> Tiers]
    <3>1. PICK y \in Accounts : y = new.account BY <2>4 DEF LinkedRow
    <3>2. PICK before : before = Before(row, c) OBVIOUS
    <3>3. ts = TiersWritten(rs, y, c, before) BY <2>8, <3>1, <3>2
    <3>4. TiersAfter(ts, rs, c, y, before) BY <3>3, <2>6, <1>1, TiersWrittenAre
    <3>5. QED BY <3>4 DEF TiersAfter
  <2>10. t = SetResult(u, rs, ts, c, f)
    BY <1>4, <1>5, <1>6, <1>8, <1>12, <1>16, <2>1, <2>5, <2>7, <2>8 DEF Apply
  <2>11. /\ t \in Turns("on")
         /\ t.row = rs /\ t.tier = ts /\ t.held = [u.held EXCEPT ![c] = f.from]
         /\ t.queue = u.queue /\ t.mem = u.mem /\ t.owed = u.owed
    BY <2>2, <2>6, <2>9, <2>10, <1>3, SetResultIs
  <2>12. u.held = held /\ Others(Now, u, p) /\ u.mem[p].flight = mem[p].flight BY <2>2, NowIs DEF Quiet
  <2>13. t.held[c] = f.from /\ \A d \in Accounts \ {c} : t.held[d] = held[d] BY <2>11, <2>12, <1>1
  <2>14. Others(Now, t, p) /\ \A q \in Procs : t.mem[q].flight = Now.mem[q].flight
    BY <2>11, <2>12, NowIs DEF Others
  <2>15. row[c] # NoRow => f.seq > row[c].appliedSeq
    <3>1. ASSUME row[c] # NoRow PROVE f.seq > row[c].appliedSeq
      <4>1. row[c].appliedSeq \in Nat BY <3>1, <1>1, RowFacts DEF LinkedRow
      <4>2. ~(f.seq <= row[c].appliedSeq) BY <3>1, <1>16 DEF StaleRead
      <4>3. QED BY <4>1, <4>2, <1>3
    <3>2. QED BY <3>1
  <2>16. row[c] = NoRow => ~Lost(c) /\ a # NoAccount BY <1>5, <1>16 DEF ResolveAccount, Lost
  <2>17. row[c] # NoRow => old = row[c] /\ a = FollowMerge(row[c].account) BY <1>5, <1>6 DEF ResolveAccount
  <2>18. Result(Now, t, p, c, f)
    BY <2>4, <2>6, <2>11, <2>13, <2>14, <2>15, <2>16, NowIs DEF Result
  <2>19. Trails(t)
    <3>1. \E S \in SUBSET Accounts : Trail(c, new.account, S)
      <4>1. CASE a = NoAccount
        <5>1. row[c] # NoRow /\ new.account = row[c].account BY <4>1, <2>4, <2>16, <2>17
        <5>2. QED BY <5>1, <1>0, NowIs DEF Trails
      <4>2. CASE a # NoAccount
        <5>1. row[c] # NoRow => row[c].account \in Accounts BY <1>1, RowFacts DEF LinkedRow
        <5>2. \E S \in SUBSET Accounts : Trail(c, a, S) BY <4>2, <5>1, <1>0, <1>5, NowIs, ResolvedTrail
        <5>3. QED BY <4>2, <5>2, <2>4
      <4>3. QED BY <4>1, <4>2
    <3>2. QED BY <3>1, <2>4, <2>6, <2>11, <1>0, NowIs, WrittenTrails
  <2>20. Fence(t)
    <3>1. t.row[c].readSeq \in Nat BY <2>4, <2>6, <2>11 DEF LinkedRow
    <3>2. f = Now.mem[p].flight[c] BY NowIs
    <3>3. \A d \in Accounts \ {c} : t.row[d] = Now.row[d] /\ t.held[d] = Now.held[d]
      BY <2>6, <2>11, <2>13, NowIs
    <3>4. t.row[c] # NoRow /\ t.row[c].appliedSeq = f.seq /\ t.row[c].readSeq >= f.seq BY <2>4, <2>6, <2>11
    <3>5. Now.row[c] # NoRow => f.seq > Now.row[c].appliedSeq /\ t.row[c].readSeq >= Now.row[c].readSeq
      BY <2>4, <2>6, <2>11, <2>15, <2>17, NowIs
    <3>6. Now.row[c] = NoRow => ~Lost(c) BY <2>16, NowIs
    <3>7. QED BY <3>1, <3>2, <3>3, <3>4, <3>5, <3>6, <2>13, <2>14, <1>0, ResultFence
  <2>21. Marks(ap, t)
    <3>1. t.row[c] # NoRow /\ \A d \in Accounts \ {c} : t.row[d] = Now.row[d] BY <2>4, <2>6, <2>11, NowIs
    <3>2. Now.row[c] = NoRow => ~Lost(c) BY <2>16, NowIs
    <3>3. Now.row[c] # NoRow => /\ t.row[c].lastEvent = Now.row[c].lastEvent
                                /\ t.row[c].account = Now.row[c].account \/ ~Lost(Now.row[c].account)
      BY <2>4, <2>6, <2>11, <2>17, NowIs DEF Lost
    <3>4. QED BY <3>1, <3>2, <3>3, <1>0, ResultMarks
  <2>22. Backed(t)
    <3>1. row[c] # NoRow => new.account = row[c].account \/ ~Live(row[c].account)
      <4>1. ASSUME row[c] # NoRow, Live(row[c].account) PROVE new.account = row[c].account
        <5>1. row[c].account \in Accounts BY <4>1, <1>1, RowFacts DEF LinkedRow
        <5>2. a = row[c].account BY <4>1, <5>1, <2>17, <1>0, MergeFacts DEF Names
        <5>3. a # NoAccount BY <5>1, <5>2, BillingAssumption
        <5>4. QED BY <5>2, <5>3, <2>4
      <4>2. QED BY <4>1
    <3>2. ASSUME NEW y \in Accounts, Live(y) PROVE BackedAt(t.tier, t.row, y)
      <4>1. BackedAt(tier, row, y) BY <3>2, <1>0, NowIs DEF Backed, BackedAt
      <4>2. BackedAt(ts, rs, y) BY <4>1, <3>1, <3>2, <2>4, <2>5, <2>6, <2>8, <1>0, <1>1, TiersFollow
      <4>3. QED BY <4>2, <2>11
    <3>3. QED BY <3>2 DEF Backed, BackedAt
  <2>23. Sound("on", ap, t) BY <2>11, <2>19, <2>20, <2>21, <2>22 DEF Sound
  <2>24. QED BY <2>13, <2>18, <2>23
<1>17. QED BY <1>14, <1>15, <1>16

-----------------------------------------------------------------------------
(* The turn in which a read ends.                                          *)

\* A failure writes the queue only.
LEMMA FailedIs ==
  ASSUME Now \in Turns("on"), NEW p \in Procs, NEW c \in Accounts, NEW t, t = Failed(c)
  PROVE  t \in Turns("on") /\ Quiet(Now, t, p)
<1>1. queue[c] \in QueueRow /\ Retries \in Nat BY NowIs, BillingAssumption DEF Turns
<1>2. PICK n : n = 1 + (IF queue[c] = NoQueue THEN 0 ELSE queue[c].attempts) OBVIOUS
<1>3. n \in Nat
  <2>1. CASE queue[c] = NoQueue BY <2>1, <1>2
  <2>2. CASE queue[c] # NoQueue
    <3>1. queue[c].attempts \in 0..Retries BY <2>2, <1>1 DEF QueueRow
    <3>2. QED BY <2>2, <3>1, <1>1, <1>2
  <2>3. QED BY <2>1, <2>2
<1>4. CASE Dirty(Now, c)
  <2>1. t = Now BY <1>4 DEF Failed
  <2>2. QED BY <2>1 DEF Quiet, Others
<1>5. CASE ~Dirty(Now, c) /\ n > Retries
  <2>1. NoQueue \in QueueRow BY DEF QueueRow
  <2>2. PICK u : u = SetQueue(Now, c, NoQueue) OBVIOUS
  <2>3. u \in Turns("on") /\ Quiet(Now, u, p) /\ u.mem = Now.mem BY <2>1, <2>2, QueueIsQuiet
  <2>4. PICK b \in BOOLEAN : b = FALSE OBVIOUS
  <2>5. t = SetOwed(u, c, b) BY <1>2, <1>5, <2>2, <2>4 DEF Failed, SetOwed
  <2>6. t \in Turns("on") /\ Quiet(u, t, p) /\ t.mem = u.mem BY <2>3, <2>5, SetOwedIs
  <2>7. QED BY <2>3, <2>6, QuietChain
<1>6. CASE ~Dirty(Now, c) /\ ~(n > Retries)
  <2>1. n \in 0..Retries BY <1>1, <1>3, <1>6
  <2>2. PICK x : x = [due |-> FALSE, attempts |-> n, dirty |-> FALSE] OBVIOUS
  <2>3. x \in QueueRow BY <2>1, <2>2 DEF QueueRow
  <2>4. t = SetQueue(Now, c, x) BY <1>2, <1>6, <2>2 DEF Failed
  <2>5. t \in Turns("on") /\ Quiet(Now, t, p) /\ t.mem = Now.mem BY <2>3, <2>4, QueueIsQuiet
  <2>6. QED BY <2>5
<1>7. QED BY <1>4, <1>5, <1>6

\* An answer is handled.
LEMMA HandledKeeps ==
  ASSUME World, NEW ap, Sound("on", ap, Now), NEW p \in Procs, NEW c \in Accounts,
         NEW f, f = mem[p].flight[c], Out(Now, p, c), f.answer \in Answer,
         NEW t, t = Handled(p, c, f)
  PROVE  /\ Sound("on", ap, t) /\ Result(Now, t, p, c, f)
         /\ f.answer.kind = "list" => StaleRead(c, f) \/ t.row[c] = NoRow \/ t.held[c] = f.from
<1>1. Now \in Turns("on") /\ store \in [Accounts -> Nat] BY DEF Sound, World
<1>2. CASE f.answer.kind = "failed" \/ (f.answer.kind = "never" /\ HoldsSomething(c))
  <2>1. t = Failed(c) BY <1>2 DEF Handled
  <2>2. t \in Turns("on") /\ Quiet(Now, t, p) BY <1>1, <2>1, FailedIs
  <2>3. Sound("on", ap, t) BY <1>1, <2>2, QuietKeeps
  <2>4. Result(Now, t, p, c, f) BY <2>2 DEF Quiet, Result
  <2>5. QED BY <2>3, <2>4, <1>2
<1>3. CASE ~(f.answer.kind = "failed" \/ (f.answer.kind = "never" /\ HoldsSomething(c)))
  <2>1. t = Apply(p, c, f) BY <1>3 DEF Handled
  <2>2. f.answer.kind # "failed" BY <1>3
  <2>3. /\ Sound("on", ap, t) /\ Result(Now, t, p, c, f)
        /\ StaleRead(c, f) \/ t.row[c] = NoRow \/ t.held[c] = f.from
    BY <2>1, <2>2, ApplyKeeps
  <2>4. QED BY <2>3
<1>4. QED BY <1>2, <1>3

\* The flight is cleared.
LEMMA ClearedIs ==
  ASSUME NEW m, NEW s \in Turns(m), NoFlight \in Flight(m), NEW p \in Procs, NEW c \in Accounts,
         NEW t, t = Cleared(s, p, c)
  PROVE  t \in Turns(m) /\ OneFlight(s, t, p, c, NoFlight)
<1>1. PICK u : u = SetFlight(s, p, c, NoFlight) OBVIOUS
<1>2. /\ u \in Turns(m)
      /\ OneFlight(s, u, p, c, NoFlight)
      /\ u.mem[p].unlinked = s.mem[p].unlinked /\ u.mem[p].scan = s.mem[p].scan
      /\ u.queue = s.queue /\ u.owed = s.owed
  BY <1>1, SetFlightIs
<1>3. s.mem[p].scan \in Scan BY DEF Turns, Memory
<1>4. PICK x : x = IF s.mem[p].scan.at = c THEN [s.mem[p].scan EXCEPT !.at = NoAccount] ELSE s.mem[p].scan OBVIOUS
<1>5. x \in Scan BY <1>3, <1>4 DEF Scan, Names
<1>6. t = SetScan(u, p, x) BY <1>1, <1>4 DEF Cleared
<1>7. /\ t \in Turns(m) /\ Quiet(u, t, p)
      /\ t.mem[p].unlinked = u.mem[p].unlinked /\ t.mem[p].scan = x
      /\ t.queue = u.queue /\ t.owed = u.owed
  BY <1>2, <1>5, <1>6, SetScanIs
<1>8. QED BY <1>2, <1>7 DEF OneFlight, Quiet, Others

\* A flight that is over lightens the load.
LEMMA OverLighter ==
  ASSUME NEW m, NEW s \in Turns(m), NEW p \in Procs, NEW c \in Accounts, NEW t, NEW x, x.seq = 0,
         OneFlight(s, t, p, c, x)
  PROVE  /\ Lighter(s, t) /\ ~Out(t, p, c)
         /\ \A q \in Procs, d \in Accounts : ~(q = p /\ d = c) => t.mem[q].flight[d] = s.mem[q].flight[d]
<1>1. s.mem[p].flight \in [Accounts -> Flight(m)] BY DEF Turns, Memory
<1>2. ~Out(t, p, c) BY <1>1 DEF OneFlight, Out
<1>3. \A q \in Procs, d \in Accounts : ~(q = p /\ d = c) => t.mem[q].flight[d] = s.mem[q].flight[d]
  BY <1>1 DEF OneFlight, Others
<1>4. Lighter(s, t)
  <2> SUFFICES ASSUME NEW q \in Procs, NEW d \in Accounts, Out(t, q, d)
               PROVE  /\ Out(s, q, d)
                      /\ t.mem[q].flight[d] = s.mem[q].flight[d]
    BY DEF Lighter
  <2>1. t.mem[q].flight[d] = s.mem[q].flight[d] BY <1>2, <1>3
  <2>2. QED BY <2>1 DEF Out
<1>5. QED BY <1>2, <1>3, <1>4

\* Once the flight is cleared, the other reads of the process are still to be
\* written; other processes have none unless two ran at once.
LEMMA ClearedKeeps ==
  ASSUME World, Processes, NEW ap, Good("on", ap, overlapped, Now), NEW p \in Procs, Up(p), NEW c \in Accounts,
         NEW f, f = mem[p].flight[c], NEW s, Sound("on", ap, s), Result(Now, s, p, c, f),
         NEW t, t = Cleared(s, p, c)
  PROVE  /\ Good("on", ap, overlapped, t)
         /\ Others(Now, t, p) /\ t.mem[p].flight[c] = NoFlight /\ t.row = s.row /\ t.held = s.held
         /\ \A q \in Procs, d \in Accounts : ~(q = p /\ d = c) => t.mem[q].flight[d] = mem[q].flight[d]
<1>1. s \in Turns("on") /\ Now \in Turns("on") /\ store \in [Accounts -> Nat] BY DEF Sound, Good, World
<1>2. NoFlight \in Flight("on") /\ NoFlight.seq = 0 BY DEF Flight, NoFlight
<1>3. t \in Turns("on") /\ OneFlight(s, t, p, c, NoFlight) BY <1>1, <1>2, ClearedIs
<1>4. /\ Lighter(s, t) /\ ~Out(t, p, c)
      /\ \A q \in Procs, d \in Accounts : ~(q = p /\ d = c) => t.mem[q].flight[d] = s.mem[q].flight[d]
  BY <1>1, <1>2, <1>3, OverLighter
<1>5. t.tier = s.tier /\ t.row = s.row /\ t.held = s.held BY <1>3 DEF OneFlight
<1>6. Sound("on", ap, t) BY <1>1, <1>3, <1>4, <1>5, LighterSound
<1>7. \A q \in Procs, d \in Accounts : s.mem[q].flight[d] = mem[q].flight[d]
  BY NowIs DEF Result, Others
<1>8. \A q \in Procs, d \in Accounts : ~(q = p /\ d = c) => t.mem[q].flight[d] = mem[q].flight[d]
  BY <1>4, <1>7
<1>9. Fresh(overlapped, t)
  <2> SUFFICES ASSUME ~overlapped, NEW q \in Procs, NEW d \in Accounts, Out(t, q, d), t.row[d] # NoRow
               PROVE  t.mem[q].flight[d].seq > t.row[d].appliedSeq
    BY DEF Fresh
  <2>1. ~(q = p /\ d = c) BY <1>4
  <2>2. t.mem[q].flight[d] = mem[q].flight[d] BY <2>1, <1>8
  <2>3. q = p
    <3>1. ASSUME q # p PROVE FALSE
      <4>1. ~Up(q) BY <3>1 DEF Processes
      <4>2. mem[q] = NoMemory BY <4>1 DEF Processes
      <4>3. mem[q].flight[d].seq = 0 BY <4>2 DEF NoMemory, NoFlight
      <4>4. QED BY <4>3, <2>2 DEF Out
    <3>2. QED BY <3>1
  <2>4. d # c BY <2>1, <2>3
  <2>5. t.row[d] = row[d] BY <2>4, <1>5, NowIs DEF Result
  <2>6. Fresh(overlapped, Now) BY DEF Good
  <2>7. Out(Now, q, d) BY <2>2, NowIs DEF Out
  <2>8. QED BY <2>2, <2>5, <2>6, <2>7, NowIs DEF Fresh
<1>10. Others(Now, t, p) BY <1>3 DEF OneFlight, Result, Others
<1>11. t.mem[p].flight[c] = NoFlight BY <1>1, <1>3 DEF OneFlight, Turns, Memory
<1>12. QED BY <1>5, <1>6, <1>8, <1>9, <1>10, <1>11 DEF Good

\* One more read begins if it was asked for.
LEMMA OneMoreGoes ==
  ASSUME store \in [Accounts -> Nat], NEW ap, NEW o, NEW p \in Procs, NEW c \in Accounts, NEW s,
         Good("on", ap, o, s), s.mem[p].flight[c] = NoFlight,
         NEW f, f.follow \in Nat, f.follow <= store[c], NEW t, t = OneMore(s, p, c, f)
  PROVE  Goes(ap, o, s, t, p)
<1>1. s \in Turns("on") BY DEF Good, Sound
<1>2. CASE Dirty(s, c) \/ f.follow > 0
  <2>1. PICK n \in Nat : n = f.follow /\ n <= store[c] OBVIOUS
  <2>2. PICK u : u = Start(s, p, c, n) OBVIOUS
  <2>3. Goes(ap, o, s, u, p) BY <2>1, <2>2, StartGoes
  <2>4. Good("on", ap, o, u) /\ u \in Turns("on") BY <2>3 DEF Goes, Good, Sound
  <2>5. t = TakeDirty(u, c) BY <1>2, <2>1, <2>2 DEF OneMore
  <2>6. t \in Turns("on") /\ Quiet(u, t, p) /\ t.mem = u.mem BY <2>4, <2>5, TakeDirtyIs
  <2>7. Goes(ap, o, u, t, p) BY <2>4, <2>6, QuietGoes
  <2>8. QED BY <2>3, <2>7, GoesChain
<1>3. CASE ~(Dirty(s, c) \/ f.follow > 0)
  <2>1. t = SetUnlinked(s, p, c, 0) BY <1>3 DEF OneMore
  <2>2. /\ t \in Turns("on") /\ Quiet(s, t, p)
        /\ t.mem[p].unlinked = [s.mem[p].unlinked EXCEPT ![c] = 0] /\ t.mem[p].scan = s.mem[p].scan
        /\ t.queue = s.queue /\ t.owed = s.owed
    BY <2>1, <1>1, SetUnlinkedIs
  <2>3. QED BY <2>2, QuietGoes
<1>4. QED BY <1>2, <1>3

-----------------------------------------------------------------------------
(* A turn is committed.                                                    *)

\* No read that is out ends in this step.
NoneEnds == \A p \in Procs, c \in Accounts : Out(Now, p, c) => mem'[p].flight[c].seq = mem[p].flight[c].seq

\* What was committed is what the next turn begins with.
LEMMA CommitIs ==
  ASSUME NEW m, NEW t \in Turns(m), Commit(t)
  PROVE  Now' = t
<1>1. PICK s : /\ s = t
               /\ tier' = s.tier /\ row' = s.row /\ queue' = s.queue
               /\ mem' = s.mem /\ held' = s.held /\ owed' = s.owed
  BY DEF Commit
<1>2. Now' = [tier |-> tier', row |-> row', queue |-> queue', mem |-> mem', held |-> held', owed |-> owed']
  BY DEF Now
<1>3. QED BY <1>1, <1>2 DEF Turns

\* Whoever is found is found as long as no account is joined or erased.
LEMMA MergeSame ==
  ASSUME into' = into
  PROVE  \A x : (FollowMerge(x)' = FollowMerge(x)) /\ (Lost(x)' <=> Lost(x))
<1>1. \A x : FollowMerge(x)' = End(HopsOf(into'), x) BY MergeOfNext
<1>2. \A x : FollowMerge(x) = End(HopsOf(into), x) BY MergeOf
<1>3. \A x : FollowMerge(x)' = FollowMerge(x) BY <1>1, <1>2
<1>4. QED BY <1>3 DEF Lost

\* What holds of the turn holds after it, in an unchanged world.
LEMMA GoodNext ==
  ASSUME into' = into, store' = store, NEW t, Now' = t, Good(mode', applied', overlapped', t)
  PROVE  Good(mode, applied, overlapped, Now)'
<1>1. (Now \in Turns(mode))' BY DEF Good, Sound, Turns, Memory, Flight
<1>2. Trails(Now)'
  <2>1. Trails(t) BY DEF Good, Sound
  <2>2. ASSUME NEW c, NEW x, NEW S, Trail(c, x, S) PROVE Trail(c, x, S)' BY <2>2 DEF Trail
  <2>3. QED BY <2>1, <2>2 DEF Trails
<1>3. Fence(Now)'
  <2>1. Fence(t) BY DEF Good, Sound
  <2>2. \A x : Lost(x)' <=> Lost(x) BY MergeSame
  <2>3. \A p, c : /\ Out(Now, p, c)' <=> Out(t, p, c)
                  /\ Numbered(Now, p, c)' <=> Numbered(t, p, c)
                  /\ Early(Now, p, c)' <=> Early(t, p, c)
    BY DEF Out, Numbered, Early
  <2>4. QED BY <2>1, <2>2, <2>3 DEF Fence
<1>4. Marks(applied, Now)'
  <2>1. Marks(applied', t) BY DEF Good, Sound
  <2>2. \A x : Lost(x)' <=> Lost(x) BY MergeSame
  <2>3. QED BY <2>1, <2>2 DEF Marks, MarkedBy
<1>5. Backed(Now)'
  <2>1. Backed(t) BY DEF Good, Sound
  <2>2. \A r, a : Highest(r, a)' = Highest(r, a) BY DEF Highest
  <2>3. \A a : Live(a)' <=> Live(a) BY DEF Live
  <2>4. QED BY <2>1, <2>2, <2>3 DEF Backed, Highest
<1>6. Fresh(overlapped, Now)'
  <2>1. Fresh(overlapped', t) BY DEF Good
  <2>2. QED BY <2>1 DEF Fresh, Out
<1>7. QED BY <1>1, <1>2, <1>3, <1>4, <1>5, <1>6 DEF Good, Sound

\* A turn of one process that runs keeps the invariant if it keeps what Good
\* says of it.
LEMMA TurnKeeps ==
  ASSUME IInv, NEW p \in Procs, Up(p),
         UNCHANGED <<mode, rolling, into, store, proc, overlapped>>,
         applied' \in [Events -> {"new", "on", "off"}],
         NEW t, Now' = t, Good(mode, applied', overlapped, t), Others(Now, t, p),
         mode # "on" => t.mem[p].scan = NoScan
  PROVE  IInv'
<1>1. World' BY DEF IInv, World
<1>2. Processes'
  <2>1. mem' = t.mem BY DEF Now
  <2>2. \A q \in Procs \ {p} : mem'[q] = mem[q] BY <2>1, NowIs DEF Others
  <2>3. Processes BY DEF IInv
  <2>4. QED BY <2>1, <2>2, <2>3 DEF Processes, Up
<1>3. Good(mode, applied, overlapped, Now)' BY GoodNext
<1>4. QED BY <1>1, <1>2, <1>3 DEF IInv

-----------------------------------------------------------------------------
(* The steps of the reads.                                                 *)

\* What IInv says, in the words of the lemmas.
LEMMA IInvFacts ==
  ASSUME IInv
  PROVE  /\ World /\ Processes /\ Good(mode, applied, overlapped, Now)
         /\ Now \in Turns(mode) /\ into \in [Accounts -> Names] /\ store \in [Accounts -> Nat]
         /\ mem \in [Procs -> Memory(mode)] /\ row \in [Accounts -> Row] /\ tier \in [Accounts -> Tiers]
         /\ \A p \in Procs, c \in Accounts : mem[p].flight[c] \in Flight(mode)
         /\ mode # "on" => \A p \in Procs, c \in Accounts : ~Out(Now, p, c)
<1>1. World /\ Processes /\ Good(mode, applied, overlapped, Now) BY DEF IInv
<1>2. Now \in Turns(mode) BY <1>1 DEF Good, Sound
<1>3. /\ mem \in [Procs -> Memory(mode)] /\ row \in [Accounts -> Row] /\ tier \in [Accounts -> Tiers]
  BY <1>2, NowIs DEF Turns
<1>4. \A p \in Procs, c \in Accounts : mem[p].flight[c] \in Flight(mode) BY <1>3 DEF Memory
<1>5. mode # "on" => \A p \in Procs, c \in Accounts : ~Out(Now, p, c)
  BY <1>4, NowIs DEF Flight, SweepFlight, NoFlight, Out
<1>6. QED BY <1>1, <1>2, <1>3, <1>4, <1>5 DEF World

\* A step of a read that writes no result keeps the invariant.
LEMMA GoesKeeps ==
  ASSUME IInv, mode = "on", NEW p \in Procs, Up(p), UNCHANGED world,
         NEW t, Goes(applied, overlapped, Now, t, p), Commit(t)
  PROVE  IInv' /\ NoneEnds
<1>1. t \in Turns("on") BY DEF Goes, Good, Sound
<1>2. Now' = t BY <1>1, CommitIs
<1>3. UNCHANGED <<mode, rolling, into, store, proc, overlapped, applied>> BY DEF world
<1>4. applied' \in [Events -> {"new", "on", "off"}] BY <1>3 DEF IInv, World
<1>5. Good(mode, applied', overlapped, t) /\ Others(Now, t, p) BY <1>3 DEF Goes
<1>6. IInv' BY <1>2, <1>3, <1>4, <1>5, TurnKeeps
<1>7. NoneEnds
  <2>1. mem' = t.mem BY <1>2 DEF Now
  <2>2. Running(Now, t) BY DEF Goes
  <2>3. QED BY <2>1, <2>2, NowIs DEF NoneEnds, Running
<1>8. QED BY <1>6, <1>7

\* A read ends.  What it wrote, and that no other one ends with it.
Wrote(p, c) ==
  LET f == mem[p].flight[c] IN
  /\ \A q \in Procs, d \in Accounts : Out(Now, q, d) /\ ~(q = p /\ d = c) => mem'[q].flight[d].seq = mem[q].flight[d].seq
  /\ \/ row'[c] = NoRow
     \/ held'[c] = held[c]
     \/ /\ held'[c] = f.from
        /\ row[c] # NoRow => f.seq > row[c].appliedSeq
        /\ row[c] = NoRow => ~Lost(c)
  /\ f.answer.kind = "list" => StaleRead(c, f) \/ row'[c] = NoRow \/ held'[c] = f.from

\* The end of a read keeps the invariant, and wrote what Wrote says.
LEMMA ReadEndsKeeps ==
  ASSUME IInv, NEW p \in Procs, NEW c \in Accounts, ReadEnds(p, c)
  PROVE  IInv' /\ applied' = applied /\ mode = "on" /\ Wrote(p, c)
<1>1. /\ World /\ Processes /\ Good(mode, applied, overlapped, Now)
      /\ Now \in Turns(mode) /\ into \in [Accounts -> Names] /\ store \in [Accounts -> Nat]
      /\ \A q \in Procs, d \in Accounts : mem[q].flight[d] \in Flight(mode)
  BY IInvFacts
<1>2. PICK f : f = mem[p].flight[c] OBVIOUS
<1>3. mode = "on" /\ Up(p) /\ f # NoFlight /\ f.answer # NoAnswer /\ UNCHANGED world
  BY <1>2, NowIs DEF ReadEnds, Flying
<1>4. f \in ReadFlight BY <1>1, <1>2, <1>3 DEF Flight
<1>5. /\ f.seq # 0 /\ f.answer \in Answer /\ f.follow \in Nat /\ f.from \in Nat /\ Out(Now, p, c)
  BY <1>2, <1>3, <1>4, NowIs DEF ReadFlight, Out
<1>6. f.follow <= store[c]
  BY <1>1, <1>2, <1>5, NowIs DEF Good, Sound, Fence
<1>7. PICK s : /\ s = Handled(p, c, f)
               /\ \E t \in {Cleared(s, p, c)} : Commit(OneMore(t, p, c, f))
  BY <1>2 DEF ReadEnds
<1>8. PICK t : t = Cleared(s, p, c) /\ Commit(OneMore(t, p, c, f)) BY <1>7
<1>9. PICK u : u = OneMore(t, p, c, f) OBVIOUS
<1>10. Sound("on", applied, Now) /\ Good("on", applied, overlapped, Now) BY <1>1, <1>3 DEF Good
<1>11. /\ Sound("on", applied, s) /\ Result(Now, s, p, c, f)
       /\ f.answer.kind = "list" => StaleRead(c, f) \/ s.row[c] = NoRow \/ s.held[c] = f.from
  BY <1>1, <1>2, <1>5, <1>7, <1>10, HandledKeeps
<1>12. /\ Good("on", applied, overlapped, t)
       /\ Others(Now, t, p) /\ t.mem[p].flight[c] = NoFlight /\ t.row = s.row /\ t.held = s.held
       /\ \A q \in Procs, d \in Accounts : ~(q = p /\ d = c) => t.mem[q].flight[d] = mem[q].flight[d]
  BY <1>1, <1>2, <1>3, <1>8, <1>10, <1>11, ClearedKeeps
<1>13. Goes(applied, overlapped, t, u, p) BY <1>1, <1>5, <1>6, <1>9, <1>12, OneMoreGoes
<1>14. u \in Turns("on") /\ Good("on", applied, overlapped, u) BY <1>13 DEF Goes, Good, Sound
<1>15. Now' = u BY <1>8, <1>9, <1>14, CommitIs
<1>16. Others(Now, u, p) BY <1>12, <1>13 DEF Goes, Others
<1>17. UNCHANGED <<mode, rolling, into, store, proc, overlapped, applied>> BY <1>3 DEF world
<1>18. IInv'
  <2>1. applied' \in [Events -> {"new", "on", "off"}] BY <1>1, <1>17 DEF World
  <2>2. Good(mode, applied', overlapped, u) BY <1>3, <1>14, <1>17
  <2>3. mode # "on" => u.mem[p].scan = NoScan BY <1>3
  <2>4. QED BY <1>3, <1>15, <1>16, <1>17, <2>1, <2>2, <2>3, TurnKeeps
<1>19. Wrote(p, c)
  <2>1. mem' = u.mem /\ row' = u.row /\ held' = u.held BY <1>15 DEF Now
  <2>2. ASSUME NEW q \in Procs, NEW d \in Accounts, Out(Now, q, d), ~(q = p /\ d = c)
        PROVE  mem'[q].flight[d].seq = mem[q].flight[d].seq
    <3>1. t.mem[q].flight[d] = mem[q].flight[d] BY <2>2, <1>12
    <3>2. Out(t, q, d) BY <3>1, <2>2, NowIs DEF Out
    <3>3. u.mem[q].flight[d].seq = t.mem[q].flight[d].seq BY <3>2, <1>13 DEF Goes, Running
    <3>4. QED BY <2>1, <3>1, <3>3
  <2>3. row'[c] = NoRow <=> s.row[c] = NoRow BY <2>1, <1>12, <1>13 DEF Goes
  <2>4. held' = s.held BY <2>1, <1>12, <1>13 DEF Goes
  <2>5. \/ held'[c] = held[c]
        \/ /\ held'[c] = f.from
           /\ row[c] # NoRow => f.seq > row[c].appliedSeq
           /\ row[c] = NoRow => ~Lost(c)
    BY <2>4, <1>11, NowIs DEF Result
  <2>6. f.answer.kind = "list" => StaleRead(c, f) \/ row'[c] = NoRow \/ held'[c] = f.from
    BY <2>3, <2>4, <1>11
  <2>7. QED BY <2>2, <2>5, <2>6, <1>2 DEF Wrote
<1>20. QED BY <1>3, <1>17, <1>18, <1>19

\* A flight that is as it was but for its answer and who waits for the next.
Same(x, y, c) ==
  /\ x.seq = y.seq
  /\ y.seq # 0 => /\ x.linked = y.linked /\ x.from = y.from /\ x.asked = y.asked
                  /\ x.follow \in {y.follow, store[c]}

\* Nothing else notices that.
LEMMA SameLighter ==
  ASSUME NEW m, NEW s \in Turns(m), NEW p \in Procs, NEW c \in Accounts, NEW x, NEW t,
         OneFlight(s, t, p, c, x), Same(x, s.mem[p].flight[c], c)
  PROVE  Lighter(s, t) /\ Running(s, t)
<1>1. s.mem[p].flight \in [Accounts -> Flight(m)] BY DEF Turns, Memory
<1>2. \A q \in Procs, d \in Accounts : ~(q = p /\ d = c) => t.mem[q].flight[d] = s.mem[q].flight[d]
  BY <1>1 DEF OneFlight, Others
<1>3. t.mem[p].flight[c] = x BY <1>1 DEF OneFlight
<1>4. ASSUME NEW q \in Procs, NEW d \in Accounts PROVE
        /\ t.mem[q].flight[d].seq = s.mem[q].flight[d].seq
        /\ Out(t, q, d) =>
             /\ Out(s, q, d)
             /\ t.mem[q].flight[d].linked = s.mem[q].flight[d].linked
             /\ t.mem[q].flight[d].from = s.mem[q].flight[d].from
             /\ t.mem[q].flight[d].asked = s.mem[q].flight[d].asked
             /\ t.mem[q].flight[d].follow \in {s.mem[q].flight[d].follow, store[d]}
  <2>1. CASE q = p /\ d = c BY <2>1, <1>3 DEF Same, Out
  <2>2. CASE ~(q = p /\ d = c)
    <3>1. t.mem[q].flight[d] = s.mem[q].flight[d] BY <2>2, <1>2
    <3>2. QED BY <3>1 DEF Out
  <2>3. QED BY <2>1, <2>2
<1>5. QED BY <1>4 DEF Lighter, Running

\* So everything is kept.
Kept(m, ap, o, s, t, p) ==
  /\ Good(m, ap, o, t) /\ Running(s, t) /\ Others(s, t, p)
  /\ t.held = s.held /\ t.row = s.row /\ t.mem[p].scan = s.mem[p].scan

\* A step that leaves flights the same keeps what Kept says.
LEMMA SameKeeps ==
  ASSUME store \in [Accounts -> Nat], NEW m, NEW ap, NEW o, NEW p \in Procs, NEW c \in Accounts, NEW s,
         Good(m, ap, o, s), NEW x \in Flight(m), NEW y, y = s.mem[p].flight[c], Same(x, y, c),
         NEW t, t = SetFlight(s, p, c, x)
  PROVE  Kept(m, ap, o, s, t, p)
<1>1. s \in Turns(m) /\ Sound(m, ap, s) /\ Fresh(o, s) BY DEF Good, Sound
<1>2. /\ t \in Turns(m)
      /\ OneFlight(s, t, p, c, x)
      /\ t.mem[p].unlinked = s.mem[p].unlinked /\ t.mem[p].scan = s.mem[p].scan
      /\ t.queue = s.queue /\ t.owed = s.owed
  BY <1>1, SetFlightIs
<1>3. Lighter(s, t) /\ Running(s, t) BY <1>1, <1>2, SameLighter
<1>4. t.tier = s.tier /\ t.row = s.row /\ t.held = s.held /\ Others(s, t, p) BY <1>2 DEF OneFlight
<1>5. Sound(m, ap, t) BY <1>1, <1>2, <1>3, <1>4, LighterSound
<1>6. Fresh(o, t) BY <1>1, <1>3, <1>4, LighterFresh
<1>7. QED BY <1>2, <1>3, <1>4, <1>5, <1>6 DEF Good, Kept

\* A caller joins the read that is out.
LEMMA JoinGoes ==
  ASSUME store \in [Accounts -> Nat], NEW ap, NEW o, NEW p \in Procs, NEW c \in Accounts, NEW s,
         Good("on", ap, o, s), s.mem[p].flight[c] # NoFlight, NEW t, t = Join(s, p, c)
  PROVE  Goes(ap, o, s, t, p)
<1>1. s \in Turns("on") BY DEF Good, Sound
<1>2. PICK u : u = MarkDirty(s, c) OBVIOUS
<1>3. u \in Turns("on") /\ Quiet(s, u, p) /\ u.mem = s.mem BY <1>1, <1>2, MarkDirtyIs
<1>4. Goes(ap, o, s, u, p) BY <1>3, QuietGoes
<1>5. Good("on", ap, o, u) BY <1>4 DEF Goes
<1>6. s.mem[p].flight[c] \in ReadFlight
  <2>1. s.mem[p].flight[c] \in Flight("on") BY <1>1 DEF Turns, Memory
  <2>2. QED BY <2>1 DEF Flight
<1>7. store[c] \in Nat OBVIOUS
<1>8. PICK x : x = [s.mem[p].flight[c] EXCEPT !.follow = store[c]] OBVIOUS
<1>9. /\ x \in ReadFlight
      /\ x.seq = s.mem[p].flight[c].seq /\ x.linked = s.mem[p].flight[c].linked
      /\ x.from = s.mem[p].flight[c].from /\ x.asked = s.mem[p].flight[c].asked /\ x.follow = store[c]
  BY <1>6, <1>7, <1>8 DEF ReadFlight
<1>10. x \in Flight("on") BY <1>9 DEF Flight
<1>11. Same(x, u.mem[p].flight[c], c) BY <1>3, <1>9 DEF Same
<1>12. t = SetFlight(u, p, c, x) BY <1>2, <1>8 DEF Join
<1>13. /\ Good("on", ap, o, t) /\ Running(u, t) /\ Others(u, t, p)
       /\ t.held = u.held /\ t.row = u.row /\ t.mem[p].scan = u.mem[p].scan
  <2>1. PICK m : m = "on" OBVIOUS
  <2>2. PICK z \in Flight(m) : z = x BY <2>1, <1>10
  <2>6. PICK y : y = u.mem[p].flight[c] /\ Same(z, y, c) BY <2>2, <1>11
  <2>3. Good(m, ap, o, u) /\ t = SetFlight(u, p, c, z) BY <2>1, <2>2, <1>5, <1>12
  <2>4. Kept(m, ap, o, u, t, p) BY <2>6, <2>3, SameKeeps
  <2>5. QED BY <2>1, <2>4 DEF Kept
<1>14. Goes(ap, o, u, t, p) BY <1>13 DEF Goes
<1>15. QED BY <1>4, <1>14, GoesChain

\* A caller asks for a read.
LEMMA ReadKeeps ==
  ASSUME IInv, NEW p \in Procs, NEW c \in Accounts, Read(p, c)
  PROVE  IInv' /\ NoneEnds
<1>1. mode = "on" /\ Up(p) /\ UNCHANGED world BY DEF Read
<1>2. store \in [Accounts -> Nat] /\ Good("on", applied, overlapped, Now) BY <1>1, IInvFacts
<1>3. PICK n \in Nat : n = store[c] BY <1>2
<1>4. PICK t : t = IF Flying(Now, p, c) THEN Join(Now, p, c) ELSE Start(Now, p, c, n) OBVIOUS
<1>5. Commit(t) BY <1>3, <1>4 DEF Read
<1>6. Goes(applied, overlapped, Now, t, p)
  <2>1. CASE Flying(Now, p, c)
    <3>1. t = Join(Now, p, c) BY <2>1, <1>4
    <3>2. QED BY <3>1, <2>1, <1>2, JoinGoes DEF Flying
  <2>2. CASE ~Flying(Now, p, c)
    <3>1. t = Start(Now, p, c, n) /\ n <= store[c] BY <2>2, <1>3, <1>4
    <3>2. QED BY <3>1, <2>2, <1>2, StartGoes DEF Flying
  <2>3. QED BY <2>1, <2>2
<1>7. QED BY <1>1, <1>5, <1>6, GoesKeeps

\* The timer wakes the scan.
LEMMA TimerWakeKeeps ==
  ASSUME IInv, NEW p \in Procs, TimerWake(p)
  PROVE  IInv' /\ NoneEnds
<1>1. mode = "on" /\ Up(p) /\ UNCHANGED world BY DEF TimerWake
<1>2. store \in [Accounts -> Nat] /\ Good("on", applied, overlapped, Now) BY <1>1, IInvFacts
<1>3. PICK t \in Wake(Now, p) : Commit(t) BY DEF TimerWake
<1>4. Goes(applied, overlapped, Now, t, p) BY <1>2, WakeGoes
<1>5. QED BY <1>1, <1>3, <1>4, GoesKeeps

\* The scan goes on.
LEMMA ScanNextKeeps ==
  ASSUME IInv, NEW p \in Procs, ScanNext(p)
  PROVE  IInv' /\ NoneEnds
<1>1. Up(p) /\ UNCHANGED world /\ mem[p].scan.on BY DEF ScanNext
<1>2. mode = "on"
  <2>1. Processes BY IInvFacts
  <2>2. QED BY <2>1, <1>1 DEF Processes, NoScan
<1>3. /\ store \in [Accounts -> Nat] /\ Good("on", applied, overlapped, Now)
      /\ mem[p].scan \in Scan
  BY <1>2, IInvFacts DEF Memory
<1>4. PICK scan \in Scan : scan = mem[p].scan BY <1>3
<1>5. scan.left \in SUBSET Accounts /\ scan.again \in BOOLEAN BY DEF Scan
<1>6. ASSUME NEW t, Commit(t), t \in IF scan.again THEN Pass(Now, p) ELSE {SetScan(Now, p, NoScan)}
      PROVE  Goes(applied, overlapped, Now, t, p)
  <2>1. CASE scan.again BY <2>1, <1>3, <1>6, PassGoes
  <2>2. CASE ~scan.again
    <3>1. NoScan \in Scan BY DEF NoScan, Scan, Names
    <3>2. t = SetScan(Now, p, NoScan) BY <2>2, <1>6
    <3>3. QED BY <3>1, <3>2, <1>3, SetScanGoes
  <2>3. QED BY <2>1, <2>2
<1>7. ASSUME NEW c \in scan.left, NEW t, Commit(t),
             t = IF Flying(Now, p, c) THEN SetScan(Now, p, [scan EXCEPT !.left = @ \ {c}])
                 ELSE ScanRead(Now, p, c, scan.left \ {c}, scan.again)
      PROVE  Goes(applied, overlapped, Now, t, p)
  <2>1. c \in Accounts BY <1>5
  <2>2. CASE Flying(Now, p, c)
    <3>1. PICK x \in Scan : x = [scan EXCEPT !.left = @ \ {c}] BY DEF Scan
    <3>2. t = SetScan(Now, p, x) BY <2>2, <3>1, <1>7
    <3>3. QED BY <3>2, <1>3, SetScanGoes
  <2>3. CASE ~Flying(Now, p, c)
    <3>1. PICK left \in SUBSET Accounts : left = scan.left \ {c} BY <1>5
    <3>2. PICK again \in BOOLEAN : again = scan.again BY <1>5
    <3>3. t = ScanRead(Now, p, c, left, again) BY <2>3, <3>1, <3>2, <1>7
    <3>4. QED BY <3>3, <2>1, <2>3, <1>3, ScanReadGoes DEF Flying
  <2>4. QED BY <2>2, <2>3
<1>8. \E t : Commit(t) /\ Goes(applied, overlapped, Now, t, p) BY <1>4, <1>6, <1>7 DEF ScanNext
<1>9. QED BY <1>1, <1>2, <1>8, GoesKeeps

\* What was committed ends nothing if no read that was running noticed.
LEMMA RunningNext ==
  ASSUME NEW t, Now' = t, Running(Now, t)
  PROVE  NoneEnds
<1>1. mem' = t.mem BY DEF Now
<1>2. QED BY <1>1, NowIs DEF NoneEnds, Running

\* A flight of a process that runs gets its answer, or is one of the sweep.
LEMMA FlightKeeps ==
  ASSUME IInv, NEW p \in Procs, Up(p), NEW c \in Accounts, NEW x \in Flight(mode),
         NEW y, y = mem[p].flight[c], Same(x, y, c),
         NEW k, k = [mem[p].flight EXCEPT ![c] = x],
         mem' = [mem EXCEPT ![p].flight = k], UNCHANGED <<tier, row, queue, held, owed, world>>
  PROVE  IInv' /\ NoneEnds
<1>1. /\ store \in [Accounts -> Nat] /\ Good(mode, applied, overlapped, Now) /\ Processes /\ World
  BY IInvFacts
<1>2. PICK t : t = SetFlight(Now, p, c, x) OBVIOUS
<1>3. PICK m : m = mode OBVIOUS
<1>4. Good(m, applied, overlapped, Now) /\ y = Now.mem[p].flight[c] BY <1>1, <1>3, NowIs
<1>5. /\ Good(m, applied, overlapped, t) /\ Running(Now, t) /\ Others(Now, t, p)
      /\ t.held = Now.held /\ t.row = Now.row /\ t.mem[p].scan = Now.mem[p].scan
  <2>1. Kept(m, applied, overlapped, Now, t, p) BY <1>1, <1>2, <1>3, <1>4, SameKeeps
  <2>2. QED BY <2>1 DEF Kept
<1>6. Now' = t
  <2>1. Now' = [tier |-> tier, row |-> row, queue |-> queue, mem |-> mem', held |-> held, owed |-> owed] BY DEF Now
  <2>2. t = [Now EXCEPT !.mem = [mem EXCEPT ![p].flight = k]] BY <1>2, NowIs DEF SetFlight
  <2>3. QED BY <2>1, <2>2 DEF Now
<1>7. UNCHANGED <<mode, rolling, into, store, proc, overlapped, applied>> BY DEF world
<1>8. applied' \in [Events -> {"new", "on", "off"}] BY <1>1, <1>7 DEF World
<1>9. mode # "on" => t.mem[p].scan = NoScan BY <1>1, <1>5, NowIs DEF Processes
<1>10. Good(mode, applied', overlapped, t) BY <1>3, <1>5, <1>7
<1>11. IInv' BY <1>5, <1>6, <1>7, <1>8, <1>9, <1>10, TurnKeeps
<1>12. NoneEnds BY <1>5, <1>6, RunningNext
<1>13. QED BY <1>11, <1>12

\* What the store lists is an answer.
LEMMA AnswersAre ==
  ASSUME World, NEW c \in Accounts, NEW x \in Answers(c)
  PROVE  x \in Answer
<1>1. PICK l : l = Lists[c][store[c]] OBVIOUS
<1>2. l \in [tier : Tiers, pack : BOOLEAN]
  <2>1. PICK R : R = [tier : Tiers, pack : BOOLEAN] OBVIOUS
  <2>2. Lists[c] \in Seq(R) BY <2>1, BillingAssumption
  <2>3. PICK ls \in Seq(R) : ls = Lists[c] BY <2>2
  <2>4. PICK n : n = store[c] /\ n \in DOMAIN ls BY <2>3 DEF World
  <2>5. n \in 1..Len(ls) BY <2>4
  <2>6. ls[n] \in R BY <2>5
  <2>7. QED BY <1>1, <2>1, <2>3, <2>4, <2>6
<1>3. 0 \in Tiers BY TiersAre
<1>4. \/ x = [kind |-> "list", tier |-> l.tier, pack |-> l.pack]
      \/ x \in [kind : {"partial", "never"}, tier : {0}, pack : {FALSE}]
      \/ x = [kind |-> "failed"]
  BY <1>1 DEF Answers
<1>5. CASE x = [kind |-> "list", tier |-> l.tier, pack |-> l.pack] BY <1>2, <1>5 DEF Answer
<1>6. CASE x \in [kind : {"partial", "never"}, tier : {0}, pack : {FALSE}] BY <1>3, <1>6 DEF Answer
<1>7. CASE x = [kind |-> "failed"] BY <1>7 DEF Answer
<1>8. QED BY <1>4, <1>5, <1>6, <1>7

\* The store answers.
LEMMA StoreAnswersKeeps ==
  ASSUME IInv, NEW p \in Procs, NEW c \in Accounts, StoreAnswers(p, c)
  PROVE  IInv' /\ NoneEnds
<1>1. PICK y : y = mem[p].flight[c] OBVIOUS
<1>2. World /\ y \in Flight(mode) BY <1>1, IInvFacts
<1>3. Up(p) /\ y # NoFlight /\ UNCHANGED <<tier, row, queue, held, owed, world>>
  BY <1>1, NowIs DEF StoreAnswers, Flying
<1>4. PICK z \in Answers(c) : mem' = [mem EXCEPT ![p].flight[c].answer = z] BY DEF StoreAnswers
<1>5. z \in Answer BY <1>2, AnswersAre
<1>6. PICK x : x = [y EXCEPT !.answer = z] OBVIOUS
<1>7. x \in Flight(mode) /\ Same(x, y, c)
  <2>1. CASE y \in ReadFlight
    <3>1. x \in ReadFlight /\ Same(x, y, c) BY <2>1, <1>5, <1>6 DEF ReadFlight, Same
    <3>2. mode = "on"
      <4>1. y.seq # 0 BY <2>1 DEF ReadFlight
      <4>2. Out(Now, p, c) BY <4>1, <1>1, NowIs DEF Out
      <4>3. QED BY <4>2, IInvFacts
    <3>3. QED BY <3>1, <3>2 DEF Flight
  <2>2. CASE y \in SweepFlight
    <3>1. x \in SweepFlight /\ y.seq = 0 /\ x.seq = 0 BY <2>2, <1>5, <1>6 DEF SweepFlight
    <3>2. mode # "on"
      <4>1. ASSUME mode = "on" PROVE FALSE
        <5>1. y \in ReadFlight BY <4>1, <1>2, <1>3 DEF Flight
        <5>2. QED BY <5>1, <3>1 DEF ReadFlight
      <4>2. QED BY <4>1
    <3>3. QED BY <3>1, <3>2 DEF Flight, Same
  <2>3. QED BY <2>1, <2>2, <1>2, <1>3 DEF Flight
<1>8. PICK k : k = [mem[p].flight EXCEPT ![c] = x] OBVIOUS
<1>9. mem' = [mem EXCEPT ![p].flight = k] BY <1>1, <1>4, <1>6, <1>8
<1>10. QED BY <1>1, <1>3, <1>7, <1>8, <1>9, FlightKeeps

\* The sweep asks, without a number.
LEMMA SweepAsksKeeps ==
  ASSUME IInv, NEW p \in Procs, NEW c \in Accounts, SweepAsks(p, c)
  PROVE  IInv' /\ NoneEnds
<1>1. PICK y : y = mem[p].flight[c] OBVIOUS
<1>2. /\ mode = "off" /\ Up(p) /\ y = NoFlight /\ UNCHANGED <<tier, row, queue, held, owed, world>>
  BY <1>1, NowIs DEF SweepAsks, Flying
<1>3. PICK x : x = [seq |-> 0, answer |-> NoAnswer] OBVIOUS
<1>4. x \in Flight(mode) BY <1>2, <1>3 DEF Flight, SweepFlight
<1>5. Same(x, y, c) BY <1>2, <1>3 DEF Same, NoFlight
<1>6. PICK k : k = [mem[p].flight EXCEPT ![c] = x] OBVIOUS
<1>7. mem' = [mem EXCEPT ![p].flight = k] BY <1>3, <1>6 DEF SweepAsks
<1>8. QED BY <1>1, <1>2, <1>4, <1>5, <1>6, <1>7, FlightKeeps

\* A retry falls due.
LEMMA RetryDueKeeps ==
  ASSUME IInv, NEW c \in Accounts, RetryDue(c)
  PROVE  IInv' /\ NoneEnds
<1>1. /\ store \in [Accounts -> Nat] /\ Good(mode, applied, overlapped, Now) /\ Processes /\ World
      /\ Now \in Turns(mode)
  BY IInvFacts
<1>2. queue[c] \in QueueRow /\ queue[c] # NoQueue BY <1>1, NowIs DEF Turns, RetryDue
<1>3. PICK x : x = [queue[c] EXCEPT !.due = TRUE] OBVIOUS
<1>4. x \in QueueRow BY <1>2, <1>3 DEF QueueRow
<1>5. PICK t : t = SetQueue(Now, c, x) OBVIOUS
<1>6. PICK p \in Procs : p = 1 BY BillingAssumption DEF Procs
<1>7. t \in Turns(mode) /\ Quiet(Now, t, p) /\ t.mem = Now.mem BY <1>1, <1>4, <1>5, QueueIsQuiet
<1>8. /\ Sound(mode, applied, t)
      /\ \A o : Fresh(o, Now) => Fresh(o, t)
  BY <1>1, <1>7, QuietKeeps DEF Good
<1>9. Good(mode, applied, overlapped, t) BY <1>1, <1>8 DEF Good
<1>10. UNCHANGED <<mode, rolling, into, store, proc, overlapped, applied, mem>> BY DEF RetryDue, world
<1>11. Now' = t
  <2>1. /\ queue' = [queue EXCEPT ![c].due = TRUE]
        /\ UNCHANGED <<tier, row, mem, held, owed>>
    BY DEF RetryDue
  <2>2. QED BY <2>1, <1>3, <1>5 DEF Now, SetQueue
<1>12. Good(mode, applied, overlapped, Now)' BY <1>9, <1>10, <1>11, GoodNext
<1>13. World' /\ Processes' BY <1>1, <1>10 DEF World, Processes, Up
<1>14. NoneEnds BY <1>10 DEF NoneEnds
<1>15. QED BY <1>12, <1>13, <1>14 DEF IInv

-----------------------------------------------------------------------------
(* What is written with reading off: nothing has a number.                 *)

\* A row and the tiers are written.
Written(s, rs, ts) == [s EXCEPT !.row = rs, !.tier = ts]

\* The rest of the turn is as it was.
LEMMA WrittenIs ==
  ASSUME NEW m, NEW s \in Turns(m), NEW rs \in [Accounts -> Row], NEW ts \in [Accounts -> Tiers],
         NEW t, t = Written(s, rs, ts)
  PROVE  /\ t \in Turns(m)
         /\ t.row = rs /\ t.tier = ts
         /\ t.queue = s.queue /\ t.mem = s.mem /\ t.held = s.held /\ t.owed = s.owed
<1>1. PICK t1 \in Turns(m) : t1 = [s EXCEPT !.row = rs] BY DEF Turns
<1>2. PICK t2 \in Turns(m) : t2 = [t1 EXCEPT !.tier = ts] BY DEF Turns
<1>3. t = t2 BY <1>1, <1>2 DEF Written, Turns
<1>4. /\ t1.row = rs /\ t1.tier = s.tier
      /\ t1.queue = s.queue /\ t1.mem = s.mem /\ t1.held = s.held /\ t1.owed = s.owed
  BY <1>1 DEF Turns
<1>5. /\ t2.row = rs /\ t2.tier = ts
      /\ t2.queue = s.queue /\ t2.mem = s.mem /\ t2.held = s.held /\ t2.owed = s.owed
  BY <1>2, <1>4 DEF Turns
<1>6. QED BY <1>3, <1>5

\* Without a number nothing is out.
LEMMA OffIsOut ==
  ASSUME NEW t \in Turns("off"), NEW p \in Procs, NEW c \in Accounts
  PROVE  ~Out(t, p, c)
<1>1. t.mem[p].flight[c] \in Flight("off") BY DEF Turns, Memory
<1>2. QED BY <1>1 DEF Flight, SweepFlight, NoFlight, Out

\* A row that an event or the sweep writes.
LEMMA OffWrites ==
  ASSUME IInv, mode = "off", NEW ap, NEW c \in Accounts, NEW x \in LinkedRow,
         NEW rs \in [Accounts -> Row], rs = [row EXCEPT ![c] = x],
         row[c] # NoRow => x.account = row[c].account \/ ~Live(row[c].account),
         \E S \in SUBSET Accounts : Trail(c, x.account, S),
         x.appliedSeq <= x.readSeq,
         NEW t \in Turns("off"), t.row = rs, t.tier = TiersWritten(rs, x.account, c, Before(row, c)),
         t.held = held, Marks(ap, t)
  PROVE  Good("off", ap, overlapped, t)
<1>1. /\ World /\ Good(mode, applied, overlapped, Now) /\ into \in [Accounts -> Names]
      /\ row \in [Accounts -> Row] /\ tier \in [Accounts -> Tiers]
  BY IInvFacts
<1>2. Trails(Now) /\ Fence(Now) /\ Backed(Now) BY <1>1 DEF Good, Sound
<1>3. x # NoRow /\ t.row[c] = x /\ \A d \in Accounts \ {c} : t.row[d] = row[d] BY <1>1, RowFacts
<1>4. Trails(t) BY <1>2, <1>3, NowIs, WrittenTrails
<1>5. \A p \in Procs, d \in Accounts : ~Out(t, p, d) BY OffIsOut
<1>6. Fence(t)
  <2>1. \A p \in Procs, d \in Accounts : ~Numbered(t, p, d) BY <1>5 DEF Numbered
  <2>2. \A d \in Accounts : t.held[d] <= store[d] BY <1>2, NowIs DEF Fence
  <2>3. \A d \in Accounts : t.row[d] # NoRow => t.row[d].appliedSeq <= t.row[d].readSeq
    BY <1>2, <1>3, NowIs DEF Fence
  <2>4. QED BY <1>5, <2>1, <2>2, <2>3 DEF Fence
<1>7. Backed(t)
  <2>1. ASSUME NEW y \in Accounts, Live(y) PROVE BackedAt(t.tier, t.row, y)
    <3>1. BackedAt(tier, row, y) BY <1>2, <2>1, NowIs DEF Backed, BackedAt
    <3>2. PICK ts : ts = TiersWritten(rs, x.account, c, Before(row, c)) OBVIOUS
    <3>3. BackedAt(ts, rs, y) BY <1>1, <2>1, <3>1, <3>2, TiersFollow
    <3>4. QED BY <3>2, <3>3
  <2>2. QED BY <2>1 DEF Backed, BackedAt
<1>8. Fresh(overlapped, t) BY <1>5 DEF Fresh
<1>9. QED BY <1>4, <1>6, <1>7, <1>8 DEF Good, Sound

\* The sweep writes the tier that the store lists.
LEMMA SweepEndsKeeps ==
  ASSUME IInv, NEW p \in Procs, NEW c \in Accounts, SweepEnds(p, c)
  PROVE  IInv' /\ NoneEnds
<1>1. /\ World /\ Processes /\ Good(mode, applied, overlapped, Now) /\ Now \in Turns(mode)
      /\ store \in [Accounts -> Nat] /\ row \in [Accounts -> Row] /\ tier \in [Accounts -> Tiers]
  BY IInvFacts
<1>2. PICK f : f = mem[p].flight[c] OBVIOUS
<1>3. mode = "off" /\ Up(p) /\ f # NoFlight /\ f.answer # NoAnswer /\ UNCHANGED world
  BY <1>2, NowIs DEF SweepEnds, Flying
<1>4. f \in SweepFlight BY <1>1, <1>2, <1>3, IInvFacts DEF Flight
<1>5. NoFlight \in Flight(mode) BY DEF Flight
<1>6. PICK s : s = SetFlight(Now, p, c, NoFlight) OBVIOUS
<1>7. PICK y : y = Now.mem[p].flight[c] OBVIOUS
<1>8. PICK m : m = mode OBVIOUS
<1>9. Good(m, applied, overlapped, Now) /\ NoFlight \in Flight(m) BY <1>1, <1>5, <1>8
<1>10. PICK z \in Flight(m) : z = NoFlight BY <1>9
<1>11. s = SetFlight(Now, p, c, z) /\ Same(z, y, c)
  <2>1. y.seq = 0 BY <1>2, <1>4, <1>7, NowIs DEF SweepFlight
  <2>2. Same(z, y, c) BY <2>1, <1>10 DEF Same, NoFlight
  <2>3. QED BY <2>2, <1>6, <1>10
<1>12. /\ Good(m, applied, overlapped, s) /\ Running(Now, s) /\ Others(Now, s, p)
       /\ s.held = Now.held /\ s.row = Now.row /\ s.mem[p].scan = Now.mem[p].scan
  <2>1. store \in [Accounts -> Nat] BY <1>1
  <2>2. Kept(m, applied, overlapped, Now, s, p) BY <2>1, <1>7, <1>9, <1>11, SameKeeps
  <2>3. QED BY <2>2 DEF Kept
<1>13. Good("off", applied, overlapped, s) /\ s \in Turns("off") BY <1>3, <1>8, <1>12 DEF Good, Sound
<1>14. s.mem[p].scan = NoScan BY <1>1, <1>3, <1>12, NowIs DEF Processes
<1>15. UNCHANGED <<mode, rolling, into, store, proc, overlapped, applied>> BY <1>3 DEF world
<1>16. applied' \in [Events -> {"new", "on", "off"}] BY <1>1, <1>15 DEF World
<1>17. NoneEnds
  <2>1. \A q \in Procs, d \in Accounts : ~Out(Now, q, d) BY <1>3, IInvFacts
  <2>2. QED BY <2>1 DEF NoneEnds
<1>18. ASSUME NEW t \in Turns("off"), Commit(t), Good("off", applied, overlapped, t), t.mem = s.mem
       PROVE  IInv'
  <2>1. Now' = t BY <1>18, CommitIs
  <2>2. Others(Now, t, p) /\ t.mem[p].scan = NoScan BY <1>12, <1>14, <1>18 DEF Others
  <2>3. Good(mode, applied', overlapped, t) BY <1>3, <1>15, <1>18
  <2>4. QED BY <1>3, <1>15, <1>16, <2>1, <2>2, <2>3, TurnKeeps
<1>19. CASE f.answer.kind # "list" \/ row[c] = NoRow
  <2>1. Commit(s) BY <1>2, <1>6, <1>19 DEF SweepEnds
  <2>2. QED BY <2>1, <1>13, <1>17, <1>18
<1>20. CASE f.answer.kind = "list" /\ row[c] # NoRow
  <2>1. f.answer.tier \in Tiers BY <1>3, <1>4, <1>20 DEF SweepFlight, Answer
  <2>2. row[c] \in LinkedRow BY <1>1, <1>20, RowFacts
  <2>3. PICK x \in LinkedRow : x = [row[c] EXCEPT !.tier = f.answer.tier] BY <2>1, <2>2, RowFacts
  <2>4. /\ x.account = row[c].account /\ x.appliedSeq = row[c].appliedSeq /\ x.readSeq = row[c].readSeq
        /\ x.lastEvent = row[c].lastEvent /\ x # NoRow
    BY <2>2, <2>3, RowFacts DEF LinkedRow
  <2>5. PICK rs \in [Accounts -> Row] : rs = [row EXCEPT ![c] = x] BY <1>1 DEF Row
  <2>6. PICK ts : ts = TiersWritten(rs, x.account, c, Before(row, c)) OBVIOUS
  <2>7. ts \in [Accounts -> Tiers]
    <3>1. PICK a \in Accounts : a = x.account BY DEF LinkedRow
    <3>2. PICK before : before = Before(row, c) OBVIOUS
    <3>3. ts = TiersWritten(rs, a, c, before) BY <2>6, <3>1, <3>2
    <3>4. TiersAfter(ts, rs, c, a, before) BY <3>3, <1>1, TiersWrittenAre
    <3>5. QED BY <3>4 DEF TiersAfter
  <2>8. PICK t : t = Written(s, rs, ts) OBVIOUS
  <2>9. /\ t \in Turns("off")
        /\ t.row = rs /\ t.tier = ts
        /\ t.queue = s.queue /\ t.mem = s.mem /\ t.held = s.held /\ t.owed = s.owed
    BY <1>13, <2>7, <2>8, WrittenIs
  <2>10. Commit(t)
    <3>1. rs = [row EXCEPT ![c].tier = f.answer.tier] BY <2>3, <2>5
    <3>2. ts = TiersWritten(rs, row[c].account, c, row[c].tier) BY <2>4, <2>6, <1>20 DEF Before
    <3>3. QED BY <3>1, <3>2, <2>8, <1>2, <1>6, <1>20 DEF SweepEnds, Written
  <2>11. Good("off", applied, overlapped, t)
    <3>1. Trails(Now) /\ Fence(Now) /\ Marks(applied, Now) BY <1>1 DEF Good, Sound
    <3>2. \E S \in SUBSET Accounts : Trail(c, x.account, S) BY <3>1, <2>4, <1>20, NowIs DEF Trails
    <3>3. x.appliedSeq <= x.readSeq BY <3>1, <2>4, <1>20, NowIs DEF Fence
    <3>4. t.row[c] = x /\ \A d \in Accounts \ {c} : t.row[d] = row[d] BY <2>5, <2>9, <1>1
    <3>5. Marks(applied, t) BY <3>1, <3>4, <2>4, <1>20, NowIs, ResultMarks
    <3>6. t.held = held BY <2>9, <1>12, NowIs
    <3>7. t.tier = TiersWritten(rs, x.account, c, Before(row, c)) BY <2>6, <2>9
    <3>8. row[c] # NoRow => x.account = row[c].account \/ ~Live(row[c].account) BY <2>4
    <3>9. QED BY <3>2, <3>3, <3>5, <3>6, <3>7, <3>8, <2>5, <2>9, <1>3, OffWrites
  <2>12. QED BY <1>17, <1>18, <2>9, <2>10, <2>11
<1>21. QED BY <1>19, <1>20

\* An event of the store names accounts and a time.
LEMMA EventFacts ==
  ASSUME NEW e \in Events
  PROVE  /\ e.at \in Nat /\ e.first \in Accounts /\ e.named \in SUBSET Accounts
         /\ e.tier # NoTier => e.tier \in Tiers
BY BillingAssumption

\* One event is taken: no other is marked by that, and no mark is lost.
LEMMA TakenMarks ==
  ASSUME NEW e \in Events, NEW k, applied \in [Events -> {"new", "on", "off"}], applied[e] = "new",
         NEW ap, ap = [applied EXCEPT ![e] = k], NEW f \in Events, f # e, NEW d
  PROVE  MarkedBy(ap, f, d) <=> MarkedBy(applied, f, d)
BY DEF MarkedBy

\* With reading off the event writes, unless it is older than one that marked
\* its customer.
LEMMA EventWritesKeeps ==
  ASSUME IInv, NEW p \in Procs, NEW e \in Events, EventWrites(p, e)
  PROVE  IInv' /\ NoneEnds /\ (~Takes(ResolveAccount(row, e.first), e.first, e) => row' = row)
         /\ \A d \in Accounts \ {e.first} : row'[d] = row[d]
<1>1. /\ World /\ Processes /\ Good(mode, applied, overlapped, Now) /\ Now \in Turns(mode)
      /\ row \in [Accounts -> Row] /\ tier \in [Accounts -> Tiers] /\ into \in [Accounts -> Names]
  BY IInvFacts
<1>2. PICK c : c = e.first OBVIOUS
<1>3. /\ e.at \in Nat /\ c \in Accounts /\ e.named \in SUBSET Accounts
      /\ e.tier # NoTier => e.tier \in Tiers
  BY <1>2, EventFacts
<1>4. PICK a : a = ResolveAccount(row, c) OBVIOUS
<1>5. PICK old : old = IF row[c] = NoRow THEN NewRow(a, 0) ELSE row[c] OBVIOUS
<1>6. PICK ap : ap = [applied EXCEPT ![e] = "off"] OBVIOUS
<1>7. /\ mode = "off" /\ Up(p) /\ applied[e] = "new" /\ applied' = ap
      /\ UNCHANGED <<mode, rolling, into, store, proc, overlapped>>
  BY <1>6 DEF EventWrites
<1>8. applied \in [Events -> {"new", "on", "off"}] /\ applied' \in [Events -> {"new", "on", "off"}]
  BY <1>1, <1>6, <1>7 DEF World
<1>9. Trails(Now) /\ Fence(Now) /\ Marks(applied, Now) /\ Backed(Now) BY <1>1 DEF Good, Sound
<1>10. NoneEnds
  <2>1. \A q \in Procs, d \in Accounts : ~Out(Now, q, d) BY <1>7, IInvFacts
  <2>2. QED BY <2>1 DEF NoneEnds
<1>11. ASSUME NEW t \in Turns("off"), Commit(t), Good("off", ap, overlapped, t), t.mem = mem
       PROVE  IInv'
  <2>1. Now' = t BY <1>11, CommitIs
  <2>2. Others(Now, t, p) BY <1>11, NowIs DEF Others
  <2>3. t.mem[p].scan = NoScan BY <1>1, <1>7, <1>11 DEF Processes
  <2>4. Good(mode, applied', overlapped, t) BY <1>7, <1>11
  <2>5. QED BY <1>7, <1>8, <2>1, <2>2, <2>3, <2>4, TurnKeeps
<1>12. ASSUME NEW f \in Events, f # e, NEW d \in Accounts, MarkedBy(ap, f, d)
       PROVE  IF row[d] = NoRow THEN Lost(d) ELSE row[d].lastEvent >= f.at \/ Lost(row[d].account)
  <2>1. MarkedBy(applied, f, d) BY <1>6, <1>7, <1>8, <1>12, TakenMarks
  <2>2. QED BY <2>1, <1>9, NowIs DEF Marks
<1>13. ASSUME NEW d, MarkedBy(ap, e, d) PROVE d = c /\ e.tier # NoTier
  BY <1>2, <1>6, <1>8, <1>13 DEF MarkedBy
<1>14. a # NoAccount => a \in Accounts /\ Live(a) /\ \E S \in SUBSET Accounts : Trail(c, a, S)
  <2>1. ASSUME a # NoAccount PROVE a \in Accounts /\ Live(a) /\ \E S \in SUBSET Accounts : Trail(c, a, S)
    <3>1. row[c] # NoRow => row[c].account \in Accounts BY <1>1, <1>3, RowFacts DEF LinkedRow
    <3>2. a = ResolveAccount(Now.row, c) BY <1>4, NowIs
    <3>3. Now.row[c] # NoRow => Now.row[c].account \in Accounts BY <3>1, NowIs
    <3>4. QED BY <3>2, <3>3, <2>1, <1>1, <1>3, <1>9, ResolvedTrail
  <2>2. QED BY <2>1
<1>15. /\ row[c] = NoRow => a = FollowMerge(c)
       /\ row[c] # NoRow => a = FollowMerge(row[c].account)
  BY <1>4 DEF ResolveAccount
<1>16. CASE ~Takes(a, c, e)
  <2>1. PICK t : t = Now OBVIOUS
  <2>2. Commit(t) BY <1>2, <1>4, <1>16, <2>1 DEF EventWrites
  <2>3. Marks(ap, t)
    <3> SUFFICES ASSUME NEW d \in Accounts, NEW f \in Events, MarkedBy(ap, f, d)
                 PROVE  IF row[d] = NoRow THEN Lost(d) ELSE row[d].lastEvent >= f.at \/ Lost(row[d].account)
      BY <2>1, NowIs DEF Marks
    <3>1. CASE f # e BY <3>1, <1>12
    <3>2. CASE f = e
      <4>1. d = c /\ e.tier # NoTier BY <3>2, <1>13
      <4>2. a = NoAccount \/ (row[c] # NoRow /\ e.at < row[c].lastEvent) BY <1>16, <4>1 DEF Takes, StaleEvent
      <4>3. row[c] # NoRow => row[c].lastEvent \in Nat BY <1>1, <1>3, RowFacts DEF LinkedRow
      <4>4. QED BY <1>3, <1>15, <3>2, <4>1, <4>2, <4>3 DEF Lost
    <3>3. QED BY <3>1, <3>2
  <2>4. t \in Turns("off") /\ Good("off", ap, overlapped, t) BY <1>1, <1>7, <2>1, <2>3 DEF Good, Sound
  <2>5. t.mem = mem /\ t.row = row BY <2>1, NowIs
  <2>6. IInv' BY <1>11, <2>2, <2>4, <2>5
  <2>7. row' = row BY <2>2, <2>5 DEF Commit
  <2>8. QED BY <1>10, <2>6, <2>7
<1>17. CASE Takes(a, c, e)
  <2>1. a # NoAccount /\ e.tier # NoTier /\ ~StaleEvent(c, e) BY <1>17 DEF Takes
  <2>2. a \in Accounts /\ Live(a) /\ e.tier \in Tiers BY <2>1, <1>3, <1>14
  <2>3. old \in LinkedRow
    <3>1. CASE row[c] = NoRow BY <3>1, <2>2, <1>5, RowFacts
    <3>2. CASE row[c] # NoRow BY <3>2, <1>1, <1>3, <1>5, RowFacts
    <3>3. QED BY <3>1, <3>2
  <2>4. PICK x : x = [old EXCEPT !.account = a, !.lastEvent = e.at, !.tier = e.tier] OBVIOUS
  <2>5. /\ x \in LinkedRow /\ x # NoRow /\ x.account = a /\ x.lastEvent = e.at /\ x.tier = e.tier
        /\ x.appliedSeq = old.appliedSeq /\ x.readSeq = old.readSeq
    <3>1. PICK x1 \in LinkedRow : x1 = [old EXCEPT !.account = a] BY <2>2, <2>3, RowFacts
    <3>2. PICK x2 \in LinkedRow : x2 = [x1 EXCEPT !.lastEvent = e.at] BY <1>3, RowFacts
    <3>3. PICK x3 \in LinkedRow : x3 = [x2 EXCEPT !.tier = e.tier] BY <2>2, RowFacts
    <3>4. x = x3 BY <2>4, <3>1, <3>2, <3>3
    <3>5. x1.account = a /\ x1.appliedSeq = old.appliedSeq /\ x1.readSeq = old.readSeq BY <2>3, <3>1 DEF LinkedRow
    <3>6. /\ x2.account = a /\ x2.appliedSeq = old.appliedSeq /\ x2.readSeq = old.readSeq
          /\ x2.lastEvent = e.at
      BY <3>2, <3>5 DEF LinkedRow
    <3>7. /\ x3.account = a /\ x3.appliedSeq = old.appliedSeq /\ x3.readSeq = old.readSeq
          /\ x3.lastEvent = e.at /\ x3.tier = e.tier
      BY <3>3, <3>6 DEF LinkedRow
    <3>8. QED BY <3>4, <3>7, RowFacts
  <2>6. PICK rs \in [Accounts -> Row] : rs = [row EXCEPT ![c] = x] BY <1>1, <2>5 DEF Row
  <2>7. PICK ts : ts = TiersWritten(rs, x.account, c, Before(row, c)) OBVIOUS
  <2>8. ts \in [Accounts -> Tiers]
    <3>1. PICK before : before = Before(row, c) OBVIOUS
    <3>2. ts = TiersWritten(rs, a, c, before) BY <2>5, <2>7, <3>1
    <3>3. TiersAfter(ts, rs, c, a, before) BY <3>2, <2>2, <1>1, <1>3, TiersWrittenAre
    <3>4. QED BY <3>3 DEF TiersAfter
  <2>9. PICK t : t = Written(Now, rs, ts) OBVIOUS
  <2>10. Now \in Turns("off") BY <1>1, <1>7
  <2>11. /\ t \in Turns("off")
         /\ t.row = rs /\ t.tier = ts
         /\ t.queue = Now.queue /\ t.mem = Now.mem /\ t.held = Now.held /\ t.owed = Now.owed
    BY <2>8, <2>9, <2>10, WrittenIs
  <2>12. Commit(t)
    <3>1. old.tier = Before(row, c) BY <1>5 DEF Before, NewRow
    <3>2. ts = TiersWritten(rs, a, c, old.tier) BY <2>5, <2>7, <3>1
    <3>3. rs = [row EXCEPT ![c] = [old EXCEPT !.account = a, !.lastEvent = e.at, !.tier = e.tier]] BY <2>4, <2>6
    <3>4. t = [Now EXCEPT !.row = rs, !.tier = ts] BY <2>9 DEF Written
    <3>5. QED BY <3>2, <3>3, <3>4, <1>2, <1>4, <1>5, <1>17 DEF EventWrites
  <2>13. t.row[c] = x /\ \A d \in Accounts \ {c} : t.row[d] = row[d] BY <2>6, <2>11, <1>1, <1>3
  <2>14. Marks(ap, t)
    <3> SUFFICES ASSUME NEW d \in Accounts, NEW f \in Events, MarkedBy(ap, f, d)
                 PROVE  IF t.row[d] = NoRow THEN Lost(d) ELSE t.row[d].lastEvent >= f.at \/ Lost(t.row[d].account)
      BY DEF Marks
    <3>1. CASE d # c
      <4>1. f # e BY <3>1, <1>13
      <4>2. QED BY <3>1, <4>1, <1>12, <2>13
    <3>2. CASE d = c /\ f = e BY <3>2, <2>5, <2>13, <1>3
    <3>3. CASE d = c /\ f # e
      <4>1. IF row[c] = NoRow THEN Lost(c) ELSE row[c].lastEvent >= f.at \/ Lost(row[c].account) BY <3>3, <1>12
      <4>2. row[c] # NoRow /\ row[c].lastEvent >= f.at BY <4>1, <2>1, <1>15 DEF Lost
      <4>3. row[c].lastEvent \in Nat /\ f.at \in Nat BY <4>2, <1>1, <1>3, RowFacts, EventFacts DEF LinkedRow
      <4>4. e.at >= row[c].lastEvent BY <2>1, <4>2, <4>3, <1>3 DEF StaleEvent
      <4>5. e.at >= f.at BY <4>2, <4>3, <4>4, <1>3
      <4>6. QED BY <3>3, <4>5, <2>5, <2>13
    <3>4. QED BY <3>1, <3>2, <3>3
  <2>15. Good("off", ap, overlapped, t)
    <3>1. row[c] # NoRow => x.account = row[c].account \/ ~Live(row[c].account)
      <4>1. ASSUME row[c] # NoRow, Live(row[c].account) PROVE a = row[c].account
        <5>1. row[c].account \in Accounts BY <4>1, <1>1, <1>3, RowFacts DEF LinkedRow
        <5>2. QED BY <4>1, <5>1, <1>1, <1>15, MergeFacts DEF Names
      <4>2. QED BY <4>1, <2>5
    <3>2. x.appliedSeq <= x.readSeq
      <4>1. old.appliedSeq <= old.readSeq
        <5>1. CASE row[c] = NoRow BY <5>1, <1>5 DEF NewRow
        <5>2. CASE row[c] # NoRow BY <5>2, <1>3, <1>5, <1>9, NowIs DEF Fence
        <5>3. QED BY <5>1, <5>2
      <4>2. QED BY <4>1, <2>5
    <3>3. \E S \in SUBSET Accounts : Trail(c, x.account, S) BY <2>1, <2>5, <1>14
    <3>4. t.held = held BY <2>11, NowIs
    <3>5. t.tier = TiersWritten(rs, x.account, c, Before(row, c)) /\ t.row = rs BY <2>7, <2>11
    <3>6. QED BY <3>1, <3>2, <3>3, <3>4, <3>5, <2>5, <2>6, <2>11, <2>14, <1>3, <1>7, OffWrites
  <2>16. t.mem = mem BY <2>11, NowIs
  <2>17. IInv' BY <1>11, <2>11, <2>12, <2>15, <2>16
  <2>18. \A d \in Accounts \ {c} : row'[d] = row[d] BY <2>12, <2>13 DEF Commit
  <2>19. QED BY <1>2, <1>4, <1>10, <1>17, <2>17, <2>18
<1>18. QED BY <1>16, <1>17

-----------------------------------------------------------------------------
(* With reading on an event links the customers it names, and queues reads. *)

\* The row of a customer that an event names: it is with the account that is
\* found, its tier is as it was, and it is marked.
LinkedAs(r, x, a, e) ==
  /\ x \in LinkedRow /\ x # NoRow /\ x.account = a
  /\ x.lastEvent >= e.at
  /\ r = NoRow => x.tier = 0 /\ x.appliedSeq = 0
  /\ r # NoRow => /\ x.tier = r.tier /\ x.appliedSeq = r.appliedSeq /\ x.readSeq = r.readSeq
                  /\ x.lastEvent >= r.lastEvent

\* The customers cs are linked, and no read that is out notices it.
Relinked(s, t, cs, e) ==
  /\ t.tier = s.tier /\ t.held = s.held
  /\ \A q \in Procs, d \in Accounts :
       /\ t.mem[q].flight[d].seq = s.mem[q].flight[d].seq
       /\ Out(s, q, d) => /\ t.mem[q].flight[d].linked = s.mem[q].flight[d].linked
                          /\ t.mem[q].flight[d].from = s.mem[q].flight[d].from
                          /\ t.mem[q].flight[d].asked = s.mem[q].flight[d].asked
                          /\ t.mem[q].flight[d].follow = s.mem[q].flight[d].follow
  /\ \A d \in Accounts : IF d \in cs THEN LinkedAs(s.row[d], t.row[d], ResolveAccount(s.row, d), e)
                         ELSE t.row[d] = s.row[d]

\* The row that link and the mark of the event make.
LinkedRowOf(s, p, c, e) == [Link(s, p, c) EXCEPT !.lastEvent = IF e.at > @ THEN e.at ELSE @]

\* It keeps the tiers and numbers of the row, and takes the later event.
LEMMA LinkIs ==
  ASSUME NEW s \in Turns("on"), NEW p \in Procs, NEW c \in Accounts, NEW e, e.at \in Nat,
         NEW a \in Accounts, a = ResolveAccount(s.row, c)
  PROVE  LinkedAs(s.row[c], LinkedRowOf(s, p, c, e), a, e)
<1>1. s.row[c] \in Row /\ s.mem[p].unlinked[c] \in Nat BY DEF Turns, Memory
<1>2. PICK y : y = Link(s, p, c) OBVIOUS
<1>3. PICK x : x = [y EXCEPT !.lastEvent = IF e.at > y.lastEvent THEN e.at ELSE y.lastEvent] OBVIOUS
<1>4. /\ y \in LinkedRow /\ y.account = a
      /\ s.row[c] = NoRow => y.tier = 0 /\ y.appliedSeq = 0 /\ y.lastEvent = 0
      /\ s.row[c] # NoRow => /\ y.tier = s.row[c].tier /\ y.appliedSeq = s.row[c].appliedSeq
                             /\ y.readSeq = s.row[c].readSeq /\ y.lastEvent = s.row[c].lastEvent
  <2>1. CASE s.row[c] = NoRow
    <3>1. y = NewRow(a, s.mem[p].unlinked[c]) BY <2>1, <1>2 DEF Link
    <3>2. y \in LinkedRow BY <3>1, <1>1, RowFacts
    <3>3. QED BY <3>1, <3>2, <2>1 DEF NewRow
  <2>2. CASE s.row[c] # NoRow
    <3>1. s.row[c] \in LinkedRow BY <2>2, <1>1, RowFacts
    <3>2. y = [s.row[c] EXCEPT !.account = a] BY <2>2, <1>2 DEF Link
    <3>3. y \in LinkedRow BY <3>1, <3>2, RowFacts
    <3>4. QED BY <3>1, <3>2, <3>3, <2>2 DEF LinkedRow
  <2>3. QED BY <2>1, <2>2
<1>5. y.lastEvent \in Nat BY <1>4 DEF LinkedRow
<1>6. PICK n \in Nat : n = (IF e.at > y.lastEvent THEN e.at ELSE y.lastEvent) BY <1>5
<1>7. x = [y EXCEPT !.lastEvent = n] BY <1>3, <1>6
<1>8. x \in LinkedRow /\ x # NoRow BY <1>4, <1>7, RowFacts
<1>9. /\ x.account = a /\ x.tier = y.tier /\ x.appliedSeq = y.appliedSeq /\ x.readSeq = y.readSeq
      /\ x.lastEvent = n
  BY <1>4, <1>7 DEF LinkedRow
<1>10. n >= e.at /\ n >= y.lastEvent BY <1>5, <1>6
<1>11. LinkedAs(s.row[c], x, a, e) BY <1>4, <1>8, <1>9, <1>10 DEF LinkedAs
<1>12. x = LinkedRowOf(s, p, c, e) BY <1>2, <1>3 DEF LinkedRowOf
<1>13. QED BY <1>11, <1>12

\* A flight that no longer covers a trigger.
Uncovered(f) == [f EXCEPT !.covers = FALSE]

\* It is the same read otherwise.
LEMMA UncoveredIs ==
  ASSUME NEW f \in Flight("on"), f # NoFlight
  PROVE  /\ Uncovered(f) \in Flight("on") /\ Uncovered(f).seq = f.seq
         /\ Uncovered(f).linked = f.linked /\ Uncovered(f).from = f.from
         /\ Uncovered(f).asked = f.asked /\ Uncovered(f).follow = f.follow
<1>1. f \in ReadFlight BY DEF Flight
<1>2. Uncovered(f) \in ReadFlight BY <1>1 DEF Uncovered, ReadFlight
<1>3. QED BY <1>1, <1>2 DEF Uncovered, ReadFlight, Flight

\* What a process holds once an event was taken.
Taken(s, q, p, cs) ==
  [flight |-> [c \in Accounts |-> IF c \in cs /\ Flying(s, q, c) THEN Uncovered(s.mem[q].flight[c])
                                  ELSE s.mem[q].flight[c]],
   unlinked |-> [c \in Accounts |-> IF q = p /\ c \in cs /\ s.row[c] = NoRow THEN 0 ELSE s.mem[q].unlinked[c]],
   scan |-> s.mem[q].scan]

\* Its reads are the same reads, with the same numbers.
LEMMA TakenIs ==
  ASSUME NEW s \in Turns("on"), NEW q \in Procs, NEW p, NEW cs, NEW k, k = Taken(s, q, p, cs)
  PROVE  /\ k \in Memory("on")
         /\ \A d \in Accounts : /\ k.flight[d].seq = s.mem[q].flight[d].seq
                                /\ Out(s, q, d) => /\ k.flight[d].linked = s.mem[q].flight[d].linked
                                                   /\ k.flight[d].from = s.mem[q].flight[d].from
                                                   /\ k.flight[d].asked = s.mem[q].flight[d].asked
                                                   /\ k.flight[d].follow = s.mem[q].flight[d].follow
         /\ s.mem[q] = NoMemory => k = NoMemory
<1>1. /\ s.mem[q].flight \in [Accounts -> Flight("on")] /\ s.mem[q].unlinked \in [Accounts -> Nat]
      /\ s.mem[q].scan \in Scan
  BY DEF Turns, Memory
<1>2. PICK fs : fs = [c \in Accounts |-> IF c \in cs /\ Flying(s, q, c) THEN Uncovered(s.mem[q].flight[c])
                                         ELSE s.mem[q].flight[c]] OBVIOUS
<1>3. PICK us : us = [c \in Accounts |-> IF q = p /\ c \in cs /\ s.row[c] = NoRow THEN 0 ELSE s.mem[q].unlinked[c]]
  OBVIOUS
<1>4. k = [flight |-> fs, unlinked |-> us, scan |-> s.mem[q].scan] BY <1>2, <1>3 DEF Taken
<1>5. ASSUME NEW d \in Accounts
      PROVE  /\ fs[d] \in Flight("on") /\ fs[d].seq = s.mem[q].flight[d].seq
             /\ Out(s, q, d) => /\ fs[d].linked = s.mem[q].flight[d].linked
                                /\ fs[d].from = s.mem[q].flight[d].from
                                /\ fs[d].asked = s.mem[q].flight[d].asked
                                /\ fs[d].follow = s.mem[q].flight[d].follow
  <2>1. PICK f \in Flight("on") : f = s.mem[q].flight[d] BY <1>1
  <2>2. CASE d \in cs /\ Flying(s, q, d)
    <3>1. f # NoFlight BY <2>1, <2>2 DEF Flying
    <3>2. fs[d] = Uncovered(f) BY <1>2, <2>1, <2>2
    <3>3. QED BY <2>1, <3>1, <3>2, UncoveredIs
  <2>3. CASE ~(d \in cs /\ Flying(s, q, d))
    <3>1. fs[d] = f BY <1>2, <2>1, <2>3
    <3>2. QED BY <2>1, <3>1
  <2>4. QED BY <2>2, <2>3
<1>6. fs \in [Accounts -> Flight("on")] BY <1>2, <1>5
<1>7. us \in [Accounts -> Nat] BY <1>1, <1>3
<1>8. k \in Memory("on") BY <1>1, <1>4, <1>6, <1>7 DEF Memory
<1>9. ASSUME s.mem[q] = NoMemory PROVE k = NoMemory
  <2>1. /\ s.mem[q].flight = [c \in Accounts |-> NoFlight] /\ s.mem[q].unlinked = [c \in Accounts |-> 0]
        /\ s.mem[q].scan = NoScan
    BY <1>9 DEF NoMemory
  <2>2. fs = [c \in Accounts |-> NoFlight] BY <2>1, <1>2 DEF Flying
  <2>3. us = [c \in Accounts |-> 0] BY <2>1, <1>3
  <2>4. QED BY <2>1, <2>2, <2>3, <1>4 DEF NoMemory
<1>10. QED BY <1>4, <1>5, <1>8, <1>9

\* An entry of the queue that an event makes.
LEMMA EnqueueIs ==
  ASSUME NEW s \in Turns("on"), NEW p \in Procs, NEW c \in Accounts
  PROVE  Enqueue(s, p, c) \in QueueRow
<1>1. s.queue[c] \in QueueRow /\ Retries \in Nat BY BillingAssumption DEF Turns
<1>2. Dirtied(s.queue[c]) \in QueueRow BY <1>1, QueueRows
<1>3. PICK b \in BOOLEAN : b = Dirty(s, c)
  <2>1. CASE s.queue[c] = NoQueue BY <2>1 DEF Dirty
  <2>2. CASE s.queue[c] # NoQueue BY <2>2, <1>1 DEF Dirty, QueueRow
  <2>3. QED BY <2>1, <2>2
<1>4. [due |-> TRUE, attempts |-> 0, dirty |-> b] \in QueueRow BY <1>1 DEF QueueRow
<1>5. QED BY <1>2, <1>3, <1>4 DEF Enqueue

\* The whole turn of an event does that.
LEMMA QueuedIs ==
  ASSUME NEW s \in Turns("on"), NEW p \in Procs, NEW e, e.at \in Nat,
         NEW cs \in SUBSET Accounts, \A c \in cs : ResolveAccount(s.row, c) \in Accounts,
         NEW t, t = Queued(s, p, cs, e)
  PROVE  /\ t \in Turns("on") /\ Relinked(s, t, cs, e)
         /\ \A q \in Procs : s.mem[q] = NoMemory => t.mem[q] = NoMemory
<1>1. PICK rs : rs = [c \in Accounts |-> IF c \notin cs THEN s.row[c] ELSE LinkedRowOf(s, p, c, e)] OBVIOUS
<1>2. PICK qs : qs = [c \in Accounts |-> IF c \in cs THEN Enqueue(s, p, c) ELSE s.queue[c]] OBVIOUS
<1>3. PICK ms : ms = [q \in Procs |-> Taken(s, q, p, cs)] OBVIOUS
<1>4. PICK os : os = [c \in Accounts |-> s.owed[c] \/ c \in cs] OBVIOUS
<1>5. t = [tier |-> s.tier, row |-> rs, queue |-> qs, mem |-> ms, held |-> s.held, owed |-> os]
  BY <1>1, <1>2, <1>3, <1>4 DEF Queued, Taken, Uncovered, LinkedRowOf
<1>6. ASSUME NEW d \in Accounts
      PROVE  /\ IF d \in cs THEN LinkedAs(s.row[d], rs[d], ResolveAccount(s.row, d), e) ELSE rs[d] = s.row[d]
             /\ rs[d] \in Row
  <2>1. CASE d \in cs
    <3>1. PICK a \in Accounts : a = ResolveAccount(s.row, d) BY <2>1
    <3>2. LinkedAs(s.row[d], LinkedRowOf(s, p, d, e), a, e) BY <3>1, LinkIs
    <3>3. rs[d] = LinkedRowOf(s, p, d, e) BY <2>1, <1>1
    <3>4. rs[d] \in LinkedRow BY <3>2, <3>3 DEF LinkedAs
    <3>5. QED BY <2>1, <3>1, <3>2, <3>3, <3>4 DEF Row
  <2>2. CASE d \notin cs
    <3>1. s.row[d] \in Row BY DEF Turns
    <3>2. QED BY <2>2, <3>1, <1>1
  <2>3. QED BY <2>1, <2>2
<1>7. rs \in [Accounts -> Row] BY <1>1, <1>6
<1>8. qs \in [Accounts -> QueueRow]
  <2>1. ASSUME NEW d \in Accounts PROVE qs[d] \in QueueRow
    <3>1. s.queue[d] \in QueueRow BY DEF Turns
    <3>2. Enqueue(s, p, d) \in QueueRow BY EnqueueIs
    <3>3. QED BY <3>1, <3>2, <1>2
  <2>2. QED BY <2>1, <1>2
<1>9. ASSUME NEW q \in Procs
      PROVE  /\ ms[q] \in Memory("on")
             /\ \A d \in Accounts : /\ ms[q].flight[d].seq = s.mem[q].flight[d].seq
                                    /\ Out(s, q, d) => /\ ms[q].flight[d].linked = s.mem[q].flight[d].linked
                                                       /\ ms[q].flight[d].from = s.mem[q].flight[d].from
                                                       /\ ms[q].flight[d].asked = s.mem[q].flight[d].asked
                                                       /\ ms[q].flight[d].follow = s.mem[q].flight[d].follow
             /\ s.mem[q] = NoMemory => ms[q] = NoMemory
  <2>1. PICK k : k = Taken(s, q, p, cs) OBVIOUS
  <2>2. ms[q] = k BY <2>1, <1>3
  <2>3. /\ k \in Memory("on")
        /\ \A d \in Accounts : /\ k.flight[d].seq = s.mem[q].flight[d].seq
                               /\ Out(s, q, d) => /\ k.flight[d].linked = s.mem[q].flight[d].linked
                                                  /\ k.flight[d].from = s.mem[q].flight[d].from
                                                  /\ k.flight[d].asked = s.mem[q].flight[d].asked
                                                  /\ k.flight[d].follow = s.mem[q].flight[d].follow
        /\ s.mem[q] = NoMemory => k = NoMemory
    BY <2>1, TakenIs
  <2>4. QED BY <2>2, <2>3
<1>10. ms \in [Procs -> Memory("on")] BY <1>3, <1>9
<1>11. os \in [Accounts -> BOOLEAN]
  <2>1. s.owed \in [Accounts -> BOOLEAN] BY DEF Turns
  <2>2. QED BY <2>1, <1>4
<1>12. t \in Turns("on") BY <1>5, <1>7, <1>8, <1>10, <1>11 DEF Turns
<1>13. t.tier = s.tier /\ t.row = rs /\ t.mem = ms /\ t.held = s.held BY <1>5
<1>14. Relinked(s, t, cs, e) BY <1>6, <1>9, <1>13 DEF Relinked
<1>15. QED BY <1>9, <1>12, <1>13, <1>14

\* Customers are linked to accounts that are found for them.
LEMMA RelinkedTrails ==
  ASSUME into \in [Accounts -> Names], NEW s \in Turns("on"), NEW t, NEW cs, NEW e, Relinked(s, t, cs, e),
         \A c \in cs : ResolveAccount(s.row, c) # NoAccount, Trails(s)
  PROVE  Trails(t)
<1> SUFFICES ASSUME NEW d \in Accounts, t.row[d] # NoRow
             PROVE  \E S \in SUBSET Accounts : Trail(d, t.row[d].account, S)
  BY DEF Trails
<1>1. CASE d \notin cs
  <2>1. t.row[d] = s.row[d] BY <1>1 DEF Relinked
  <2>2. QED BY <2>1 DEF Trails
<1>2. CASE d \in cs
  <2>1. PICK a : a = ResolveAccount(s.row, d) /\ a # NoAccount BY <1>2
  <2>2. t.row[d].account = a BY <1>2, <2>1 DEF Relinked, LinkedAs
  <2>3. s.row[d] \in Row BY DEF Turns
  <2>4. s.row[d] # NoRow => s.row[d].account \in Accounts BY <2>3, RowFacts DEF LinkedRow
  <2>5. a \in Accounts /\ Live(a) /\ \E S \in SUBSET Accounts : Trail(d, a, S) BY <2>1, <2>4, ResolvedTrail
  <2>6. QED BY <2>2, <2>5
<1>3. QED BY <1>1, <1>2

\* A customer who has no row and is found is not lost.
LEMMA ResolvedFound ==
  ASSUME NEW r, NEW c, ResolveAccount(r, c) # NoAccount
  PROVE  /\ r[c] = NoRow => ~Lost(c)
         /\ r[c] # NoRow => ~Lost(r[c].account)
BY DEF ResolveAccount, Lost

\* A customer who is linked has no read with a number of its row.
LEMMA RelinkedFence ==
  ASSUME NEW s \in Turns("on"), NEW t \in Turns("on"), NEW cs, NEW e, Relinked(s, t, cs, e),
         \A c \in cs : ResolveAccount(s.row, c) # NoAccount, Fence(s)
  PROVE  Fence(t)
<1>1. \A q \in Procs, d \in Accounts : /\ Out(t, q, d) <=> Out(s, q, d)
                                       /\ Numbered(t, q, d) <=> Numbered(s, q, d)
                                       /\ Early(t, q, d) <=> Early(s, q, d)
  BY DEF Relinked, Out, Numbered, Early
<1>2. \A q \in Procs, d \in Accounts : Numbered(s, q, d) \/ Early(s, q, d) => Out(s, q, d)
  BY DEF Numbered, Early
<1>3. ASSUME NEW d \in Accounts PROVE
    /\ t.held[d] <= store[d]
    /\ \A q \in Procs : Out(t, q, d) => /\ t.mem[q].flight[d].from <= store[d]
                                        /\ t.mem[q].flight[d].asked <= t.mem[q].flight[d].from
                                        /\ t.mem[q].flight[d].follow <= store[d]
    /\ t.row[d] = NoRow => \A q \in Procs : Numbered(t, q, d) => Lost(d)
    /\ t.row[d] # NoRow =>
         /\ t.row[d].appliedSeq <= t.row[d].readSeq
         /\ \A x \in Procs : Numbered(t, x, d) =>
              /\ t.mem[x].flight[d].seq <= t.row[d].readSeq
              /\ t.mem[x].flight[d].seq > t.row[d].appliedSeq => t.mem[x].flight[d].from >= t.held[d]
              /\ \A q \in Procs : /\ Early(t, q, d) => t.mem[q].flight[d].from <= t.mem[x].flight[d].from
                                  /\ Numbered(t, q, d) /\ t.mem[q].flight[d].seq < t.mem[x].flight[d].seq
                                       => t.mem[q].flight[d].from <= t.mem[x].flight[d].from
  <2>1. /\ t.held[d] = s.held[d]
        /\ \A q \in Procs :
             /\ t.mem[q].flight[d].seq = s.mem[q].flight[d].seq
             /\ Out(s, q, d) => /\ t.mem[q].flight[d].from = s.mem[q].flight[d].from
                                /\ t.mem[q].flight[d].asked = s.mem[q].flight[d].asked
                                /\ t.mem[q].flight[d].follow = s.mem[q].flight[d].follow
    BY DEF Relinked
  <2>2. CASE s.row[d] # NoRow
    <3>1. t.row[d] # NoRow /\ t.row[d].appliedSeq = s.row[d].appliedSeq /\ t.row[d].readSeq = s.row[d].readSeq
      BY <2>2 DEF Relinked, LinkedAs
    <3>2. QED BY <2>1, <2>2, <3>1, <1>1, <1>2 DEF Fence
  <2>3. CASE s.row[d] = NoRow /\ d \notin cs
    <3>1. t.row[d] = NoRow BY <2>3 DEF Relinked
    <3>2. QED BY <2>1, <2>3, <3>1, <1>1, <1>2 DEF Fence
  <2>4. CASE s.row[d] = NoRow /\ d \in cs
    <3>1. t.row[d] # NoRow /\ t.row[d] \in LinkedRow /\ t.row[d].appliedSeq = 0
      BY <2>4 DEF Relinked, LinkedAs
    <3>2. \A q \in Procs : ~Numbered(s, q, d) BY <2>4, ResolvedFound DEF Fence
    <3>3. 0 <= t.row[d].readSeq BY <3>1 DEF LinkedRow
    <3>4. QED BY <2>1, <3>1, <3>2, <3>3, <1>1, <1>2 DEF Fence
  <2>5. QED BY <2>2, <2>3, <2>4
<1>4. QED BY <1>3 DEF Fence

\* The tiers are as they were: a customer whose row is repointed is not live.
LEMMA RelinkedBacked ==
  ASSUME into \in [Accounts -> Names], NEW s \in Turns("on"), NEW t \in Turns("on"), NEW cs, NEW e,
         Relinked(s, t, cs, e), Trails(s), Backed(s)
  PROVE  Backed(t)
<1> SUFFICES ASSUME NEW b \in Accounts, Live(b) PROVE BackedAt(t.tier, t.row, b)
  BY DEF Backed, BackedAt
<1>1. /\ s.row \in [Accounts -> Row] /\ t.row \in [Accounts -> Row] /\ s.tier \in [Accounts -> Tiers]
      /\ t.tier = s.tier
  BY DEF Turns, Relinked
<1>2. ASSUME NEW d \in Accounts, s.row[d] # NoRow
      PROVE  /\ t.row[d] # NoRow /\ t.row[d].tier = s.row[d].tier
             /\ s.row[d].account \in Accounts
             /\ Live(s.row[d].account) => t.row[d].account = s.row[d].account
             /\ t.row[d].account # s.row[d].account => ~Live(d)
  <2>1. s.row[d].account \in Accounts /\ s.row[d].account \in Names BY <1>1, <1>2, RowFacts DEF LinkedRow, Names
  <2>2. t.row[d] # NoRow /\ t.row[d].tier = s.row[d].tier BY <1>2 DEF Relinked, LinkedAs
  <2>3. t.row[d].account \in {s.row[d].account, FollowMerge(s.row[d].account)}
    BY <1>2 DEF Relinked, LinkedAs, ResolveAccount
  <2>4. Live(s.row[d].account) => FollowMerge(s.row[d].account) = s.row[d].account BY <2>1, MergeFacts
  <2>5. ASSUME Live(d) PROVE t.row[d].account = s.row[d].account
    <3>1. PICK S \in SUBSET Accounts : Trail(d, s.row[d].account, S) BY <1>2 DEF Trails
    <3>2. s.row[d].account = d BY <3>1, <2>5, TrailLive
    <3>3. QED BY <3>2, <2>3, <2>4, <2>5
  <2>6. QED BY <2>1, <2>2, <2>3, <2>4, <2>5
<1>3. ASSUME NEW d \in Accounts, s.row[d] = NoRow, t.row[d] # NoRow PROVE t.row[d].tier = 0
  BY <1>3 DEF Relinked, LinkedAs
<1>4. PICK cur \in Tiers : cur = s.tier[b] BY <1>1
<1>5. cur \in Nat /\ cur >= 0 BY TiersAre
<1>6. BackedAt(s.tier, s.row, b) BY DEF Backed, BackedAt
<1>7. CASE \E c \in Accounts : s.row[c] # NoRow /\ s.row[c].account = b /\ ~Live(c) /\ s.row[c].tier > cur
  <2>1. PICK c \in Accounts : s.row[c] # NoRow /\ s.row[c].account = b /\ ~Live(c) /\ s.row[c].tier > cur
    BY <1>7
  <2>2. t.row[c] # NoRow /\ t.row[c].account = b /\ t.row[c].tier > cur BY <2>1, <1>2
  <2>3. QED BY <2>1, <2>2, <1>1, <1>4 DEF BackedAt
<1>8. CASE cur = Highest(s.row, b)
  <2>1. PICK g \in Tiers :
           /\ g = Highest(s.row, b)
           /\ \A d \in Accounts : s.row[d] # NoRow /\ s.row[d].account = b => g >= s.row[d].tier
           /\ g # 0 => \E d \in Accounts : s.row[d] # NoRow /\ s.row[d].account = b /\ s.row[d].tier = g
    BY <1>1, HighestIs
  <2>2. PICK h \in Tiers :
           /\ h = Highest(t.row, b)
           /\ \A d \in Accounts : t.row[d] # NoRow /\ t.row[d].account = b => h >= t.row[d].tier
           /\ h # 0 => \E d \in Accounts : t.row[d] # NoRow /\ t.row[d].account = b /\ t.row[d].tier = h
    BY <1>1, HighestIs
  <2>3. h \in Nat /\ g \in Nat /\ cur = g BY <1>8, <2>1, TiersAre
  <2>4. h >= g
    <3>1. CASE g = 0 BY <3>1, <2>3
    <3>2. CASE g # 0
      <4>1. PICK d \in Accounts : s.row[d] # NoRow /\ s.row[d].account = b /\ s.row[d].tier = g BY <3>2, <2>1
      <4>2. t.row[d] # NoRow /\ t.row[d].account = b /\ t.row[d].tier = g BY <4>1, <1>2
      <4>3. QED BY <4>2, <2>2
    <3>3. QED BY <3>1, <3>2
  <2>5. CASE h = g BY <2>2, <2>3, <2>5, <1>1, <1>4 DEF BackedAt
  <2>6. CASE h # g
    <3>1. h > cur /\ h # 0 BY <2>3, <2>4, <2>6
    <3>2. PICK d \in Accounts : t.row[d] # NoRow /\ t.row[d].account = b /\ t.row[d].tier = h BY <3>1, <2>2
    <3>3. s.row[d] # NoRow BY <3>1, <3>2, <1>3
    <3>4. t.row[d].tier = s.row[d].tier BY <3>3, <1>2
    <3>5. s.row[d].account # b
      <4>1. ASSUME s.row[d].account = b PROVE FALSE
        <5>1. g >= h BY <3>2, <3>3, <3>4, <4>1, <2>1
        <5>2. QED BY <5>1, <2>3, <2>4, <2>6
      <4>2. QED BY <4>1
    <3>6. ~Live(d) BY <3>2, <3>3, <3>5, <1>2
    <3>7. t.row[d].tier > t.tier[b] BY <3>1, <3>2, <1>1, <1>4
    <3>8. QED BY <3>2, <3>6, <3>7 DEF BackedAt
  <2>7. QED BY <2>5, <2>6
<1>9. QED BY <1>4, <1>6, <1>7, <1>8 DEF BackedAt

\* The event that was taken is on the rows of the customers it names, if an
\* account is found for them; the marks of the others stay.
LEMMA RelinkedMarks ==
  ASSUME applied \in [Events -> {"new", "on", "off"}], NEW s \in Turns("on"), NEW t \in Turns("on"),
         NEW cs, NEW e \in Events, Relinked(s, t, cs, e),
         cs = IF applied[e] = "new" THEN {c \in e.named : ResolveAccount(s.row, c) # NoAccount} ELSE {},
         NEW ap, ap = [applied EXCEPT ![e] = IF @ = "new" THEN "on" ELSE @], Marks(applied, s)
  PROVE  Marks(ap, t)
<1> SUFFICES ASSUME NEW d \in Accounts, NEW f \in Events, MarkedBy(ap, f, d)
             PROVE  IF t.row[d] = NoRow THEN Lost(d) ELSE t.row[d].lastEvent >= f.at \/ Lost(t.row[d].account)
  BY DEF Marks
<1>1. /\ \A x \in LinkedRow : x.lastEvent \in Nat
      /\ f.at \in Nat /\ s.row[d] \in Row
  BY EventFacts DEF LinkedRow, Turns
<1>2. d \in cs => ResolveAccount(s.row, d) # NoAccount OBVIOUS
<1>3. CASE MarkedBy(applied, f, d)
  <2>1. IF s.row[d] = NoRow THEN Lost(d) ELSE s.row[d].lastEvent >= f.at \/ Lost(s.row[d].account)
    BY <1>3 DEF Marks
  <2>2. CASE d \notin cs
    <3>1. t.row[d] = s.row[d] BY <2>2 DEF Relinked
    <3>2. QED BY <2>1, <3>1
  <2>3. CASE d \in cs
    <3>1. s.row[d] # NoRow /\ s.row[d].lastEvent >= f.at BY <2>1, <2>3, <1>2, ResolvedFound
    <3>2. /\ t.row[d] # NoRow /\ t.row[d] \in LinkedRow
          /\ t.row[d].lastEvent >= s.row[d].lastEvent
      BY <2>3, <3>1 DEF Relinked, LinkedAs
    <3>3. s.row[d].lastEvent \in Nat /\ t.row[d].lastEvent \in Nat BY <3>1, <3>2, <1>1, RowFacts
    <3>4. t.row[d].lastEvent >= f.at BY <3>1, <3>2, <3>3, <1>1
    <3>5. QED BY <3>2, <3>4
  <2>4. QED BY <2>2, <2>3
<1>4. CASE ~MarkedBy(applied, f, d)
  <2>1. f = e /\ applied[e] = "new" /\ d \in e.named BY <1>4 DEF MarkedBy
  <2>2. CASE d \in cs BY <2>1, <2>2 DEF Relinked, LinkedAs
  <2>3. CASE d \notin cs
    <3>1. ResolveAccount(s.row, d) = NoAccount BY <2>1, <2>3
    <3>2. t.row[d] = s.row[d] BY <2>3 DEF Relinked
    <3>3. QED BY <3>1, <3>2 DEF ResolveAccount, Lost
  <2>4. QED BY <2>2, <2>3
<1>5. QED BY <1>3, <1>4

\* A row that is new holds no result.
LEMMA RelinkedFresh ==
  ASSUME NEW s \in Turns("on"), NEW t, NEW cs, NEW e, Relinked(s, t, cs, e), NEW o, Fresh(o, s)
  PROVE  Fresh(o, t)
<1> SUFFICES ASSUME ~o, NEW q \in Procs, NEW d \in Accounts, Out(t, q, d), t.row[d] # NoRow
             PROVE  t.mem[q].flight[d].seq > t.row[d].appliedSeq
  BY DEF Fresh
<1>1. t.mem[q].flight[d].seq = s.mem[q].flight[d].seq /\ Out(s, q, d) BY DEF Relinked, Out
<1>2. CASE s.row[d] # NoRow
  <2>1. t.row[d].appliedSeq = s.row[d].appliedSeq BY <1>2 DEF Relinked, LinkedAs
  <2>2. QED BY <1>1, <1>2, <2>1 DEF Fresh
<1>3. CASE s.row[d] = NoRow
  <2>1. t.row[d].appliedSeq = 0 BY <1>3 DEF Relinked, LinkedAs
  <2>2. s.mem[q].flight[d] \in Flight("on") BY DEF Turns, Memory
  <2>3. s.mem[q].flight[d].seq \in Nat /\ s.mem[q].flight[d].seq # 0
    BY <1>1, <2>2 DEF Out, Flight, ReadFlight, NoFlight
  <2>4. QED BY <1>1, <2>1, <2>3
<1>4. QED BY <1>2, <1>3

\* A turn with reading on keeps the invariant if it keeps what Good says of it,
\* and what is down holds nothing.
LEMMA OnKeeps ==
  ASSUME IInv, mode = "on", UNCHANGED <<mode, rolling, into, store, proc, overlapped>>,
         applied' \in [Events -> {"new", "on", "off"}],
         NEW t, Now' = t, Good("on", applied', overlapped, t),
         \A q \in Procs : ~Up(q) => t.mem[q] = NoMemory
  PROVE  IInv'
<1>1. World' BY DEF IInv, World
<1>2. mem' = t.mem BY DEF Now
<1>3. Processes' BY <1>2 DEF IInv, Processes, Up
<1>4. Good(mode', applied', overlapped', t) OBVIOUS
<1>5. Good(mode, applied, overlapped, Now)' BY <1>4, GoodNext
<1>6. QED BY <1>1, <1>3, <1>5 DEF IInv

\* With reading on an event queues reads.
LEMMA EventQueuesKeeps ==
  ASSUME IInv, NEW p \in Procs, NEW e \in Events, EventQueues(p, e)
  PROVE  IInv' /\ NoneEnds /\ mode = "on"
<1>1. /\ World /\ Processes /\ Good(mode, applied, overlapped, Now) /\ Now \in Turns(mode)
      /\ into \in [Accounts -> Names] /\ store \in [Accounts -> Nat] /\ row \in [Accounts -> Row]
  BY IInvFacts
<1>2. PICK cs : cs = IF applied[e] = "new" THEN {c \in e.named : ResolveAccount(row, c) # NoAccount} ELSE {}
  OBVIOUS
<1>3. PICK ap : ap = [applied EXCEPT ![e] = IF @ = "new" THEN "on" ELSE @] OBVIOUS
<1>4. /\ mode = "on" /\ Up(p) /\ applied' = ap
      /\ UNCHANGED <<mode, rolling, into, store, proc, overlapped>>
  BY <1>3 DEF EventQueues
<1>5. PICK s : s = Queued(Now, p, cs, e) /\ \E w \in Wake(s, p) : Commit(w) BY <1>2 DEF EventQueues
<1>6. PICK w \in Wake(s, p) : Commit(w) BY <1>5
<1>7. Good("on", applied, overlapped, Now) /\ Now \in Turns("on") BY <1>1, <1>4
<1>8. /\ Trails(Now) /\ Fence(Now) /\ Marks(applied, Now) /\ Backed(Now) /\ Fresh(overlapped, Now)
      /\ applied \in [Events -> {"new", "on", "off"}]
  BY <1>1 DEF Good, Sound, World
<1>9. cs \in SUBSET Accounts /\ e.at \in Nat BY <1>2, EventFacts
<1>10. \A c \in cs : ResolveAccount(row, c) # NoAccount BY <1>2
<1>11. ASSUME NEW c \in cs PROVE ResolveAccount(row, c) \in Accounts
  <2>1. PICK x \in Names : x = (IF row[c] # NoRow THEN row[c].account ELSE c)
    <3>1. c \in Names BY <1>9 DEF Names
    <3>2. row[c] # NoRow => row[c].account \in Names BY <1>1, <1>9, RowFacts DEF LinkedRow, Names
    <3>3. QED BY <3>1, <3>2
  <2>2. ResolveAccount(row, c) = FollowMerge(x) BY <2>1 DEF ResolveAccount
  <2>3. FollowMerge(x) \in Names BY <1>1, MergeFacts
  <2>4. QED BY <2>2, <2>3, <1>10 DEF Names
<1>12. /\ s \in Turns("on") /\ Relinked(Now, s, cs, e)
       /\ \A q \in Procs : Now.mem[q] = NoMemory => s.mem[q] = NoMemory
  <2>1. \A c \in cs : ResolveAccount(Now.row, c) \in Accounts BY <1>11, NowIs
  <2>2. PICK n \in Turns("on") : n = Now BY <1>7
  <2>3. s = Queued(n, p, cs, e) /\ \A c \in cs : ResolveAccount(n.row, c) \in Accounts BY <2>1, <2>2, <1>5
  <2>4. /\ s \in Turns("on") /\ Relinked(n, s, cs, e)
        /\ \A q \in Procs : n.mem[q] = NoMemory => s.mem[q] = NoMemory
    BY <2>3, <1>9, QueuedIs
  <2>5. QED BY <2>2, <2>4
<1>13. \A c \in cs : ResolveAccount(Now.row, c) # NoAccount BY <1>10, NowIs
<1>14. Trails(s) BY <1>1, <1>7, <1>8, <1>12, <1>13, RelinkedTrails
<1>15. Fence(s) BY <1>7, <1>8, <1>12, <1>13, RelinkedFence
<1>16. Backed(s) BY <1>1, <1>7, <1>8, <1>12, RelinkedBacked
<1>17. Marks(ap, s)
  <2>1. cs = IF applied[e] = "new" THEN {c \in e.named : ResolveAccount(Now.row, c) # NoAccount} ELSE {}
    BY <1>2, NowIs
  <2>2. QED BY <2>1, <1>3, <1>7, <1>8, <1>12, RelinkedMarks
<1>18. Fresh(overlapped, s) BY <1>7, <1>8, <1>12, RelinkedFresh
<1>19. Good("on", ap, overlapped, s) BY <1>12, <1>14, <1>15, <1>16, <1>17, <1>18 DEF Good, Sound
<1>20. Goes(ap, overlapped, s, w, p) BY <1>1, <1>6, <1>19, WakeGoes
<1>21. Good("on", ap, overlapped, w) /\ w \in Turns("on") /\ Others(s, w, p) /\ Running(s, w)
  BY <1>20 DEF Goes, Good, Sound
<1>22. Now' = w BY <1>6, <1>21, CommitIs
<1>23. applied' \in [Events -> {"new", "on", "off"}] BY <1>3, <1>4, <1>8
<1>24. \A q \in Procs : ~Up(q) => w.mem[q] = NoMemory
  BY <1>1, <1>4, <1>12, <1>21, NowIs DEF Processes, Others
<1>25. IInv' BY <1>4, <1>21, <1>22, <1>23, <1>24, OnKeeps
<1>26. NoneEnds
  <2>1. Running(Now, w)
    <3>1. \A q \in Procs, d \in Accounts : s.mem[q].flight[d].seq = Now.mem[q].flight[d].seq
      BY <1>12 DEF Relinked
    <3>2. QED BY <3>1, <1>21 DEF Running, Out
  <2>2. QED BY <2>1, <1>22, RunningNext
<1>27. QED BY <1>4, <1>25, <1>26

-----------------------------------------------------------------------------
(* Accounts are joined and erased.                                         *)

\* The fields of the next turn are the variables of the next state.
LEMMA NowIsNext ==
  /\ Now'.tier = tier' /\ Now'.row = row' /\ Now'.queue = queue'
  /\ Now'.mem = mem' /\ Now'.held = held' /\ Now'.owed = owed'
BY DEF Now

\* Where the processes and their reads are as they were, the parts of the
\* invariant that say nothing of rows and accounts stay.
Unmoved == UNCHANGED <<mode, rolling, applied, store, proc, overlapped, mem>>

\* Those parts stay.
LEMMA UnmovedKeeps ==
  ASSUME IInv, Unmoved, into' \in [Accounts -> Names], row' \in [Accounts -> Row],
         tier' \in [Accounts -> Tiers], queue' \in [Accounts -> QueueRow], held' \in [Accounts -> Nat],
         owed' \in [Accounts -> BOOLEAN],
         \A c \in Accounts : row'[c] # NoRow => row[c] # NoRow /\ row'[c].appliedSeq = row[c].appliedSeq
  PROVE  /\ World' /\ Processes' /\ (Now \in Turns(mode))' /\ Fresh(overlapped, Now)' /\ NoneEnds
         /\ \A p, c : /\ Out(Now, p, c)' <=> Out(Now, p, c)
                      /\ Numbered(Now, p, c)' <=> Numbered(Now, p, c)
                      /\ Early(Now, p, c)' <=> Early(Now, p, c)
<1>1. World' BY DEF IInv, World, Unmoved
<1>2. Processes' BY DEF IInv, Processes, Up, Unmoved
<1>3. mem' \in [Procs -> Memory(mode')] BY IInvFacts DEF Unmoved
<1>4. (Now \in Turns(mode))' BY <1>3 DEF Now, Turns, Memory, Flight
<1>5. \A p, c : /\ Out(Now, p, c)' <=> Out(Now, p, c)
                /\ Numbered(Now, p, c)' <=> Numbered(Now, p, c)
                /\ Early(Now, p, c)' <=> Early(Now, p, c)
  BY NowIs, NowIsNext DEF Out, Numbered, Early, Unmoved
<1>6. Fresh(overlapped, Now)'
  <2>1. Fresh(overlapped, Now) BY DEF IInv, Good
  <2>2. QED BY <2>1, <1>5, NowIs, NowIsNext DEF Fresh, Unmoved
<1>7. NoneEnds BY DEF NoneEnds, Unmoved
<1>8. QED BY <1>1, <1>2, <1>4, <1>5, <1>6, <1>7

\* What Trails says of the next state.
LEMMA TrailsNext ==
  ASSUME \A c \in Accounts : \A x : row'[c] # NoRow /\ x = row'[c].account => \E S \in SUBSET Accounts : Trail(c, x, S)'
  PROVE  Trails(Now)'
BY NowIsNext DEF Trails

\* What Marks says of the next state.
LEMMA MarksNext ==
  ASSUME applied' = applied,
         \A c \in Accounts, f \in Events : \A x : MarkedBy(applied, f, c) /\ x = row'[c].account =>
           IF row'[c] = NoRow THEN Lost(c)' ELSE row'[c].lastEvent >= f.at \/ Lost(x)'
  PROVE  Marks(applied, Now)'
BY NowIsNext DEF Marks, MarkedBy

\* What Backed says of the next state.
LEMMA BackedNext ==
  ASSUME \A y \in Accounts : into'[y] = y =>
           \/ tier'[y] = Highest(row', y)
           \/ \E c \in Accounts : row'[c] # NoRow /\ row'[c].account = y /\ into'[c] # c /\ row'[c].tier > tier'[y]
  PROVE  Backed(Now)'
BY NowIsNext DEF Backed, Live

\* Rows of customers who are linked keep their numbers, and who is lost stays
\* lost: the fence stands.
LEMMA UnmovedFence ==
  ASSUME IInv, Unmoved,
         \A p, c : /\ Out(Now, p, c)' <=> Out(Now, p, c)
                   /\ Numbered(Now, p, c)' <=> Numbered(Now, p, c)
                   /\ Early(Now, p, c)' <=> Early(Now, p, c),
         \A c \in Accounts : Lost(c) => Lost(c)',
         \A c \in Accounts : IF row'[c] = NoRow THEN held'[c] \in {0, held[c]} /\ (row[c] # NoRow => Lost(c)')
                             ELSE /\ held'[c] = held[c] /\ row[c] # NoRow
                                  /\ row'[c].appliedSeq = row[c].appliedSeq /\ row'[c].readSeq = row[c].readSeq
  PROVE  Fence(Now)'
<1>1. Fence(Now) /\ store \in [Accounts -> Nat] BY IInvFacts DEF Good, Sound
<1>2. mem' = mem /\ store' = store BY DEF Unmoved
<1>3. ASSUME NEW c \in Accounts PROVE
    /\ held'[c] <= store[c]
    /\ \A p \in Procs : Out(Now, p, c) => /\ mem[p].flight[c].from <= store[c]
                                          /\ mem[p].flight[c].asked <= mem[p].flight[c].from
                                          /\ mem[p].flight[c].follow <= store[c]
    /\ row'[c] = NoRow => \A p \in Procs : Numbered(Now, p, c) => Lost(c)'
    /\ row'[c] # NoRow =>
         /\ row'[c].appliedSeq <= row'[c].readSeq
         /\ \A p \in Procs : Numbered(Now, p, c) =>
              /\ mem[p].flight[c].seq <= row'[c].readSeq
              /\ mem[p].flight[c].seq > row'[c].appliedSeq => mem[p].flight[c].from >= held'[c]
              /\ \A q \in Procs : /\ Early(Now, q, c) => mem[q].flight[c].from <= mem[p].flight[c].from
                                  /\ Numbered(Now, q, c) /\ mem[q].flight[c].seq < mem[p].flight[c].seq
                                       => mem[q].flight[c].from <= mem[p].flight[c].from
  <2>1. store[c] \in Nat /\ held[c] <= store[c] BY <1>1, NowIs DEF Fence
  <2>2. \A p \in Procs : Out(Now, p, c) => /\ mem[p].flight[c].from <= store[c]
                                           /\ mem[p].flight[c].asked <= mem[p].flight[c].from
                                           /\ mem[p].flight[c].follow <= store[c]
    BY <1>1, NowIs DEF Fence
  <2>3. CASE row'[c] = NoRow
    <3>1. held'[c] <= store[c] BY <2>1, <2>3
    <3>2. row[c] = NoRow => \A p \in Procs : Numbered(Now, p, c) => Lost(c) BY <1>1, NowIs DEF Fence
    <3>3. QED BY <2>2, <2>3, <3>1, <3>2
  <2>4. CASE row'[c] # NoRow BY <2>1, <2>2, <2>4, <1>1, NowIs DEF Fence
  <2>5. QED BY <2>3, <2>4
<1>4. QED BY <1>2, <1>3, NowIsNext DEF Fence

\* An account is attached to another: its rows stay with the tombstone.
LEMMA AttachKeeps ==
  ASSUME IInv, NEW a \in Accounts, NEW b \in Accounts, Attach(a, b)
  PROVE  IInv' /\ NoneEnds
<1>1. /\ World /\ Processes /\ Good(mode, applied, overlapped, Now) /\ Now \in Turns(mode)
      /\ into \in [Accounts -> Names] /\ row \in [Accounts -> Row] /\ tier \in [Accounts -> Tiers]
  BY IInvFacts
<1>2. /\ a # b /\ Live(a) /\ Live(b) /\ into' = [into EXCEPT ![a] = b]
      /\ UNCHANGED <<tier, row, queue, held, owed>> /\ Unmoved
  <2>1. <<a, b>> \in Joins BY DEF Attach
  <2>2. a # b BY <2>1, BillingAssumption
  <2>3. QED BY <2>2 DEF Attach, Unmoved
<1>3. into' \in [Accounts -> Names] BY <1>1, <1>2 DEF Names
<1>4. queue \in [Accounts -> QueueRow] /\ held \in [Accounts -> Nat] /\ owed \in [Accounts -> BOOLEAN]
  BY <1>1, NowIs DEF Turns
<1>5. /\ World' /\ Processes' /\ (Now \in Turns(mode))' /\ Fresh(overlapped, Now)' /\ NoneEnds
      /\ \A p, c : /\ Out(Now, p, c)' <=> Out(Now, p, c)
                   /\ Numbered(Now, p, c)' <=> Numbered(Now, p, c)
                   /\ Early(Now, p, c)' <=> Early(Now, p, c)
  <2>1. \A c \in Accounts : row'[c] # NoRow => row[c] # NoRow /\ row'[c].appliedSeq = row[c].appliedSeq BY <1>2
  <2>2. /\ row' \in [Accounts -> Row] /\ tier' \in [Accounts -> Tiers] /\ queue' \in [Accounts -> QueueRow]
        /\ held' \in [Accounts -> Nat] /\ owed' \in [Accounts -> BOOLEAN]
    BY <1>1, <1>2, <1>4
  <2>3. QED BY <2>1, <2>2, <1>2, <1>3, UnmovedKeeps
<1>6. Joined(a, b) BY <1>1, <1>2, <1>3 DEF Joined, Live
<1>7. ASSUME NEW x \in Names, Lost(x) PROVE Lost(x)' BY <1>1, <1>6, <1>7, JoinedLost
<1>8. Trails(Now)'
  <2>1. ASSUME NEW c \in Accounts, NEW x, row'[c] # NoRow, x = row'[c].account
        PROVE  \E S \in SUBSET Accounts : Trail(c, x, S)'
    <3>1. PICK S \in SUBSET Accounts : Trail(c, x, S) BY <1>1, <1>2, <2>1, NowIs DEF Good, Sound, Trails
    <3>2. Trail(c, x, S)' BY <3>1, <1>1, <1>2, TrailAttached
    <3>3. QED BY <3>2
  <2>2. QED BY <2>1, TrailsNext
<1>9. Fence(Now)'
  <2>1. \A c \in Accounts : Lost(c) => Lost(c)' BY <1>7 DEF Names
  <2>2. \A c \in Accounts : IF row'[c] = NoRow THEN held'[c] \in {0, held[c]} /\ (row[c] # NoRow => Lost(c)')
                             ELSE /\ held'[c] = held[c] /\ row[c] # NoRow
                                  /\ row'[c].appliedSeq = row[c].appliedSeq /\ row'[c].readSeq = row[c].readSeq
    BY <1>2
  <2>3. QED BY <2>1, <2>2, <1>2, <1>5, UnmovedFence
<1>10. Marks(applied, Now)'
  <2>1. applied' = applied BY <1>2 DEF Unmoved
  <2>2. ASSUME NEW c \in Accounts, NEW f \in Events, MarkedBy(applied, f, c), NEW x, x = row'[c].account
        PROVE  IF row'[c] = NoRow THEN Lost(c)' ELSE row'[c].lastEvent >= f.at \/ Lost(x)'
    <3>1. IF row[c] = NoRow THEN Lost(c) ELSE row[c].lastEvent >= f.at \/ Lost(x)
      BY <1>1, <1>2, <2>2, NowIs DEF Good, Sound, Marks
    <3>2. row[c] # NoRow => x \in Names BY <1>1, <1>2, <2>2, RowFacts DEF LinkedRow, Names
    <3>3. c \in Names BY DEF Names
    <3>4. QED BY <3>1, <3>2, <3>3, <1>2, <1>7
  <2>3. QED BY <2>1, <2>2, MarksNext
<1>11. Backed(Now)'
  <2>1. ASSUME NEW y \in Accounts, into'[y] = y
        PROVE  \/ tier'[y] = Highest(row', y)
               \/ \E c \in Accounts : row'[c] # NoRow /\ row'[c].account = y /\ into'[c] # c /\ row'[c].tier > tier'[y]
    <3>1. Live(y) BY <2>1, <1>1, <1>2 DEF Live
    <3>2. \A c \in Accounts : ~Live(c) => into'[c] # c BY <1>1, <1>2 DEF Live
    <3>3. QED BY <3>1, <3>2, <1>1, <1>2, NowIs DEF Good, Sound, Backed
  <2>2. QED BY <2>1, BackedNext
<1>12. QED BY <1>5, <1>8, <1>9, <1>10, <1>11 DEF IInv, Good, Sound

\* An account is merged: its rows go to the target, which is put on the tier
\* that they and its own pay for.
LEMMA MergeKeeps ==
  ASSUME IInv, NEW a \in Accounts, NEW b \in Accounts, MergeAccounts(a, b)
  PROVE  IInv' /\ NoneEnds
<1>1. /\ World /\ Processes /\ Good(mode, applied, overlapped, Now) /\ Now \in Turns(mode)
      /\ into \in [Accounts -> Names] /\ row \in [Accounts -> Row] /\ tier \in [Accounts -> Tiers]
  BY IInvFacts
<1>2. PICK moved : moved = [c \in Accounts |-> IF row[c] # NoRow /\ row[c].account = a
                                               THEN [row[c] EXCEPT !.account = b] ELSE row[c]]
  OBVIOUS
<1>3. /\ a # b /\ Live(a) /\ Live(b)
      /\ into' = [x \in Accounts |-> IF into[x] = a THEN b ELSE into[x]]
      /\ row' = moved /\ tier' = [tier EXCEPT ![b] = Max({tier[b], Highest(moved, b)})]
      /\ UNCHANGED <<queue, held, owed>> /\ Unmoved
  <2>1. <<a, b>> \in Joins BY DEF MergeAccounts
  <2>2. a # b BY <2>1, BillingAssumption
  <2>3. QED BY <2>2, <1>2 DEF MergeAccounts, Unmoved
<1>4. into' \in [Accounts -> Names]
  <2>1. ASSUME NEW x \in Accounts PROVE into'[x] \in Names BY <1>1, <1>3 DEF Names
  <2>2. QED BY <2>1, <1>3
<1>5. queue \in [Accounts -> QueueRow] /\ held \in [Accounts -> Nat] /\ owed \in [Accounts -> BOOLEAN]
  BY <1>1, NowIs DEF Turns
<1>6. ASSUME NEW c \in Accounts
      PROVE  /\ moved[c] \in Row /\ (moved[c] = NoRow <=> row[c] = NoRow)
             /\ row[c] # NoRow =>
                  /\ moved[c].tier = row[c].tier /\ moved[c].lastEvent = row[c].lastEvent
                  /\ moved[c].appliedSeq = row[c].appliedSeq /\ moved[c].readSeq = row[c].readSeq
                  /\ row[c].account \in Accounts
                  /\ row[c].account = a => moved[c].account = b
                  /\ row[c].account # a => moved[c] = row[c]
  <2>1. row[c] \in Row BY <1>1
  <2>2. CASE row[c] # NoRow /\ row[c].account = a
    <3>1. row[c] \in LinkedRow BY <2>1, <2>2, RowFacts
    <3>2. moved[c] = [row[c] EXCEPT !.account = b] BY <1>2, <2>2
    <3>3. moved[c] \in LinkedRow BY <3>1, <3>2, RowFacts
    <3>4. moved[c] # NoRow /\ moved[c] \in Row BY <3>3, RowFacts DEF Row
    <3>5. QED BY <2>2, <3>1, <3>2, <3>4 DEF LinkedRow
  <2>3. CASE ~(row[c] # NoRow /\ row[c].account = a)
    <3>1. moved[c] = row[c] BY <1>2, <2>3
    <3>2. row[c] # NoRow => row[c].account \in Accounts BY <2>1, RowFacts DEF LinkedRow
    <3>3. QED BY <2>1, <2>3, <3>1, <3>2
  <2>4. QED BY <2>2, <2>3
<1>7. moved \in [Accounts -> Row] BY <1>2, <1>6
<1>8. PICK h \in Tiers :
         /\ h = Highest(moved, b)
         /\ \A d \in Accounts : moved[d] # NoRow /\ moved[d].account = b => h >= moved[d].tier
         /\ h # 0 => \E d \in Accounts : moved[d] # NoRow /\ moved[d].account = b /\ moved[d].tier = h
  BY <1>7, HighestIs
<1>9. PICK g \in Tiers :
         /\ g = Highest(row, b)
         /\ \A d \in Accounts : row[d] # NoRow /\ row[d].account = b => g >= row[d].tier
         /\ g # 0 => \E d \in Accounts : row[d] # NoRow /\ row[d].account = b /\ row[d].tier = g
  BY <1>1, HighestIs
<1>10. PICK cur \in Tiers : cur = tier[b] BY <1>1
<1>11. h \in Nat /\ g \in Nat /\ cur \in Nat BY TiersAre
<1>12. PICK top : top = Max({cur, h}) OBVIOUS
<1>13. top \in {cur, h} /\ top >= cur /\ top >= h
  <2>1. PICK T : T = {cur, h} OBVIOUS
  <2>2. T \subseteq Tiers /\ T # {} BY <2>1
  <2>3. Max(T) \in T /\ \A y \in T : Max(T) >= y BY <2>2, HighestTier
  <2>4. QED BY <2>1, <2>3, <1>12
<1>14. tier' = [tier EXCEPT ![b] = top] BY <1>3, <1>8, <1>10, <1>12
<1>15. /\ World' /\ Processes' /\ (Now \in Turns(mode))' /\ Fresh(overlapped, Now)' /\ NoneEnds
       /\ \A p, c : /\ Out(Now, p, c)' <=> Out(Now, p, c)
                    /\ Numbered(Now, p, c)' <=> Numbered(Now, p, c)
                    /\ Early(Now, p, c)' <=> Early(Now, p, c)
  <2>1. \A c \in Accounts : row'[c] # NoRow => row[c] # NoRow /\ row'[c].appliedSeq = row[c].appliedSeq
    BY <1>3, <1>6
  <2>2. tier' \in [Accounts -> Tiers] BY <1>1, <1>13, <1>14
  <2>3. /\ row' \in [Accounts -> Row] /\ queue' \in [Accounts -> QueueRow]
        /\ held' \in [Accounts -> Nat] /\ owed' \in [Accounts -> BOOLEAN]
    BY <1>3, <1>5, <1>7
  <2>4. QED BY <2>1, <2>2, <2>3, <1>3, <1>4, UnmovedKeeps
<1>16. Joined(a, b) BY <1>1, <1>3, <1>4 DEF Joined, Live
<1>17. ASSUME NEW x \in Names, Lost(x) PROVE Lost(x)' BY <1>1, <1>16, <1>17, JoinedLost
<1>18. ~Lost(a) BY <1>1, <1>3, MergeFacts, BillingAssumption DEF Lost, Names
<1>19. Trails(Now)'
  <2>1. ASSUME NEW c \in Accounts, NEW x, row'[c] # NoRow, x = row'[c].account
        PROVE  \E S \in SUBSET Accounts : Trail(c, x, S)'
    <3>1. row[c] # NoRow BY <2>1, <1>3, <1>6
    <3>2. PICK y : y = row[c].account OBVIOUS
    <3>3. PICK S \in SUBSET Accounts : Trail(c, y, S) BY <3>1, <3>2, <1>1, NowIs DEF Good, Sound, Trails
    <3>4. /\ y # a => Trail(c, y, S)'
          /\ y = a => \E T \in SUBSET Accounts : Trail(c, b, T)'
      BY <3>3, <1>1, <1>3, TrailMerged
    <3>5. CASE y = a
      <4>1. x = b BY <3>1, <3>2, <3>5, <2>1, <1>3, <1>6
      <4>2. QED BY <4>1, <3>4, <3>5
    <3>6. CASE y # a
      <4>1. x = y BY <3>1, <3>2, <3>6, <2>1, <1>3, <1>6
      <4>2. QED BY <4>1, <3>4, <3>6
    <3>7. QED BY <3>5, <3>6
  <2>2. QED BY <2>1, TrailsNext
<1>20. Fence(Now)'
  <2>1. \A c \in Accounts : Lost(c) => Lost(c)' BY <1>17 DEF Names
  <2>2. \A c \in Accounts : IF row'[c] = NoRow THEN held'[c] \in {0, held[c]} /\ (row[c] # NoRow => Lost(c)')
                             ELSE /\ held'[c] = held[c] /\ row[c] # NoRow
                                  /\ row'[c].appliedSeq = row[c].appliedSeq /\ row'[c].readSeq = row[c].readSeq
    BY <1>3, <1>6
  <2>3. QED BY <2>1, <2>2, <1>3, <1>15, UnmovedFence
<1>21. Marks(applied, Now)'
  <2>1. applied' = applied BY <1>3 DEF Unmoved
  <2>2. ASSUME NEW c \in Accounts, NEW f \in Events, MarkedBy(applied, f, c), NEW x, x = row'[c].account
        PROVE  IF row'[c] = NoRow THEN Lost(c)' ELSE row'[c].lastEvent >= f.at \/ Lost(x)'
    <3>1. IF row[c] = NoRow THEN Lost(c) ELSE row[c].lastEvent >= f.at \/ Lost(row[c].account)
      BY <1>1, <2>2, NowIs DEF Good, Sound, Marks
    <3>2. c \in Names BY DEF Names
    <3>3. CASE row[c] = NoRow BY <3>1, <3>2, <3>3, <1>3, <1>6, <1>17
    <3>4. CASE row[c] # NoRow /\ row[c].lastEvent >= f.at BY <3>4, <1>3, <1>6
    <3>5. CASE row[c] # NoRow /\ Lost(row[c].account)
      <4>1. row[c].account # a BY <3>5, <1>18
      <4>2. x = row[c].account /\ row'[c] # NoRow BY <3>5, <4>1, <2>2, <1>3, <1>6
      <4>3. x \in Names /\ Lost(x) BY <3>5, <4>2, <1>6 DEF Names
      <4>4. QED BY <4>2, <4>3, <1>17
    <3>6. QED BY <3>1, <3>3, <3>4, <3>5
  <2>3. QED BY <2>1, <2>2, MarksNext
<1>22. Backed(Now)'
  <2>1. ASSUME NEW y \in Accounts, into'[y] = y
        PROVE  \/ tier'[y] = Highest(row', y)
               \/ \E c \in Accounts : row'[c] # NoRow /\ row'[c].account = y /\ into'[c] # c /\ row'[c].tier > tier'[y]
    <3>1. Live(y) /\ y # a BY <2>1, <1>3 DEF Live
    <3>2. BackedAt(tier, row, y) BY <3>1, <1>1, NowIs DEF Good, Sound, Backed, BackedAt
    <3>3. CASE y = b
      <4>1. g >= cur \/ \E c \in Accounts : row[c] # NoRow /\ row[c].account = b /\ row[c].tier > cur
        BY <3>2, <3>3, <1>9, <1>10, <1>11 DEF BackedAt
      <4>2. ASSUME NEW c \in Accounts, row[c] # NoRow, row[c].account = b PROVE h >= row[c].tier
        <5>1. moved[c] = row[c] BY <4>2, <1>3, <1>6
        <5>2. QED BY <4>2, <5>1, <1>8
      <4>3. h >= g
        <5>1. CASE g = 0 BY <5>1, <1>11
        <5>2. CASE g # 0
          <6>1. PICK c \in Accounts : row[c] # NoRow /\ row[c].account = b /\ row[c].tier = g BY <5>2, <1>9
          <6>2. QED BY <6>1, <4>2
        <5>3. QED BY <5>1, <5>2
      <4>4. h >= cur
        <5>1. CASE g >= cur BY <5>1, <4>3, <1>11
        <5>2. CASE \E c \in Accounts : row[c] # NoRow /\ row[c].account = b /\ row[c].tier > cur
          <6>1. PICK c \in Accounts : row[c] # NoRow /\ row[c].account = b /\ row[c].tier > cur BY <5>2
          <6>2. row[c].tier \in Tiers BY <6>1, <1>1, RowFacts DEF LinkedRow
          <6>3. row[c].tier \in Nat /\ h >= row[c].tier BY <6>1, <6>2, <4>2, TiersAre
          <6>4. QED BY <6>1, <6>3, <1>11
        <5>3. QED BY <4>1, <5>1, <5>2
      <4>5. top = h BY <4>4, <1>11, <1>13
      <4>6. tier'[b] = h BY <4>5, <1>1, <1>14
      <4>7. QED BY <4>6, <3>3, <1>3, <1>8
    <3>4. CASE y # b
      <4>1. tier'[y] = tier[y] BY <3>4, <1>1, <1>14
      <4>2. PICK C : C = {x \in Accounts : row[x] # NoRow /\ row[x].account = y} OBVIOUS
      <4>3. PICK D : D = {x \in Accounts : moved[x] # NoRow /\ moved[x].account = y} OBVIOUS
      <4>4. C = D
        <5>1. ASSUME NEW x \in C PROVE x \in D BY <5>1, <4>2, <4>3, <3>1, <1>6
        <5>2. ASSUME NEW x \in D PROVE x \in C
          <6>1. x \in Accounts /\ row[x] # NoRow BY <5>2, <4>3, <1>6
          <6>2. row[x].account # a BY <5>2, <6>1, <4>3, <3>4, <1>6
          <6>3. QED BY <5>2, <6>1, <6>2, <4>2, <4>3, <1>6
        <5>3. QED BY <5>1, <5>2
      <4>5. \A x \in C : moved[x].tier = row[x].tier BY <4>2, <1>6
      <4>6. {row[x].tier : x \in C} = {moved[x].tier : x \in D} BY <4>4, <4>5
      <4>7. Highest(row, y) = Highest(moved, y) BY <4>2, <4>3, <4>6 DEF Highest
      <4>8. CASE tier[y] = Highest(row, y) BY <4>1, <4>7, <4>8, <1>3
      <4>9. CASE \E c \in Accounts : row[c] # NoRow /\ row[c].account = y /\ ~Live(c) /\ row[c].tier > tier[y]
        <5>1. PICK c \in Accounts : row[c] # NoRow /\ row[c].account = y /\ ~Live(c) /\ row[c].tier > tier[y]
          BY <4>9
        <5>2. moved[c] = row[c] BY <5>1, <3>1, <1>6
        <5>3. into'[c] # c BY <5>1, <1>3 DEF Live
        <5>4. QED BY <5>1, <5>2, <5>3, <4>1, <1>3
      <4>10. QED BY <3>2, <4>8, <4>9 DEF BackedAt
    <3>5. QED BY <3>3, <3>4
  <2>2. QED BY <2>1, BackedNext
<1>23. QED BY <1>15, <1>19, <1>20, <1>21, <1>22 DEF IInv, Good, Sound

\* An account is erased with those that were joined into it, their rows and
\* what is queued for them.
LEMMA DeleteKeeps ==
  ASSUME IInv, NEW a \in Accounts, DeleteAccount(a)
  PROVE  IInv' /\ NoneEnds
<1>1. /\ World /\ Processes /\ Good(mode, applied, overlapped, Now) /\ Now \in Turns(mode)
      /\ into \in [Accounts -> Names] /\ row \in [Accounts -> Row] /\ tier \in [Accounts -> Tiers]
  BY IInvFacts
<1>2. PICK F : F = Finders(a) OBVIOUS
<1>3. PICK linked : linked = {c \in Accounts : row[c] # NoRow /\ row[c].account \in F} OBVIOUS
<1>4. PICK gone : gone = F \cup linked OBVIOUS
<1>5. /\ Live(a)
      /\ into' = [x \in Accounts |-> IF x \in F THEN NoAccount ELSE into[x]]
      /\ tier' = [x \in Accounts |-> IF x \in F THEN 0 ELSE tier[x]]
      /\ row' = [c \in Accounts |-> IF c \in linked THEN NoRow ELSE row[c]]
      /\ queue' = [c \in Accounts |-> IF c \in gone THEN NoQueue ELSE queue[c]]
      /\ owed' = [c \in Accounts |-> owed[c] /\ c \notin gone]
      /\ held' = [c \in Accounts |-> IF c \in linked THEN 0 ELSE held[c]]
      /\ Unmoved
  BY <1>2, <1>3, <1>4 DEF DeleteAccount, Finders, Unmoved
<1>6. queue \in [Accounts -> QueueRow] /\ held \in [Accounts -> Nat] /\ owed \in [Accounts -> BOOLEAN]
  BY <1>1, NowIs DEF Turns
<1>7. F \in SUBSET Accounts /\ NoAccount \notin Accounts BY <1>2, BillingAssumption DEF Finders
<1>8. into' \in [Accounts -> Names]
  <2>1. ASSUME NEW x \in Accounts PROVE into'[x] \in Names BY <1>1, <1>5 DEF Names
  <2>2. QED BY <2>1, <1>5
<1>9. /\ World' /\ Processes' /\ (Now \in Turns(mode))' /\ Fresh(overlapped, Now)' /\ NoneEnds
      /\ \A p, c : /\ Out(Now, p, c)' <=> Out(Now, p, c)
                   /\ Numbered(Now, p, c)' <=> Numbered(Now, p, c)
                   /\ Early(Now, p, c)' <=> Early(Now, p, c)
  <2>1. \A c \in Accounts : row'[c] # NoRow => row[c] # NoRow /\ row'[c].appliedSeq = row[c].appliedSeq
    BY <1>5
  <2>2. tier' \in [Accounts -> Tiers] BY <1>1, <1>5, TiersAre
  <2>3. row' \in [Accounts -> Row] BY <1>1, <1>5 DEF Row
  <2>4. queue' \in [Accounts -> QueueRow] BY <1>5, <1>6 DEF QueueRow
  <2>5. held' \in [Accounts -> Nat] BY <1>5, <1>6
  <2>6. owed' \in [Accounts -> BOOLEAN] BY <1>5, <1>6
  <2>7. QED BY <2>1, <2>2, <2>3, <2>4, <2>5, <2>6, <1>5, <1>8, UnmovedKeeps
<1>10. Erased(F) BY <1>5, <1>7 DEF Erased
<1>11. ASSUME NEW x \in Names, Lost(x) PROVE Lost(x)' BY <1>1, <1>10, <1>11, ErasedLost
<1>12. ASSUME NEW c \in linked PROVE Lost(c)'
  <2>1. c \in Accounts /\ row[c] # NoRow /\ row[c].account \in F BY <1>3
  <2>2. PICK x \in F : x = row[c].account BY <2>1
  <2>3. PICK S \in SUBSET Accounts : Trail(c, x, S) BY <2>1, <2>2, <1>1, NowIs DEF Good, Sound, Trails
  <2>4. QED BY <2>3, <1>1, <1>10, TrailLost
<1>13. Trails(Now)'
  <2>1. ASSUME NEW c \in Accounts, NEW x, row'[c] # NoRow, x = row'[c].account
        PROVE  \E S \in SUBSET Accounts : Trail(c, x, S)'
    <3>1. c \notin linked /\ row'[c] = row[c] BY <2>1, <1>5
    <3>2. row[c] # NoRow /\ x = row[c].account /\ x \notin F BY <3>1, <2>1, <1>3
    <3>3. PICK S \in SUBSET Accounts : Trail(c, x, S) BY <3>2, <1>1, NowIs DEF Good, Sound, Trails
    <3>4. Erased(Finders(a)) /\ x \notin Finders(a) BY <3>2, <1>2, <1>10
    <3>5. Trail(c, x, S)' BY <3>3, <3>4, <1>1, <1>5, TrailErased
    <3>6. QED BY <3>5
  <2>2. QED BY <2>1, TrailsNext
<1>14. Fence(Now)'
  <2>1. \A c \in Accounts : Lost(c) => Lost(c)' BY <1>11 DEF Names
  <2>2. ASSUME NEW c \in Accounts
        PROVE  IF row'[c] = NoRow THEN held'[c] \in {0, held[c]} /\ (row[c] # NoRow => Lost(c)')
               ELSE /\ held'[c] = held[c] /\ row[c] # NoRow
                    /\ row'[c].appliedSeq = row[c].appliedSeq /\ row'[c].readSeq = row[c].readSeq
    <3>1. CASE c \in linked BY <3>1, <1>5, <1>12
    <3>2. CASE c \notin linked BY <3>2, <1>5
    <3>3. QED BY <3>1, <3>2
  <2>3. QED BY <2>1, <2>2, <1>5, <1>9, UnmovedFence
<1>15. Marks(applied, Now)'
  <2>1. applied' = applied BY <1>5 DEF Unmoved
  <2>2. ASSUME NEW c \in Accounts, NEW f \in Events, MarkedBy(applied, f, c), NEW x, x = row'[c].account
        PROVE  IF row'[c] = NoRow THEN Lost(c)' ELSE row'[c].lastEvent >= f.at \/ Lost(x)'
    <3>1. CASE c \in linked BY <3>1, <1>5, <1>12
    <3>2. CASE c \notin linked
      <4>1. row'[c] = row[c] BY <3>2, <1>5
      <4>2. IF row[c] = NoRow THEN Lost(c) ELSE row[c].lastEvent >= f.at \/ Lost(x)
        BY <4>1, <1>1, <2>2, NowIs DEF Good, Sound, Marks
      <4>3. row[c] # NoRow => x \in Names BY <4>1, <1>1, <2>2, RowFacts DEF LinkedRow, Names
      <4>4. c \in Names BY DEF Names
      <4>5. QED BY <4>1, <4>2, <4>3, <4>4, <1>11
    <3>3. QED BY <3>1, <3>2
  <2>3. QED BY <2>1, <2>2, MarksNext
<1>16. Backed(Now)'
  <2>1. ASSUME NEW y \in Accounts, into'[y] = y
        PROVE  \/ tier'[y] = Highest(row', y)
               \/ \E c \in Accounts : row'[c] # NoRow /\ row'[c].account = y /\ into'[c] # c /\ row'[c].tier > tier'[y]
    <3>1. y \notin F /\ Live(y) BY <2>1, <1>5, <1>7 DEF Live
    <3>2. tier'[y] = tier[y] BY <3>1, <1>5
    <3>3. BackedAt(tier, row, y) BY <3>1, <1>1, NowIs DEF Good, Sound, Backed, BackedAt
    <3>4. PICK rs : rs = row' OBVIOUS
    <3>5. PICK C : C = {x \in Accounts : row[x] # NoRow /\ row[x].account = y} OBVIOUS
    <3>6. PICK D : D = {x \in Accounts : rs[x] # NoRow /\ rs[x].account = y} OBVIOUS
    <3>7. \A x \in C : x \notin linked /\ rs[x] = row[x] BY <3>1, <3>4, <3>5, <1>3, <1>5
    <3>8. C = D
      <4>1. ASSUME NEW x \in C PROVE x \in D BY <4>1, <3>5, <3>6, <3>7
      <4>2. ASSUME NEW x \in D PROVE x \in C BY <4>2, <3>4, <3>5, <3>6, <1>5
      <4>3. QED BY <4>1, <4>2
    <3>9. {row[x].tier : x \in C} = {rs[x].tier : x \in D} BY <3>7, <3>8
    <3>10. Highest(row, y) = Highest(rs, y) BY <3>5, <3>6, <3>9 DEF Highest
    <3>11. CASE tier[y] = Highest(row, y) BY <3>2, <3>4, <3>10, <3>11
    <3>12. CASE \E c \in Accounts : row[c] # NoRow /\ row[c].account = y /\ ~Live(c) /\ row[c].tier > tier[y]
      <4>1. PICK c \in Accounts : row[c] # NoRow /\ row[c].account = y /\ ~Live(c) /\ row[c].tier > tier[y]
        BY <3>12
      <4>2. row'[c] = row[c] BY <4>1, <3>4, <3>5, <3>7
      <4>3. into'[c] # c BY <4>1, <1>5, <1>7 DEF Live
      <4>4. QED BY <4>1, <4>2, <4>3, <3>2
    <3>13. QED BY <3>3, <3>11, <3>12 DEF BackedAt
  <2>2. QED BY <2>1, BackedNext
<1>17. QED BY <1>9, <1>13, <1>14, <1>15, <1>16 DEF IInv, Good, Sound

-----------------------------------------------------------------------------
(* The store changes, and processes come and go.                           *)

\* What is listed from now on was asked for by nobody yet.
LEMMA StoreChangesKeeps ==
  ASSUME IInv, NEW c \in Accounts, StoreChanges(c)
  PROVE  IInv' /\ NoneEnds
<1>1. /\ World /\ Processes /\ Good(mode, applied, overlapped, Now) /\ Now \in Turns(mode)
      /\ store \in [Accounts -> Nat]
  BY IInvFacts
<1>2. /\ store[c] < Len(Lists[c]) /\ store' = [store EXCEPT ![c] = @ + 1]
      /\ UNCHANGED <<mode, rolling, into, tier, row, queue, applied, proc, mem, held, owed, overlapped>>
  BY DEF StoreChanges
<1>3. /\ store' \in [Accounts -> Nat]
      /\ \A d \in Accounts : store[d] \in Nat /\ store'[d] \in Nat /\ store[d] <= store'[d]
  BY <1>1, <1>2
<1>4. World'
  <2>1. ASSUME NEW d \in Accounts PROVE store'[d] \in DOMAIN Lists[d]
    <3>1. PICK R : R = [tier : Tiers, pack : BOOLEAN] OBVIOUS
    <3>2. PICK ls \in Seq(R) : ls = Lists[d] BY <3>1, BillingAssumption
    <3>3. DOMAIN ls = 1..Len(ls) /\ Len(ls) \in Nat OBVIOUS
    <3>4. store[d] \in 1..Len(ls) BY <3>2, <3>3, <1>1 DEF World
    <3>5. CASE d = c BY <3>2, <3>3, <3>4, <3>5, <1>1, <1>2
    <3>6. CASE d # c BY <3>2, <3>3, <3>4, <3>6, <1>1, <1>2
    <3>7. QED BY <3>5, <3>6
  <2>2. QED BY <2>1, <1>1, <1>2, <1>3 DEF World
<1>5. Processes' BY <1>1, <1>2 DEF Processes, Up
<1>6. (Now \in Turns(mode))' BY <1>1, <1>2 DEF Now, Turns, Memory, Flight
<1>7. Trails(Now) /\ Fence(Now) /\ Marks(applied, Now) /\ Backed(Now) /\ Fresh(overlapped, Now)
  BY <1>1 DEF Good, Sound
<1>8. Trails(Now)'
  <2>1. ASSUME NEW d \in Accounts, NEW x, row'[d] # NoRow, x = row'[d].account
        PROVE  \E S \in SUBSET Accounts : Trail(d, x, S)'
    <3>1. PICK S \in SUBSET Accounts : Trail(d, x, S) BY <1>2, <1>7, <2>1, NowIs DEF Trails
    <3>2. Trail(d, x, S)' BY <3>1, <1>2 DEF Trail
    <3>3. QED BY <3>2
  <2>2. QED BY <2>1, TrailsNext
<1>9. \A x : Lost(x)' <=> Lost(x) BY <1>2, MergeSame
<1>10. Marks(applied, Now)'
  <2>1. \A d \in Accounts, f \in Events : \A x : MarkedBy(applied, f, d) /\ x = row'[d].account =>
           IF row'[d] = NoRow THEN Lost(d)' ELSE row'[d].lastEvent >= f.at \/ Lost(x)'
    BY <1>2, <1>7, <1>9, NowIs DEF Marks
  <2>2. QED BY <2>1, <1>2, MarksNext
<1>11. Backed(Now)'
  <2>1. \A y \in Accounts : into'[y] = y =>
           \/ tier'[y] = Highest(row', y)
           \/ \E d \in Accounts : row'[d] # NoRow /\ row'[d].account = y /\ into'[d] # d /\ row'[d].tier > tier'[y]
    BY <1>2, <1>7, NowIs DEF Backed, Live
  <2>2. QED BY <2>1, BackedNext
<1>12. \A p, d : /\ Out(Now, p, d)' <=> Out(Now, p, d)
                 /\ Numbered(Now, p, d)' <=> Numbered(Now, p, d)
                 /\ Early(Now, p, d)' <=> Early(Now, p, d)
  BY <1>2, NowIs, NowIsNext DEF Out, Numbered, Early
<1>13. Fresh(overlapped, Now)' BY <1>2, <1>7, <1>12, NowIs, NowIsNext DEF Fresh
<1>14. Fence(Now)'
  <2>1. ASSUME NEW d \in Accounts PROVE
      /\ held[d] <= store'[d]
      /\ \A p \in Procs : Out(Now, p, d) => /\ mem[p].flight[d].from <= store'[d]
                                            /\ mem[p].flight[d].asked <= mem[p].flight[d].from
                                            /\ mem[p].flight[d].follow <= store'[d]
      /\ row[d] = NoRow => \A p \in Procs : Numbered(Now, p, d) => Lost(d)
      /\ row[d] # NoRow =>
           /\ row[d].appliedSeq <= row[d].readSeq
           /\ \A p \in Procs : Numbered(Now, p, d) =>
                /\ mem[p].flight[d].seq <= row[d].readSeq
                /\ mem[p].flight[d].seq > row[d].appliedSeq => mem[p].flight[d].from >= held[d]
                /\ \A q \in Procs : /\ Early(Now, q, d) => mem[q].flight[d].from <= mem[p].flight[d].from
                                    /\ Numbered(Now, q, d) /\ mem[q].flight[d].seq < mem[p].flight[d].seq
                                         => mem[q].flight[d].from <= mem[p].flight[d].from
    <3>1. held[d] \in Nat /\ held[d] <= store[d] BY <1>1, <1>7, NowIs DEF Fence, Turns
    <3>2. held[d] <= store'[d] BY <3>1, <1>3
    <3>3. ASSUME NEW p \in Procs, Out(Now, p, d)
          PROVE  /\ mem[p].flight[d].from <= store'[d]
                 /\ mem[p].flight[d].asked <= mem[p].flight[d].from
                 /\ mem[p].flight[d].follow <= store'[d]
      <4>1. mem[p].flight[d] \in Flight(mode) /\ mem[p].flight[d].seq # 0 BY <3>3, NowIs, IInvFacts DEF Out
      <4>2. mem[p].flight[d] \in ReadFlight BY <4>1 DEF Flight, SweepFlight, NoFlight
      <4>3. mem[p].flight[d].from \in Nat /\ mem[p].flight[d].follow \in Nat BY <4>2 DEF ReadFlight
      <4>4. /\ mem[p].flight[d].from <= store[d]
            /\ mem[p].flight[d].asked <= mem[p].flight[d].from
            /\ mem[p].flight[d].follow <= store[d]
        BY <3>3, <1>7, NowIs DEF Fence
      <4>5. QED BY <4>3, <4>4, <1>3
    <3>4. QED BY <3>2, <3>3, <1>7, NowIs DEF Fence
  <2>2. QED BY <2>1, <1>2, <1>9, <1>12, NowIsNext DEF Fence
<1>15. NoneEnds BY <1>2 DEF NoneEnds
<1>16. QED BY <1>4, <1>5, <1>6, <1>8, <1>10, <1>11, <1>13, <1>14, <1>15 DEF IInv, Good, Sound

\* A process that is down or has just started holds nothing.
LEMMA NoMemoryIs == \A m : NoMemory \in Memory(m)
<1> SUFFICES ASSUME NEW m PROVE NoMemory \in Memory(m) OBVIOUS
<1>1. NoFlight \in Flight(m) BY DEF Flight
<1>2. NoScan \in Scan BY DEF NoScan, Scan, Names
<1>3. QED BY <1>1, <1>2 DEF NoMemory, Memory

\* A process ends, and what it held is gone.
LEMMA CrashKeeps ==
  ASSUME IInv, NEW p \in Procs, Crash(p)
  PROVE  IInv' /\ proc' # proc /\ applied' = applied
<1>1. /\ World /\ Processes /\ Good(mode, applied, overlapped, Now) /\ Now \in Turns(mode)
      /\ store \in [Accounts -> Nat]
  BY IInvFacts
<1>2. /\ Up(p) /\ proc' = [proc EXCEPT ![p] = "down"] /\ mem' = [mem EXCEPT ![p] = NoMemory]
      /\ UNCHANGED <<mode, rolling, into, tier, row, queue, applied, store, held, owed, overlapped>>
  BY DEF Crash
<1>3. PICK k \in Memory(mode) : k = NoMemory BY NoMemoryIs
<1>4. PICK t : t = SetMem(Now, p, k) OBVIOUS
<1>5. /\ t \in Turns(mode)
      /\ t.mem = [Now.mem EXCEPT ![p] = k]
      /\ t.row = Now.row /\ t.tier = Now.tier /\ t.queue = Now.queue /\ t.held = Now.held /\ t.owed = Now.owed
  BY <1>1, <1>3, <1>4, SetMemIs
<1>6. Now' = t
  <2>1. Now' = [tier |-> tier, row |-> row, queue |-> queue, mem |-> mem', held |-> held, owed |-> owed]
    BY <1>2 DEF Now
  <2>2. t = [Now EXCEPT !.mem = [mem EXCEPT ![p] = k]] BY <1>4, NowIs DEF SetMem
  <2>3. QED BY <2>1, <2>2, <1>2, <1>3 DEF Now
<1>7. \A q \in Procs, d \in Accounts : t.mem[q].flight[d] = mem[q].flight[d] \/ t.mem[q].flight[d].seq = 0
  <2>1. mem \in [Procs -> Memory(mode)] BY IInvFacts
  <2>2. ASSUME NEW q \in Procs, NEW d \in Accounts
        PROVE  t.mem[q].flight[d] = mem[q].flight[d] \/ t.mem[q].flight[d].seq = 0
    <3>1. CASE q = p
      <4>1. t.mem[q] = NoMemory BY <2>1, <3>1, <1>3, <1>5, NowIs
      <4>2. QED BY <4>1 DEF NoMemory, NoFlight
    <3>2. CASE q # p BY <2>1, <3>2, <1>5, NowIs
    <3>3. QED BY <3>1, <3>2
  <2>3. QED BY <2>2
<1>8. Lighter(Now, t) BY <1>7, NowIs DEF Lighter, Out
<1>9. Sound(mode, applied, Now) /\ Fresh(overlapped, Now) BY <1>1 DEF Good
<1>10. Sound(mode, applied, t) BY <1>1, <1>5, <1>8, <1>9, LighterSound
<1>11. Fresh(overlapped, t) BY <1>5, <1>8, <1>9, LighterFresh
<1>12. Good(mode', applied', overlapped', t) BY <1>2, <1>10, <1>11 DEF Good
<1>13. Good(mode, applied, overlapped, Now)' BY <1>2, <1>6, <1>12, GoodNext
<1>14. World' BY <1>1, <1>2 DEF World
<1>15. Processes'
  <2>1. mem \in [Procs -> Memory(mode)] /\ proc \in [Procs -> {"new", "up", "down"}] BY IInvFacts DEF World
  <2>2. ASSUME NEW q \in Procs PROVE /\ proc'[q] # "up" => mem'[q] = NoMemory
                                     /\ mode # "on" => mem'[q].scan = NoScan
                                     /\ proc'[q] = "up" => Up(q)
    <3>1. CASE q = p BY <2>1, <3>1, <1>2 DEF Up, NoMemory
    <3>2. CASE q # p BY <2>1, <3>2, <1>1, <1>2 DEF Up, Processes
    <3>3. QED BY <3>1, <3>2
  <2>3. QED BY <2>2, <1>1, <1>2 DEF Processes, Up
<1>16. proc' # proc
  <2>1. proc \in [Procs -> {"new", "up", "down"}] BY <1>1 DEF World
  <2>2. proc'[p] = "down" BY <2>1, <1>2
  <2>3. QED BY <2>2, <1>2 DEF Up
<1>17. QED BY <1>2, <1>13, <1>14, <1>15, <1>16 DEF IInv

\* The mode changes only while nothing runs, so that nothing is held that is of
\* the other mode.
LEMMA ModeChanges ==
  ASSUME IInv, NEW m \in Modes, NEW o,
         (\E q \in Procs : Up(q)) => m = mode /\ o, (\A q \in Procs : ~Up(q)) => o = overlapped
  PROVE  Good(m, applied, o, Now)
<1>1. Good(mode, applied, overlapped, Now) /\ Now \in Turns(mode) /\ store \in [Accounts -> Nat] /\ Processes
  BY IInvFacts
<1>2. CASE \E q \in Procs : Up(q) BY <1>1, <1>2 DEF Good, Fresh
<1>3. CASE \A q \in Procs : ~Up(q)
  <2>1. \A q \in Procs : mem[q] = NoMemory BY <1>1, <1>3 DEF Processes
  <2>2. mem \in [Procs -> Memory(m)]
    <3>1. mem \in [Procs -> Memory(mode)] BY IInvFacts
    <3>2. QED BY <2>1, <3>1, NoMemoryIs
  <2>3. Now \in Turns(m) BY <1>1, <2>2, NowIs DEF Turns
  <2>4. \A q \in Procs, d \in Accounts : ~Out(Now, q, d) BY <2>1, NowIs DEF Out, NoMemory, NoFlight
  <2>5. Lighter(Now, Now) BY <2>4 DEF Lighter
  <2>6. Sound(mode, applied, Now) BY <1>1 DEF Good
  <2>7. Sound(m, applied, Now) BY <1>1, <2>3, <2>5, <2>6, LighterSound
  <2>8. Fresh(o, Now) BY <1>1, <1>3 DEF Good
  <2>9. QED BY <2>7, <2>8 DEF Good
<1>4. QED BY <1>2, <1>3

\* A process starts, alone or beside one that runs, and wakes its scan.
LEMMA StartProcessKeeps ==
  ASSUME IInv, NEW p \in Procs, StartProcess(p)
  PROVE  IInv' /\ proc' # proc /\ applied' = applied
<1>1. /\ World /\ Processes /\ Good(mode, applied, overlapped, Now) /\ Now \in Turns(mode)
      /\ store \in [Accounts -> Nat] /\ mem \in [Procs -> Memory(mode)]
      /\ proc \in [Procs -> {"new", "up", "down"}] /\ overlapped \in BOOLEAN /\ mode \in Modes
  BY IInvFacts DEF World
<1>2. PICK others \in BOOLEAN : others = \E q \in Procs : Up(q) OBVIOUS
<1>3. /\ proc[p] = "new" /\ proc' = [proc EXCEPT ![p] = "up"]
      /\ overlapped' = (overlapped \/ others)
      /\ mode' \in IF others THEN {mode} ELSE Modes
      /\ UNCHANGED <<rolling, into, applied, store>>
  BY <1>2 DEF StartProcess
<1>4. PICK t : t \in (IF mode' = "on" THEN Wake(Now, p) ELSE {Now}) /\ Commit(t) BY DEF StartProcess
<1>5. mode' \in Modes /\ overlapped' \in BOOLEAN BY <1>1, <1>3
<1>6. PICK m \in Modes : m = mode' BY <1>5
<1>7. PICK o \in BOOLEAN : o = overlapped' BY <1>5
<1>8. Good(m, applied, o, Now)
  <2>1. (\E q \in Procs : Up(q)) => m = mode /\ o BY <1>2, <1>3, <1>6, <1>7
  <2>2. ASSUME \A q \in Procs : ~Up(q) PROVE o = overlapped
    <3>1. ~others BY <1>2, <2>2
    <3>2. (overlapped \/ others) = overlapped BY <1>1, <3>1
    <3>3. QED BY <3>2, <1>3, <1>7
  <2>3. QED BY <2>1, <2>2, ModeChanges
<1>9. /\ Good(m, applied, o, t) /\ Others(Now, t, p)
      /\ m # "on" => t = Now
  <2>1. CASE m = "on"
    <3>1. t \in Wake(Now, p) /\ Good("on", applied, o, Now) BY <2>1, <1>4, <1>6, <1>8
    <3>2. Goes(applied, o, Now, t, p) BY <3>1, <1>1, WakeGoes
    <3>3. QED BY <3>2, <2>1 DEF Goes
  <2>2. CASE m # "on"
    <3>1. t = Now BY <2>2, <1>4, <1>6
    <3>2. QED BY <3>1, <2>2, <1>8 DEF Others
  <2>3. QED BY <2>1, <2>2
<1>10. t \in Turns(m) BY <1>9 DEF Good, Sound
<1>11. Now' = t BY <1>4, <1>10, CommitIs
<1>12. Good(mode', applied', overlapped', t) BY <1>3, <1>6, <1>7, <1>9
<1>13. Good(mode, applied, overlapped, Now)' BY <1>3, <1>11, <1>12, GoodNext
<1>14. World' BY <1>1, <1>3, <1>5 DEF World
<1>15. mem' = t.mem BY <1>11 DEF Now
<1>16. Processes'
  <2>1. ASSUME NEW q \in Procs, ~Up(q)' PROVE mem'[q] = NoMemory
    <3>1. q # p /\ ~Up(q) BY <2>1, <1>1, <1>3 DEF Up
    <3>2. QED BY <3>1, <1>1, <1>9, <1>15, NowIs DEF Processes, Others
  <2>2. ASSUME mode' # "on", NEW q \in Procs PROVE mem'[q].scan = NoScan
    <3>1. mem' = mem BY <2>2, <1>6, <1>9, <1>15, NowIs
    <3>2. CASE others
      <4>1. mode # "on" BY <2>2, <3>2, <1>3
      <4>2. QED BY <3>1, <4>1, <1>1 DEF Processes
    <3>3. CASE ~others
      <4>1. mem[q] = NoMemory BY <3>3, <1>1, <1>2 DEF Processes
      <4>2. QED BY <3>1, <4>1 DEF NoMemory
    <3>4. QED BY <3>2, <3>3
  <2>3. ASSUME ~overlapped', NEW q \in Procs, NEW r \in Procs, Up(q)', Up(r)' PROVE q = r
    <3>1. ~others BY <2>3, <1>1, <1>2, <1>3
    <3>2. q = p BY <2>3, <3>1, <1>1, <1>2, <1>3 DEF Up
    <3>3. r = p BY <2>3, <3>1, <1>1, <1>2, <1>3 DEF Up
    <3>4. QED BY <3>2, <3>3
  <2>4. QED BY <2>1, <2>2, <2>3 DEF Processes
<1>17. proc' # proc
  <2>1. proc'[p] = "up" BY <1>1, <1>3
  <2>2. QED BY <2>1, <1>3
<1>18. QED BY <1>3, <1>13, <1>14, <1>16, <1>17 DEF IInv

-----------------------------------------------------------------------------
(* The invariant, and what a step may do.                                  *)

\* In the beginning nothing is linked, queued or read, and one process runs.
LEMMA InitKeeps == Init => IInv
<1> SUFFICES ASSUME Init PROVE IInv OBVIOUS
<1>1. /\ mode \in Modes /\ rolling \in Deployments
      /\ into = [a \in Accounts |-> a] /\ tier = [a \in Accounts |-> 0]
      /\ row = [c \in Accounts |-> NoRow] /\ queue = [c \in Accounts |-> NoQueue]
      /\ applied = [e \in Events |-> "new"] /\ store = [c \in Accounts |-> 1]
      /\ proc = [p \in Procs |-> IF p = 1 THEN "up" ELSE "new"]
      /\ mem = [p \in Procs |-> NoMemory]
      /\ held = [c \in Accounts |-> 0] /\ owed = [c \in Accounts |-> FALSE] /\ overlapped = FALSE
  BY DEF Init
<1>2. World
  <2>1. \A c \in Accounts : store[c] \in DOMAIN Lists[c]
    <3>1. TAKE c \in Accounts
    <3>2. Lists[c] \in Seq([tier : Tiers, pack : BOOLEAN]) /\ Lists[c] # <<>> BY BillingAssumption
    <3>3. 1 \in DOMAIN Lists[c] BY <3>2
    <3>4. QED BY <3>3, <1>1
  <2>2. into \in [Accounts -> Names] BY <1>1 DEF Names
  <2>3. applied \in [Events -> {"new", "on", "off"}] BY <1>1
  <2>4. store \in [Accounts -> Nat] BY <1>1
  <2>5. proc \in [Procs -> {"new", "up", "down"}] BY <1>1
  <2>6. QED BY <2>1, <2>2, <2>3, <2>4, <2>5, <1>1 DEF World
<1>3. Processes
  <2>1. \A p \in Procs : mem[p] = NoMemory BY <1>1
  <2>2. NoMemory.scan = NoScan BY DEF NoMemory
  <2>3. \A p \in Procs : Up(p) => p = 1 BY <1>1 DEF Up
  <2>4. QED BY <2>1, <2>2, <2>3 DEF Processes
<1>4. Now \in Turns(mode)
  <2>1. tier \in [Accounts -> Tiers] BY <1>1, TiersAre
  <2>2. row \in [Accounts -> Row] BY <1>1 DEF Row
  <2>3. queue \in [Accounts -> QueueRow] BY <1>1 DEF QueueRow
  <2>4. mem \in [Procs -> Memory(mode)] BY <1>1, NoMemoryIs
  <2>5. held \in [Accounts -> Nat] /\ owed \in [Accounts -> BOOLEAN] BY <1>1
  <2>6. QED BY <2>1, <2>2, <2>3, <2>4, <2>5 DEF Now, Turns
<1>5. \A p \in Procs, c \in Accounts : ~Out(Now, p, c)
  <2>1. \A p \in Procs, c \in Accounts : mem[p].flight[c] = NoFlight BY <1>1 DEF NoMemory
  <2>2. QED BY <2>1, NowIs DEF Out, NoFlight
<1>6. \A c \in Accounts : Now.row[c] = NoRow /\ Now.held[c] = 0 /\ store[c] = 1 BY <1>1, NowIs
<1>7. Trails(Now) BY <1>6 DEF Trails
<1>8. Fence(Now) BY <1>5, <1>6 DEF Fence, Numbered
<1>9. Marks(applied, Now)
  <2>1. \A c \in Accounts, f \in Events : ~MarkedBy(applied, f, c) BY <1>1 DEF MarkedBy
  <2>2. QED BY <2>1 DEF Marks
<1>10. Backed(Now)
  <2>1. ASSUME NEW a \in Accounts PROVE Now.tier[a] = Highest(Now.row, a)
    <3>1. Now.row \in [Accounts -> Row] BY <1>1, NowIs DEF Row
    <3>2. Highest(Now.row, a) = 0 BY <3>1, <1>6, HighestIs
    <3>3. QED BY <3>2, <1>1, NowIs
  <2>2. QED BY <2>1 DEF Backed
<1>11. Fresh(overlapped, Now) BY <1>5 DEF Fresh
<1>12. QED BY <1>2, <1>3, <1>4, <1>7, <1>8, <1>9, <1>10, <1>11 DEF IInv, Good, Sound

\* A step keeps the invariant.  It ends no read (a process that ends or starts
\* answers nobody) or it ends one; and it takes no event or one.
NothingEnds == NoneEnds \/ proc' # proc
OneEnds     == \E p \in Procs, c \in Accounts : Wrote(p, c)
EventTaken  == \E p \in Procs, e \in Events : EventQueues(p, e) \/ EventWrites(p, e)
Advances       == IInv' /\ (NothingEnds \/ OneEnds) /\ (applied' = applied \/ EventTaken)

\* A step of a read or of the scan.
LEMMA ReadStepKeeps == IInv /\ (ReadStep \/ ScanStep) => Advances
<1>1. ASSUME IInv, NEW p \in Procs, NEW c \in Accounts, StoreAnswers(p, c) PROVE Advances
  <2>1. IInv' /\ NoneEnds BY <1>1, StoreAnswersKeeps
  <2>2. applied' = applied BY <1>1 DEF StoreAnswers, world
  <2>3. QED BY <2>1, <2>2 DEF Advances, NothingEnds
<1>2. ASSUME IInv, NEW p \in Procs, NEW c \in Accounts, ReadEnds(p, c) PROVE Advances
  <2>1. IInv' /\ applied' = applied /\ mode = "on" /\ Wrote(p, c) BY <1>2, ReadEndsKeeps
  <2>2. QED BY <2>1 DEF Advances, OneEnds
<1>3. ASSUME IInv, NEW p \in Procs, ScanNext(p) PROVE Advances
  <2>1. IInv' /\ NoneEnds BY <1>3, ScanNextKeeps
  <2>2. applied' = applied BY <1>3 DEF ScanNext, world
  <2>3. QED BY <2>1, <2>2 DEF Advances, NothingEnds
<1>4. ASSUME IInv, NEW p \in Procs, TimerWake(p) PROVE Advances
  <2>1. IInv' /\ NoneEnds BY <1>4, TimerWakeKeeps
  <2>2. applied' = applied BY <1>4 DEF TimerWake, world
  <2>3. QED BY <2>1, <2>2 DEF Advances, NothingEnds
<1>5. QED BY <1>1, <1>2, <1>3, <1>4 DEF ReadStep, ScanStep

\* A step of an event, of a caller of read() or of the sweep.
LEMMA SweepStepKeeps == IInv /\ (EventStep \/ SweepStep) => Advances
<1>1. ASSUME IInv, NEW p \in Procs, NEW e \in Events, EventQueues(p, e) PROVE Advances
  <2>1. IInv' /\ NoneEnds /\ mode = "on" BY <1>1, EventQueuesKeeps
  <2>2. QED BY <2>1, <1>1 DEF Advances, NothingEnds, EventTaken
<1>2. ASSUME IInv, NEW p \in Procs, NEW e \in Events, EventWrites(p, e) PROVE Advances
  <2>1. IInv' /\ NoneEnds /\ (~Takes(ResolveAccount(row, e.first), e.first, e) => row' = row)
        /\ \A d \in Accounts \ {e.first} : row'[d] = row[d]
    BY <1>2, EventWritesKeeps
  <2>2. QED BY <2>1, <1>2 DEF Advances, NothingEnds, EventTaken
<1>3. ASSUME IInv, NEW p \in Procs, NEW c \in Accounts, Read(p, c) PROVE Advances
  <2>1. IInv' /\ NoneEnds BY <1>3, ReadKeeps
  <2>2. applied' = applied BY <1>3 DEF Read, world
  <2>3. QED BY <2>1, <2>2 DEF Advances, NothingEnds
<1>4. ASSUME IInv, NEW p \in Procs, NEW c \in Accounts, SweepAsks(p, c) PROVE Advances
  <2>1. IInv' /\ NoneEnds BY <1>4, SweepAsksKeeps
  <2>2. applied' = applied BY <1>4 DEF SweepAsks, world
  <2>3. QED BY <2>1, <2>2 DEF Advances, NothingEnds
<1>5. ASSUME IInv, NEW p \in Procs, NEW c \in Accounts, SweepEnds(p, c) PROVE Advances
  <2>1. IInv' /\ NoneEnds BY <1>5, SweepEndsKeeps
  <2>2. applied' = applied BY <1>5 DEF SweepEnds, world
  <2>3. QED BY <2>1, <2>2 DEF Advances, NothingEnds
<1>6. QED BY <1>1, <1>2, <1>3, <1>4, <1>5 DEF EventStep, SweepStep

\* A step of an account, a process or the store.
LEMMA OtherStepKeeps == IInv /\ (AccountStep \/ ProcessStep \/ StoreStep) => Advances
<1>1. ASSUME IInv, NEW a \in Accounts, DeleteAccount(a) PROVE Advances
  <2>1. IInv' /\ NoneEnds BY <1>1, DeleteKeeps
  <2>2. applied' = applied BY <1>1 DEF DeleteAccount
  <2>3. QED BY <2>1, <2>2 DEF Advances, NothingEnds
<1>2. ASSUME IInv, NEW a \in Accounts, NEW b \in Accounts, Attach(a, b) PROVE Advances
  <2>1. IInv' /\ NoneEnds BY <1>2, AttachKeeps
  <2>2. applied' = applied BY <1>2 DEF Attach
  <2>3. QED BY <2>1, <2>2 DEF Advances, NothingEnds
<1>3. ASSUME IInv, NEW a \in Accounts, NEW b \in Accounts, MergeAccounts(a, b) PROVE Advances
  <2>1. IInv' /\ NoneEnds BY <1>3, MergeKeeps
  <2>2. applied' = applied BY <1>3 DEF MergeAccounts
  <2>3. QED BY <2>1, <2>2 DEF Advances, NothingEnds
<1>4. ASSUME IInv, NEW p \in Procs, Crash(p) PROVE Advances
  <2>1. IInv' /\ proc' # proc /\ applied' = applied BY <1>4, CrashKeeps
  <2>2. QED BY <2>1 DEF Advances, NothingEnds
<1>5. ASSUME IInv, NEW p \in Procs, StartProcess(p) PROVE Advances
  <2>1. IInv' /\ proc' # proc /\ applied' = applied BY <1>5, StartProcessKeeps
  <2>2. QED BY <2>1 DEF Advances, NothingEnds
<1>6. ASSUME IInv, NEW c \in Accounts, StoreChanges(c) PROVE Advances
  <2>1. IInv' /\ NoneEnds BY <1>6, StoreChangesKeeps
  <2>2. applied' = applied BY <1>6 DEF StoreChanges
  <2>3. QED BY <2>1, <2>2 DEF Advances, NothingEnds
<1>7. ASSUME IInv, NEW c \in Accounts, RetryDue(c) PROVE Advances
  <2>1. IInv' /\ NoneEnds BY <1>7, RetryDueKeeps
  <2>2. applied' = applied BY <1>7 DEF RetryDue, world
  <2>3. QED BY <2>1, <2>2 DEF Advances, NothingEnds
<1>8. QED BY <1>1, <1>2, <1>3, <1>4, <1>5, <1>6, <1>7 DEF AccountStep, ProcessStep, StoreStep

\* A step in which nothing changes.
LEMMA StutterKeeps == IInv /\ UNCHANGED vars => Advances
<1> SUFFICES ASSUME IInv, UNCHANGED vars PROVE Advances OBVIOUS
<1>1. /\ UNCHANGED <<mode, rolling, into, tier, row, queue, applied, store, proc, mem, held, owed, overlapped>>
  BY DEF vars
<1>2. PICK t : t = Now OBVIOUS
<1>3. Now' = t BY <1>1, <1>2 DEF Now
<1>4. Good(mode', applied', overlapped', t) BY <1>1, <1>2 DEF IInv
<1>5. Good(mode, applied, overlapped, Now)' BY <1>1, <1>3, <1>4, GoodNext
<1>6. World' BY <1>1 DEF IInv, World
<1>7. Processes' BY <1>1 DEF IInv, Processes, Up
<1>8. NoneEnds BY <1>1 DEF NoneEnds
<1>9. QED BY <1>1, <1>5, <1>6, <1>7, <1>8 DEF Advances, NothingEnds, IInv

\* Every step.
LEMMA NextKeeps == IInv /\ [Next]_vars => Advances
BY ReadStepKeeps, SweepStepKeeps, OtherStepKeeps, StutterKeeps DEF Next

\* The invariant holds in every reachable state.
THEOREM Invariance == Spec => []IInv
<1>1. IInv /\ [Next]_vars => IInv' BY NextKeeps DEF Advances
<1>2. QED BY <1>1, InitKeeps, PTL DEF Spec

-----------------------------------------------------------------------------
(* What it says of the runs' properties.                                   *)

\* Every variable keeps its type in every reachable state: a row has an account
\* and tiers of the server, a queued read no more attempts than there are
\* retries (tables account_billing_ids, billing_reads and billing_events).
THEOREM TypeCorrect == Spec => []TypeOK
<1>1. IInv => TypeOK
  <2> SUFFICES ASSUME IInv PROVE TypeOK OBVIOUS
  <2>1. World /\ Now \in Turns(mode) BY IInvFacts
  <2>2. /\ tier \in [Accounts -> Tiers] /\ row \in [Accounts -> Row] /\ queue \in [Accounts -> QueueRow]
        /\ mem \in [Procs -> Memory(mode)] /\ held \in [Accounts -> Nat] /\ owed \in [Accounts -> BOOLEAN]
    BY <2>1, NowIs DEF Turns
  <2>3. \A c \in Accounts : row[c] = NoRow \/ row[c] \in LinkedRow BY <2>2 DEF Row
  <2>4. \A c \in Accounts : queue[c] = NoQueue \/ queue[c] \in [due : BOOLEAN, attempts : 0..Retries, dirty : BOOLEAN]
    BY <2>2 DEF QueueRow
  <2>5. \A p \in Procs : mem[p].unlinked \in [Accounts -> Nat] BY <2>2 DEF Memory
  <2>6. QED BY <2>1, <2>2, <2>3, <2>4, <2>5 DEF TypeOK, World, LinkedRow, Names
<1>2. QED BY <1>1, Invariance, PTL

\* An account is on the tier its own customers pay for, whatever order reads,
\* events, sweeps, links, merges and erasures come in (accountTierAfter).
THEOREM TierBacked == Spec => []TierIsBacked
<1>1. IInv => TierIsBacked
  <2> SUFFICES ASSUME IInv PROVE TierIsBacked OBVIOUS
  <2>1. Backed(Now) BY DEF IInv, Good, Sound
  <2>2. QED BY <2>1, NowIs DEF Backed, TierIsBacked
<1>2. QED BY <1>1, Invariance, PTL

\* A read that ended is the one that wrote.
LEMMA EndedWrote ==
  ASSUME IInv, [Next]_vars, NEW p \in Procs, NEW c \in Accounts, Ended(p, c)
  PROVE  Out(Now, p, c) /\ Wrote(p, c)
<1>1. /\ mem[p].flight[c].seq # 0 /\ mem[p].flight[c].seq # mem'[p].flight[c].seq
      /\ proc' = proc
  BY DEF Ended
<1>2. Out(Now, p, c) BY <1>1, NowIs DEF Out
<1>3. ~NothingEnds BY <1>1, <1>2 DEF NothingEnds, NoneEnds
<1>4. OneEnds BY <1>3, NextKeeps DEF Advances
<1>5. PICK q \in Procs, d \in Accounts : Wrote(q, d) BY <1>4 DEF OneEnds
<1>6. q = p /\ d = c BY <1>1, <1>2, <1>5 DEF Wrote
<1>7. QED BY <1>2, <1>5, <1>6

\* Numbers and versions of a read that is out.
LEMMA OutFacts ==
  ASSUME IInv, NEW p \in Procs, NEW c \in Accounts, Out(Now, p, c)
  PROVE  /\ mem[p].flight[c].seq \in Nat /\ mem[p].flight[c].from \in Nat /\ mem[p].flight[c].asked \in Nat
         /\ held[c] \in Nat
         /\ row[c] # NoRow => row[c].appliedSeq \in Nat
<1>1. mem[p].flight[c] \in Flight(mode) /\ row \in [Accounts -> Row] /\ Now \in Turns(mode) BY IInvFacts
<1>2. mem[p].flight[c].seq # 0 BY NowIs DEF Out
<1>3. mem[p].flight[c] \in ReadFlight BY <1>1, <1>2 DEF Flight, SweepFlight, NoFlight
<1>4. /\ mem[p].flight[c].seq \in Nat /\ mem[p].flight[c].from \in Nat /\ mem[p].flight[c].asked \in Nat
  BY <1>3 DEF ReadFlight
<1>5. held \in [Accounts -> Nat] BY <1>1, NowIs DEF Turns
<1>6. row[c] # NoRow => row[c].appliedSeq \in Nat BY <1>1 DEF Row, LinkedRow
<1>7. QED BY <1>4, <1>5, <1>6

\* No result is written over one that was asked for later, by whichever of the
\* processes that share the database (the numbered fence of BillingReads).
THEOREM FenceKept == Spec => FenceHolds
<1>1. ASSUME IInv, [Next]_vars
      PROVE  \A p \in Procs, c \in Accounts : Ended(p, c) /\ mem[p].flight[c].linked => ~Older(c)
  <2> SUFFICES ASSUME NEW p \in Procs, NEW c \in Accounts, Ended(p, c), mem[p].flight[c].linked, Older(c)
               PROVE FALSE
    OBVIOUS
  <2>1. Out(Now, p, c) /\ Wrote(p, c) BY <1>1, EndedWrote
  <2>2. /\ mem[p].flight[c].from \in Nat /\ held[c] \in Nat BY <1>1, <2>1, OutFacts
  <2>3. held'[c] < held[c] /\ row'[c] # NoRow BY DEF Older
  <2>4. held'[c] # held[c] BY <2>2, <2>3
  <2>5. /\ held'[c] = mem[p].flight[c].from
        /\ row[c] # NoRow => mem[p].flight[c].seq > row[c].appliedSeq
        /\ row[c] = NoRow => ~Lost(c)
    BY <2>1, <2>3, <2>4 DEF Wrote
  <2>6. Fence(Now) BY <1>1 DEF IInv, Good, Sound
  <2>7. Numbered(Now, p, c) BY <2>1, NowIs DEF Numbered
  <2>8. row[c] # NoRow BY <2>5, <2>6, <2>7, NowIs DEF Fence
  <2>9. mem[p].flight[c].from >= held[c] BY <2>5, <2>6, <2>7, <2>8, NowIs DEF Fence
  <2>10. QED BY <2>2, <2>3, <2>5, <2>9
<1>2. IInv /\ [Next]_vars => [\A p \in Procs, c \in Accounts : Ended(p, c) /\ mem[p].flight[c].linked => ~Older(c)]_vars
  BY <1>1
<1>3. QED BY <1>2, Invariance, PTL DEF Spec, FenceHolds

\* A caller of read() who is told that the store was read finds a result that
\* is not older than the call, as long as no two processes ran at once.
THEOREM ConfirmedFresh == Spec => ConfirmedIsFresh
<1>1. ASSUME IInv, [Next]_vars
      PROVE  \A p \in Procs, c \in Accounts :
               LET f == mem[p].flight[c] IN
               Ended(p, c) /\ f.answer.kind = "list" /\ ~overlapped /\ row'[c] # NoRow => held'[c] >= f.asked
  <2> SUFFICES ASSUME NEW p \in Procs, NEW c \in Accounts, Ended(p, c), mem[p].flight[c].answer.kind = "list",
                      ~overlapped, row'[c] # NoRow
               PROVE held'[c] >= mem[p].flight[c].asked
    OBVIOUS
  <2>1. Out(Now, p, c) /\ Wrote(p, c) BY <1>1, EndedWrote
  <2>2. /\ mem[p].flight[c].seq \in Nat /\ mem[p].flight[c].from \in Nat /\ mem[p].flight[c].asked \in Nat
        /\ row[c] # NoRow => row[c].appliedSeq \in Nat
    BY <1>1, <2>1, OutFacts
  <2>3. Fence(Now) /\ Fresh(overlapped, Now) BY <1>1 DEF IInv, Good, Sound
  <2>4. row[c] # NoRow => mem[p].flight[c].seq > row[c].appliedSeq BY <2>1, <2>3, NowIs DEF Fresh
  <2>5. ~StaleRead(c, mem[p].flight[c]) BY <2>2, <2>4 DEF StaleRead
  <2>6. held'[c] = mem[p].flight[c].from BY <2>1, <2>5 DEF Wrote
  <2>7. mem[p].flight[c].asked <= mem[p].flight[c].from BY <2>1, <2>3, NowIs DEF Fence
  <2>8. QED BY <2>2, <2>6, <2>7
<1>2. IInv /\ [Next]_vars =>
        [\A p \in Procs, c \in Accounts :
           LET f == mem[p].flight[c] IN
           Ended(p, c) /\ f.answer.kind = "list" /\ ~overlapped /\ row'[c] # NoRow => held'[c] >= f.asked]_vars
  BY <1>1
<1>3. QED BY <1>2, Invariance, PTL DEF Spec, ConfirmedIsFresh

\* An event that is taken is the one whose mark is set.
LEMMA TakenBy ==
  ASSUME IInv, [Next]_vars, NEW e \in Events, applied[e] = "new", applied'[e] = "off"
  PROVE  \E p \in Procs : EventWrites(p, e)
<1>1. applied \in [Events -> {"new", "on", "off"}] BY IInvFacts DEF World
<1>2. EventTaken BY NextKeeps DEF Advances
<1>3. PICK p \in Procs, d \in Events : EventQueues(p, d) \/ EventWrites(p, d) BY <1>2 DEF EventTaken
<1>4. ~EventQueues(p, d)
  <2> SUFFICES ASSUME EventQueues(p, d) PROVE FALSE OBVIOUS
  <2>1. applied' = [applied EXCEPT ![d] = IF @ = "new" THEN "on" ELSE @] BY DEF EventQueues
  <2>2. QED BY <1>1, <2>1
<1>5. EventWrites(p, d) BY <1>3, <1>4
<1>6. applied' = [applied EXCEPT ![d] = "off"] BY <1>5 DEF EventWrites
<1>7. d = e BY <1>1, <1>6
<1>8. QED BY <1>5, <1>7

\* An event that is older than one that marked the customer, whichever path
\* took that one, writes no tier (last_event_at).
THEOREM InOrder == Spec => EventsInOrder
<1>1. ASSUME IInv, [Next]_vars
      PROVE  \A c \in Accounts, e \in Events :
               /\ applied[e] = "new" /\ applied'[e] = "off" /\ row[c] # NoRow
               /\ \E f \in Events : Marked(f, c) /\ f.at > e.at
               => row'[c].tier = row[c].tier
  <2> SUFFICES ASSUME NEW c \in Accounts, NEW e \in Events, applied[e] = "new", applied'[e] = "off",
                      row[c] # NoRow, NEW f \in Events, Marked(f, c), f.at > e.at
               PROVE row'[c].tier = row[c].tier
    OBVIOUS
  <2>1. PICK p \in Procs : EventWrites(p, e) BY <1>1, TakenBy
  <2>2. IInv' /\ NoneEnds /\ (~Takes(ResolveAccount(row, e.first), e.first, e) => row' = row)
        /\ \A d \in Accounts \ {e.first} : row'[d] = row[d]
    BY <1>1, <2>1, EventWritesKeeps
  <2>3. CASE c # e.first BY <2>2, <2>3
  <2>4. CASE c = e.first
    <3>1. Marks(applied, Now) BY <1>1 DEF IInv, Good, Sound
    <3>2. MarkedBy(applied, f, c) BY DEF Marked, MarkedBy
    <3>3. row[c].lastEvent >= f.at \/ Lost(row[c].account) BY <3>1, <3>2, NowIs DEF Marks
    <3>4. CASE row[c].lastEvent >= f.at
      <4>1. row \in [Accounts -> Row] BY <1>1, IInvFacts
      <4>2. row[c].lastEvent \in Nat /\ e.at \in Nat /\ f.at \in Nat BY <4>1, EventFacts DEF Row, LinkedRow
      <4>3. StaleEvent(c, e) BY <3>4, <4>2 DEF StaleEvent
      <4>4. QED BY <4>3, <2>2, <2>4 DEF Takes
    <3>5. CASE Lost(row[c].account)
      <4>1. ResolveAccount(row, c) = NoAccount BY <3>5 DEF Lost, ResolveAccount
      <4>2. QED BY <4>1, <2>2, <2>4 DEF Takes
    <3>6. QED BY <3>3, <3>4, <3>5
  <2>5. QED BY <2>3, <2>4
<1>2. IInv /\ [Next]_vars =>
        [\A c \in Accounts, e \in Events :
           /\ applied[e] = "new" /\ applied'[e] = "off" /\ row[c] # NoRow
           /\ \E f \in Events : Marked(f, c) /\ f.at > e.at
           => row'[c].tier = row[c].tier]_vars
  BY <1>1
<1>3. QED BY <1>2, Invariance, PTL DEF Spec, EventsInOrder

=============================================================================
