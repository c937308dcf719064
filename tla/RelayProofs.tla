----------------------------- MODULE RelayProofs -----------------------------
(***************************************************************************)
(* Theorems about Relay, for every set of forwards and BASE_URLs and every *)
(* value of the bounds.                                                    *)
(***************************************************************************)
EXTENDS Relay, FiniteSetTheorems, TLAPS

\* What a forward holds in its local variables.
Steps == {"idle", "next", "wait", "sent", "authorised", "unauthorized", "mismatch", "accepted"}
Forwarding == [step : Steps, kind : Kinds, made : Bases, key : Keys \cup {NoKey},
               stage : 1..3, rung : [Kinds -> Nat]]

\* How far a registration has got at the relay.
Registration == [base : Bases,
  at : {"none", "posted", "confirming", "proved", "unproved", "issued", "refused"}]
Running(c) == calls[c].at \in {"confirming", "proved", "unproved"}
Confirmations == {c \in Calls : Running(c)}

\* The relay has given this key out.
Issued(k) == k = 0 \/ (k \in Calls /\ calls[k].at = "issued")

\* The relay's tables: only keys it gave out answer, one for each base_url.
RelayInv ==
  /\ calls \in [Calls -> Registration]
  /\ live \subseteq Keys
  /\ \A k \in live : Issued(k)
  /\ inFlight = Cardinality(Confirmations)
  /\ inFlight <= MaxInFlight
  /\ \A k, l \in live \ {0} : BaseOf(k) = BaseOf(l) => k = l

\* The client's key: a registration is out only while it has none.
ClientInv ==
  /\ base \in Bases
  /\ stored \in Keys \cup {NoKey}
  /\ reg \in Calls \cup {None}
  /\ stored # NoKey => Issued(stored)
  /\ reg # None => stored = NoKey

\* A push that is out carries a key that was given out, and what it was
\* refused for still holds when the refusal arrives.
RefusalsStand(r) ==
  /\ r.step \in {"sent", "authorised", "unauthorized", "mismatch", "accepted"} => Issued(r.key)
  /\ r.step = "unauthorized" => r.key \notin live
  /\ r.step = "mismatch" => BaseOf(r.key) # HashBase(r)

\* The push in hand rings only when the relay accepts it, and the secret push
\* goes before the plain one.
RungOnce(r) ==
  /\ r.rung[r.kind] = IF r.step = "accepted" THEN 1 ELSE 0
  /\ r.kind = "secret" => r.rung["plain"] = 0
  /\ \A k \in Kinds : r.rung[k] <= 1

ForwardsInv ==
  /\ fw \in [Forwards -> Forwarding]
  /\ \A f \in Forwards : RefusalsStand(fw[f]) /\ RungOnce(fw[f])

\* What every reachable state satisfies and every step keeps.
IInv == RelayInv /\ ClientInv /\ ForwardsInv

-----------------------------------------------------------------------------
(* Facts about the constants and the rows.                                 *)

\* What the constants are, as the steps below use it.
LEMMA ConstantFacts ==
  /\ FirstBase \in Bases /\ MaxInFlight \in Nat /\ MaxCalls \in Nat
  /\ Calls \subseteq Nat \ {0} /\ Keys = Calls \cup {0}
  /\ NoKey \notin Keys /\ None \notin Calls
BY ConstantsAssumption DEF Calls, Keys, NoKey, None

\* The confirmations that run are finitely many.
LEMMA ConfirmationsFinite == IsFiniteSet(Confirmations)
<1>1. IsFiniteSet(Calls)
  BY FS_Interval, ConstantsAssumption DEF Calls
<1>2. Confirmations \subseteq Calls BY DEF Confirmations
<1>3. QED BY <1>1, <1>2, FS_Subset

\* A forward that has nothing to do.
LEMMA IdleFits == Idle \in Forwarding /\ RungOnce(Idle) /\ Idle.step = "idle"
BY ConstantFacts DEF Idle, Forwarding, Steps, Kinds, RungOnce

\* A push that ends leaves the next push of the event, or none, unrung.
LEMMA EndedFits ==
  ASSUME NEW r \in Forwarding, RungOnce(r)
  PROVE  /\ Ended(r) \in Forwarding
         /\ RungOnce(Ended(r))
         /\ Ended(r).step \in {"next", "idle"}
<1>1. CASE r.kind = "secret"
  <2> DEFINE e == [r EXCEPT !.step = "next", !.kind = "plain", !.stage = 1]
  <2> DEFINE d == [r EXCEPT !.step = "next", !.kind = "plain"]
  <2>1. /\ e \in Forwarding
        /\ e.step = "next" /\ e.kind = "plain" /\ e.rung = r.rung
    <3>1. d \in Forwarding BY DEF Forwarding, Steps, Kinds
    <3>2. e = [d EXCEPT !.stage = 1] OBVIOUS
    <3>3. [d EXCEPT !.stage = 1] \in Forwarding
      <4> HIDE DEF d
      <4>1. QED BY <3>1 DEF Forwarding
    <3>4. e.step = "next" /\ e.kind = "plain" /\ e.rung = r.rung BY DEF Forwarding
    <3>5. QED BY <3>2, <3>3, <3>4
  <2>2. r.rung["plain"] = 0 /\ \A k \in Kinds : r.rung[k] <= 1
    BY <1>1 DEF RungOnce
  <2>3. RungOnce(e)
    <3> HIDE DEF e
    <3>1. QED BY <2>1, <2>2 DEF RungOnce
  <2>4. Ended(r) = e BY <1>1 DEF Ended
  <2>5. QED BY <2>1, <2>3, <2>4
<1>2. CASE r.kind # "secret"
  BY <1>2, IdleFits DEF Ended
<1>3. QED BY <1>1, <1>2

-----------------------------------------------------------------------------
(* What a step may do to the keys that were given out.                     *)

\* A new registration takes an unused number and touches no key.
LEMMA RegisterKeeps ==
  ASSUME RelayInv, ClientInv, Register
  PROVE  /\ calls' \in [Calls -> Registration]
         /\ reg' \in Calls
         /\ Confirmations' = Confirmations
         /\ \A k : Issued(k) => Issued(k)' /\ BaseOf(k)' = BaseOf(k)
<1>1. PICK c \in Unused : /\ reg' = c
                          /\ calls' = [calls EXCEPT ![c] = [base |-> base, at |-> "posted"]]
  BY DEF Register
<1>2. c \in Calls /\ calls[c].at = "none" BY <1>1 DEF Unused
<1>3. calls' \in [Calls -> Registration]
  BY <1>1, <1>2 DEF RelayInv, ClientInv, Registration
<1>4. \A x \in Calls : x # c => calls'[x] = calls[x]
  BY <1>1 DEF RelayInv
<1>5. calls'[c].at = "posted" BY <1>1, <1>2 DEF RelayInv
<1>6. \A x \in Calls : Running(x)' <=> Running(x)
  BY <1>2, <1>4, <1>5 DEF Running
<1>7. Confirmations' = Confirmations BY <1>6 DEF Confirmations
<1>8. \A k : Issued(k) => Issued(k)' /\ BaseOf(k)' = BaseOf(k)
  BY <1>2, <1>4 DEF Issued, BaseOf
<1>9. QED BY <1>1, <1>2, <1>3, <1>7, <1>8

\* A registration that moves on at the relay, short of an issued key, changes
\* no key that was given out.
LEMMA MoveKeeps ==
  ASSUME RelayInv, NEW c \in Calls, NEW from, NEW to, Moves(c, from, to),
         to \in {"confirming", "proved", "unproved", "issued", "refused"},
         from # "issued"
  PROVE  /\ calls' \in [Calls -> Registration]
         /\ calls'[c].at = to
         /\ \A x \in Calls : x # c => calls'[x] = calls[x]
         /\ \A k : Issued(k) => Issued(k)' /\ BaseOf(k)' = BaseOf(k)
         /\ \A k \in Keys : BaseOf(k)' = BaseOf(k)
<1>1. calls[c].at = from /\ calls' = [calls EXCEPT ![c].at = to] BY DEF Moves
<1>2. /\ calls' \in [Calls -> Registration]
      /\ calls'[c].at = to /\ calls'[c].base = calls[c].base
      /\ \A x \in Calls : x # c => calls'[x] = calls[x]
  BY <1>1 DEF RelayInv, Registration
<1>3. \A x \in Calls : calls'[x].base = calls[x].base BY <1>2
<1>4. \A k \in Keys : BaseOf(k)' = BaseOf(k) BY <1>3, ConstantFacts DEF BaseOf
<1>5. \A k : Issued(k) => Issued(k)' BY <1>1, <1>2 DEF Issued
<1>6. \A k : Issued(k) => k \in Keys BY ConstantFacts DEF Issued
<1>7. QED BY <1>2, <1>4, <1>5, <1>6

\* What the client's own steps leave of the relay: no key lost, none changed.
KeysStand == \A k : Issued(k) => Issued(k)' /\ BaseOf(k)' = BaseOf(k)

\* When the client registers, or does not, the relay's tables stay as they are.
LEMMA ClientKeepsRelay ==
  ASSUME RelayInv, ClientInv, Register \/ UNCHANGED calls, UNCHANGED relay
  PROVE  RelayInv' /\ KeysStand
<1>1. /\ calls' \in [Calls -> Registration]
      /\ Confirmations' = Confirmations
      /\ KeysStand
  <2>1. CASE Register BY <2>1, RegisterKeeps DEF KeysStand
  <2>2. CASE UNCHANGED calls
    BY <2>2 DEF KeysStand, Confirmations, Running, Issued, BaseOf, RelayInv
  <2>3. QED BY <2>1, <2>2
<1>2. live' = live /\ inFlight' = inFlight BY DEF relay
<1>3. \A k \in live : Issued(k) BY DEF RelayInv
<1>4. \A k \in live : Issued(k)' /\ BaseOf(k)' = BaseOf(k) BY <1>1, <1>3 DEF KeysStand
<1>5. \A k, l \in live' \ {0} : BaseOf(k)' = BaseOf(l)' => k = l
  BY <1>2, <1>4 DEF RelayInv
<1>6. QED BY <1>1, <1>2, <1>4, <1>5 DEF RelayInv

\* A forward that no step touches stays in order while the keys stand, the
\* BASE_URL is the same and only keys that had not been given out start to
\* answer.
LEMMA OthersStand ==
  ASSUME KeysStand, base' = base, \A k \in live' : k \in live \/ ~Issued(k),
         NEW r \in Forwarding, RefusalsStand(r)
  PROVE  RefusalsStand(r)'
<1>1. r.step \in {"sent", "authorised", "unauthorized", "mismatch", "accepted"} =>
        Issued(r.key) /\ Issued(r.key)' /\ BaseOf(r.key)' = BaseOf(r.key)
  BY DEF KeysStand, RefusalsStand
<1>2. HashBase(r)' = HashBase(r) BY DEF HashBase
<1>3. QED BY <1>1, <1>2 DEF RefusalsStand

\* Forwards stay in order when each one either stands still or is put right.
LEMMA ForwardsStand ==
  ASSUME ForwardsInv, KeysStand, base' = base, \A k \in live' : k \in live \/ ~Issued(k),
         fw' \in [Forwards -> Forwarding],
         \A g \in Forwards : fw'[g] = fw[g] \/ (RungOnce(fw[g]) /\ RefusalsStand(fw[g]))'
  PROVE  ForwardsInv'
<1>1. ASSUME NEW g \in Forwards PROVE (RefusalsStand(fw[g]) /\ RungOnce(fw[g]))'
  <2>1. CASE fw'[g] = fw[g]
    <3>1. PICK r \in Forwarding : r = fw[g] /\ RefusalsStand(r) /\ RungOnce(r)
      BY DEF ForwardsInv
    <3>2. RefusalsStand(r)' BY <3>1, OthersStand
    <3>3. RungOnce(fw[g])' BY <3>1, <2>1 DEF RungOnce
    <3>4. RefusalsStand(fw[g])'
      BY <3>1, <3>2, <2>1 DEF RefusalsStand, Issued, BaseOf, HashBase
    <3>5. QED BY <3>3, <3>4
  <2>2. QED BY <2>1
<1>2. QED BY <1>1 DEF ForwardsInv

\* One forward takes a step to q.
LEMMA OneForward ==
  ASSUME ForwardsInv, KeysStand, base' = base, \A k \in live' : k \in live \/ ~Issued(k),
         NEW f \in Forwards, NEW q \in Forwarding, RungOnce(q), RefusalsStand(q)',
         fw' = [fw EXCEPT ![f] = q]
  PROVE  ForwardsInv'
<1>1. /\ fw' \in [Forwards -> Forwarding] /\ fw'[f] = q
      /\ \A g \in Forwards : g # f => fw'[g] = fw[g]
  BY DEF ForwardsInv
<1>2. RungOnce(fw[f])' BY <1>1 DEF RungOnce
<1>3. RefusalsStand(fw[f])' BY <1>1 DEF RefusalsStand, Issued, BaseOf, HashBase
<1>4. QED BY <1>1, <1>2, <1>3, ForwardsStand

-----------------------------------------------------------------------------
(* The client's steps.                                                     *)

\* A push that has not been accepted may move to any step short of that.
LEMMA SteppedFits ==
  ASSUME NEW r \in Forwarding, RungOnce(r), r.step # "accepted",
         NEW s \in Steps \ {"accepted"}
  PROVE  LET q == [r EXCEPT !.step = s] IN
         /\ q \in Forwarding /\ RungOnce(q)
         /\ q.step = s /\ q.key = r.key /\ q.made = r.made /\ q.kind = r.kind
<1> DEFINE q == [r EXCEPT !.step = s]
<1>1. q \in Forwarding BY DEF Forwarding
<1>2. q.step = s /\ q.key = r.key /\ q.kind = r.kind /\ q.rung = r.rung /\ q.made = r.made
  BY DEF Forwarding
<1>3. RungOnce(q)
  <2> HIDE DEF q
  <2>1. QED BY <1>2 DEF RungOnce
<1>4. QED BY <1>1, <1>2, <1>3

\* A push that goes out with a key.
LEMMA SentFits ==
  ASSUME NEW r \in Forwarding, RungOnce(r), r.step # "accepted", NEW k \in Keys
  PROVE  LET q == [r EXCEPT !.step = "sent", !.key = k] IN
         /\ q \in Forwarding /\ RungOnce(q) /\ q.step = "sent" /\ q.key = k
<1> DEFINE q == [r EXCEPT !.step = "sent", !.key = k]
<1>1. q \in Forwarding BY DEF Forwarding, Steps
<1>2. q.step = "sent" /\ q.key = k /\ q.kind = r.kind /\ q.rung = r.rung BY DEF Forwarding
<1>3. RungOnce(q)
  <2> HIDE DEF q
  <2>1. QED BY <1>2 DEF RungOnce
<1>4. QED BY <1>1, <1>2, <1>3

\* key(): whichever way it goes, with whatever the table holds by then.
LEMMA TakeKeyKeeps ==
  ASSUME IInv, NEW f \in Forwards, NEW r \in Forwarding, RungOnce(r), r.step # "accepted",
         NEW held \in Keys \cup {NoKey}, held # NoKey => Issued(held),
         reg # None => held = NoKey, TakeKey(f, r, held),
         stored' = held, UNCHANGED <<base, relay>>
  PROVE  IInv'
<1> USE DEF IInv
<1>1. RelayInv' /\ KeysStand
  <2>1. Register \/ UNCHANGED calls BY DEF TakeKey
  <2>2. QED BY <2>1, ClientKeepsRelay
<1>2. base' = base /\ live' = live BY DEF relay
<1>3. held # NoKey => Issued(held)' BY <1>1 DEF KeysStand
<1>4. CASE held # NoKey /\ fw' = [fw EXCEPT ![f] = [r EXCEPT !.step = "sent", !.key = held]]
           /\ UNCHANGED <<reg, calls>>
  <2>1. PICK q \in Forwarding : /\ q = [r EXCEPT !.step = "sent", !.key = held]
                                /\ RungOnce(q) /\ q.step = "sent" /\ q.key = held
    BY <1>4, SentFits
  <2>2. RefusalsStand(q)' BY <2>1, <1>3, <1>4 DEF RefusalsStand
  <2>3. fw' = [fw EXCEPT ![f] = q] BY <2>1, <1>4
  <2>4. ForwardsInv' BY <2>1, <2>2, <2>3, <1>1, <1>2, OneForward
  <2>5. ClientInv' BY <1>2, <1>3, <1>4 DEF ClientInv, Issued
  <2>6. QED BY <1>1, <2>4, <2>5
<1>5. CASE held = NoKey /\ fw' = [fw EXCEPT ![f] = [r EXCEPT !.step = "wait"]]
           /\ (Register \/ UNCHANGED <<reg, calls>>)
  <2>1. PICK q \in Forwarding : q = [r EXCEPT !.step = "wait"] /\ RungOnce(q) /\ q.step = "wait"
    BY SteppedFits DEF Steps
  <2>2. RefusalsStand(q)' BY <2>1 DEF RefusalsStand
  <2>3. fw' = [fw EXCEPT ![f] = q] BY <2>1, <1>5
  <2>4. ForwardsInv' BY <2>1, <2>2, <2>3, <1>1, <1>2, OneForward
  <2>5. reg' \in Calls \cup {None} BY <1>5, RegisterKeeps DEF ClientInv
  <2>6. ClientInv' BY <2>5, <1>2, <1>5 DEF ClientInv
  <2>7. QED BY <1>1, <2>4, <2>6
<1>6. CASE held = NoKey /\ fw' = [fw EXCEPT ![f] = Ended(r)] /\ UNCHANGED <<reg, calls>>
  <2>1. PICK q \in Forwarding : q = Ended(r) /\ RungOnce(q) /\ q.step \in {"next", "idle"}
    BY EndedFits
  <2>2. RefusalsStand(q)' BY <2>1 DEF RefusalsStand
  <2>3. fw' = [fw EXCEPT ![f] = q] BY <2>1, <1>6
  <2>4. ForwardsInv' BY <2>1, <2>2, <2>3, <1>1, <1>2, OneForward
  <2>5. ClientInv' BY <1>2, <1>6 DEF ClientInv
  <2>6. QED BY <1>1, <2>4, <2>5
<1>7. QED BY <1>4, <1>5, <1>6 DEF TakeKey

\* At start-up the server registers if it has no key.
LEMMA AtStartupKeeps == ASSUME IInv, AtStartup PROVE IInv'
<1> USE DEF IInv
<1>1. RelayInv' /\ KeysStand BY ClientKeepsRelay DEF AtStartup
<1>2. base' = base /\ stored' = stored /\ fw' = fw /\ live' = live BY DEF AtStartup, relay
<1>3. ForwardsInv'
  <2>1. fw' \in [Forwards -> Forwarding] BY <1>2 DEF ForwardsInv
  <2>2. QED BY <1>1, <1>2, <2>1, ForwardsStand
<1>4. stored # NoKey => Issued(stored)' BY <1>1, <1>2 DEF KeysStand, ClientInv, Issued
<1>5. reg' \in Calls \cup {None} /\ (reg' # None => stored = NoKey)
  <2>1. CASE stored = NoKey /\ Register BY <2>1, RegisterKeeps
  <2>2. CASE UNCHANGED <<reg, calls>> BY <2>2 DEF ClientInv
  <2>3. QED BY <2>1, <2>2 DEF AtStartup
<1>6. ClientInv' BY <1>2, <1>4, <1>5 DEF ClientInv
<1>7. QED BY <1>1, <1>3, <1>6

\* A registration that fails ends the pushes that waited for it.
LEMMA RegistrationFailsKeeps ==
  ASSUME IInv, RegistrationFails, UNCHANGED <<base, calls, relay>>
  PROVE  IInv'
<1> USE DEF IInv
<1>1. RelayInv' /\ KeysStand BY ClientKeepsRelay
<1>2. base' = base /\ stored' = stored /\ live' = live /\ calls' = calls /\ reg' = None
  BY DEF RegistrationFails, relay
<1>3. ASSUME NEW g \in Forwards
      PROVE  /\ fw'[g] \in Forwarding
             /\ fw'[g] = fw[g] \/ (RungOnce(fw[g]) /\ RefusalsStand(fw[g]))'
  <2>1. CASE fw[g].step = "wait"
    <3>1. PICK r \in Forwarding : r = fw[g] /\ RungOnce(r) BY DEF ForwardsInv
    <3>2. PICK q \in Forwarding : q = Ended(r) /\ RungOnce(q) /\ q.step \in {"next", "idle"}
      BY <3>1, EndedFits
    <3>3. fw'[g] = q BY <2>1, <3>1, <3>2 DEF RegistrationFails
    <3>4. QED BY <3>2, <3>3 DEF RungOnce, RefusalsStand
  <2>2. CASE fw[g].step # "wait" BY <2>2 DEF RegistrationFails, ForwardsInv
  <2>3. QED BY <2>1, <2>2
<1>4. fw' \in [Forwards -> Forwarding] BY <1>3 DEF RegistrationFails
<1>5. ForwardsInv' BY <1>1, <1>2, <1>3, <1>4, ForwardsStand
<1>6. ClientInv' BY <1>2 DEF ClientInv, Issued
<1>7. QED BY <1>1, <1>5, <1>6

\* A registration that is answered stores its key and sends the pushes that
\* waited, or fails.
LEMMA RegistrationAnswerKeeps == ASSUME IInv, RegistrationAnswer PROVE IInv'
<1> USE DEF IInv
<1>1. CASE calls[reg].at = "issued"
  <2>1. /\ reg \in Calls /\ stored' = reg /\ reg' = None
        /\ base' = base /\ calls' = calls /\ live' = live
        /\ fw' = [f \in Forwards |->
             IF fw[f].step = "wait" THEN [fw[f] EXCEPT !.step = "sent", !.key = reg] ELSE fw[f]]
    BY <1>1 DEF RegistrationAnswer, ClientInv, relay
  <2>2. RelayInv' /\ KeysStand BY <2>1, ClientKeepsRelay DEF RegistrationAnswer
  <2>3. ASSUME NEW g \in Forwards
        PROVE  /\ fw'[g] \in Forwarding
               /\ fw'[g] = fw[g] \/ (RungOnce(fw[g]) /\ RefusalsStand(fw[g]))'
    <3>1. CASE fw[g].step = "wait"
      <4>1. PICK r \in Forwarding : r = fw[g] /\ r.step = "wait" /\ RungOnce(r)
        BY <3>1 DEF ForwardsInv
      <4>2. PICK k \in Keys : k = reg BY <2>1, ConstantFacts
      <4>3. PICK q \in Forwarding : /\ q = [r EXCEPT !.step = "sent", !.key = k]
                                    /\ RungOnce(q) /\ q.step = "sent" /\ q.key = k
        <5> DEFINE q == [r EXCEPT !.step = "sent", !.key = k]
        <5>1. r.step # "accepted" BY <4>1
        <5>2. q \in Forwarding /\ RungOnce(q) /\ q.step = "sent" /\ q.key = k
          BY <5>1, <4>1, SentFits
        <5>3. QED BY <5>2
      <4>4. fw'[g] = q
        <5>1. fw'[g] = [fw[g] EXCEPT !.step = "sent", !.key = reg] BY <2>1, <3>1
        <5>2. QED BY <5>1, <4>1, <4>2, <4>3
      <4>5. RungOnce(fw[g])' BY <4>3, <4>4 DEF RungOnce
      <4>6. RefusalsStand(fw[g])' BY <1>1, <2>1, <4>2, <4>3, <4>4 DEF RefusalsStand, Issued
      <4>7. QED BY <4>3, <4>4, <4>5, <4>6
    <3>2. CASE fw[g].step # "wait" BY <3>2, <2>1 DEF ForwardsInv
    <3>3. QED BY <3>1, <3>2
  <2>4. fw' \in [Forwards -> Forwarding] BY <2>1, <2>3
  <2>5. ForwardsInv' BY <2>1, <2>2, <2>3, <2>4, ForwardsStand
  <2>6. ClientInv' BY <1>1, <2>1, ConstantFacts DEF ClientInv, Issued
  <2>7. QED BY <2>2, <2>5, <2>6
<1>2. CASE RegistrationFails
  BY <1>2, RegistrationFailsKeeps DEF RegistrationAnswer
<1>3. QED BY <1>1, <1>2 DEF RegistrationAnswer

\* A restart forgets every push and the registration that is out, and may
\* change the BASE_URL.
LEMMA RestartKeeps == ASSUME IInv, NEW b \in Bases, Restart(b) PROVE IInv'
<1> USE DEF IInv
<1>1. RelayInv' BY ClientKeepsRelay DEF Restart
<1>2. ClientInv' BY DEF ClientInv, Restart, Issued
<1>3. ForwardsInv'
  <2>1. fw' = [f \in Forwards |-> Idle] BY DEF Restart
  <2>2. PICK q \in Forwarding : q = Idle /\ RungOnce(q) /\ q.step = "idle" BY IdleFits
  <2>3. QED BY <2>1, <2>2 DEF ForwardsInv, RungOnce, RefusalsStand
<1>4. QED BY <1>1, <1>2, <1>3

\* When the back-off is over, nothing else is.
LEMMA BackoffOverKeeps == ASSUME IInv, BackoffOver PROVE IInv'
<1> USE DEF IInv
<1>1. RelayInv' /\ KeysStand BY ClientKeepsRelay DEF BackoffOver
<1>2. /\ base' = base /\ stored' = stored /\ fw' = fw /\ live' = live
      /\ reg' = reg /\ calls' = calls
  BY DEF BackoffOver, relay
<1>3. fw' \in [Forwards -> Forwarding] BY <1>2 DEF ForwardsInv
<1>4. ForwardsInv' BY <1>1, <1>2, <1>3, ForwardsStand
<1>5. ClientInv' BY <1>2 DEF ClientInv, Issued
<1>6. QED BY <1>1, <1>4, <1>5

-----------------------------------------------------------------------------
(* The steps of one push.                                                  *)

\* A step of one push that touches neither a key nor a table.
LEMMA PushKeeps ==
  ASSUME IInv, NEW f \in Forwards, NEW q \in Forwarding, RungOnce(q), RefusalsStand(q)',
         fw' = [fw EXCEPT ![f] = q],
         UNCHANGED <<base, stored, reg, backoff, boot, restarts, calls, relay>>
  PROVE  IInv'
<1> USE DEF IInv
<1>1. RelayInv' /\ KeysStand BY ClientKeepsRelay
<1>2. base' = base /\ live' = live BY DEF relay
<1>3. ForwardsInv' BY <1>1, <1>2, OneForward
<1>4. ClientInv' BY DEF ClientInv, Issued
<1>5. QED BY <1>1, <1>3, <1>4

\* A forward starts with an event that has not rung.
LEMMA ForwardKeeps ==
  ASSUME IInv, NEW f \in Forwards, NEW b \in Bases, NEW k \in Kinds, Forward(f, b, k)
  PROVE  IInv'
<1> DEFINE d == [Idle EXCEPT !.step = "next", !.made = b]
<1> DEFINE q == [Idle EXCEPT !.step = "next", !.made = b, !.kind = k]
<1>1. q \in Forwarding
  <2>1. d \in Forwarding BY IdleFits DEF Forwarding, Steps
  <2>2. q = [d EXCEPT !.kind = k] OBVIOUS
  <2>3. [d EXCEPT !.kind = k] \in Forwarding
    <3> HIDE DEF d
    <3>1. QED BY <2>1 DEF Forwarding
  <2>4. QED BY <2>2, <2>3
<1>2. q.step = "next" /\ q.kind = k /\ q.rung = Idle.rung BY IdleFits DEF Forwarding
<1>3. \A j \in Kinds : Idle.rung[j] = 0 BY DEF Idle
<1>4. fw' = [fw EXCEPT ![f] = q] BY DEF Forward
<1> HIDE DEF q
<1>5. RungOnce(q) BY <1>2, <1>3 DEF RungOnce, Kinds
<1>6. RefusalsStand(q)' BY <1>2 DEF RefusalsStand
<1>7. PICK p \in Forwarding : p = q BY <1>1
<1>8. QED BY <1>1, <1>4, <1>5, <1>6, PushKeeps DEF Forward

\* A push begins: it takes the stored key.
LEMMA BeginKeeps == ASSUME IInv, NEW f \in Forwards, Begin(f) PROVE IInv'
<1>1. PICK r \in Forwarding : r = fw[f] /\ r.step = "next" /\ RungOnce(r)
  BY DEF Begin, IInv, ForwardsInv
<1>2. PICK held \in Keys \cup {NoKey} : held = stored BY DEF IInv, ClientInv
<1>3. TakeKey(f, r, held) BY <1>1, <1>2 DEF Begin, TakeKey
<1>4. /\ held # NoKey => Issued(held)
      /\ reg # None => held = NoKey
  BY <1>2 DEF IInv, ClientInv, Issued
<1>5. stored' = held /\ UNCHANGED <<base, relay>> BY <1>2 DEF Begin
<1>6. QED BY <1>1, <1>3, <1>4, <1>5, TakeKeyKeeps

\* The relay looks the key up.
LEMMA AuthoriseKeeps == ASSUME IInv, NEW f \in Forwards, Authorise(f) PROVE IInv'
<1>1. PICK r \in Forwarding :
        r = fw[f] /\ r.step = "sent" /\ RungOnce(r) /\ Issued(r.key)
  BY DEF Authorise, IInv, ForwardsInv, RefusalsStand
<1>2. PICK s \in {"authorised", "unauthorized"} :
        s = IF r.key \in live THEN "authorised" ELSE "unauthorized"
  OBVIOUS
<1>3. PICK q \in Forwarding : /\ q = [r EXCEPT !.step = s] /\ RungOnce(q)
                              /\ q.step = s /\ q.key = r.key
  BY <1>1, SteppedFits DEF Steps
<1>4. calls' = calls /\ live' = live BY DEF Authorise, relay
<1>5. RefusalsStand(q)' BY <1>1, <1>2, <1>3, <1>4 DEF RefusalsStand, Issued
<1>6. fw' = [fw EXCEPT ![f] = q] BY <1>1, <1>2, <1>3 DEF Authorise
<1>7. QED BY <1>3, <1>5, <1>6, PushKeeps DEF Authorise

\* The relay compares the key's base_url with the hash, and rings.
LEMMA AcceptKeeps == ASSUME IInv, NEW f \in Forwards, Accept(f) PROVE IInv'
<1>1. PICK r \in Forwarding :
        r = fw[f] /\ r.step = "authorised" /\ RungOnce(r) /\ Issued(r.key)
  BY DEF Accept, IInv, ForwardsInv, RefusalsStand
<1>2. calls' = calls /\ live' = live /\ base' = base BY DEF Accept, relay
<1>3. CASE BaseOf(r.key) # HashBase(r)
  <2>1. PICK q \in Forwarding : /\ q = [r EXCEPT !.step = "mismatch"] /\ RungOnce(q)
                                /\ q.step = "mismatch" /\ q.key = r.key
                                /\ q.made = r.made /\ q.kind = r.kind
    <3> DEFINE q == [r EXCEPT !.step = "mismatch"]
    <3>1. r.step # "accepted" /\ "mismatch" \in Steps \ {"accepted"} BY <1>1 DEF Steps
    <3>2. /\ q \in Forwarding /\ RungOnce(q) /\ q.step = "mismatch" /\ q.key = r.key
          /\ q.made = r.made /\ q.kind = r.kind
      BY <1>1, <3>1, SteppedFits
    <3>3. QED BY <3>2
  <2>2. RefusalsStand(q)'
    BY <1>1, <1>2, <1>3, <2>1 DEF RefusalsStand, Issued, BaseOf, HashBase
  <2>3. fw' = [fw EXCEPT ![f] = q] BY <1>1, <1>3, <2>1 DEF Accept
  <2>4. QED BY <2>1, <2>2, <2>3, PushKeeps DEF Accept
<1>4. CASE BaseOf(r.key) = HashBase(r)
  <2> DEFINE q == [r EXCEPT !.step = "accepted", !.rung[r.kind] = @ + 1]
  <2> DEFINE g == [r.rung EXCEPT ![r.kind] = @ + 1]
  <2> DEFINE p == [r EXCEPT !.step = "accepted"]
  <2>1. r.rung \in [Kinds -> Nat] /\ r.kind \in Kinds BY DEF Forwarding
  <2>2. /\ q \in Forwarding /\ q.step = "accepted" /\ q.key = r.key /\ q.kind = r.kind
        /\ q.rung = g
    <3>1. g \in [Kinds -> Nat] BY <2>1
    <3>2. /\ p \in Forwarding /\ p.step = "accepted" /\ p.key = r.key /\ p.kind = r.kind
          /\ p.rung = r.rung
      BY DEF Forwarding, Steps
    <3>3. q = [p EXCEPT !.rung[r.kind] = @ + 1] OBVIOUS
    <3> HIDE DEF p
    <3>4. [p EXCEPT !.rung[r.kind] = @ + 1] = [p EXCEPT !.rung = g] BY <3>2 DEF Forwarding
    <3> HIDE DEF g
    <3> DEFINE o == [p EXCEPT !.rung = g]
    <3>5. o \in Forwarding /\ o.step = p.step /\ o.key = p.key /\ o.kind = p.kind /\ o.rung = g
      BY <3>1, <3>2 DEF Forwarding
    <3>6. QED BY <3>2, <3>3, <3>4, <3>5
  <2>3. r.rung[r.kind] = 0 BY <1>1 DEF RungOnce
  <2>4. fw' = [fw EXCEPT ![f] = q] BY <1>1, <1>4 DEF Accept
  <2> HIDE DEF q
  <2>5. RungOnce(q) BY <1>1, <2>1, <2>2, <2>3 DEF RungOnce, Kinds
  <2>6. RefusalsStand(q)' BY <1>1, <1>2, <2>2 DEF RefusalsStand, Issued
  <2>7. QED BY <2>2, <2>4, <2>5, <2>6, PushKeeps DEF Accept
<1>5. QED BY <1>3, <1>4

\* An answer drops the key that failed and takes another, or ends the push.
LEMMA AnsweredKeeps ==
  ASSUME IInv, NEW f \in Forwards,
         NEW answer \in {"unauthorized", "mismatch", "accepted", "lost"}, Answered(f, answer)
  PROVE  IInv'
<1>1. PICK r \in Forwarding : r = fw[f] /\ RungOnce(r) BY DEF IInv, ForwardsInv
<1>2. CASE Repeats(r, answer)
  <2>1. answer \in {"unauthorized", "mismatch"} /\ r.step = answer
    BY <1>1, <1>2 DEF Repeats, Answered
  <2> DEFINE s == IF answer = "mismatch" THEN 3 ELSE 2
  <2>2. PICK q \in Forwarding : /\ q = [r EXCEPT !.stage = s] /\ RungOnce(q)
                                /\ q.step # "accepted"
    <3> DEFINE q == [r EXCEPT !.stage = s]
    <3>1. /\ q \in Forwarding /\ q.rung = r.rung /\ q.kind = r.kind /\ q.step = r.step
      BY DEF Forwarding
    <3> HIDE DEF q
    <3>2. RungOnce(q) BY <1>1, <3>1 DEF RungOnce
    <3>3. QED BY <2>1, <3>1, <3>2 DEF q
  <2>3. stored' = (IF stored = r.key THEN NoKey ELSE stored)
    BY <1>1, <1>2 DEF Answered, HeldAfter
  <2>4. PICK held \in Keys \cup {NoKey} : held = stored'
    BY <2>3 DEF IInv, ClientInv
  <2>5. TakeKey(f, q, held)
    BY <1>1, <1>2, <2>2, <2>4 DEF Answered, TakeKey
  <2>6. /\ held # NoKey => Issued(held)
        /\ reg # None => held = NoKey
    BY <2>3, <2>4 DEF IInv, ClientInv, Issued
  <2>7. UNCHANGED <<base, relay>> BY DEF Answered
  <2>8. QED BY <2>2, <2>4, <2>5, <2>6, <2>7, TakeKeyKeeps
<1>3. CASE ~Repeats(r, answer)
  <2>1. PICK q \in Forwarding : q = Ended(r) /\ RungOnce(q) /\ q.step \in {"next", "idle"}
    BY <1>1, EndedFits
  <2>2. RefusalsStand(q)' BY <2>1 DEF RefusalsStand
  <2>3. /\ fw' = [fw EXCEPT ![f] = q]
        /\ UNCHANGED <<base, stored, reg, backoff, boot, restarts, calls, relay>>
    BY <1>1, <1>3, <2>1 DEF Answered
  <2>4. QED BY <2>1, <2>2, <2>3, PushKeeps
<1>4. QED BY <1>2, <1>3

-----------------------------------------------------------------------------
(* The relay's steps.                                                      *)

\* The count of confirmations that run follows the registration that moves.
RunningStates == {"confirming", "proved", "unproved"}
\* A registration that starts or stops being confirmed changes the count of confirmations by one.
LEMMA MoveCounts ==
  ASSUME RelayInv, NEW c \in Calls, NEW from, NEW to, Moves(c, from, to)
  PROVE  /\ Cardinality(Confirmations) \in Nat
         /\ (from \in RunningStates <=> to \in RunningStates) =>
              Cardinality(Confirmations)' = Cardinality(Confirmations)
         /\ from \notin RunningStates /\ to \in RunningStates =>
              Cardinality(Confirmations)' = Cardinality(Confirmations) + 1
         /\ from \in RunningStates /\ to \notin RunningStates =>
              Cardinality(Confirmations)' = Cardinality(Confirmations) - 1
<1>1. calls[c].at = from /\ calls' = [calls EXCEPT ![c].at = to] BY DEF Moves
<1>2. Running(c)' <=> to \in RunningStates
  BY <1>1 DEF RelayInv, Registration, Running, RunningStates
<1>3. Running(c) <=> from \in RunningStates BY <1>1 DEF Running, RunningStates
<1>4. \A x \in Calls : x # c => (Running(x)' <=> Running(x))
  BY <1>1 DEF RelayInv, Registration, Running
<1>5. IsFiniteSet(Confirmations) /\ Cardinality(Confirmations) \in Nat
  BY ConfirmationsFinite, FS_CardinalityType
<1>6. CASE from \in RunningStates <=> to \in RunningStates
  <2>1. Confirmations' = Confirmations
    BY <1>2, <1>3, <1>4, <1>6 DEF Confirmations, Running
  <2>2. QED BY <1>5, <2>1, <1>6
<1>7. CASE from \notin RunningStates /\ to \in RunningStates
  <2>1. Confirmations' = Confirmations \cup {c} /\ c \notin Confirmations
    BY <1>2, <1>3, <1>4, <1>7 DEF Confirmations
  <2>2. QED BY <1>5, <1>7, <2>1, FS_AddElement
<1>8. CASE from \in RunningStates /\ to \notin RunningStates
  <2>1. Confirmations' = Confirmations \ {c} /\ c \in Confirmations
    BY <1>2, <1>3, <1>4, <1>8 DEF Confirmations
  <2>2. QED BY <1>5, <1>8, <2>1, FS_RemoveElement
<1>9. QED BY <1>5, <1>6, <1>7, <1>8

\* What the client holds stays in order through every step of the relay that
\* leaves the keys that were given out as they are.
LEMMA RelayKeepsClient ==
  ASSUME IInv, KeysStand, UNCHANGED client, \A k \in live' : k \in live \/ ~Issued(k)
  PROVE  ClientInv' /\ ForwardsInv'
<1> USE DEF IInv
<1>1. base' = base /\ stored' = stored /\ reg' = reg /\ fw' = fw BY DEF client
<1>2. stored # NoKey => Issued(stored)' BY <1>1 DEF KeysStand, ClientInv, Issued
<1>3. ClientInv' BY <1>1, <1>2 DEF ClientInv
<1>4. fw' \in [Forwards -> Forwarding] BY <1>1 DEF ForwardsInv
<1>5. ForwardsInv' BY <1>1, <1>4, ForwardsStand
<1>6. QED BY <1>3, <1>5

\* A key is issued: every other key of its base_url stops answering.
LEMMA IssueKeeps ==
  ASSUME RelayInv, NEW c \in Calls, calls[c].at # "issued", Issue(c)
  PROVE  /\ calls' \in [Calls -> Registration] /\ KeysStand
         /\ live' \subseteq Keys /\ (\A k \in live : Issued(k))
         /\ (\A k \in live : Issued(k))'
         /\ (\A k, l \in live \ {0} : BaseOf(k) = BaseOf(l) => k = l)'
         /\ \A k \in live' : k \in live \/ ~Issued(k)
<1>1. Moves(c, calls[c].at, "issued") BY DEF Issue
<1>2. /\ calls' \in [Calls -> Registration]
      /\ calls'[c].at = "issued"
      /\ KeysStand
      /\ \A k \in Keys : BaseOf(k)' = BaseOf(k)
  BY <1>1, MoveKeeps DEF KeysStand
<1>3. live' = {k \in live : k = 0 \/ BaseOf(k) # BaseOf(c)} \cup {c} BY DEF Issue
<1>4. c \in Keys /\ c # 0 BY ConstantFacts
<1>5. live' \subseteq Keys /\ \A k \in live : Issued(k) BY <1>3, <1>4 DEF RelayInv
<1>6. \A k \in live' : k \in live \/ ~Issued(k) BY <1>3, <1>4 DEF Issued
<1>7. (\A k \in live : Issued(k))' BY <1>2, <1>3, <1>5 DEF KeysStand, Issued
<1>8. (\A k, l \in live \ {0} : BaseOf(k) = BaseOf(l) => k = l)'
  <2>1. ASSUME NEW k \in live' \ {0}, NEW l \in live' \ {0}, BaseOf(k)' = BaseOf(l)'
        PROVE  k = l
    <3>1. k \in Keys /\ l \in Keys BY <1>5
    <3>2. BaseOf(k) = BaseOf(l) BY <1>2, <2>1, <3>1
    <3>3. CASE k = c /\ l = c BY <3>3
    <3>4. CASE k # c /\ l = c BY <1>3, <3>2, <3>4
    <3>5. CASE k = c /\ l # c BY <1>3, <3>2, <3>5
    <3>6. CASE k # c /\ l # c BY <1>3, <3>2, <3>6 DEF RelayInv
    <3>7. QED BY <3>3, <3>4, <3>5, <3>6
  <2>2. QED BY <2>1
<1>9. QED BY <1>2, <1>5, <1>6, <1>7, <1>8

\* A registration that moves without a key leaves the keys that answer alone.
LEMMA MoveLeavesLive ==
  ASSUME RelayInv, NEW c \in Calls, NEW from, NEW to, Moves(c, from, to), from # "issued",
         to \in {"confirming", "proved", "unproved", "refused"}, UNCHANGED live
  PROVE  /\ calls' \in [Calls -> Registration] /\ KeysStand
         /\ live' \subseteq Keys
         /\ (\A k \in live : Issued(k))'
         /\ (\A k, l \in live \ {0} : BaseOf(k) = BaseOf(l) => k = l)'
         /\ \A k \in live' : k \in live \/ ~Issued(k)
<1>1. /\ calls' \in [Calls -> Registration]
      /\ KeysStand
      /\ \A k \in Keys : BaseOf(k)' = BaseOf(k)
  BY MoveKeeps DEF KeysStand
<1>2. (\A k \in live : Issued(k))' BY <1>1 DEF KeysStand, RelayInv, Issued
<1>3. (\A k, l \in live \ {0} : BaseOf(k) = BaseOf(l) => k = l)'
  BY <1>1 DEF RelayInv
<1>4. QED BY <1>1, <1>2, <1>3 DEF RelayInv

\* A registration arrives at the relay.
LEMMA PostKeeps == ASSUME IInv, NEW c \in Calls, Post(c) PROVE IInv'
<1> USE DEF IInv
<1>1. calls[c].at = "posted" /\ UNCHANGED client BY DEF Post
<1>2. /\ inFlight = Cardinality(Confirmations) /\ inFlight <= MaxInFlight
      /\ Cardinality(Confirmations) \in Nat
  BY ConfirmationsFinite, FS_CardinalityType DEF RelayInv
<1>3. CASE Issue(c) /\ UNCHANGED inFlight
  <2>1. Cardinality(Confirmations)' = Cardinality(Confirmations)
    <3>1. Moves(c, "posted", "issued") BY <1>1, <1>3 DEF Issue
    <3>2. QED BY <3>1, MoveCounts DEF RunningStates
  <2>2. RelayInv' BY <1>1, <1>2, <1>3, <2>1, IssueKeeps DEF RelayInv
  <2>3. QED BY <1>1, <1>3, <2>2, IssueKeeps, RelayKeepsClient
<1>4. CASE Moves(c, "posted", "refused") /\ UNCHANGED <<live, inFlight>>
  <2>1. Cardinality(Confirmations)' = Cardinality(Confirmations)
    BY <1>1, <1>4, MoveCounts DEF RunningStates
  <2>2. RelayInv' BY <1>2, <1>4, <2>1, MoveLeavesLive DEF RelayInv
  <2>3. QED BY <1>1, <1>4, <2>2, MoveLeavesLive, RelayKeepsClient
<1>5. CASE /\ inFlight < MaxInFlight /\ inFlight' = inFlight + 1
           /\ Moves(c, "posted", "confirming") /\ UNCHANGED live
  <2>1. Cardinality(Confirmations)' = Cardinality(Confirmations) + 1
    BY <1>1, <1>5, MoveCounts DEF RunningStates
  <2>2. inFlight' <= MaxInFlight BY <1>2, <1>5, ConstantFacts
  <2>3. RelayInv' BY <1>2, <1>5, <2>1, <2>2, MoveLeavesLive DEF RelayInv
  <2>4. QED BY <1>1, <1>5, <2>3, MoveLeavesLive, RelayKeepsClient
<1>6. QED BY <1>3, <1>4, <1>5 DEF Post

\* The server is asked for the challenge.
LEMMA ChallengedKeeps == ASSUME IInv, NEW c \in Calls, Challenged(c) PROVE IInv'
<1> USE DEF IInv
<1>1. PICK to \in {"proved", "unproved"} : Moves(c, "confirming", to)
  BY DEF Challenged
<1>2. UNCHANGED <<client, live, inFlight>> BY DEF Challenged, relay
<1>3. Cardinality(Confirmations)' = Cardinality(Confirmations)
  BY <1>1, MoveCounts DEF RunningStates
<1>4. RelayInv' BY <1>1, <1>2, <1>3, MoveLeavesLive DEF RelayInv
<1>5. QED BY <1>1, <1>2, <1>4, MoveLeavesLive, RelayKeepsClient

\* A confirmation ends, and its slot is free again.
LEMMA ConfirmedKeeps == ASSUME IInv, NEW c \in Calls, Confirmed(c) PROVE IInv'
<1> USE DEF IInv
<1>1. inFlight' = inFlight - 1 /\ UNCHANGED client BY DEF Confirmed, Finished
<1>2. /\ inFlight = Cardinality(Confirmations) /\ inFlight <= MaxInFlight
      /\ Cardinality(Confirmations) \in Nat /\ MaxInFlight \in Nat
  BY ConfirmationsFinite, FS_CardinalityType, ConstantFacts DEF RelayInv
<1>3. inFlight' <= MaxInFlight BY <1>1, <1>2
<1>4. CASE calls[c].at = "proved" /\ Issue(c)
  <2>1. Moves(c, "proved", "issued") BY <1>4 DEF Issue
  <2>2. Cardinality(Confirmations)' = Cardinality(Confirmations) - 1
    BY <2>1, MoveCounts DEF RunningStates
  <2>3. RelayInv' BY <1>1, <1>2, <1>3, <1>4, <2>2, IssueKeeps DEF RelayInv
  <2>4. QED BY <1>1, <1>4, <2>3, IssueKeeps, RelayKeepsClient
<1>5. CASE Moves(c, "unproved", "refused") /\ UNCHANGED live
  <2>1. calls[c].at = "unproved" BY <1>5 DEF Moves
  <2>2. Cardinality(Confirmations)' = Cardinality(Confirmations) - 1
    BY <1>5, MoveCounts DEF RunningStates
  <2>3. RelayInv' BY <1>1, <1>2, <1>3, <1>5, <2>2, MoveLeavesLive DEF RelayInv
  <2>4. QED BY <1>1, <1>5, <2>3, MoveLeavesLive, RelayKeepsClient
<1>6. QED BY <1>4, <1>5 DEF Confirmed

\* The relay forgets a key.
LEMMA ForgetKeeps == ASSUME IInv, NEW k \in Keys, Forget(k) PROVE IInv'
<1> USE DEF IInv
<1>1. live' = live \ {k} /\ UNCHANGED <<client, calls, inFlight>> BY DEF Forget
<1>2. KeysStand BY <1>1 DEF KeysStand, Issued, BaseOf
<1>3. Confirmations' = Confirmations BY <1>1 DEF Confirmations, Running
<1>4. RelayInv' BY <1>1, <1>3 DEF RelayInv, Issued, BaseOf
<1>5. QED BY <1>1, <1>2, <1>4, RelayKeepsClient

-----------------------------------------------------------------------------
(* The theorems.                                                           *)

\* The program starts in order.
LEMMA InitKeeps == Init => IInv
<1> SUFFICES ASSUME Init PROVE IInv OBVIOUS
<1>1. calls \in [Calls -> Registration] /\ \A c \in Calls : calls[c].at = "none"
  BY ConstantFacts DEF Init, Registration
<1>2. RelayInv
  <2>1. Confirmations = {} BY <1>1 DEF Confirmations, Running
  <2>2. Cardinality(Confirmations) = 0 BY <2>1, FS_EmptySet
  <2>3. live = {0} /\ inFlight = 0 BY DEF Init
  <2>4. inFlight = Cardinality(Confirmations) /\ inFlight <= MaxInFlight
    BY <2>2, <2>3, ConstantFacts
  <2>5. QED BY <1>1, <2>3, <2>4, ConstantFacts DEF RelayInv, Issued
<1>3. ClientInv BY ConstantFacts DEF Init, ClientInv, Issued
<1>4. ForwardsInv
  <2>1. PICK q \in Forwarding : q = Idle /\ RungOnce(q) /\ q.step = "idle" BY IdleFits
  <2>2. fw = [f \in Forwards |-> q] BY <2>1 DEF Init
  <2>3. QED BY <2>1, <2>2 DEF ForwardsInv, RungOnce, RefusalsStand
<1>5. QED BY <1>2, <1>3, <1>4 DEF IInv

\* Every step, of the client, of the relay or of the network, keeps order.
LEMMA NextKeeps == IInv /\ [Next]_vars => IInv'
<1> SUFFICES ASSUME IInv, [Next]_vars PROVE IInv' OBVIOUS
<1>1. CASE AtStartup BY <1>1, AtStartupKeeps
<1>2. CASE RegistrationAnswer BY <1>2, RegistrationAnswerKeeps
<1>3. CASE RegistrationTimeout
  BY <1>3, RegistrationFailsKeeps DEF RegistrationTimeout
<1>4. CASE BackoffOver BY <1>4, BackoffOverKeeps
<1>5. CASE \E b \in Bases : Restart(b) BY <1>5, RestartKeeps
<1>6. ASSUME NEW f \in Forwards,
             \/ \E b \in Bases, k \in Kinds : Forward(f, b, k)
             \/ Begin(f) \/ Authorise(f) \/ Accept(f)
             \/ \E a \in {"unauthorized", "mismatch", "accepted", "lost"} : Answered(f, a)
      PROVE  IInv'
  BY <1>6, ForwardKeeps, BeginKeeps, AuthoriseKeeps, AcceptKeeps, AnsweredKeeps
<1>7. ASSUME NEW c \in Calls, Post(c) \/ Challenged(c) \/ Confirmed(c) PROVE IInv'
  BY <1>7, PostKeeps, ChallengedKeeps, ConfirmedKeeps
<1>8. CASE \E k \in Keys : Forget(k) BY <1>8, ForgetKeeps
<1>9. CASE UNCHANGED vars
  BY <1>9 DEF vars, client, relay, IInv, RelayInv, ClientInv, ForwardsInv, Confirmations,
              Running, Issued, BaseOf, RefusalsStand, RungOnce, HashBase
<1>10. QED BY <1>1, <1>2, <1>3, <1>4, <1>5, <1>6, <1>7, <1>8, <1>9 DEF Next

\* Every reachable state is in order: what the relay's tables, the client's
\* key and the pushes that are out have to say of one another.
THEOREM Invariance == Spec => []IInv
BY InitKeeps, NextKeeps, PTL DEF Spec

\* Every variable has its type, the relay's count of confirmations is the
\* number that run and stays within its bound, and one key answers for each
\* base_url (relay/router.ts, relay/challenge.ts).
THEOREM TypeCorrect == Spec => []TypeOK
<1>1. IInv => TypeOK
  <2> SUFFICES ASSUME IInv PROVE TypeOK OBVIOUS
  <2>1. \A f \in Forwards : fw[f].key \in Keys \cup {NoKey} /\ fw[f].stage \in 1..3
    BY DEF IInv, ForwardsInv, Forwarding
  <2>2. Confirmations = {c \in Calls : calls[c].at \in {"confirming", "proved", "unproved"}}
    BY DEF Confirmations, Running
  <2>3. QED BY <2>1, <2>2 DEF IInv, RelayInv, ClientInv, TypeOK
<1>2. QED BY <1>1, Invariance, PTL

\* However pushes are refused, lost, sent again with another key or stage, and
\* whatever is registered in between, each hash of an event rings at most once
\* (forwardOne in relay/client.ts).
THEOREM EachHashRingsOnce == Spec => []PushedOnce
<1>1. IInv => PushedOnce BY DEF IInv, ForwardsInv, RungOnce, PushedOnce
<1>2. QED BY <1>1, Invariance, PTL

\* The client never drops a key that answers for its BASE_URL: a refusal that
\* arrives late drops the key it was about and no newer one, and still says
\* something true of it (dropKey in relay/client.ts).
THEOREM GoodKeyKept == Spec => LiveKeyKept
<1> DEFINE Kept == stored # NoKey /\ stored' # stored => stored \notin live \/ BaseOf(stored) # base
<1>1. IInv /\ [Next]_vars => [Kept]_vars
  <2> SUFFICES ASSUME IInv, Next, stored # NoKey, stored' # stored
               PROVE  stored \notin live \/ BaseOf(stored) # base
    OBVIOUS
  <2>1. reg = None BY DEF IInv, ClientInv
  <2>2. \/ \E f \in Forwards : \E a \in {"unauthorized", "mismatch", "accepted", "lost"} :
             Answered(f, a)
        \/ RegistrationAnswer
    BY DEF Next, AtStartup, RegistrationTimeout, RegistrationFails, BackoffOver, Restart,
           Forward, Begin, Authorise, Accept, Post, Challenged, Confirmed, Forget, client, relay
  <2>3. PICK f \in Forwards, a \in {"unauthorized", "mismatch", "accepted", "lost"} :
          Answered(f, a)
    BY <2>1, <2>2 DEF RegistrationAnswer
  <2>4. Repeats(fw[f], a) /\ fw[f].step = a /\ stored = fw[f].key
    BY <2>3 DEF Answered, Repeats, HeldAfter
  <2>5. RefusalsStand(fw[f]) BY DEF IInv, ForwardsInv
  <2>6. CASE a = "unauthorized" BY <2>4, <2>5, <2>6 DEF RefusalsStand
  <2>7. CASE a = "mismatch" BY <2>4, <2>5, <2>7 DEF RefusalsStand, Repeats
  <2>8. QED BY <2>4, <2>6, <2>7 DEF Repeats
<1>2. QED BY <1>1, Invariance, PTL DEF Spec, LiveKeyKept
=============================================================================
