-------------------------------- MODULE Relay --------------------------------
(***************************************************************************)
(* A self-hosted server that forwards its events to a relay, and the       *)
(* relay's registration and push routes (relay/client.ts, relay/router.ts, *)
(* relay/challenge.ts, relay/startup.ts).                                  *)
(*                                                                         *)
(* A forward makes up to two pushes of one event, one for each hash of its *)
(* topic, and each push gets its own key.  The first forward that finds no *)
(* key registers, and the others wait for that registration.  The relay    *)
(* calls the server back with the challenge before it issues a key.        *)
(* Requests and answers are delayed and lost; the server is restarted, and *)
(* its operator may give it another BASE_URL then.                         *)
(*                                                                         *)
(* How long the client backs off, the rate limits of the registration      *)
(* route and the devices a push reaches are left out: a limit is an answer *)
(* the relay may give at any time.                                         *)
(***************************************************************************)
EXTENDS Integers, FiniteSets

CONSTANTS Forwards, Bases,
          FirstBase,    \* the BASE_URL the server starts with
          MaxInFlight,  \* MAX_CONFIRMATIONS_IN_FLIGHT
          MaxCalls,     \* bound on registrations
          MaxRestarts,  \* bound on restarts
          MaxForgets    \* bound on the keys the relay forgets

ASSUME ConstantsAssumption ==
  /\ FirstBase \in Bases
  /\ {MaxInFlight, MaxCalls, MaxRestarts, MaxForgets} \subseteq Nat

NoKey == -1
None  == 0
Calls == 1..MaxCalls
Keys  == 0..MaxCalls      \* registration c issues key c; 0 is a key from before 1.20.0
Kinds == {"secret", "plain"}
Idle  == [step |-> "idle", kind |-> "plain", made |-> FirstBase, key |-> NoKey,
          stage |-> 1, rung |-> [k \in Kinds |-> 0]]

VARIABLES
  base,      \* the server's BASE_URL
  stored,    \* relay_client_credentials.relay_key
  reg,       \* the registration that is out, with its challenge
  backoff,   \* now < nextAttemptAt
  boot,      \* registerAtStartup has not run yet
  fw,        \* the forwards
  calls,     \* the POST servers calls: base_url and where each has got to
  live,      \* relay_servers: the keys that answer
  inFlight,  \* the router's count of confirmations
  restarts, forgets

client == <<base, stored, reg, backoff, boot, fw, restarts>>
relay  == <<live, inFlight, forgets>>
vars   == <<client, calls, relay>>

Init ==
  /\ base = FirstBase
  /\ stored \in {NoKey, 0}
  /\ live = {0} /\ inFlight = 0
  /\ reg = None /\ backoff = FALSE /\ boot = TRUE
  /\ fw = [f \in Forwards |-> Idle]
  /\ calls = [c \in Calls |-> [base |-> FirstBase, at |-> "none"]]
  /\ restarts = 0 /\ forgets = 0

BaseOf(k) == IF k = 0 THEN FirstBase ELSE calls[k].base

-----------------------------------------------------------------------------
(* The client's key.                                                       *)

Unused == {c \in Calls : calls[c].at = "none"}

\* register: a new challenge, and the POST goes out.
Register ==
  \E c \in Unused :
    /\ \A y \in Unused : c <= y
    /\ reg' = c
    /\ calls' = [calls EXCEPT ![c] = [base |-> base, at |-> "posted"]]

\* One push is over without success: the next hash of the event, or the end.
Ended(r) ==
  IF r.kind = "secret" THEN [r EXCEPT !.step = "next", !.kind = "plain", !.stage = 1] ELSE Idle

\* key(), with what the table holds: the stored key, or the registration that
\* is out, or a new one unless the client backs off.
TakeKey(f, r, held) ==
  \/ /\ held # NoKey
     /\ fw' = [fw EXCEPT ![f] = [r EXCEPT !.step = "sent", !.key = held]]
     /\ UNCHANGED <<reg, calls>>
  \/ /\ held = NoKey /\ (reg # None \/ ~backoff)
     /\ fw' = [fw EXCEPT ![f] = [r EXCEPT !.step = "wait"]]
     /\ IF reg # None THEN UNCHANGED <<reg, calls>> ELSE Register
  \/ /\ held = NoKey /\ reg = None /\ backoff
     /\ fw' = [fw EXCEPT ![f] = Ended(r)]
     /\ UNCHANGED <<reg, calls>>

AtStartup ==
  /\ boot
  /\ boot' = FALSE
  /\ IF stored = NoKey /\ reg = None /\ ~backoff THEN Register ELSE UNCHANGED <<reg, calls>>
  /\ UNCHANGED <<base, stored, backoff, fw, restarts, relay>>

\* fail: the back-off starts, and every forward that waited gives up its push.
RegistrationFails ==
  /\ reg' = None /\ backoff' = TRUE
  /\ fw' = [f \in Forwards |-> IF fw[f].step = "wait" THEN Ended(fw[f]) ELSE fw[f]]
  /\ UNCHANGED stored

\* The answer to the registration that is out.
RegistrationAnswer ==
  /\ reg # None /\ calls[reg].at \in {"issued", "refused"}
  /\ IF calls[reg].at = "issued"
     THEN /\ stored' = reg /\ reg' = None /\ backoff' = FALSE
          /\ fw' = [f \in Forwards |->
                      IF fw[f].step = "wait" THEN [fw[f] EXCEPT !.step = "sent", !.key = reg] ELSE fw[f]]
     ELSE RegistrationFails
  /\ UNCHANGED <<base, boot, restarts, calls, relay>>

\* 15 seconds, or no connection.  What the relay does with the call goes on.
RegistrationTimeout ==
  /\ reg # None
  /\ RegistrationFails
  /\ UNCHANGED <<base, boot, restarts, calls, relay>>

BackoffOver ==
  /\ backoff
  /\ backoff' = FALSE
  /\ UNCHANGED <<base, stored, reg, boot, fw, restarts, calls, relay>>

-----------------------------------------------------------------------------
(* Forwards.                                                               *)

\* forwardOne.  The hash of the secret push is made from the BASE_URL set now,
\* the plain one when the topic was created.
Forward(f, made, kind) ==
  /\ fw[f] = Idle
  /\ fw' = [fw EXCEPT ![f] = [Idle EXCEPT !.step = "next", !.made = made, !.kind = kind]]
  /\ UNCHANGED <<base, stored, reg, backoff, boot, restarts, calls, relay>>

Begin(f) ==
  /\ fw[f].step = "next"
  /\ TakeKey(f, fw[f], stored)
  /\ UNCHANGED <<base, stored, backoff, boot, restarts, relay>>

HashBase(r) == IF r.kind = "secret" THEN base ELSE r.made

\* Only the key that failed: a push that already got a new key keeps it.
MutHeldAfter(key) == NoKey
HeldAfter(key) == IF stored = key THEN NoKey ELSE stored

\* Which answers are pushed once more, after which stage.
MutRepeats(r, answer) ==
  \/ answer \in {"unauthorized", "lost"} /\ r.stage = 1
  \/ answer = "mismatch" /\ r.stage < 3 /\ HashBase(r) = base
Repeats(r, answer) ==
  \/ answer = "unauthorized" /\ r.stage = 1
  \/ answer = "mismatch" /\ r.stage < 3 /\ HashBase(r) = base

\* The push is answered, or its answer is lost.
Answered(f, answer) ==
  LET r == fw[f] IN
  /\ \/ r.step = answer
     \/ answer = "lost" /\ r.step \in {"sent", "authorised", "accepted"}
  /\ IF Repeats(r, answer)
     THEN /\ stored' = HeldAfter(r.key)
          /\ TakeKey(f, [r EXCEPT !.stage = IF answer = "mismatch" THEN 3 ELSE 2], stored')
     ELSE /\ fw' = [fw EXCEPT ![f] = Ended(r)]
          /\ UNCHANGED <<stored, reg, calls>>
  /\ UNCHANGED <<base, backoff, boot, restarts, relay>>

\* A restart, perhaps with another BASE_URL.
Restart(b) ==
  /\ restarts < MaxRestarts
  /\ restarts' = restarts + 1 /\ base' = b
  /\ reg' = None /\ backoff' = FALSE /\ boot' = TRUE
  /\ fw' = [f \in Forwards |-> Idle]
  /\ UNCHANGED <<stored, calls, relay>>

-----------------------------------------------------------------------------
(* The relay.                                                              *)

Moves(c, from, to) ==
  /\ calls[c].at = from
  /\ calls' = [calls EXCEPT ![c].at = to]

\* One key answers per base_url, besides the keys from before 1.20.0.
Issue(c) ==
  /\ Moves(c, calls[c].at, "issued")
  /\ live' = {k \in live : k = 0 \/ BaseOf(k) # BaseOf(c)} \cup {c}

\* POST servers with the operator's secret, a refusal by a limit or a closed
\* door, or a confirmation that starts.
Post(c) ==
  /\ calls[c].at = "posted"
  /\ \/ Issue(c) /\ UNCHANGED inFlight
     \/ Moves(c, "posted", "refused") /\ UNCHANGED <<live, inFlight>>
     \/ /\ inFlight < MaxInFlight /\ inFlight' = inFlight + 1
        /\ Moves(c, "posted", "confirming") /\ UNCHANGED live
  /\ UNCHANGED <<client, forgets>>

\* GET relay-challenge: true only at the server's address now and only for the
\* registration that is out.  DNS, the network or the deadline may fail it.
Challenged(c) ==
  /\ \/ calls[c].base = base /\ reg = c /\ Moves(c, "confirming", "proved")
     \/ Moves(c, "confirming", "unproved")
  /\ UNCHANGED <<client, relay>>

MutFinished(c) == IF calls[c].at = "proved" THEN inFlight - 1 ELSE inFlight
Finished(c) == inFlight - 1

Confirmed(c) ==
  /\ \/ calls[c].at = "proved" /\ Issue(c)
     \/ Moves(c, "unproved", "refused") /\ UNCHANGED live
  /\ inFlight' = Finished(c)
  /\ UNCHANGED <<client, forgets>>

\* POST push.  The key is looked up before the body is awaited.
Authorise(f) ==
  /\ fw[f].step = "sent"
  /\ fw' = [fw EXCEPT ![f].step = IF @ = "sent" /\ fw[f].key \in live THEN "authorised" ELSE "unauthorized"]
  /\ UNCHANGED <<base, stored, reg, backoff, boot, restarts, calls, relay>>

Accept(f) ==
  LET r == fw[f] IN
  /\ r.step = "authorised"
  /\ fw' = [fw EXCEPT ![f] =
       IF BaseOf(r.key) # HashBase(r) THEN [r EXCEPT !.step = "mismatch"]
       ELSE [r EXCEPT !.step = "accepted", !.rung[r.kind] = @ + 1]]
  /\ UNCHANGED <<base, stored, reg, backoff, boot, restarts, calls, relay>>

\* The relay's operator removes a key, or its database is restored.
Forget(k) ==
  /\ k \in live /\ forgets < MaxForgets
  /\ live' = live \ {k} /\ forgets' = forgets + 1
  /\ UNCHANGED <<client, calls, inFlight>>

Next ==
  \/ AtStartup \/ RegistrationAnswer \/ RegistrationTimeout \/ BackoffOver
  \/ \E b \in Bases : Restart(b)
  \/ \E f \in Forwards :
       \/ \E b \in Bases, k \in Kinds : Forward(f, b, k)
       \/ Begin(f) \/ Authorise(f) \/ Accept(f)
       \/ \E a \in {"unauthorized", "mismatch", "accepted", "lost"} : Answered(f, a)
  \/ \E c \in Calls : Post(c) \/ Challenged(c) \/ Confirmed(c)
  \/ \E k \in Keys : Forget(k)

Spec == Init /\ [][Next]_vars

-----------------------------------------------------------------------------
(* Properties.                                                             *)

\* The type of every variable.  The count of confirmations is the number that
\* run, however each of them ends, and one key answers per base_url.
TypeOK ==
  /\ base \in Bases /\ stored \in Keys \cup {NoKey} /\ reg \in Calls \cup {None}
  /\ \A f \in Forwards : fw[f].key \in Keys \cup {NoKey} /\ fw[f].stage \in 1..3
  /\ live \subseteq Keys
  /\ inFlight = Cardinality({c \in Calls : calls[c].at \in {"confirming", "proved", "unproved"}})
  /\ inFlight <= MaxInFlight
  /\ \A k, l \in live \ {0} : BaseOf(k) = BaseOf(l) => k = l

\* However late a refusal comes, and whoever got a new key meanwhile: a key
\* that answers for the BASE_URL the server has now is never dropped.
LiveKeyKept ==
  [][stored # NoKey /\ stored' # stored => stored \notin live \/ BaseOf(stored) # base]_vars

\* A push that the relay took is not sent again: whatever is refused, lost or
\* registered in between, each hash of an event rings at most once.
PushedOnce ==
  \A f \in Forwards, k \in Kinds : fw[f].rung[k] <= 1
=============================================================================
