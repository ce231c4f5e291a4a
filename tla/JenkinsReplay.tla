--------------------------- MODULE JenkinsReplay ---------------------------
(***************************************************************************)
(* The webhook that takes in Jenkins bridge deliveries, and the in-memory  *)
(* bookkeeping by which it recognises one it has seen.  The sender names a *)
(* delivery after the build (jenkins:job#build) and draws a new nonce each *)
(* time it sends it; a proxy that repeats a request repeats its nonce.     *)
(*                                                                         *)
(* A key is held while its request is being enqueued and seen once it was. *)
(* Both notes are dated and dropped TTL later.  Nothing awaits while it    *)
(* holds the asyncio lock, so the lock is always free and the storing of   *)
(* the activity is the one await of the handler that lets others run: a    *)
(* request is a step before it and a step after it.                        *)
(***************************************************************************)
EXTENDS Integers, FiniteSets, Functions

CONSTANTS
  Requests,     \* the requests that pass the signature and allowlist checks
  NonceOf, DeliveryOf,
  SentAt,       \* SentAt[q]: the signed timestamp
  Replicas,     \* backend processes, each with its own bookkeeping
  NoReplica,
  TTL,          \* jenkins_bridge_replay_ttl_seconds
  MaxSkew,      \* jenkins_bridge_max_skew_seconds
  MaxEntries,   \* _JENKINS_REPLAY_MAX_ENTRIES
  MaxFlight,    \* bound: how long a request may take, shorter than TTL
  MaxTime,      \* bound: the clock
  MaxRestarts   \* bound: restarts of a replica

ASSUME RequestAssumption == /\ DOMAIN NonceOf = Requests /\ DOMAIN DeliveryOf = Requests
                            /\ SentAt \in [Requests -> Nat] /\ IsFiniteSet(Requests)
                            /\ NoReplica \notin Replicas
ASSUME TimeAssumption    == /\ TTL \in Nat /\ MaxSkew \in Nat /\ MaxEntries \in Nat
                            /\ MaxFlight \in Nat /\ MaxFlight < TTL
                            /\ MaxTime \in Nat /\ MaxRestarts \in Nat

VARIABLES
  now,
  notes,      \* notes[r]: the four dictionaries of replica r
  pc,         \* pc[q]: "idle", the one await "enqueueing", or the answer
  at,         \* at[q]: the replica that took q in
  took,       \* took[q]: when q arrived
  done,       \* done[q]: when the enqueued q was committed
  restarts

vars == <<now, notes, pc, at, took, done, restarts>>

Nonces     == {NonceOf[q] : q \in Requests}
Deliveries == {DeliveryOf[q] : q \in Requests}
Times      == 0..MaxTime
Dict(K)    == UNION {[S -> Times] : S \in SUBSET K}
Notes      == [nonceSeen : Dict(Nonces), deliverySeen : Dict(Deliveries),
               nonceHeld : Dict(Nonces), deliveryHeld : Dict(Deliveries)]

TypeOK ==
  /\ now \in Times /\ restarts \in Nat
  /\ notes \in [Replicas -> Notes]
  /\ pc \in [Requests -> {"idle", "rejected", "ignored", "enqueueing", "processing", "error", "cut"}]
  /\ at \in [Requests -> Replicas \cup {NoReplica}]
  /\ took \in [Requests -> Times] /\ done \in [Requests -> Times]

-----------------------------------------------------------------------------
Nothing == [k \in {} |-> 0]
NoNotes == [nonceSeen |-> Nothing, deliverySeen |-> Nothing,
            nonceHeld |-> Nothing, deliveryHeld |-> Nothing]

(***************************************************************************)
(* The entries of a dictionary that cleanup keeps: the recent ones, and of *)
(* those not more than MaxEntries, oldest out first (of equal age, any).   *)
(***************************************************************************)
Recent(f, t) == Restrict(f, {k \in DOMAIN f : f[k] >= t - TTL})

Trim(f) ==
  LET overflow == Cardinality(DOMAIN f) - MaxEntries
      oldest   == CHOOSE S \in SUBSET DOMAIN f :
                    /\ Cardinality(S) = overflow
                    /\ \A k \in S, l \in DOMAIN f \ S : f[k] <= f[l]
  IN  IF overflow <= 0 THEN f ELSE Restrict(f, DOMAIN f \ oldest)

Cleanup(n, t) == [store \in DOMAIN n |-> Trim(Recent(n[store], t))]

Date(f, k, t) == [x \in DOMAIN f \cup {k} |-> IF x = k THEN t ELSE f[x]]
Drop(f, k)    == Restrict(f, DOMAIN f \ {k})

(* Slip: the keys of requests still being enqueued are not looked at. *)
IsDuplicateSeenOnly(q, n) ==
  \/ NonceOf[q] \in DOMAIN n.nonceSeen
  \/ DeliveryOf[q] \in DOMAIN n.deliverySeen

IsDuplicate(q, n) ==
  \/ NonceOf[q] \in DOMAIN n.nonceSeen \cup DOMAIN n.nonceHeld
  \/ DeliveryOf[q] \in DOMAIN n.deliverySeen \cup DOMAIN n.deliveryHeld

Hold(q, n, t) ==
  [n EXCEPT !.nonceHeld = Date(@, NonceOf[q], t), !.deliveryHeld = Date(@, DeliveryOf[q], t)]

(* Slip: the delivery stays held. *)
LetGoOfNonce(q, n) == [n EXCEPT !.nonceHeld = Drop(@, NonceOf[q])]

LetGo(q, n) ==
  [n EXCEPT !.nonceHeld = Drop(@, NonceOf[q]), !.deliveryHeld = Drop(@, DeliveryOf[q])]

Settle(q, n, t) ==
  [LetGo(q, n) EXCEPT !.nonceSeen = Date(@, NonceOf[q], t), !.deliverySeen = Date(@, DeliveryOf[q], t)]

-----------------------------------------------------------------------------
Skewed(q) == IF now >= SentAt[q] THEN now - SentAt[q] > MaxSkew ELSE SentAt[q] - now > MaxSkew

(***************************************************************************)
(* A timestamp outside the skew window is answered with 429.               *)
(***************************************************************************)
Reject(q, r) ==
  /\ pc[q] = "idle"
  /\ Skewed(q)
  /\ pc' = [pc EXCEPT ![q] = "rejected"]
  /\ at' = [at EXCEPT ![q] = r]
  /\ UNCHANGED <<now, notes, took, done, restarts>>

Take(q, r, answer, n) ==
  /\ pc' = [pc EXCEPT ![q] = answer]
  /\ notes' = [notes EXCEPT ![r] = n]
  /\ at' = [at EXCEPT ![q] = r]
  /\ took' = [took EXCEPT ![q] = now]

(* Slip: cleanup is forgotten and nothing is ever dropped. *)
ReserveUncleaned(q, r) ==
  /\ pc[q] = "idle"
  /\ ~Skewed(q)
  /\ \/ IsDuplicate(q, notes[r])  /\ Take(q, r, "ignored", notes[r])
     \/ ~IsDuplicate(q, notes[r]) /\ Take(q, r, "enqueueing", Hold(q, notes[r], now))
  /\ UNCHANGED <<now, done, restarts>>

(***************************************************************************)
(* _reserve_replay_keys: a duplicate is answered with 200 "ignored".       *)
(***************************************************************************)
Reserve(q, r) ==
  LET kept == Cleanup(notes[r], now)
  IN  /\ pc[q] = "idle"
      /\ ~Skewed(q)
      /\ \/ IsDuplicate(q, kept)  /\ Take(q, r, "ignored", kept)
         \/ ~IsDuplicate(q, kept) /\ Take(q, r, "enqueueing", Hold(q, kept, now))
      /\ UNCHANGED <<now, done, restarts>>

(***************************************************************************)
(* start_bridge_failure returned: _commit_replay_keys, dated now.          *)
(***************************************************************************)
Commit(q) ==
  /\ pc[q] = "enqueueing"
  /\ notes' = [notes EXCEPT ![at[q]] = Settle(q, Cleanup(@, now), now)]
  /\ done' = [done EXCEPT ![q] = now]
  /\ pc' = [pc EXCEPT ![q] = "processing"]
  /\ UNCHANGED <<now, at, took, restarts>>

(***************************************************************************)
(* start_bridge_failure raised: the sender gets a 500.                     *)
(***************************************************************************)
Release(q) ==
  /\ pc[q] = "enqueueing"
  /\ notes' = [notes EXCEPT ![at[q]] = LetGo(q, @)]
  /\ pc' = [pc EXCEPT ![q] = "error"]
  /\ UNCHANGED <<now, at, took, done, restarts>>

(***************************************************************************)
(* The bookkeeping lives in the process.                                   *)
(***************************************************************************)
Restart(r) ==
  /\ restarts < MaxRestarts
  /\ restarts' = restarts + 1
  /\ notes' = [notes EXCEPT ![r] = NoNotes]
  /\ pc' = [q \in Requests |-> IF at[q] = r /\ pc[q] = "enqueueing" THEN "cut" ELSE pc[q]]
  /\ UNCHANGED <<now, at, took, done>>

Tick ==
  /\ now < MaxTime
  /\ \A q \in Requests : pc[q] = "enqueueing" => now - took[q] < MaxFlight
  /\ now' = now + 1
  /\ UNCHANGED <<notes, pc, at, took, done, restarts>>

Init ==
  /\ now = 0
  /\ notes = [r \in Replicas |-> NoNotes]
  /\ pc = [q \in Requests |-> "idle"]
  /\ at = [q \in Requests |-> NoReplica]
  /\ took = [q \in Requests |-> 0]
  /\ done = [q \in Requests |-> 0]
  /\ restarts = 0

Next ==
  \/ \E q \in Requests, r \in Replicas : Reject(q, r) \/ Reserve(q, r)
  \/ \E q \in Requests : Commit(q) \/ Release(q)
  \/ \E r \in Replicas : Restart(r)
  \/ Tick

Spec == Init /\ [][Next]_vars

-----------------------------------------------------------------------------
(* Properties. *)

Twins(q) == {p \in Requests \ {q} : NonceOf[p] = NonceOf[q] \/ DeliveryOf[p] = DeliveryOf[q]}

(* Two requests for one delivery are both taken in by a process only when    *)
(* the second arrived more than TTL after the first was committed, or so     *)
(* many other requests came in that the notes of the first had to go.        *)
EnqueuedOnce ==
  \A q \in Requests : \A p \in Twins(q) :
    LET others == {x \in Requests \ {p, q} : at[x] # NoReplica}
    IN  /\ pc[q] = "processing" /\ pc[p] = "processing" /\ at[q] = at[p]
        /\ restarts = 0 /\ Cardinality(others) < MaxEntries
        => took[q] - done[p] > TTL \/ took[p] - done[q] > TTL

(* A held key belongs to a request that is still being enqueued: no error    *)
(* path leaves a reservation behind that would turn retries away until TTL.  *)
HeldByInFlight ==
  \A r \in Replicas :
    LET inFlight == {q \in Requests : at[q] = r /\ pc[q] = "enqueueing"}
    IN  /\ DOMAIN notes[r].nonceHeld \subseteq {NonceOf[q] : q \in inFlight}
        /\ DOMAIN notes[r].deliveryHeld \subseteq {DeliveryOf[q] : q \in inFlight}

(* A request is only turned away for a twin that is being enqueued, or was   *)
(* within TTL, never for one that failed or that is long gone.               *)
IgnoredForLiveTwin ==
  [][\A q \in Requests : pc[q] = "idle" /\ pc'[q] = "ignored" =>
       \E p \in Twins(q) : \/ pc[p] = "enqueueing"
                           \/ pc[p] = "processing" /\ now - done[p] <= TTL]_<<pc, now, done>>
=============================================================================
