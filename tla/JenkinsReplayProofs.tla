------------------------ MODULE JenkinsReplayProofs ------------------------
(***************************************************************************)
(* Proofs about JenkinsReplay, for any requests, replicas, clock and room  *)
(* for notes.                                                              *)
(***************************************************************************)
EXTENDS JenkinsReplay, FiniteSetTheorems, TLAPS

Taken == {q \in Requests : at[q] # NoReplica}

(* Only a request that a replica took in has got anywhere. *)
Placed == \A q \in Requests :
  /\ pc[q] = "idle" => at[q] = NoReplica
  /\ pc[q] \in {"enqueueing", "processing"} => at[q] \in Replicas

(* No request takes longer than MaxFlight to be enqueued. *)
InFlight == \A q \in Requests :
  /\ pc[q] = "enqueueing" => took[q] <= now /\ now - took[q] <= MaxFlight
  /\ done[q] <= now

(* What a dictionary h of held keys, or s of seen ones, says of the        *)
(* requests, K being the key it is about.                                  *)
HeldFor(h, K, r) == \A k \in DOMAIN h : \E q \in Requests :
  at[q] = r /\ pc[q] = "enqueueing" /\ K[q] = k
SeenFor(s, K) == \A k \in DOMAIN s : \E q \in Requests :
  pc[q] = "processing" /\ K[q] = k /\ done[q] >= s[k]

(* Conversely, what is noted of a request q. *)
EnqNoted(h, K, q)  == K[q] \in DOMAIN h /\ h[K[q]] >= took[q]
DoneNoted(s, K, q) == now - done[q] > TTL \/ (K[q] \in DOMAIN s /\ s[K[q]] >= done[q])

Backed(r) ==
  /\ HeldFor(notes[r].nonceHeld, NonceOf, r) /\ HeldFor(notes[r].deliveryHeld, DeliveryOf, r)
  /\ SeenFor(notes[r].nonceSeen, NonceOf) /\ SeenFor(notes[r].deliverySeen, DeliveryOf)

NotedIn(n, q) ==
  /\ pc[q] = "enqueueing" => /\ EnqNoted(n.nonceHeld, NonceOf, q)
                             /\ EnqNoted(n.deliveryHeld, DeliveryOf, q)
  /\ pc[q] = "processing" => /\ DoneNoted(n.nonceSeen, NonceOf, q)
                             /\ DoneNoted(n.deliverySeen, DeliveryOf, q)

Noted(q) == NotedIn(notes[at[q]], q)

(* While there is room for every request that came in, all are noted.      *)
RoomMeansNoted ==
  restarts = 0 /\ Cardinality(Taken) <= MaxEntries => \A q \in Requests : Noted(q)

LongAfter(q, p) == pc[p] = "processing" /\ took[q] - done[p] > TTL

(* Two twins are with one process only if one came long after the other.   *)
Apart(q, p) ==
  /\ restarts = 0 /\ Cardinality(Taken \ {p, q}) < MaxEntries
  /\ at[q] = at[p]
  /\ pc[q] \in {"enqueueing", "processing"} /\ pc[p] \in {"enqueueing", "processing"}
  => LongAfter(q, p) \/ LongAfter(p, q)

Basic == TypeOK /\ Placed /\ InFlight /\ \A r \in Replicas : Backed(r)

TwinsApart == \A q \in Requests : \A p \in Twins(q) : Apart(q, p)

IInv == Basic /\ RoomMeansNoted /\ TwinsApart

-----------------------------------------------------------------------------
(* A dictionary with some entries taken out.                               *)
Shrunk(g, f) == DOMAIN g \subseteq DOMAIN f /\ \A k \in DOMAIN g : g[k] = f[k]

LEMMA DictType ==
  ASSUME NEW K, NEW f
  PROVE  f \in Dict(K) <=> /\ f = [k \in DOMAIN f |-> f[k]]
                           /\ DOMAIN f \subseteq K
                           /\ \A k \in DOMAIN f : f[k] \in Times
BY DEF Dict

LEMMA RestrictDict ==
  ASSUME NEW K, NEW f \in Dict(K), NEW S \in SUBSET DOMAIN f
  PROVE  /\ Restrict(f, S) \in Dict(K)
         /\ DOMAIN Restrict(f, S) = S
         /\ Shrunk(Restrict(f, S), f)
BY DictType DEF Restrict, Shrunk

LEMMA DropDict ==
  ASSUME NEW K, NEW f \in Dict(K), NEW k
  PROVE  /\ Drop(f, k) \in Dict(K)
         /\ DOMAIN Drop(f, k) = DOMAIN f \ {k}
         /\ Shrunk(Drop(f, k), f)
BY RestrictDict, DOMAIN f \ {k} \in SUBSET DOMAIN f DEF Drop

LEMMA DateDict ==
  ASSUME NEW K, NEW f \in Dict(K), NEW k \in K, NEW t \in Times
  PROVE  /\ Date(f, k, t) \in Dict(K)
         /\ DOMAIN Date(f, k, t) = DOMAIN f \cup {k}
         /\ \A x \in DOMAIN f \cup {k} : Date(f, k, t)[x] = IF x = k THEN t ELSE f[x]
<1> DEFINE g == [x \in DOMAIN f \cup {k} |-> IF x = k THEN t ELSE f[x]]
<1>1. DOMAIN f \in SUBSET K /\ \A x \in DOMAIN f : f[x] \in Times
  BY DictType
<1>2. DOMAIN f \cup {k} \in SUBSET K /\ \A x \in DOMAIN f \cup {k} : g[x] \in Times
  BY <1>1
<1>3. g \in [DOMAIN f \cup {k} -> Times]
  BY <1>2
<1>4. Date(f, k, t) = g
  BY DEF Date
<1> QED BY <1>2, <1>3, <1>4, DictType

LEMMA NothingDict ==
  ASSUME NEW K
  PROVE  Nothing \in Dict(K) /\ DOMAIN Nothing = {}
<1>1. DOMAIN Nothing = {} /\ Nothing = [k \in DOMAIN Nothing |-> Nothing[k]]
  BY DEF Nothing
<1> QED BY <1>1, DictType

LEMMA RecentDict ==
  ASSUME NEW K, NEW f \in Dict(K), NEW t \in Times
  PROVE  /\ Recent(f, t) \in Dict(K)
         /\ DOMAIN Recent(f, t) = {k \in DOMAIN f : f[k] >= t - TTL}
         /\ Shrunk(Recent(f, t), f)
BY RestrictDict, {k \in DOMAIN f : f[k] >= t - TTL} \in SUBSET DOMAIN f DEF Recent

(* Whichever entries are the oldest, Trim only takes some out, and none    *)
(* while there is room.                                                    *)
LEMMA TrimDict ==
  ASSUME NEW K, NEW f \in Dict(K)
  PROVE  /\ Trim(f) \in Dict(K)
         /\ Shrunk(Trim(f), f)
         /\ Cardinality(DOMAIN f) \in Nat /\ Cardinality(DOMAIN f) <= MaxEntries => Trim(f) = f
<1> DEFINE overflow == Cardinality(DOMAIN f) - MaxEntries
           oldest == CHOOSE S \in SUBSET DOMAIN f :
                       /\ Cardinality(S) = overflow
                       /\ \A k \in S, l \in DOMAIN f \ S : f[k] <= f[l]
<1>1. Trim(f) = IF overflow <= 0 THEN f ELSE Restrict(f, DOMAIN f \ oldest)
  BY DEF Trim
<1>2. DOMAIN f \ oldest \in SUBSET DOMAIN f
  OBVIOUS
<1> HIDE DEF oldest
<1>3. Shrunk(f, f)
  BY DEF Shrunk
<1>4. Trim(f) \in Dict(K) /\ Shrunk(Trim(f), f)
  BY <1>1, <1>2, <1>3, RestrictDict
<1>5. Cardinality(DOMAIN f) \in Nat /\ Cardinality(DOMAIN f) <= MaxEntries => overflow <= 0
  BY TimeAssumption
<1> QED BY <1>1, <1>4, <1>5

(* What cleanup keeps: recent entries, as they were, and with room for all *)
(* of them all recent ones.                                                *)
Kept(f, t) == Trim(Recent(f, t))

LEMMA KeptDict ==
  ASSUME NEW K, NEW f \in Dict(K), NEW t \in Times
  PROVE  /\ Kept(f, t) \in Dict(K)
         /\ Shrunk(Kept(f, t), f)
         /\ \A k \in DOMAIN Kept(f, t) : f[k] >= t - TTL
         /\ IsFiniteSet(DOMAIN f) /\ Cardinality(DOMAIN f) <= MaxEntries =>
              \A k \in DOMAIN f : f[k] >= t - TTL => k \in DOMAIN Kept(f, t)
<1> DEFINE g == Recent(f, t)
<1>1. /\ g \in Dict(K) /\ Shrunk(g, f)
      /\ DOMAIN g = {k \in DOMAIN f : f[k] >= t - TTL}
  BY RecentDict
<1>2. Trim(g) \in Dict(K) /\ Shrunk(Trim(g), g)
  BY <1>1, TrimDict
<1>3. ASSUME IsFiniteSet(DOMAIN f), Cardinality(DOMAIN f) <= MaxEntries
      PROVE  Trim(g) = g
  <2>1. DOMAIN g \in SUBSET DOMAIN f
    BY <1>1
  <2>2. /\ Cardinality(DOMAIN g) \in Nat /\ Cardinality(DOMAIN f) \in Nat
        /\ Cardinality(DOMAIN g) <= Cardinality(DOMAIN f)
    BY <1>3, <2>1, FS_Subset, FS_CardinalityType
  <2>3. Cardinality(DOMAIN g) <= MaxEntries
    BY <1>3, <2>2, TimeAssumption
  <2> QED BY <1>1, <2>2, <2>3, TrimDict
<1> HIDE DEF g
<1>4. Kept(f, t) = Trim(g)
  BY DEF Kept, g
<1> QED BY <1>1, <1>2, <1>3, <1>4 DEF Shrunk

-----------------------------------------------------------------------------
(* The four dictionaries of a replica, through each of the operations.     *)
LEMMA KeysOf ==
  ASSUME NEW q \in Requests
  PROVE  NonceOf[q] \in Nonces /\ DeliveryOf[q] \in Deliveries
BY DEF Nonces, Deliveries

LEMMA NoNotesType == NoNotes \in Notes
BY NothingDict DEF NoNotes, Notes

LEMMA CleanupNotes ==
  ASSUME NEW n \in Notes, NEW t \in Times
  PROVE  /\ Cleanup(n, t) \in Notes
         /\ Cleanup(n, t).nonceSeen = Kept(n.nonceSeen, t)
         /\ Cleanup(n, t).deliverySeen = Kept(n.deliverySeen, t)
         /\ Cleanup(n, t).nonceHeld = Kept(n.nonceHeld, t)
         /\ Cleanup(n, t).deliveryHeld = Kept(n.deliveryHeld, t)
<1>1. DOMAIN n = {"nonceSeen", "deliverySeen", "nonceHeld", "deliveryHeld"}
  BY DEF Notes
<1>2. Cleanup(n, t) = [nonceSeen |-> Kept(n.nonceSeen, t), deliverySeen |-> Kept(n.deliverySeen, t),
                       nonceHeld |-> Kept(n.nonceHeld, t), deliveryHeld |-> Kept(n.deliveryHeld, t)]
  BY <1>1 DEF Cleanup, Kept
<1>3. /\ Kept(n.nonceSeen, t) \in Dict(Nonces) /\ Kept(n.nonceHeld, t) \in Dict(Nonces)
      /\ Kept(n.deliverySeen, t) \in Dict(Deliveries) /\ Kept(n.deliveryHeld, t) \in Dict(Deliveries)
  BY KeptDict DEF Notes
<1> QED BY <1>2, <1>3 DEF Notes

LEMMA HoldNotes ==
  ASSUME NEW n \in Notes, NEW t \in Times, NEW q \in Requests
  PROVE  /\ Hold(q, n, t) \in Notes
         /\ Hold(q, n, t).nonceSeen = n.nonceSeen
         /\ Hold(q, n, t).deliverySeen = n.deliverySeen
         /\ Hold(q, n, t).nonceHeld = Date(n.nonceHeld, NonceOf[q], t)
         /\ Hold(q, n, t).deliveryHeld = Date(n.deliveryHeld, DeliveryOf[q], t)
<1>1. /\ Date(n.nonceHeld, NonceOf[q], t) \in Dict(Nonces)
      /\ Date(n.deliveryHeld, DeliveryOf[q], t) \in Dict(Deliveries)
  BY KeysOf, DateDict DEF Notes
<1> QED BY <1>1 DEF Hold, Notes

LEMMA LetGoNotes ==
  ASSUME NEW n \in Notes, NEW q \in Requests
  PROVE  /\ LetGo(q, n) \in Notes
         /\ LetGo(q, n).nonceSeen = n.nonceSeen
         /\ LetGo(q, n).deliverySeen = n.deliverySeen
         /\ LetGo(q, n).nonceHeld = Drop(n.nonceHeld, NonceOf[q])
         /\ LetGo(q, n).deliveryHeld = Drop(n.deliveryHeld, DeliveryOf[q])
<1>1. /\ Drop(n.nonceHeld, NonceOf[q]) \in Dict(Nonces)
      /\ Drop(n.deliveryHeld, DeliveryOf[q]) \in Dict(Deliveries)
  BY DropDict DEF Notes
<1> QED BY <1>1 DEF LetGo, Notes

LEMMA SettleNotes ==
  ASSUME NEW n \in Notes, NEW t \in Times, NEW q \in Requests
  PROVE  /\ Settle(q, n, t) \in Notes
         /\ Settle(q, n, t).nonceSeen = Date(n.nonceSeen, NonceOf[q], t)
         /\ Settle(q, n, t).deliverySeen = Date(n.deliverySeen, DeliveryOf[q], t)
         /\ Settle(q, n, t).nonceHeld = Drop(n.nonceHeld, NonceOf[q])
         /\ Settle(q, n, t).deliveryHeld = Drop(n.deliveryHeld, DeliveryOf[q])
<1> DEFINE m == LetGo(q, n)
<1>1. /\ m \in Notes /\ m.nonceSeen = n.nonceSeen /\ m.deliverySeen = n.deliverySeen
      /\ m.nonceHeld = Drop(n.nonceHeld, NonceOf[q])
      /\ m.deliveryHeld = Drop(n.deliveryHeld, DeliveryOf[q])
  BY LetGoNotes
<1>2. Settle(q, n, t) = [m EXCEPT !.nonceSeen = Date(@, NonceOf[q], t),
                                  !.deliverySeen = Date(@, DeliveryOf[q], t)]
  BY DEF Settle
<1> HIDE DEF m
<1>3. /\ Date(m.nonceSeen, NonceOf[q], t) \in Dict(Nonces)
      /\ Date(m.deliverySeen, DeliveryOf[q], t) \in Dict(Deliveries)
  BY <1>1, KeysOf, DateDict DEF Notes
<1> QED BY <1>1, <1>2, <1>3 DEF Notes

-----------------------------------------------------------------------------
(* Type correctness.                                                       *)
LEMMA TakeType ==
  ASSUME TypeOK, NEW q \in Requests, NEW r \in Replicas, NEW n \in Notes,
         NEW answer \in {"ignored", "enqueueing"}, Take(q, r, answer, n),
         UNCHANGED <<now, done, restarts>>
  PROVE  TypeOK'
BY DEF Take, TypeOK

LEMMA ReserveType ==
  ASSUME TypeOK, NEW q \in Requests, NEW r \in Replicas, Reserve(q, r)
  PROVE  TypeOK'
<1> DEFINE kept == Cleanup(notes[r], now)
<1>1. kept \in Notes /\ Hold(q, kept, now) \in Notes
  BY CleanupNotes, HoldNotes DEF TypeOK
<1>2. /\ UNCHANGED <<now, done, restarts>>
      /\ Take(q, r, "ignored", kept) \/ Take(q, r, "enqueueing", Hold(q, kept, now))
  BY DEF Reserve
<1> HIDE DEF kept
<1> QED BY <1>1, <1>2, TakeType

LEMMA CommitType ==
  ASSUME TypeOK, Placed, NEW q \in Requests, Commit(q)
  PROVE  TypeOK'
<1>1. at[q] \in Replicas /\ notes[at[q]] \in Notes /\ now \in Times
  BY DEF Commit, Placed, TypeOK
<1>2. Settle(q, Cleanup(notes[at[q]], now), now) \in Notes
  BY <1>1, CleanupNotes, SettleNotes
<1> QED BY <1>1, <1>2 DEF Commit, TypeOK

LEMMA ReleaseType ==
  ASSUME TypeOK, Placed, NEW q \in Requests, Release(q)
  PROVE  TypeOK'
<1>1. at[q] \in Replicas /\ notes[at[q]] \in Notes
  BY DEF Release, Placed, TypeOK
<1>2. LetGo(q, notes[at[q]]) \in Notes
  BY <1>1, LetGoNotes
<1> QED BY <1>1, <1>2 DEF Release, TypeOK

LEMMA TypeStep == TypeOK /\ Placed /\ [Next]_vars => TypeOK'
<1> SUFFICES ASSUME TypeOK, Placed, [Next]_vars PROVE TypeOK'
  OBVIOUS
<1>1. ASSUME NEW q \in Requests, NEW r \in Replicas, Reject(q, r) PROVE TypeOK'
  BY <1>1 DEF Reject, TypeOK
<1>2. ASSUME NEW q \in Requests, NEW r \in Replicas, Reserve(q, r) PROVE TypeOK'
  BY <1>2, ReserveType
<1>3. ASSUME NEW q \in Requests, Commit(q) \/ Release(q) PROVE TypeOK'
  BY <1>3, CommitType, ReleaseType
<1>4. ASSUME NEW r \in Replicas, Restart(r) PROVE TypeOK'
  BY <1>4, NoNotesType DEF Restart, TypeOK
<1>5. CASE Tick
  BY <1>5, TimeAssumption DEF Tick, TypeOK, Times
<1>6. CASE UNCHANGED vars
  BY <1>6 DEF vars, TypeOK
<1> QED BY <1>1, <1>2, <1>3, <1>4, <1>5, <1>6 DEF Next

LEMMA PlacedStep == TypeOK /\ Placed /\ [Next]_vars => Placed'
<1> SUFFICES ASSUME TypeOK, Placed, [Next]_vars PROVE Placed'
  OBVIOUS
<1>1. ASSUME NEW q \in Requests, NEW r \in Replicas, Reject(q, r) \/ Reserve(q, r)
      PROVE  Placed'
  BY <1>1 DEF Reject, Reserve, Take, TypeOK, Placed
<1>2. ASSUME NEW q \in Requests, Commit(q) \/ Release(q) PROVE Placed'
  BY <1>2 DEF Commit, Release, TypeOK, Placed
<1>3. ASSUME NEW r \in Replicas, Restart(r) PROVE Placed'
  BY <1>3 DEF Restart, TypeOK, Placed
<1> QED BY <1>1, <1>2, <1>3 DEF Next, Tick, vars, TypeOK, Placed

LEMMA InFlightStep == TypeOK /\ InFlight /\ [Next]_vars => InFlight'
<1> SUFFICES ASSUME TypeOK, InFlight, [Next]_vars PROVE InFlight'
  OBVIOUS
<1> USE TimeAssumption DEF TypeOK, InFlight, Times
<1>1. ASSUME NEW q \in Requests, NEW r \in Replicas, Reject(q, r) \/ Reserve(q, r)
      PROVE  InFlight'
  BY <1>1 DEF Reject, Reserve, Take
<1>2. ASSUME NEW q \in Requests, Commit(q) \/ Release(q) PROVE InFlight'
  BY <1>2 DEF Commit, Release
<1>3. ASSUME NEW r \in Replicas, Restart(r) PROVE InFlight'
  BY <1>3 DEF Restart
<1>4. CASE Tick
  BY <1>4 DEF Tick
<1> QED BY <1>1, <1>2, <1>3, <1>4 DEF Next, vars

(* Every variable stays in its type. *)
THEOREM TypeCorrect == Spec => []TypeOK
<1>1. Init => TypeOK /\ Placed
  BY NoNotesType, TimeAssumption DEF Init, TypeOK, Placed, Times
<1> QED BY <1>1, TypeStep, PlacedStep, PTL DEF Spec

-----------------------------------------------------------------------------
(* What the notes say is backed by the requests.                           *)
SameBut(q) == \A x \in Requests \ {q} :
  pc'[x] = pc[x] /\ at'[x] = at[x] /\ took'[x] = took[x] /\ done'[x] = done[x]

LEMMA HeldStep ==
  ASSUME NEW K, NEW r, NEW q \in Requests, NEW h, NEW g, HeldFor(h, K, r), SameBut(q),
         \A k \in DOMAIN g :
           \/ k \in DOMAIN h /\ (k # K[q] \/ pc[q] # "enqueueing" \/ at[q] # r)
           \/ k = K[q] /\ pc'[q] = "enqueueing" /\ at'[q] = r
  PROVE  HeldFor(g, K, r)'
BY DEF HeldFor, SameBut

LEMMA SeenStep ==
  ASSUME NEW K, NEW q \in Requests, NEW s, NEW g, SeenFor(s, K), SameBut(q),
         pc[q] # "processing",
         \A k \in DOMAIN g :
           \/ k \in DOMAIN s /\ g[k] = s[k]
           \/ k = K[q] /\ pc'[q] = "processing" /\ done'[q] >= g[k]
  PROVE  SeenFor(g, K)'
BY DEF SeenFor, SameBut

(* A replica whose notes a step of q leaves alone. *)
LEMMA BackedElsewhere ==
  ASSUME NEW r \in Replicas, NEW q \in Requests, Backed(r), SameBut(q), notes'[r] = notes[r],
         pc[q] # "processing", pc[q] = "enqueueing" => at[q] # r
  PROVE  Backed(r)'
<1>1. /\ HeldFor(notes[r].nonceHeld, NonceOf, r)' /\ HeldFor(notes[r].deliveryHeld, DeliveryOf, r)'
  BY HeldStep DEF Backed
<1>2. SeenFor(notes[r].nonceSeen, NonceOf)' /\ SeenFor(notes[r].deliverySeen, DeliveryOf)'
  BY SeenStep DEF Backed
<1> QED BY <1>1, <1>2 DEF Backed

LEMMA TakeIs ==
  ASSUME TypeOK, NEW q \in Requests, NEW r \in Replicas, Reserve(q, r)
  PROVE  /\ SameBut(q) /\ pc[q] = "idle" /\ at'[q] = r /\ took'[q] = now
         /\ now' = now /\ restarts' = restarts /\ done' = done
         /\ \A x \in Replicas \ {r} : notes'[x] = notes[x]
         /\ notes'[r] \in Notes
         /\ \/ /\ pc'[q] = "ignored" /\ IsDuplicate(q, Cleanup(notes[r], now))
               /\ notes'[r] = Cleanup(notes[r], now)
            \/ /\ pc'[q] = "enqueueing" /\ ~IsDuplicate(q, Cleanup(notes[r], now))
               /\ notes'[r] = Hold(q, Cleanup(notes[r], now), now)
<1> DEFINE kept == Cleanup(notes[r], now)
<1>1. kept \in Notes /\ Hold(q, kept, now) \in Notes
  BY CleanupNotes, HoldNotes DEF TypeOK
<1>2. /\ UNCHANGED <<now, done, restarts>> /\ pc[q] = "idle"
      /\ \/ IsDuplicate(q, kept) /\ Take(q, r, "ignored", kept)
         \/ ~IsDuplicate(q, kept) /\ Take(q, r, "enqueueing", Hold(q, kept, now))
  BY DEF Reserve
<1> HIDE DEF kept
<1>3. ASSUME NEW a, NEW n, Take(q, r, a, n), done' = done
      PROVE  /\ SameBut(q) /\ at'[q] = r /\ took'[q] = now /\ pc'[q] = a /\ notes'[r] = n
             /\ \A x \in Replicas \ {r} : notes'[x] = notes[x]
  BY <1>3 DEF Take, TypeOK, SameBut
<1>4. /\ SameBut(q) /\ at'[q] = r /\ took'[q] = now
      /\ \A x \in Replicas \ {r} : notes'[x] = notes[x]
      /\ \/ pc'[q] = "ignored" /\ IsDuplicate(q, kept) /\ notes'[r] = kept
         \/ /\ pc'[q] = "enqueueing" /\ ~IsDuplicate(q, kept)
            /\ notes'[r] = Hold(q, kept, now)
  BY <1>2, <1>3
<1> QED BY <1>1, <1>2, <1>4 DEF kept

LEMMA CommitIs ==
  ASSUME TypeOK, Placed, NEW q \in Requests, Commit(q)
  PROVE  /\ SameBut(q) /\ pc[q] = "enqueueing" /\ pc'[q] = "processing"
         /\ at[q] \in Replicas /\ at' = at /\ took' = took /\ done'[q] = now
         /\ now' = now /\ restarts' = restarts
         /\ \A x \in Replicas \ {at[q]} : notes'[x] = notes[x]
         /\ notes'[at[q]] = Settle(q, Cleanup(notes[at[q]], now), now)
BY DEF Commit, TypeOK, Placed, SameBut

LEMMA ReleaseIs ==
  ASSUME TypeOK, Placed, NEW q \in Requests, Release(q)
  PROVE  /\ SameBut(q) /\ pc[q] = "enqueueing" /\ pc'[q] = "error"
         /\ at[q] \in Replicas /\ at' = at /\ took' = took /\ done' = done
         /\ now' = now /\ restarts' = restarts
         /\ \A x \in Replicas \ {at[q]} : notes'[x] = notes[x]
         /\ notes'[at[q]] = LetGo(q, notes[at[q]])
BY DEF Release, TypeOK, Placed, SameBut

(* The entries of the dictionaries of a replica, after each operation.     *)
LEMMA CleanupEntries ==
  ASSUME NEW n \in Notes, NEW t \in Times, NEW m, m = Cleanup(n, t)
  PROVE  /\ m \in Notes
         /\ Shrunk(m.nonceSeen, n.nonceSeen) /\ Shrunk(m.deliverySeen, n.deliverySeen)
         /\ Shrunk(m.nonceHeld, n.nonceHeld) /\ Shrunk(m.deliveryHeld, n.deliveryHeld)
         /\ \A k \in DOMAIN m.nonceSeen : m.nonceSeen[k] >= t - TTL
         /\ \A k \in DOMAIN m.deliverySeen : m.deliverySeen[k] >= t - TTL
<1>1. /\ m \in Notes
      /\ m.nonceSeen = Kept(n.nonceSeen, t) /\ m.deliverySeen = Kept(n.deliverySeen, t)
      /\ m.nonceHeld = Kept(n.nonceHeld, t) /\ m.deliveryHeld = Kept(n.deliveryHeld, t)
  BY CleanupNotes
<1>2. /\ n.nonceSeen \in Dict(Nonces) /\ n.deliverySeen \in Dict(Deliveries)
      /\ n.nonceHeld \in Dict(Nonces) /\ n.deliveryHeld \in Dict(Deliveries)
  BY DEF Notes
<1>3. /\ Shrunk(Kept(n.nonceSeen, t), n.nonceSeen)
      /\ \A k \in DOMAIN Kept(n.nonceSeen, t) : n.nonceSeen[k] >= t - TTL
  BY <1>2, KeptDict
<1>4. /\ Shrunk(Kept(n.deliverySeen, t), n.deliverySeen)
      /\ \A k \in DOMAIN Kept(n.deliverySeen, t) : n.deliverySeen[k] >= t - TTL
  BY <1>2, KeptDict
<1>5. /\ Shrunk(Kept(n.nonceHeld, t), n.nonceHeld)
      /\ Shrunk(Kept(n.deliveryHeld, t), n.deliveryHeld)
  BY <1>2, KeptDict
<1> QED BY <1>1, <1>3, <1>4, <1>5 DEF Shrunk

Dated(g, f, k, t) ==
  /\ DOMAIN g = DOMAIN f \cup {k}
  /\ \A x \in DOMAIN g : g[x] = IF x = k THEN t ELSE f[x]

Dropped(g, f, k) == DOMAIN g = DOMAIN f \ {k} /\ \A x \in DOMAIN g : g[x] = f[x]

LEMMA DatedIs ==
  ASSUME NEW K, NEW f \in Dict(K), NEW k \in K, NEW t \in Times
  PROVE  Dated(Date(f, k, t), f, k, t)
<1>1. DOMAIN Date(f, k, t) = DOMAIN f \cup {k}
  BY DEF Date
<1>2. \A x \in DOMAIN f \cup {k} : Date(f, k, t)[x] = IF x = k THEN t ELSE f[x]
  BY DEF Date
<1> QED BY <1>1, <1>2 DEF Dated

LEMMA DroppedIs ==
  ASSUME NEW K, NEW f \in Dict(K), NEW k
  PROVE  Dropped(Drop(f, k), f, k)
<1>1. DOMAIN Drop(f, k) = DOMAIN f \ {k} /\ Shrunk(Drop(f, k), f)
  BY DropDict
<1> QED BY <1>1 DEF Dropped, Shrunk

LEMMA HoldEntries ==
  ASSUME NEW m \in Notes, NEW t \in Times, NEW q \in Requests, NEW w, w = Hold(q, m, t)
  PROVE  /\ w.nonceSeen = m.nonceSeen /\ w.deliverySeen = m.deliverySeen
         /\ Dated(w.nonceHeld, m.nonceHeld, NonceOf[q], t)
         /\ Dated(w.deliveryHeld, m.deliveryHeld, DeliveryOf[q], t)
<1>1. /\ w.nonceSeen = m.nonceSeen /\ w.deliverySeen = m.deliverySeen
      /\ w.nonceHeld = Date(m.nonceHeld, NonceOf[q], t)
      /\ w.deliveryHeld = Date(m.deliveryHeld, DeliveryOf[q], t)
  BY HoldNotes
<1>2. m.nonceHeld \in Dict(Nonces) /\ m.deliveryHeld \in Dict(Deliveries)
  BY DEF Notes
<1>3. Dated(w.nonceHeld, m.nonceHeld, NonceOf[q], t)
  <2>1. NonceOf[q] \in Nonces
    BY KeysOf
  <2>2. Dated(Date(m.nonceHeld, NonceOf[q], t), m.nonceHeld, NonceOf[q], t)
    BY <1>2, <2>1, DatedIs
  <2> QED BY <1>1, <2>2
<1>4. Dated(w.deliveryHeld, m.deliveryHeld, DeliveryOf[q], t)
  <2>1. DeliveryOf[q] \in Deliveries
    BY KeysOf
  <2>2. Dated(Date(m.deliveryHeld, DeliveryOf[q], t), m.deliveryHeld, DeliveryOf[q], t)
    BY <1>2, <2>1, DatedIs
  <2> QED BY <1>1, <2>2
<1> QED BY <1>1, <1>3, <1>4

LEMMA LetGoEntries ==
  ASSUME NEW m \in Notes, NEW q \in Requests, NEW w, w = LetGo(q, m)
  PROVE  /\ w.nonceSeen = m.nonceSeen /\ w.deliverySeen = m.deliverySeen
         /\ Dropped(w.nonceHeld, m.nonceHeld, NonceOf[q])
         /\ Dropped(w.deliveryHeld, m.deliveryHeld, DeliveryOf[q])
<1>1. /\ w.nonceSeen = m.nonceSeen /\ w.deliverySeen = m.deliverySeen
      /\ w.nonceHeld = Drop(m.nonceHeld, NonceOf[q])
      /\ w.deliveryHeld = Drop(m.deliveryHeld, DeliveryOf[q])
  BY LetGoNotes
<1>2. m.nonceHeld \in Dict(Nonces) /\ m.deliveryHeld \in Dict(Deliveries)
  BY DEF Notes
<1>3. Dropped(Drop(m.nonceHeld, NonceOf[q]), m.nonceHeld, NonceOf[q])
  BY <1>2, DroppedIs
<1>4. Dropped(Drop(m.deliveryHeld, DeliveryOf[q]), m.deliveryHeld, DeliveryOf[q])
  BY <1>2, DroppedIs
<1> QED BY <1>1, <1>3, <1>4

LEMMA SettleEntries ==
  ASSUME NEW m \in Notes, NEW t \in Times, NEW q \in Requests, NEW w, w = Settle(q, m, t)
  PROVE  /\ Dated(w.nonceSeen, m.nonceSeen, NonceOf[q], t)
         /\ Dated(w.deliverySeen, m.deliverySeen, DeliveryOf[q], t)
         /\ Dropped(w.nonceHeld, m.nonceHeld, NonceOf[q])
         /\ Dropped(w.deliveryHeld, m.deliveryHeld, DeliveryOf[q])
<1>1. /\ w.nonceSeen = Date(m.nonceSeen, NonceOf[q], t)
      /\ w.deliverySeen = Date(m.deliverySeen, DeliveryOf[q], t)
      /\ w.nonceHeld = Drop(m.nonceHeld, NonceOf[q])
      /\ w.deliveryHeld = Drop(m.deliveryHeld, DeliveryOf[q])
  BY SettleNotes
<1>2. /\ m.nonceSeen \in Dict(Nonces) /\ m.deliverySeen \in Dict(Deliveries)
      /\ m.nonceHeld \in Dict(Nonces) /\ m.deliveryHeld \in Dict(Deliveries)
  BY DEF Notes
<1>3. Dated(w.nonceSeen, m.nonceSeen, NonceOf[q], t)
  <2>1. NonceOf[q] \in Nonces
    BY KeysOf
  <2>2. Dated(Date(m.nonceSeen, NonceOf[q], t), m.nonceSeen, NonceOf[q], t)
    BY <1>2, <2>1, DatedIs
  <2> QED BY <1>1, <2>2
<1>4. Dated(w.deliverySeen, m.deliverySeen, DeliveryOf[q], t)
  <2>1. DeliveryOf[q] \in Deliveries
    BY KeysOf
  <2>2. Dated(Date(m.deliverySeen, DeliveryOf[q], t), m.deliverySeen, DeliveryOf[q], t)
    BY <1>2, <2>1, DatedIs
  <2> QED BY <1>1, <2>2
<1>5. /\ Dropped(w.nonceHeld, m.nonceHeld, NonceOf[q])
      /\ Dropped(w.deliveryHeld, m.deliveryHeld, DeliveryOf[q])
  <2>1. Dropped(Drop(m.nonceHeld, NonceOf[q]), m.nonceHeld, NonceOf[q])
    BY <1>2, DroppedIs
  <2>2. Dropped(Drop(m.deliveryHeld, DeliveryOf[q]), m.deliveryHeld, DeliveryOf[q])
    BY <1>2, DroppedIs
  <2> QED BY <1>1, <2>1, <2>2
<1> QED BY <1>3, <1>4, <1>5

LEMMA ReserveBacked ==
  ASSUME TypeOK, \A x \in Replicas : Backed(x),
         NEW q \in Requests, NEW r \in Replicas, Reserve(q, r), NEW x \in Replicas
  PROVE  Backed(x)'
<1>1. CASE x # r
  BY <1>1, TakeIs, BackedElsewhere
<1>2. CASE x = r
  <2>1. PICK n : n = notes[r]
    OBVIOUS
  <2>2. PICK m : m = Cleanup(n, now)
    OBVIOUS
  <2>3. PICK w : w = notes'[r]
    OBVIOUS
  <2>4. n \in Notes /\ now \in Times
    BY <2>1 DEF TypeOK
  <2>5. /\ m \in Notes
        /\ Shrunk(m.nonceSeen, n.nonceSeen) /\ Shrunk(m.deliverySeen, n.deliverySeen)
        /\ Shrunk(m.nonceHeld, n.nonceHeld) /\ Shrunk(m.deliveryHeld, n.deliveryHeld)
    BY <2>2, <2>4, CleanupEntries
  <2>6. /\ HeldFor(n.nonceHeld, NonceOf, r) /\ HeldFor(n.deliveryHeld, DeliveryOf, r)
        /\ SeenFor(n.nonceSeen, NonceOf) /\ SeenFor(n.deliverySeen, DeliveryOf)
    BY <2>1 DEF Backed
  <2>7. /\ SameBut(q) /\ pc[q] = "idle" /\ at'[q] = r
        /\ w = m \/ (pc'[q] = "enqueueing" /\ w = Hold(q, m, now))
    BY <2>1, <2>2, <2>3, TakeIs
  <2>8. /\ w.nonceSeen = m.nonceSeen /\ w.deliverySeen = m.deliverySeen
        /\ \/ w.nonceHeld = m.nonceHeld /\ w.deliveryHeld = m.deliveryHeld
           \/ /\ pc'[q] = "enqueueing"
              /\ Dated(w.nonceHeld, m.nonceHeld, NonceOf[q], now)
              /\ Dated(w.deliveryHeld, m.deliveryHeld, DeliveryOf[q], now)
    BY <2>4, <2>5, <2>7, HoldEntries
  <2>9. HeldFor(w.nonceHeld, NonceOf, r)' /\ HeldFor(w.deliveryHeld, DeliveryOf, r)'
    BY <2>5, <2>6, <2>7, <2>8, HeldStep DEF Shrunk, Dated
  <2>10. SeenFor(w.nonceSeen, NonceOf)' /\ SeenFor(w.deliverySeen, DeliveryOf)'
    BY <2>5, <2>6, <2>7, <2>8, SeenStep DEF Shrunk
  <2> QED BY <1>2, <2>3, <2>9, <2>10 DEF Backed, HeldFor, SeenFor
<1> QED BY <1>1, <1>2

LEMMA CommitBacked ==
  ASSUME TypeOK, Placed, \A x \in Replicas : Backed(x),
         NEW q \in Requests, Commit(q), NEW x \in Replicas
  PROVE  Backed(x)'
<1>1. CASE x # at[q]
  BY <1>1, CommitIs, BackedElsewhere
<1>2. CASE x = at[q]
  <2>1. PICK n : n = notes[x]
    OBVIOUS
  <2>2. PICK m : m = Cleanup(n, now)
    OBVIOUS
  <2>3. PICK w : w = notes'[x]
    OBVIOUS
  <2>4. n \in Notes /\ now \in Times
    BY <2>1 DEF TypeOK
  <2>5. /\ m \in Notes
        /\ Shrunk(m.nonceSeen, n.nonceSeen) /\ Shrunk(m.deliverySeen, n.deliverySeen)
        /\ Shrunk(m.nonceHeld, n.nonceHeld) /\ Shrunk(m.deliveryHeld, n.deliveryHeld)
    BY <2>2, <2>4, CleanupEntries
  <2>6. /\ HeldFor(n.nonceHeld, NonceOf, x) /\ HeldFor(n.deliveryHeld, DeliveryOf, x)
        /\ SeenFor(n.nonceSeen, NonceOf) /\ SeenFor(n.deliverySeen, DeliveryOf)
    BY <2>1 DEF Backed
  <2>7. /\ SameBut(q) /\ pc[q] = "enqueueing" /\ pc'[q] = "processing" /\ done'[q] = now
        /\ w = Settle(q, m, now)
    BY <1>2, <2>1, <2>2, <2>3, CommitIs
  <2>8. /\ Dated(w.nonceSeen, m.nonceSeen, NonceOf[q], now)
        /\ Dated(w.deliverySeen, m.deliverySeen, DeliveryOf[q], now)
        /\ Dropped(w.nonceHeld, m.nonceHeld, NonceOf[q])
        /\ Dropped(w.deliveryHeld, m.deliveryHeld, DeliveryOf[q])
    BY <2>4, <2>5, <2>7, SettleEntries
  <2>9. HeldFor(w.nonceHeld, NonceOf, x)' /\ HeldFor(w.deliveryHeld, DeliveryOf, x)'
    BY <2>5, <2>6, <2>7, <2>8, HeldStep DEF Shrunk, Dropped
  <2>10. now >= now
    BY <2>4 DEF Times
  <2>11. SeenFor(w.nonceSeen, NonceOf)' /\ SeenFor(w.deliverySeen, DeliveryOf)'
    BY <2>5, <2>6, <2>7, <2>8, <2>10, SeenStep DEF Shrunk, Dated
  <2> QED BY <2>3, <2>9, <2>11 DEF Backed, HeldFor, SeenFor
<1> QED BY <1>1, <1>2

LEMMA ReleaseBacked ==
  ASSUME TypeOK, Placed, \A x \in Replicas : Backed(x),
         NEW q \in Requests, Release(q), NEW x \in Replicas
  PROVE  Backed(x)'
<1>1. CASE x # at[q]
  BY <1>1, ReleaseIs, BackedElsewhere
<1>2. CASE x = at[q]
  <2>1. PICK m : m = notes[x]
    OBVIOUS
  <2>2. PICK w : w = notes'[x]
    OBVIOUS
  <2>3. m \in Notes
    BY <2>1 DEF TypeOK
  <2>4. /\ HeldFor(m.nonceHeld, NonceOf, x) /\ HeldFor(m.deliveryHeld, DeliveryOf, x)
        /\ SeenFor(m.nonceSeen, NonceOf) /\ SeenFor(m.deliverySeen, DeliveryOf)
    BY <2>1 DEF Backed
  <2>5. SameBut(q) /\ pc[q] = "enqueueing" /\ w = LetGo(q, m)
    BY <1>2, <2>1, <2>2, ReleaseIs
  <2>6. /\ w.nonceSeen = m.nonceSeen /\ w.deliverySeen = m.deliverySeen
        /\ Dropped(w.nonceHeld, m.nonceHeld, NonceOf[q])
        /\ Dropped(w.deliveryHeld, m.deliveryHeld, DeliveryOf[q])
    BY <2>3, <2>5, LetGoEntries
  <2>7. HeldFor(w.nonceHeld, NonceOf, x)' /\ HeldFor(w.deliveryHeld, DeliveryOf, x)'
    BY <2>4, <2>5, <2>6, HeldStep DEF Dropped
  <2>8. SeenFor(w.nonceSeen, NonceOf)' /\ SeenFor(w.deliverySeen, DeliveryOf)'
    BY <2>4, <2>5, <2>6, SeenStep
  <2> QED BY <2>2, <2>7, <2>8 DEF Backed, HeldFor, SeenFor
<1> QED BY <1>1, <1>2

LEMMA BackedStep ==
  TypeOK /\ Placed /\ (\A r \in Replicas : Backed(r)) /\ [Next]_vars => \A r \in Replicas : Backed(r)'
<1> SUFFICES ASSUME TypeOK, Placed, \A r \in Replicas : Backed(r), [Next]_vars, NEW x \in Replicas
             PROVE  Backed(x)'
  OBVIOUS
<1>1. ASSUME NEW q \in Requests, NEW r \in Replicas, Reject(q, r) PROVE Backed(x)'
  <2>1. SameBut(q) /\ pc[q] = "idle" /\ notes' = notes
    BY <1>1 DEF Reject, SameBut, TypeOK
  <2> QED BY <2>1, BackedElsewhere
<1>2. ASSUME NEW q \in Requests, NEW r \in Replicas, Reserve(q, r) PROVE Backed(x)'
  BY <1>2, ReserveBacked
<1>3. ASSUME NEW q \in Requests, Commit(q) \/ Release(q) PROVE Backed(x)'
  BY <1>3, CommitBacked, ReleaseBacked
<1>4. ASSUME NEW r \in Replicas, Restart(r) PROVE Backed(x)'
  <2>1. CASE x = r
    <3>1. notes'[x] = NoNotes
      BY <1>4, <2>1 DEF Restart, TypeOK
    <3> QED BY <3>1 DEF Backed, HeldFor, SeenFor, NoNotes, Nothing
  <2>2. CASE x # r
    <3>1. notes'[x] = notes[x] /\ at' = at /\ done' = done
      BY <1>4, <2>2 DEF Restart, TypeOK
    <3>2. \A q \in Requests : /\ pc[q] = "enqueueing" /\ at[q] = x => pc'[q] = "enqueueing"
                              /\ pc[q] = "processing" => pc'[q] = "processing"
      BY <1>4, <2>2 DEF Restart
    <3> QED BY <3>1, <3>2 DEF Backed, HeldFor, SeenFor
  <2> QED BY <2>1, <2>2
<1>5. CASE Tick
  BY <1>5 DEF Tick, Backed, HeldFor, SeenFor
<1>6. CASE UNCHANGED vars
  BY <1>6 DEF vars, Backed, HeldFor, SeenFor
<1> QED BY <1>1, <1>2, <1>3, <1>4, <1>5, <1>6 DEF Next

LEMMA BasicStep == Basic /\ [Next]_vars => Basic'
BY TypeStep, PlacedStep, InFlightStep, BackedStep DEF Basic

LEMMA BasicInit == Init => Basic
<1> SUFFICES ASSUME Init PROVE Basic
  OBVIOUS
<1>1. TypeOK /\ Placed /\ InFlight
  BY NoNotesType, TimeAssumption DEF Init, TypeOK, Placed, InFlight, Times
<1>2. \A r \in Replicas : Backed(r)
  BY DEF Init, Backed, HeldFor, SeenFor, NoNotes, Nothing
<1> QED BY <1>1, <1>2 DEF Basic

(* No path of the handler, and no restart, leaves a key held for a request *)
(* that is not being enqueued.                                             *)
THEOREM NoStaleHold == Spec => []HeldByInFlight
<1>1. Basic => HeldByInFlight
  BY DEF Basic, Backed, HeldFor, HeldByInFlight
<1> QED BY <1>1, BasicInit, BasicStep, PTL DEF Spec

(* A request that is turned away or taken in has arrived at a replica.     *)
LEMMA Arrival ==
  ASSUME Basic, [Next]_vars, NEW q \in Requests,
         pc[q] = "idle", pc'[q] \in {"ignored", "enqueueing"}
  PROVE  \E r \in Replicas : Reserve(q, r)
<1> DEFINE States == {"idle", "rejected", "ignored", "enqueueing", "processing", "error", "cut"}
<1>1. pc \in [Requests -> States] /\ pc'[q] # pc[q]
  BY DEF Basic, TypeOK
<1>2. ASSUME NEW p \in Requests, NEW at2 \in States, pc' = [pc EXCEPT ![p] = at2]
      PROVE  p = q /\ pc'[q] = at2
  BY <1>1, <1>2
<1>3. ASSUME NEW p \in Requests, NEW r \in Replicas, Reject(p, r) PROVE FALSE
  BY <1>2, <1>3 DEF Reject
<1>4. ASSUME NEW p \in Requests, Commit(p) \/ Release(p) PROVE FALSE
  BY <1>1, <1>2, <1>4 DEF Commit, Release
<1>5. ASSUME NEW p \in Requests, NEW r \in Replicas, Reserve(p, r) PROVE p = q
  <2>1. \E at2 \in {"ignored", "enqueueing"} : pc' = [pc EXCEPT ![p] = at2]
    BY <1>5 DEF Reserve, Take
  <2> QED BY <1>2, <2>1
<1>6. ASSUME NEW r \in Replicas, Restart(r) PROVE FALSE
  BY <1>1, <1>6 DEF Restart
<1>7. ~Tick /\ ~UNCHANGED vars
  BY <1>1 DEF Tick, vars
<1> QED BY <1>3, <1>4, <1>5, <1>6, <1>7 DEF Next

(* A request is turned away for what the cleaned notes say, and what they  *)
(* say is backed by a request that is in flight or was taken in within     *)
(* TTL.                                                                    *)
THEOREM TurnedAwayForLiveTwin == Spec => IgnoredForLiveTwin
<1>1. ASSUME Basic, [Next]_vars, NEW q \in Requests, pc[q] = "idle", pc'[q] = "ignored"
      PROVE  \E p \in Twins(q) : \/ pc[p] = "enqueueing"
                                 \/ pc[p] = "processing" /\ now - done[p] <= TTL
  <2>1. PICK r \in Replicas : Reserve(q, r)
    BY <1>1, Arrival
  <2>2. PICK n : n = notes[r]
    OBVIOUS
  <2>3. PICK m : m = Cleanup(n, now)
    OBVIOUS
  <2>4. n \in Notes /\ now \in Times
    BY <1>1, <2>2 DEF Basic, TypeOK
  <2>5. IsDuplicate(q, m)
    BY <1>1, <2>1, <2>2, <2>3, TakeIs DEF Basic
  <2>6. /\ Shrunk(m.nonceSeen, n.nonceSeen) /\ Shrunk(m.deliverySeen, n.deliverySeen)
        /\ Shrunk(m.nonceHeld, n.nonceHeld) /\ Shrunk(m.deliveryHeld, n.deliveryHeld)
        /\ \A k \in DOMAIN m.nonceSeen : m.nonceSeen[k] >= now - TTL
        /\ \A k \in DOMAIN m.deliverySeen : m.deliverySeen[k] >= now - TTL
    BY <2>3, <2>4, CleanupEntries
  <2>7. /\ HeldFor(n.nonceHeld, NonceOf, r) /\ HeldFor(n.deliveryHeld, DeliveryOf, r)
        /\ SeenFor(n.nonceSeen, NonceOf) /\ SeenFor(n.deliverySeen, DeliveryOf)
    BY <1>1, <2>2 DEF Basic, Backed
  <2>8. now \in Int /\ TTL \in Int /\ \A p \in Requests : done[p] \in Int
    BY <1>1, TimeAssumption DEF Basic, TypeOK, Times
  <2>9. /\ \A k \in DOMAIN n.nonceSeen : n.nonceSeen[k] \in Int
        /\ \A k \in DOMAIN n.deliverySeen : n.deliverySeen[k] \in Int
    BY <2>4, DictType, TimeAssumption DEF Notes, Times
  <2>10. CASE NonceOf[q] \in DOMAIN m.nonceHeld \/ DeliveryOf[q] \in DOMAIN m.deliveryHeld
    BY <1>1, <2>6, <2>7, <2>10 DEF Shrunk, HeldFor, Twins
  <2>11. CASE NonceOf[q] \in DOMAIN m.nonceSeen
    BY <1>1, <2>6, <2>7, <2>8, <2>9, <2>11 DEF Shrunk, SeenFor, Twins
  <2>12. CASE DeliveryOf[q] \in DOMAIN m.deliverySeen
    BY <1>1, <2>6, <2>7, <2>8, <2>9, <2>12 DEF Shrunk, SeenFor, Twins
  <2> QED BY <2>5, <2>10, <2>11, <2>12 DEF IsDuplicate
<1>2. Basic /\ [Next]_vars =>
        [\A q \in Requests : pc[q] = "idle" /\ pc'[q] = "ignored" =>
           \E p \in Twins(q) : \/ pc[p] = "enqueueing"
                               \/ pc[p] = "processing" /\ now - done[p] <= TTL]_<<pc, now, done>>
  BY <1>1
<1> QED BY <1>2, BasicInit, BasicStep, PTL DEF Spec, IgnoredForLiveTwin

-----------------------------------------------------------------------------
(* Room for all that came in means that nothing is trimmed.                *)
LEMMA TakenFinite ==
  /\ IsFiniteSet(Taken) /\ Cardinality(Taken) \in Nat
  /\ \A S : IsFiniteSet(Taken \ S) /\ Cardinality(Taken \ S) \in Nat
<1>1. Taken \in SUBSET Requests /\ \A S : Taken \ S \in SUBSET Requests
  BY DEF Taken
<1> QED BY <1>1, RequestAssumption, FS_Subset, FS_CardinalityType

LEMMA KeysFit ==
  ASSUME NEW K, NEW D, \A k \in D : \E q \in Taken : K[q] = k
  PROVE  IsFiniteSet(D) /\ Cardinality(D) <= Cardinality(Taken)
<1> DEFINE T == {q \in Taken : K[q] \in D}
           f == [q \in T |-> K[q]]
<1>1. T \in SUBSET Taken
  OBVIOUS
<1>2. IsFiniteSet(T) /\ Cardinality(T) <= Cardinality(Taken) /\ Cardinality(T) \in Nat
  BY <1>1, TakenFinite, FS_Subset, FS_CardinalityType
<1>3. f \in Surjection(T, D)
  BY DEF Surjection
<1> HIDE DEF T, f
<1>4. IsFiniteSet(D) /\ Cardinality(D) <= Cardinality(T)
  BY <1>2, <1>3, FS_Surjection
<1>5. Cardinality(D) \in Nat
  BY <1>4, FS_CardinalityType
<1> QED BY <1>2, <1>4, <1>5, TakenFinite

Fits(D) == IsFiniteSet(D) /\ Cardinality(D) <= MaxEntries

LEMMA RoomFits ==
  ASSUME Basic, Cardinality(Taken) <= MaxEntries, NEW r \in Replicas
  PROVE  /\ Fits(DOMAIN notes[r].nonceSeen) /\ Fits(DOMAIN notes[r].deliverySeen)
         /\ Fits(DOMAIN notes[r].nonceHeld) /\ Fits(DOMAIN notes[r].deliveryHeld)
<1>1. ASSUME NEW K, NEW h, HeldFor(h, K, r) PROVE Fits(DOMAIN h)
  <2>1. \A k \in DOMAIN h : \E q \in Taken : K[q] = k
    BY <1>1, RequestAssumption DEF HeldFor, Taken
  <2>2. IsFiniteSet(DOMAIN h) /\ Cardinality(DOMAIN h) <= Cardinality(Taken)
    BY <2>1, KeysFit
  <2> QED BY <2>2, TakenFinite, FS_CardinalityType, TimeAssumption DEF Fits
<1>2. ASSUME NEW K, NEW s, SeenFor(s, K) PROVE Fits(DOMAIN s)
  <2>1. \A k \in DOMAIN s : \E q \in Taken : K[q] = k
    BY <1>2, RequestAssumption DEF SeenFor, Taken, Basic, Placed
  <2>2. IsFiniteSet(DOMAIN s) /\ Cardinality(DOMAIN s) <= Cardinality(Taken)
    BY <2>1, KeysFit
  <2> QED BY <2>2, TakenFinite, FS_CardinalityType, TimeAssumption DEF Fits
<1> QED BY <1>1, <1>2 DEF Basic, Backed

-----------------------------------------------------------------------------
(* What is noted of a request survives a cleanup that trims nothing: held  *)
(* keys are younger than TTL, and what cleanup drops is older.             *)
LEMMA EnqKept ==
  ASSUME TypeOK, InFlight, NEW q \in Requests, pc[q] = "enqueueing",
         NEW K, NEW f \in Dict(K), NEW Key, EnqNoted(f, Key, q), Fits(DOMAIN f)
  PROVE  EnqNoted(Kept(f, now), Key, q)
<1>1. now \in Times /\ took[q] >= now - TTL /\ took[q] \in Int
  BY TimeAssumption DEF TypeOK, InFlight, Times
<1>2. /\ Shrunk(Kept(f, now), f)
      /\ \A k \in DOMAIN f : f[k] >= now - TTL => k \in DOMAIN Kept(f, now)
  BY <1>1, KeptDict DEF Fits
<1>3. f[Key[q]] \in Int
  BY DictType, TimeAssumption DEF EnqNoted, Times
<1> QED BY <1>1, <1>2, <1>3, TimeAssumption DEF EnqNoted, Shrunk, Times

LEMMA DoneKept ==
  ASSUME TypeOK, NEW q \in Requests,
         NEW K, NEW f \in Dict(K), NEW Key, DoneNoted(f, Key, q), Fits(DOMAIN f)
  PROVE  DoneNoted(Kept(f, now), Key, q)
<1>1. now \in Times /\ done[q] \in Int
  BY TimeAssumption DEF TypeOK, Times
<1>2. /\ Shrunk(Kept(f, now), f)
      /\ \A k \in DOMAIN f : f[k] >= now - TTL => k \in DOMAIN Kept(f, now)
  BY <1>1, KeptDict DEF Fits
<1>3. Key[q] \in DOMAIN f => f[Key[q]] \in Int
  BY DictType, TimeAssumption DEF Times
<1> QED BY <1>1, <1>2, <1>3, TimeAssumption DEF DoneNoted, Shrunk, Times

LEMMA CleanNoted ==
  ASSUME Basic, Cardinality(Taken) <= MaxEntries, NEW r \in Replicas, NEW q \in Requests,
         NotedIn(notes[r], q), NEW m, m = Cleanup(notes[r], now)
  PROVE  NotedIn(m, q)
<1>1. PICK n : n = notes[r]
  OBVIOUS
<1>2. n \in Notes /\ now \in Times /\ TypeOK /\ InFlight
  BY <1>1 DEF Basic, TypeOK
<1>3. /\ m.nonceSeen = Kept(n.nonceSeen, now) /\ m.deliverySeen = Kept(n.deliverySeen, now)
      /\ m.nonceHeld = Kept(n.nonceHeld, now) /\ m.deliveryHeld = Kept(n.deliveryHeld, now)
  BY <1>1, <1>2, CleanupNotes
<1>4. /\ Fits(DOMAIN n.nonceSeen) /\ Fits(DOMAIN n.deliverySeen)
      /\ Fits(DOMAIN n.nonceHeld) /\ Fits(DOMAIN n.deliveryHeld)
  BY <1>1, RoomFits
<1>5. /\ n.nonceSeen \in Dict(Nonces) /\ n.deliverySeen \in Dict(Deliveries)
      /\ n.nonceHeld \in Dict(Nonces) /\ n.deliveryHeld \in Dict(Deliveries)
  BY <1>2 DEF Notes
<1>6. CASE pc[q] = "enqueueing"
  <2>1. EnqNoted(n.nonceHeld, NonceOf, q) /\ EnqNoted(n.deliveryHeld, DeliveryOf, q)
    BY <1>1, <1>6 DEF NotedIn
  <2>2. EnqNoted(Kept(n.nonceHeld, now), NonceOf, q)
    BY <1>2, <1>4, <1>5, <1>6, <2>1, EnqKept
  <2>3. EnqNoted(Kept(n.deliveryHeld, now), DeliveryOf, q)
    BY <1>2, <1>4, <1>5, <1>6, <2>1, EnqKept
  <2> QED BY <1>3, <1>6, <2>2, <2>3 DEF NotedIn
<1>7. CASE pc[q] = "processing"
  <2>1. DoneNoted(n.nonceSeen, NonceOf, q) /\ DoneNoted(n.deliverySeen, DeliveryOf, q)
    BY <1>1, <1>7 DEF NotedIn
  <2>2. DoneNoted(Kept(n.nonceSeen, now), NonceOf, q)
    BY <1>2, <1>4, <1>5, <2>1, DoneKept
  <2>3. DoneNoted(Kept(n.deliverySeen, now), DeliveryOf, q)
    BY <1>2, <1>4, <1>5, <2>1, DoneKept
  <2> QED BY <1>3, <1>7, <2>2, <2>3 DEF NotedIn
<1> QED BY <1>6, <1>7 DEF NotedIn

(* No step takes a request back, or forgets a restart.                     *)
LEMMA TakenGrows ==
  ASSUME Basic, [Next]_vars
  PROVE  /\ Taken \subseteq Taken'
         /\ IsFiniteSet(Taken') /\ Cardinality(Taken') \in Nat
         /\ Cardinality(Taken) <= Cardinality(Taken')
         /\ restarts' = 0 => restarts = 0
<1>1. ASSUME NEW q \in Requests, at[q] # NoReplica PROVE at'[q] # NoReplica
  BY <1>1, RequestAssumption
     DEF Basic, TypeOK, Next, Reject, Reserve, Take, Commit, Release, Restart, Tick, vars
<1>2. Taken \subseteq Taken' /\ Taken' \in SUBSET Requests
  BY <1>1 DEF Taken
<1>3. IsFiniteSet(Taken') /\ Cardinality(Taken') \in Nat
  BY <1>2, RequestAssumption, FS_Subset, FS_CardinalityType
<1>4. Cardinality(Taken) <= Cardinality(Taken')
  BY <1>2, <1>3, FS_Subset
<1>5. restarts' = 0 => restarts = 0
  BY DEF Basic, TypeOK, Next, Reject, Reserve, Take, Commit, Release, Restart, Tick, vars
<1> QED BY <1>2, <1>3, <1>4, <1>5

(* With room, no two requests being enqueued by one process share a key.   *)
LEMMA Exclusive ==
  ASSUME Basic, TwinsApart, restarts = 0, Cardinality(Taken) <= MaxEntries,
         NEW q \in Requests, NEW p \in Requests, p # q, at[p] = at[q],
         pc[q] = "enqueueing", pc[p] = "enqueueing"
  PROVE  NonceOf[p] # NonceOf[q] /\ DeliveryOf[p] # DeliveryOf[q]
<1>1. p \in Taken /\ q \in Taken
  BY RequestAssumption DEF Basic, Placed, Taken
<1>2. Cardinality(Taken \ {p, q}) < Cardinality(Taken)
  <2>1. Taken \ {p, q} \in SUBSET Taken /\ Taken \ {p, q} # Taken
    BY <1>1
  <2>2. Cardinality(Taken) \in Nat /\ Cardinality(Taken \ {p, q}) \in Nat
    BY TakenFinite
  <2>3. Cardinality(Taken \ {p, q}) <= Cardinality(Taken)
    BY <2>1, TakenFinite, FS_Subset
  <2>4. Cardinality(Taken) # Cardinality(Taken \ {p, q})
    BY <2>1, TakenFinite, FS_Subset
  <2> QED BY <2>2, <2>3, <2>4
<1>3. Cardinality(Taken \ {p, q}) < MaxEntries
  <2>1. Cardinality(Taken) \in Nat /\ Cardinality(Taken \ {p, q}) \in Nat
    BY TakenFinite
  <2> QED BY <1>2, <2>1, TimeAssumption
<1>4. ~Apart(q, p)
  BY <1>3 DEF Apart, LongAfter
<1> QED BY <1>4 DEF TwinsApart, Twins

-----------------------------------------------------------------------------
(* One step, for the notes of one request x.                               *)
LEMMA ReserveNoted ==
  ASSUME Basic, Cardinality(Taken) <= MaxEntries, \A y \in Requests : Noted(y),
         NEW q \in Requests, NEW r \in Replicas, Reserve(q, r), NEW x \in Requests
  PROVE  Noted(x)'
<1>1. PICK m : m = Cleanup(notes[r], now)
  OBVIOUS
<1>2. PICK w : w = notes'[r]
  OBVIOUS
<1>3. /\ SameBut(q) /\ pc[q] = "idle" /\ at'[q] = r /\ took'[q] = now /\ now' = now /\ done' = done
      /\ \A y \in Replicas \ {r} : notes'[y] = notes[y]
      /\ \/ pc'[q] = "ignored" /\ w = m
         \/ pc'[q] = "enqueueing" /\ w = Hold(q, m, now)
  BY <1>1, <1>2, TakeIs DEF Basic
<1>4. m \in Notes /\ now \in Times /\ notes[r] \in Notes
  BY <1>1, CleanupNotes DEF Basic, TypeOK
<1>5. /\ w.nonceSeen = m.nonceSeen /\ w.deliverySeen = m.deliverySeen
      /\ \/ w = m
         \/ /\ Dated(w.nonceHeld, m.nonceHeld, NonceOf[q], now)
            /\ Dated(w.deliveryHeld, m.deliveryHeld, DeliveryOf[q], now)
  BY <1>3, <1>4, HoldEntries
<1>6. now >= now
  BY <1>4 DEF Times
<1>7. CASE x = q
  <2>1. CASE pc'[q] = "ignored"
    BY <1>7, <2>1 DEF Noted, NotedIn
  <2>2. CASE pc'[q] = "enqueueing" /\ w = Hold(q, m, now)
    <3>1. /\ Dated(w.nonceHeld, m.nonceHeld, NonceOf[q], now)
          /\ Dated(w.deliveryHeld, m.deliveryHeld, DeliveryOf[q], now)
      BY <1>4, <2>2, HoldEntries
    <3> QED BY <1>2, <1>3, <1>6, <1>7, <2>2, <3>1, ZenonT(30) DEF Noted, NotedIn, EnqNoted, Dated
  <2> QED BY <1>3, <2>1, <2>2
<1>8. CASE x # q /\ pc[x] \in {"enqueueing", "processing"}
  <2>1. /\ at[x] \in Replicas /\ at'[x] = at[x] /\ pc'[x] = pc[x] /\ took'[x] = took[x]
        /\ done'[x] = done[x] /\ Noted(x)
        /\ pc[x] = "enqueueing" => now >= took[x]
    BY <1>3, <1>8, TimeAssumption DEF SameBut, Basic, Placed, InFlight, TypeOK, Times
  <2>2. CASE at[x] # r
    BY <1>3, <2>1, <2>2 DEF Noted, NotedIn, EnqNoted, DoneNoted
  <2>3. CASE at[x] = r
    <3>1. NotedIn(m, x)
      BY <1>1, <2>1, <2>3, CleanNoted DEF Noted
    <3>2. NotedIn(w, x)
      BY <1>5, <2>1, <3>1 DEF NotedIn, EnqNoted, Dated
    <3> QED BY <1>2, <1>3, <2>1, <2>3, <3>2 DEF Noted, NotedIn, EnqNoted, DoneNoted
  <2> QED BY <2>2, <2>3
<1>9. CASE x # q /\ pc[x] \notin {"enqueueing", "processing"}
  BY <1>3, <1>9 DEF SameBut, Noted, NotedIn
<1> QED BY <1>7, <1>8, <1>9

LEMMA CommitNoted ==
  ASSUME Basic, TwinsApart, restarts = 0, Cardinality(Taken) <= MaxEntries,
         \A y \in Requests : Noted(y), NEW q \in Requests, Commit(q), NEW x \in Requests
  PROVE  Noted(x)'
<1>1. PICK r : r = at[q]
  OBVIOUS
<1>2. PICK m : m = Cleanup(notes[r], now)
  OBVIOUS
<1>3. PICK w : w = notes'[r]
  OBVIOUS
<1>4. /\ SameBut(q) /\ pc[q] = "enqueueing" /\ pc'[q] = "processing" /\ at' = at /\ took' = took
      /\ done'[q] = now /\ now' = now /\ r \in Replicas
      /\ \A y \in Replicas \ {r} : notes'[y] = notes[y]
      /\ w = Settle(q, m, now)
  BY <1>1, <1>2, <1>3, CommitIs DEF Basic
<1>5. m \in Notes /\ now \in Times /\ notes[r] \in Notes
  BY <1>2, <1>4, CleanupNotes DEF Basic, TypeOK
<1>6. /\ Dated(w.nonceSeen, m.nonceSeen, NonceOf[q], now)
      /\ Dated(w.deliverySeen, m.deliverySeen, DeliveryOf[q], now)
      /\ Dropped(w.nonceHeld, m.nonceHeld, NonceOf[q])
      /\ Dropped(w.deliveryHeld, m.deliveryHeld, DeliveryOf[q])
  BY <1>4, <1>5, SettleEntries
<1>7. now >= now
  BY <1>5 DEF Times
<1>8. CASE x = q
  BY <1>1, <1>3, <1>4, <1>6, <1>7, <1>8 DEF Noted, NotedIn, DoneNoted, Dated
<1>9. CASE x # q /\ pc[x] \in {"enqueueing", "processing"}
  <2>1. /\ at[x] \in Replicas /\ at'[x] = at[x] /\ pc'[x] = pc[x] /\ took'[x] = took[x]
        /\ done'[x] = done[x] /\ Noted(x) /\ now >= done[x]
    BY <1>4, <1>9, TimeAssumption DEF SameBut, Basic, Placed, InFlight, TypeOK, Times
  <2>2. CASE at[x] # r
    BY <1>4, <2>1, <2>2 DEF Noted, NotedIn, EnqNoted, DoneNoted
  <2>3. CASE at[x] = r
    <3>1. NotedIn(m, x)
      BY <1>2, <1>4, <2>1, <2>3, CleanNoted DEF Noted
    <3>2. pc[x] = "enqueueing" => NonceOf[x] # NonceOf[q] /\ DeliveryOf[x] # DeliveryOf[q]
      BY <1>1, <1>4, <1>9, <2>3, Exclusive
    <3>3. NotedIn(w, x)
      BY <1>6, <2>1, <3>1, <3>2 DEF NotedIn, EnqNoted, DoneNoted, Dated, Dropped
    <3> QED BY <1>3, <1>4, <2>1, <2>3, <3>3 DEF Noted, NotedIn, EnqNoted, DoneNoted
  <2> QED BY <2>2, <2>3
<1>10. CASE x # q /\ pc[x] \notin {"enqueueing", "processing"}
  BY <1>4, <1>10 DEF SameBut, Noted, NotedIn
<1> QED BY <1>8, <1>9, <1>10

LEMMA ReleaseNoted ==
  ASSUME Basic, TwinsApart, restarts = 0, Cardinality(Taken) <= MaxEntries,
         \A y \in Requests : Noted(y), NEW q \in Requests, Release(q), NEW x \in Requests
  PROVE  Noted(x)'
<1>1. PICK r : r = at[q]
  OBVIOUS
<1>2. PICK m : m = notes[r]
  OBVIOUS
<1>3. PICK w : w = notes'[r]
  OBVIOUS
<1>4. /\ SameBut(q) /\ pc[q] = "enqueueing" /\ pc'[q] = "error" /\ at' = at /\ took' = took
      /\ done' = done /\ now' = now /\ r \in Replicas
      /\ \A y \in Replicas \ {r} : notes'[y] = notes[y]
      /\ w = LetGo(q, m)
  BY <1>1, <1>2, <1>3, ReleaseIs DEF Basic
<1>5. m \in Notes
  BY <1>2, <1>4 DEF Basic, TypeOK
<1>6. /\ w.nonceSeen = m.nonceSeen /\ w.deliverySeen = m.deliverySeen
      /\ Dropped(w.nonceHeld, m.nonceHeld, NonceOf[q])
      /\ Dropped(w.deliveryHeld, m.deliveryHeld, DeliveryOf[q])
  BY <1>4, <1>5, LetGoEntries
<1>7. CASE x = q
  BY <1>4, <1>7 DEF Noted, NotedIn
<1>8. CASE x # q /\ pc[x] \in {"enqueueing", "processing"}
  <2>1. at[x] \in Replicas /\ pc'[x] = pc[x] /\ Noted(x)
    BY <1>4, <1>8 DEF SameBut, Basic, Placed
  <2>2. CASE at[x] # r
    BY <1>4, <2>1, <2>2 DEF Noted, NotedIn, EnqNoted, DoneNoted
  <2>3. CASE at[x] = r
    <3>1. NotedIn(m, x)
      BY <1>2, <2>1, <2>3 DEF Noted
    <3>2. pc[x] = "enqueueing" => NonceOf[x] # NonceOf[q] /\ DeliveryOf[x] # DeliveryOf[q]
      BY <1>1, <1>4, <1>8, <2>3, Exclusive
    <3>3. NotedIn(w, x)
      BY <1>6, <3>1, <3>2 DEF NotedIn, EnqNoted, DoneNoted, Dropped
    <3> QED BY <1>3, <1>4, <2>1, <2>3, <3>3 DEF Noted, NotedIn, EnqNoted, DoneNoted
  <2> QED BY <2>2, <2>3
<1>9. CASE x # q /\ pc[x] \notin {"enqueueing", "processing"}
  BY <1>4, <1>9 DEF SameBut, Noted, NotedIn
<1> QED BY <1>7, <1>8, <1>9

LEMMA RejectIs ==
  ASSUME TypeOK, NEW q \in Requests, NEW r \in Replicas, Reject(q, r)
  PROVE  /\ SameBut(q) /\ pc[q] = "idle" /\ pc'[q] = "rejected"
         /\ notes' = notes /\ now' = now /\ restarts' = restarts
BY DEF Reject, SameBut, TypeOK

LEMMA NotedStep ==
  ASSUME Basic, RoomMeansNoted, TwinsApart, [Next]_vars
  PROVE  RoomMeansNoted'
<1> SUFFICES ASSUME (restarts = 0)', Cardinality(Taken') <= MaxEntries, NEW x \in Requests
             PROVE  Noted(x)'
  BY DEF RoomMeansNoted
<1>1. restarts = 0 /\ Cardinality(Taken) <= MaxEntries
  <2>1. /\ Cardinality(Taken) <= Cardinality(Taken') /\ Cardinality(Taken') \in Nat
        /\ restarts = 0
    BY TakenGrows
  <2> QED BY <2>1, TakenFinite, TimeAssumption
<1>2. \A y \in Requests : Noted(y)
  BY <1>1 DEF RoomMeansNoted
<1>3. ASSUME NEW q \in Requests, NEW r \in Replicas, Reject(q, r) PROVE Noted(x)'
  <2>1. SameBut(q) /\ pc'[q] = "rejected" /\ notes' = notes /\ now' = now
    BY <1>3, RejectIs DEF Basic
  <2> QED BY <1>2, <2>1 DEF SameBut, Noted, NotedIn, EnqNoted, DoneNoted
<1>4. ASSUME NEW q \in Requests, NEW r \in Replicas, Reserve(q, r) PROVE Noted(x)'
  BY <1>1, <1>2, <1>4, ReserveNoted
<1>5. ASSUME NEW q \in Requests, Commit(q) \/ Release(q) PROVE Noted(x)'
  BY <1>1, <1>2, <1>5, CommitNoted, ReleaseNoted
<1>6. ASSUME NEW r \in Replicas, Restart(r) PROVE FALSE
  BY <1>1, <1>6 DEF Restart
<1>7. CASE Tick
  <2>1. /\ pc' = pc /\ at' = at /\ took' = took /\ done' = done /\ notes' = notes
        /\ now' = now + 1 /\ now \in Int /\ done[x] \in Int
    BY <1>7, TimeAssumption DEF Tick, Basic, TypeOK, Times
  <2> QED BY <1>2, <2>1, TimeAssumption DEF Noted, NotedIn, EnqNoted, DoneNoted
<1>8. CASE UNCHANGED vars
  BY <1>2, <1>8 DEF vars, Noted, NotedIn, EnqNoted, DoneNoted
<1> QED BY <1>3, <1>4, <1>5, <1>6, <1>7, <1>8 DEF Next

-----------------------------------------------------------------------------
(* A request that is taken in finds no note of a twin.                     *)
LEMMA NewcomerApart ==
  ASSUME Basic, RoomMeansNoted, [Next]_vars, NEW q \in Requests, NEW p \in Twins(q),
         pc[q] = "idle", pc'[q] = "enqueueing", pc[p] \in {"enqueueing", "processing"},
         (restarts = 0)', Cardinality(Taken' \ {p, q}) < MaxEntries, (at[q] = at[p])'
  PROVE  LongAfter(q, p)'
<1>1. PICK r \in Replicas : Reserve(q, r)
  BY Arrival
<1>2. PICK m : m = Cleanup(notes[r], now)
  OBVIOUS
<1>3. /\ SameBut(q) /\ at'[q] = r /\ took'[q] = now /\ done' = done
      /\ ~IsDuplicate(q, m)
  BY <1>1, <1>2, TakeIs DEF Basic
<1>4. p \in Requests /\ p # q /\ at[p] = r /\ pc'[p] = pc[p]
  BY <1>3 DEF Twins, SameBut
<1>5. Cardinality(Taken) <= MaxEntries
  <2> DEFINE S == Taken \ {p, q}
  <2>1. IsFiniteSet(S) /\ Cardinality(S) \in Nat
    BY TakenFinite
  <2>2. S \in SUBSET (Taken' \ {p, q})
    BY TakenGrows
  <2>3. IsFiniteSet(Taken' \ {p, q})
    <3>1. Taken' \ {p, q} \in SUBSET Taken' /\ IsFiniteSet(Taken')
      BY TakenGrows
    <3> QED BY <3>1, FS_Subset
  <2>4. Cardinality(Taken' \ {p, q}) \in Nat
    BY <2>3, FS_CardinalityType
  <2>5. Cardinality(S) <= Cardinality(Taken' \ {p, q})
    BY <2>2, <2>3, FS_Subset
  <2>6. q \notin Taken /\ p \in Taken
    BY <1>1, <1>4, RequestAssumption DEF Basic, Placed, Taken
  <2>7. Taken = S \cup {p} /\ p \notin S
    BY <2>6
  <2> HIDE DEF S
  <2>8. Cardinality(Taken) = Cardinality(S) + 1
    BY <2>1, <2>7, FS_AddElement
  <2> QED BY <2>1, <2>4, <2>5, <2>8, TimeAssumption
<1>6. NotedIn(notes[r], p)
  BY <1>4, <1>5, TakenGrows DEF RoomMeansNoted, Noted
<1>7. NotedIn(m, p)
  BY <1>2, <1>4, <1>5, <1>6, CleanNoted
<1>8. pc[p] = "processing" /\ now - done[p] > TTL
  BY <1>3, <1>4, <1>7 DEF IsDuplicate, NotedIn, EnqNoted, DoneNoted, Twins
<1> QED BY <1>3, <1>4, <1>8 DEF LongAfter

LEMMA TwinsStep ==
  ASSUME Basic, RoomMeansNoted, TwinsApart, [Next]_vars
  PROVE  TwinsApart'
<1> SUFFICES ASSUME NEW q \in Requests, NEW p \in Twins(q), (restarts = 0)',
                    Cardinality(Taken' \ {p, q}) < MaxEntries, (at[q] = at[p])',
                    pc'[q] \in {"enqueueing", "processing"}, pc'[p] \in {"enqueueing", "processing"}
             PROVE  LongAfter(q, p)' \/ LongAfter(p, q)'
  BY DEF TwinsApart, Apart, Twins
<1>1. p \in Requests /\ q \in Twins(p) /\ p # q /\ {p, q} = {q, p}
  BY DEF Twins
<1>2. ASSUME NEW y \in Requests, pc'[y] \in {"enqueueing", "processing"}
      PROVE  \/ pc[y] = "idle" /\ pc'[y] = "enqueueing"
             \/ /\ pc[y] \in {"enqueueing", "processing"} /\ at'[y] = at[y] /\ took'[y] = took[y]
                /\ pc[y] = "processing" => pc'[y] = "processing" /\ done'[y] = done[y]
  BY <1>2 DEF Basic, TypeOK, Next, Reject, Reserve, Take, Commit, Release, Restart, Tick, vars
<1>3. ASSUME NEW y \in Requests, NEW z \in Requests, y # z,
             pc[y] = "idle", pc'[y] = "enqueueing", pc[z] = "idle", pc'[z] = "enqueueing"
      PROVE  FALSE
  BY <1>3 DEF Basic, TypeOK, Next, Reject, Reserve, Take, Commit, Release, Restart, Tick, vars
<1>4. CASE pc[q] = "idle"
  <2>1. pc'[q] = "enqueueing" /\ pc[p] \in {"enqueueing", "processing"}
    BY <1>1, <1>2, <1>3, <1>4
  <2> QED BY <1>4, <2>1, NewcomerApart
<1>5. CASE pc[p] = "idle"
  <2>1. pc'[p] = "enqueueing" /\ pc[q] \in {"enqueueing", "processing"}
    BY <1>1, <1>2, <1>3, <1>5
  <2>2. Cardinality(Taken' \ {q, p}) < MaxEntries
    BY <1>1
  <2> QED BY <1>1, <1>5, <2>1, <2>2, NewcomerApart
<1>6. CASE pc[q] # "idle" /\ pc[p] # "idle"
  <2>1. /\ pc[q] \in {"enqueueing", "processing"} /\ pc[p] \in {"enqueueing", "processing"}
        /\ at[q] = at[p] /\ took'[q] = took[q] /\ took'[p] = took[p]
        /\ pc[q] = "processing" => pc'[q] = "processing" /\ done'[q] = done[q]
        /\ pc[p] = "processing" => pc'[p] = "processing" /\ done'[p] = done[p]
    BY <1>1, <1>2, <1>6
  <2>2. restarts = 0 /\ Cardinality(Taken \ {p, q}) < MaxEntries
    <3>1. IsFiniteSet(Taken \ {p, q}) /\ Cardinality(Taken \ {p, q}) \in Nat
      BY TakenFinite
    <3>2. Taken' \ {p, q} \in SUBSET Taken' /\ IsFiniteSet(Taken') /\ restarts = 0
      BY TakenGrows
    <3>3. IsFiniteSet(Taken' \ {p, q}) /\ Cardinality(Taken' \ {p, q}) \in Nat
      BY <3>2, FS_Subset, FS_CardinalityType
    <3>4. Taken \ {p, q} \in SUBSET (Taken' \ {p, q})
      BY TakenGrows
    <3>5. Cardinality(Taken \ {p, q}) <= Cardinality(Taken' \ {p, q})
      BY <3>3, <3>4, FS_Subset
    <3> QED BY <3>1, <3>2, <3>3, <3>5, TimeAssumption
  <2>3. LongAfter(q, p) \/ LongAfter(p, q)
    BY <2>1, <2>2 DEF TwinsApart, Apart
  <2> QED BY <2>1, <2>3 DEF LongAfter
<1> QED BY <1>4, <1>5, <1>6

(* Whatever requests arrive, in whatever order their stores succeed and    *)
(* fail: with room for the notes a process takes in two requests for one   *)
(* delivery only when the second came more than TTL after the first.       *)
THEOREM DeliveryEnqueuedOnce == Spec => []EnqueuedOnce
<1>1. Init => IInv
  <2>1. Init => RoomMeansNoted /\ TwinsApart
    BY DEF Init, RoomMeansNoted, Noted, NotedIn, TwinsApart, Apart, Twins
  <2> QED BY <2>1, BasicInit DEF IInv
<1>2. IInv /\ [Next]_vars => IInv'
  BY BasicStep, NotedStep, TwinsStep DEF IInv
<1>3. IInv => EnqueuedOnce
  <2> SUFFICES ASSUME IInv, NEW q \in Requests, NEW p \in Twins(q),
                      pc[q] = "processing", pc[p] = "processing", at[q] = at[p], restarts = 0,
                      Cardinality({x \in Requests \ {p, q} : at[x] # NoReplica}) < MaxEntries
               PROVE  took[q] - done[p] > TTL \/ took[p] - done[q] > TTL
    BY DEF EnqueuedOnce
  <2>1. {x \in Requests \ {p, q} : at[x] # NoReplica} = Taken \ {p, q}
    BY DEF Taken
  <2>2. Apart(q, p)
    BY DEF IInv, TwinsApart
  <2> QED BY <2>1, <2>2 DEF Apart, LongAfter
<1> QED BY <1>1, <1>2, <1>3, PTL DEF Spec

=============================================================================
