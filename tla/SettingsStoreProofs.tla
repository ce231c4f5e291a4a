------------------------ MODULE SettingsStoreProofs ------------------------
(***************************************************************************)
(* What is stored is in force, for any settings and secrets that are       *)
(* changed, any number of requests, what the environment fixes, storage    *)
(* calls that raise and restarts.                                          *)
(*                                                                         *)
(* What a request has read is what is stored, or the keys it differs in    *)
(* are among those stale to it (DocOK, KeyOK); and whatever the process    *)
(* has that is not as it should be, some request is on its way to mend     *)
(* (Loads, Mends, Sets, Tells, Uses).                                      *)
(***************************************************************************)
EXTENDS SettingsStore, TLAPS

(* What a request is at, where the environment fixes the keys fixed. *)
CallOK(r, fixed) ==
  /\ r.kind = "none" => r.pc \in {"new", "idle"}
  /\ r.kind = "boot" => r.pc \in {"load", "set", "get", "put", "repair"}
  /\ r.kind = "patch" =>
       /\ r.pc \in {"read", "write", "load", "set", "get", "put", "repair", "audit"}
       /\ r.change \in Changes /\ r.done \subseteq Settings
  /\ r.kind = "secrets" =>
       /\ r.pc \in {"next", "store", "live", "refresh", "audit"}
       /\ r.change \in Writes /\ r.todo \subseteq DOMAIN r.change /\ r.done \subseteq Secrets
       /\ r.pc \in {"store", "live"} => r.key \in DOMAIN r.change
       /\ r.pc = "live" => r.key \in r.done
  /\ r.pc \in {"get", "put"} => r.todo \cap fixed = {}
  /\ r.pc = "put" => r.key \in Secrets \ fixed /\ r.key \notin r.todo

(* The load at the start is the only one of its kind, and alone.           *)
BootInv ==
  /\ req[Boot].kind \in {"none", "boot"} /\ req[Boot].pc # "new" /\ req[Boot].stale = {}
  /\ \A o \in Requests : req[o].kind # "boot" /\ (InFlight(Boot) => ~InFlight(o))

(* The settings a request has read are those last saved, given as saved,   *)
(* or are stale or crossed already.                                        *)
DocOK(r, saved, past) ==
  r.pc \in {"write", "set"} =>
    \A k \in DOMAIN saved :
      k \in r.stale \/ k \in past \/ (k \in DOMAIN r.doc /\ r.doc[k] = saved[k])

(* So is the secret it is about to set in the process, in the vault v.     *)
KeyOK(r, v) ==
  /\ r.pc = "put" => r.key \in r.stale \/ r.value = v[r.key]
  /\ r.pc = "live" => r.key \in r.stale \/ r.change[r.key] = v[r.key]

(* What a request will still do: load setting k,                           *)
Loads(r, k) == r.pc \in {"load", "set"} /\ (r.kind = "boot" \/ k \in r.done)

(* cut the poll interval to the wait,                                      *)
Mends(r) == \/ r.pc \in {"get", "put", "repair"}
            \/ r.kind = "boot" /\ r.pc \in {"load", "set"}

(* set secret s in the process, as the load at the start will with those   *)
(* that the process has not got yet,                                       *)
Brings(r, s) ==
  /\ r.kind = "boot"
  /\ \/ r.pc \in {"load", "set"}
     \/ r.pc \in {"get", "put"} /\ s \in r.todo
     \/ r.pc = "put" /\ s = r.key

Sets(r, s) == (r.pc = "live" /\ r.key = s) \/ Brings(r, s)

(* enter the change of secret s in the audit log, and hand it on.          *)
Tells(r, s) == r.kind = "secrets" /\ s \in r.done

Uses(r, s) == \/ r.pc \in {"get", "put", "repair"} /\ r.loaded
              \/ r.pc \in {"next", "store", "live", "refresh"} /\ s \in r.done

ReqInv ==
  \A o \in Jobs : /\ CallOK(req[o], Fixed)
                  /\ DocOK(req[o], last, crossed)
                  /\ KeyOK(req[o], vault)

StoredInv ==
  \A k \in DOMAIN last : k \in crossed \/ (k \in DOMAIN stored /\ stored[k] = last[k])

InForce(k) == k \in Fixed \/ live[k] = last[k] \/ (k = "poll" /\ live[k] = live["wait"])

LiveInv ==
  \A k \in DOMAIN last \ (crossed \cup broken) :
    InForce(k) \/ \E o \in Jobs : Loads(req[o], k)

Within  == live["wait"] > 0 => live["poll"] <= live["wait"]
PollInv == Within \/ \E o \in Jobs : Mends(req[o])

VaultInv ==
  \A s \in Secrets \ (Fixed \cup crossed \cup broken) :
    live[s] = vault[s] \/ \E o \in Jobs : Sets(req[o], s)

BroughtInv == \A s \in Secrets \ Fixed : Brings(req[Boot], s) => live[s] = None

ToldInv == \A s \in Secrets \ broken : s \in told \/ \E o \in Jobs : Tells(req[o], s)

UsedInv == \A s \in Secrets \ broken : used[s] = live[s] \/ \E o \in Jobs : Uses(req[o], s)

IInv ==
  /\ TypeOK /\ BootInv /\ ReqInv
  /\ StoredInv /\ LiveInv /\ PollInv
  /\ VaultInv /\ BroughtInv /\ ToldInv /\ UsedInv

-----------------------------------------------------------------------------
(* The bodies.                                                             *)
LEMMA EmptyIs ==
  Empty \in Documents /\ DOMAIN Empty = {}
<1>1. Empty \in [{} -> Amounts] /\ DOMAIN Empty = {}
  BY DEF Empty
<1>2. [{} -> Amounts] \in {[D -> Amounts] : D \in SUBSET Settings}
  OBVIOUS
<1> QED BY <1>1, <1>2 DEF Documents

LEMMA DocumentIs ==
  ASSUME NEW d \in Documents
  PROVE  DOMAIN d \subseteq Settings /\ \A k \in DOMAIN d : d[k] \in Amounts /\ d[k] \in Nat
<1>1. PICK D \in SUBSET Settings : d \in [D -> Amounts]
  BY DEF Documents
<1> QED BY <1>1, ChangeAssumption

(* A merge of two has the keys of both, with the values of the first.      *)
LEMMA MergeIs ==
  ASSUME NEW c \in Documents, NEW d \in Documents
  PROVE  /\ Merge(c, d) \in Documents
         /\ DOMAIN Merge(c, d) = DOMAIN c \cup DOMAIN d
         /\ \A k \in DOMAIN c : Merge(c, d)[k] = c[k]
         /\ \A k \in DOMAIN d \ DOMAIN c : Merge(c, d)[k] = d[k]
<1> DEFINE D == DOMAIN c \cup DOMAIN d
<1>1. D \in SUBSET Settings /\ \A k \in D : (IF k \in DOMAIN c THEN c[k] ELSE d[k]) \in Amounts
  BY DocumentIs
<1>2. Merge(c, d) = [k \in D |-> IF k \in DOMAIN c THEN c[k] ELSE d[k]]
  BY DEF Merge
<1>3. Merge(c, d) \in [D -> Amounts]
  BY <1>1, <1>2
<1>4. [D -> Amounts] \in {[E -> Amounts] : E \in SUBSET Settings}
  BY <1>1
<1>5. Merge(c, d) \in Documents
  BY <1>3, <1>4 DEF Documents
<1> QED BY <1>2, <1>5

LEMMA ChangeIs ==
  ASSUME NEW c \in Changes
  PROVE  c \in Documents /\ DOMAIN c \subseteq Settings
BY ChangeAssumption, DocumentIs

(* A secret is none of the settings.                                       *)
LEMMA KeysDiffer ==
  /\ Secrets \subseteq Keys /\ Settings \subseteq Keys
  /\ \A s \in Secrets : s \notin Settings /\ s # "wait" /\ s # "poll" /\ s # "mode"
  /\ "wait" \in Settings /\ "poll" \in Settings /\ "mode" \in Settings
BY NameAssumption DEF Keys, Settings

LEMMA WriteIs ==
  ASSUME NEW w \in Writes, NEW s \in DOMAIN w
  PROVE  s \in Secrets /\ w[s] \in Values
BY WriteAssumption DEF Values

-----------------------------------------------------------------------------
(* A step of job o leaves it as r, and of the others changes at most what  *)
(* is stale to them.                                                       *)
Kept(x) ==
  /\ req'[x].kind = req[x].kind /\ req'[x].pc = req[x].pc /\ req'[x].change = req[x].change
  /\ req'[x].doc = req[x].doc /\ req'[x].todo = req[x].todo /\ req'[x].key = req[x].key
  /\ req'[x].value = req[x].value /\ req'[x].done = req[x].done
  /\ req'[x].loaded = req[x].loaded /\ req[x].stale \subseteq req'[x].stale

Moves(o, r) ==
  /\ req' \in [Jobs -> Request] /\ req'[o] = r
  /\ \A x \in Jobs \ {o} : Kept(x)
  /\ o # Boot => req'[Boot] = req[Boot]

Marked(o, K) ==
  \A x \in Requests \ {o} :
    /\ req[x].pc \in {"write", "set"} => K \cap Settings \subseteq req'[x].stale
    /\ req[x].pc \in {"put", "live"} /\ req[x].key \in K => req[x].key \in req'[x].stale

LEMMA StepMoves ==
  ASSUME TypeOK, NEW o \in Jobs, NEW r \in Request, req' = [req EXCEPT ![o] = r]
  PROVE  Moves(o, r)
BY DEF TypeOK, Moves, Kept, Jobs

LEMMA StalesMove ==
  ASSUME TypeOK, NEW o \in Jobs, NEW r \in Request, NEW K \in SUBSET Keys, Stales(o, K, r)
  PROVE  Moves(o, r) /\ Marked(o, K)
<1> DEFINE more(x) == K \cap IF req[x].pc \in {"write", "set"} THEN Settings
                             ELSE IF req[x].pc \in {"put", "live"} THEN {req[x].key}
                             ELSE {}
           q(x)    == [req[x] EXCEPT !.stale = @ \cup more(x)]
           new(x)  == IF x = o THEN r
                      ELSE IF x \in Requests /\ InFlight(x) THEN q(x) ELSE req[x]
<1>1. req' = [x \in Jobs |-> new(x)]
  BY DEF Stales
<1>2. ASSUME NEW x \in Jobs
      PROVE  /\ q(x) \in Request
             /\ q(x).kind = req[x].kind /\ q(x).pc = req[x].pc /\ q(x).change = req[x].change
             /\ q(x).doc = req[x].doc /\ q(x).todo = req[x].todo /\ q(x).key = req[x].key
             /\ q(x).value = req[x].value /\ q(x).done = req[x].done
             /\ q(x).loaded = req[x].loaded /\ q(x).stale = req[x].stale \cup more(x)
  <2>1. req[x] \in Request
    BY DEF TypeOK
  <2>2. more(x) \subseteq Keys
    OBVIOUS
  <2> HIDE DEF more
  <2> QED BY <2>1, <2>2 DEF Request
<1> HIDE DEF q
<1>3. ASSUME NEW x \in Jobs PROVE new(x) \in Request
  BY <1>2 DEF TypeOK
<1>4. req' \in [Jobs -> Request] /\ req'[o] = r
  BY <1>1, <1>3
<1>5. ASSUME NEW x \in Jobs \ {o}
      PROVE  req'[x] = IF x \in Requests /\ InFlight(x) THEN q(x) ELSE req[x]
  BY <1>1, <1>5
<1>6. ASSUME NEW x \in Jobs \ {o} PROVE Kept(x)
  BY <1>2, <1>5, <1>6 DEF Kept
<1>7. ASSUME NEW x \in Requests \ {o}, InFlight(x)
      PROVE  /\ req[x].pc \in {"write", "set"} => K \cap Settings \subseteq req'[x].stale
             /\ req[x].pc \in {"put", "live"} /\ req[x].key \in K => req[x].key \in req'[x].stale
  BY <1>2, <1>5, <1>7 DEF Jobs
<1>8. Marked(o, K)
  BY <1>7 DEF Marked, InFlight
<1>9. o # Boot => req'[Boot] = req[Boot]
  BY <1>5, NameAssumption DEF Jobs
<1> QED BY <1>4, <1>6, <1>8, <1>9 DEF Moves

(* A record is still as it must be when more of it is stale.               *)
LEMMA BootStep ==
  ASSUME BootInv, NEW o \in Jobs, NEW r \in Request, Moves(o, r),
         o = Boot => /\ r.kind \in {"none", "boot"} /\ r.pc # "new" /\ r.stale = {}
                     /\ InFlight(o),
         o # Boot => /\ r.kind # "boot"
                     /\ r.pc \notin {"new", "idle"} => InFlight(o) \/ Serving
  PROVE  BootInv'
BY NameAssumption DEF BootInv, Moves, Kept, InFlight, Serving, Jobs

LEMMA ReqStep ==
  ASSUME ReqInv, NEW o \in Jobs, NEW r \in Request, Moves(o, r), env' = env,
         CallOK(r, Fixed), DocOK(r, last', crossed'), KeyOK(r, vault'),
         \A x \in Jobs \ {o} :
           req[x].pc \in {"write", "set"} =>
             \A k \in DOMAIN last' :
               \/ k \in req'[x].stale
               \/ k \in DOMAIN last /\ last'[k] = last[k] /\ (k \in crossed => k \in crossed'),
         \A x \in Jobs \ {o} :
           req[x].pc \in {"put", "live"} =>
             req[x].key \in req'[x].stale \/ vault'[req[x].key] = vault[req[x].key]
  PROVE  ReqInv'
<1>1. Fixed' = Fixed
  BY DEF Fixed
<1>2. ASSUME NEW x \in Jobs \ {o} PROVE CallOK(req'[x], Fixed)
  <2>1. CallOK(req[x], Fixed) /\ Kept(x)
    BY DEF ReqInv, Moves
  <2> QED BY <2>1 DEF CallOK, Kept
<1>3. ASSUME NEW x \in Jobs \ {o} PROVE DocOK(req'[x], last', crossed')
  <2>1. DocOK(req[x], last, crossed) /\ Kept(x)
    BY DEF ReqInv, Moves
  <2> QED BY <2>1 DEF DocOK, Kept
<1>4. ASSUME NEW x \in Jobs \ {o} PROVE KeyOK(req'[x], vault')
  <2>1. KeyOK(req[x], vault) /\ Kept(x)
    BY DEF ReqInv, Moves
  <2> QED BY <2>1 DEF KeyOK, Kept
<1>5. req'[o] = r
  BY DEF Moves
<1> QED BY <1>1, <1>2, <1>3, <1>4, <1>5 DEF ReqInv

(* What is not yet as it should be stays owed, by the mover or another.    *)
LEMMA LiveStep ==
  ASSUME LiveInv, NEW o \in Jobs, NEW r \in Request, Moves(o, r),
         \A k \in DOMAIN last' \ (crossed' \cup broken') :
           \/ InForce(k)' \/ Loads(r, k)
           \/ /\ k \in DOMAIN last \ (crossed \cup broken)
              /\ InForce(k) => InForce(k)'
              /\ ~Loads(req[o], k)
  PROVE  LiveInv'
<1>1. ASSUME NEW x \in Jobs \ {o}, NEW k, Loads(req[x], k) PROVE Loads(req'[x], k)
  <2>1. Kept(x)
    BY DEF Moves
  <2> QED BY <1>1, <2>1 DEF Loads, Kept
<1>2. req'[o] = r
  BY DEF Moves
<1>3. ASSUME NEW k \in DOMAIN last' \ (crossed' \cup broken')
      PROVE  InForce(k)' \/ \E x \in Jobs : Loads(req'[x], k)
  BY <1>1, <1>2, <1>3 DEF LiveInv
<1> QED BY <1>3 DEF LiveInv

LEMMA PollStep ==
  ASSUME PollInv, NEW o \in Jobs, NEW r \in Request, Moves(o, r),
         Within' \/ Mends(r) \/ ((Within => Within') /\ ~Mends(req[o]))
  PROVE  PollInv'
<1>1. ASSUME NEW x \in Jobs \ {o}, Mends(req[x]) PROVE Mends(req'[x])
  <2>1. Kept(x)
    BY DEF Moves
  <2> QED BY <1>1, <2>1 DEF Mends, Kept
<1>2. req'[o] = r
  BY DEF Moves
<1> QED BY <1>1, <1>2 DEF PollInv

LEMMA VaultStep ==
  ASSUME VaultInv, NEW o \in Jobs, NEW r \in Request, Moves(o, r), env' = env,
         \A s \in Secrets \ (Fixed \cup crossed' \cup broken') :
           \/ live'[s] = vault'[s] \/ Sets(r, s)
           \/ /\ s \notin crossed \cup broken /\ ~Sets(req[o], s)
              /\ live'[s] = live[s] /\ vault'[s] = vault[s]
  PROVE  VaultInv'
<1>1. ASSUME NEW x \in Jobs \ {o}, NEW s, Sets(req[x], s) PROVE Sets(req'[x], s)
  <2>1. Kept(x)
    BY DEF Moves
  <2> QED BY <1>1, <2>1 DEF Sets, Brings, Kept
<1>2. req'[o] = r
  BY DEF Moves
<1>3. ASSUME NEW s \in Secrets \ (Fixed \cup crossed' \cup broken')
      PROVE  live'[s] = vault'[s] \/ \E x \in Jobs : Sets(req'[x], s)
  BY <1>1, <1>2, <1>3 DEF VaultInv
<1> QED BY <1>3 DEF VaultInv, Fixed

LEMMA BroughtStep ==
  ASSUME BroughtInv, NEW o \in Jobs, NEW r \in Request, Moves(o, r), env' = env,
         \A s \in Secrets \ Fixed : Brings(req[Boot], s) => live'[s] = live[s] \/ o = Boot,
         o = Boot => \A s \in Secrets \ Fixed :
                       Brings(r, s) => Brings(req[o], s) /\ live'[s] = live[s]
  PROVE  BroughtInv'
<1>1. CASE o = Boot
  BY <1>1 DEF BroughtInv, Fixed, Moves
<1>2. CASE o # Boot
  <2>1. Kept(Boot)
    BY <1>2 DEF Moves, Jobs
  <2>2. ASSUME NEW s, Brings(req'[Boot], s) PROVE Brings(req[Boot], s)
    BY <2>1, <2>2 DEF Brings, Kept
  <2> QED BY <1>2, <2>2 DEF BroughtInv, Fixed
<1> QED BY <1>1, <1>2

LEMMA ToldStep ==
  ASSUME ToldInv, NEW o \in Jobs, NEW r \in Request, Moves(o, r),
         \A s \in Secrets \ broken' :
           \/ s \in told' \/ Tells(r, s)
           \/ s \notin broken /\ (s \in told => s \in told') /\ ~Tells(req[o], s)
  PROVE  ToldInv'
<1>1. ASSUME NEW x \in Jobs \ {o}, NEW s, Tells(req[x], s) PROVE Tells(req'[x], s)
  <2>1. Kept(x)
    BY DEF Moves
  <2> QED BY <1>1, <2>1 DEF Tells, Kept
<1>2. req'[o] = r
  BY DEF Moves
<1>3. ASSUME NEW s \in Secrets \ broken'
      PROVE  s \in told' \/ \E x \in Jobs : Tells(req'[x], s)
  BY <1>1, <1>2, <1>3 DEF ToldInv
<1> QED BY <1>3 DEF ToldInv

LEMMA UsedStep ==
  ASSUME UsedInv, NEW o \in Jobs, NEW r \in Request, Moves(o, r),
         \A s \in Secrets \ broken' :
           \/ used'[s] = live'[s] \/ Uses(r, s)
           \/ /\ s \notin broken /\ ~Uses(req[o], s)
              /\ used'[s] = used[s] /\ live'[s] = live[s]
  PROVE  UsedInv'
<1>1. ASSUME NEW x \in Jobs \ {o}, NEW s, Uses(req[x], s) PROVE Uses(req'[x], s)
  <2>1. Kept(x)
    BY DEF Moves
  <2> QED BY <1>1, <2>1 DEF Uses, Kept
<1>2. req'[o] = r
  BY DEF Moves
<1>3. ASSUME NEW s \in Secrets \ broken'
      PROVE  used'[s] = live'[s] \/ \E x \in Jobs : Uses(req'[x], s)
  BY <1>1, <1>2, <1>3 DEF UsedInv
<1> QED BY <1>3 DEF UsedInv

-----------------------------------------------------------------------------
(* What the invariant says of one request.                                 *)
LEMMA MoverIs ==
  ASSUME IInv, NEW o \in Jobs
  PROVE  /\ req[o] \in Request
         /\ CallOK(req[o], Fixed) /\ DocOK(req[o], last, crossed) /\ KeyOK(req[o], vault)
BY DEF IInv, TypeOK, ReqInv

LEMMA RequestIsNoBoot ==
  ASSUME IInv, NEW o \in Requests
  PROVE  o \in Jobs /\ o # Boot /\ req[o].kind # "boot"
BY NameAssumption DEF IInv, BootInv, Jobs

(* A request that begins or ends, as none.                                 *)
LEMMA IdleIs ==
  /\ Idle \in Request /\ Idle.kind = "none" /\ Idle.pc = "idle" /\ Idle.done = {}
  /\ \A K, saved, past, v : CallOK(Idle, K) /\ DocOK(Idle, saved, past) /\ KeyOK(Idle, v)
<1>1. None \in Values
  BY DEF Values
<1>2. Idle \in Request
  BY <1>1, EmptyIs DEF Idle, Request
<1> QED BY <1>2 DEF Idle, CallOK, DocOK, KeyOK

(* A step that changes the request only, which still owes what it did.     *)
LEMMA QuietStep ==
  ASSUME IInv, NEW o \in Jobs, NEW r \in Request, req' = [req EXCEPT ![o] = r],
         UNCHANGED <<env, stored, vault, live, used, last, crossed, broken, told>>,
         trouble' \in Nat,
         o = Boot => /\ r.kind \in {"none", "boot"} /\ r.pc # "new" /\ r.stale = {}
                     /\ InFlight(o),
         o # Boot => /\ r.kind # "boot"
                     /\ r.pc \notin {"new", "idle"} => InFlight(o) \/ Serving,
         CallOK(r, Fixed), DocOK(r, last, crossed), KeyOK(r, vault),
         \A k \in DOMAIN last : Loads(req[o], k) => Loads(r, k),
         Mends(req[o]) => Mends(r),
         \A s \in Secrets : /\ Sets(req[o], s) => Sets(r, s)
                            /\ Tells(req[o], s) => Tells(r, s)
                            /\ Uses(req[o], s) => Uses(r, s)
                            /\ o = Boot /\ Brings(r, s) => Brings(req[o], s)
  PROVE  IInv'
<1>1. TypeOK /\ BootInv /\ ReqInv /\ StoredInv /\ LiveInv /\ PollInv
      /\ VaultInv /\ BroughtInv /\ ToldInv /\ UsedInv
  BY DEF IInv
<1>2. Moves(o, r)
  BY <1>1, StepMoves
<1>3. TypeOK'
  BY <1>1, <1>2 DEF TypeOK, Moves
<1>4. BootInv'
  BY <1>1, <1>2, BootStep
<1>5. ReqInv'
  BY <1>1, <1>2, ReqStep
<1>6. StoredInv'
  BY <1>1 DEF StoredInv
<1>7. LiveInv'
  <2>1. \A k : InForce(k)' <=> InForce(k)
    BY DEF InForce, Fixed
  <2> QED BY <1>1, <1>2, <2>1, LiveStep
<1>8. PollInv'
  BY <1>1, <1>2, PollStep DEF Within
<1>9. VaultInv'
  BY <1>1, <1>2, VaultStep
<1>10. BroughtInv'
  BY <1>1, <1>2, BroughtStep
<1>11. ToldInv'
  BY <1>1, <1>2, ToldStep
<1>12. UsedInv'
  BY <1>1, <1>2, UsedStep
<1> QED BY <1>3, <1>4, <1>5, <1>6, <1>7, <1>8, <1>9, <1>10, <1>11, <1>12 DEF IInv

LEMMA PatchKeeps ==
  ASSUME IInv, NEW o \in Requests, Patch(o)
  PROVE  IInv'
<1>1. PICK change \in Changes :
        req' = [req EXCEPT ![o] = IF Valid(change)
                                  THEN [Idle EXCEPT !.kind = "patch", !.pc = "read", !.change = change]
                                  ELSE Idle]
  BY DEF Patch
<1> DEFINE b == [Idle EXCEPT !.kind = "patch", !.pc = "read", !.change = change]
<1>2. /\ b \in Request /\ b.kind = "patch" /\ b.pc = "read" /\ b.change = change /\ b.done = {}
  BY IdleIs DEF Request
<1>3. req' = [req EXCEPT ![o] = b] \/ req' = [req EXCEPT ![o] = Idle]
  BY <1>1
<1>4. o \in Jobs /\ o # Boot /\ At(o, "new") /\ Serving /\ trouble' \in Nat
      /\ UNCHANGED <<env, stored, vault, live, used, last, crossed, broken, told>>
  BY RequestIsNoBoot DEF Patch, Admitted, IInv, TypeOK
<1>5. /\ \A k : ~Loads(req[o], k)
      /\ ~Mends(req[o])
      /\ \A s : ~Sets(req[o], s) /\ ~Tells(req[o], s) /\ ~Uses(req[o], s)
  BY <1>4, MoverIs DEF At, CallOK, Loads, Mends, Sets, Brings, Tells, Uses, Request
<1> HIDE DEF b
<1>6. CallOK(b, Fixed) /\ DocOK(b, last, crossed) /\ KeyOK(b, vault)
  BY <1>2 DEF CallOK, DocOK, KeyOK
<1>7. CASE req' = [req EXCEPT ![o] = b]
  BY <1>2, <1>4, <1>5, <1>6, <1>7, QuietStep
<1>8. CASE req' = [req EXCEPT ![o] = Idle]
  BY <1>4, <1>5, <1>8, IdleIs, QuietStep
<1> QED BY <1>3, <1>7, <1>8

LEMMA WriteSecretsKeeps ==
  ASSUME IInv, NEW o \in Requests, WriteSecrets(o)
  PROVE  IInv'
<1>1. PICK w \in Writes :
        req' = [req EXCEPT ![o] = [Idle EXCEPT !.kind = "secrets", !.pc = "next",
                                     !.change = w, !.todo = DOMAIN w]]
  BY DEF WriteSecrets
<1> DEFINE b == [Idle EXCEPT !.kind = "secrets", !.pc = "next", !.change = w, !.todo = DOMAIN w]
<1>2. /\ b \in Request /\ b.kind = "secrets" /\ b.pc = "next" /\ b.change = w
      /\ b.todo = DOMAIN w /\ b.done = {}
  BY IdleIs, WriteAssumption DEF Request
<1>3. o \in Jobs /\ o # Boot /\ At(o, "new") /\ Serving /\ trouble' \in Nat
      /\ UNCHANGED <<env, stored, vault, live, used, last, crossed, broken, told>>
  BY RequestIsNoBoot DEF WriteSecrets, Admitted, IInv, TypeOK
<1>4. /\ \A k : ~Loads(req[o], k)
      /\ ~Mends(req[o])
      /\ \A s : ~Sets(req[o], s) /\ ~Tells(req[o], s) /\ ~Uses(req[o], s)
  BY <1>3, MoverIs DEF At, CallOK, Loads, Mends, Sets, Brings, Tells, Uses, Request
<1> HIDE DEF b
<1>5. CallOK(b, Fixed) /\ DocOK(b, last, crossed) /\ KeyOK(b, vault)
  BY <1>2 DEF CallOK, DocOK, KeyOK
<1>6. req' = [req EXCEPT ![o] = b]
  BY <1>1 DEF b
<1> QED BY <1>2, <1>3, <1>4, <1>5, <1>6, QuietStep

LEMMA PatchReadKeeps ==
  ASSUME IInv, NEW o \in Requests, PatchRead(o)
  PROVE  IInv'
<1> DEFINE r == [req[o] EXCEPT !.pc = "write", !.doc = stored]
<1>1. o \in Jobs /\ o # Boot /\ At(o, "read") /\ req' = [req EXCEPT ![o] = r]
      /\ req[o].kind # "boot" /\ trouble' \in Nat
      /\ UNCHANGED <<env, stored, vault, live, used, last, crossed, broken, told>>
  BY RequestIsNoBoot DEF PatchRead, IInv, TypeOK
<1>2. req[o] \in Request /\ CallOK(req[o], Fixed) /\ stored \in Documents
  BY <1>1, MoverIs DEF IInv, TypeOK
<1>3. /\ r \in Request /\ r.kind = req[o].kind /\ r.pc = "write" /\ r.change = req[o].change
      /\ r.doc = stored /\ r.done = req[o].done /\ r.stale = req[o].stale
  BY <1>2 DEF Request
<1> HIDE DEF r
<1>4. req[o].kind = "patch" /\ req[o].pc = "read"
  BY <1>1, <1>2 DEF At, CallOK, Request
<1>5. CallOK(r, Fixed)
  BY <1>2, <1>3, <1>4 DEF CallOK
<1>6. DocOK(r, last, crossed) /\ KeyOK(r, vault)
  BY <1>3 DEF DocOK, KeyOK, IInv, StoredInv
<1>7. /\ \A k : ~Loads(req[o], k)
      /\ ~Mends(req[o])
      /\ \A s : ~Sets(req[o], s) /\ ~Tells(req[o], s) /\ ~Uses(req[o], s)
  BY <1>4 DEF Loads, Mends, Sets, Brings, Tells, Uses
<1>8. InFlight(o)
  BY <1>4 DEF InFlight
<1> QED BY <1>1, <1>3, <1>4, <1>5, <1>6, <1>7, <1>8, QuietStep

LEMMA LoadReadKeeps ==
  ASSUME IInv, NEW o \in Jobs, LoadRead(o)
  PROVE  IInv'
<1> DEFINE r == [req[o] EXCEPT !.pc = "set", !.doc = stored]
<1>1. At(o, "load") /\ req' = [req EXCEPT ![o] = r] /\ trouble' \in Nat
      /\ UNCHANGED <<env, stored, vault, live, used, last, crossed, broken, told>>
  BY DEF LoadRead, IInv, TypeOK
<1>2. req[o] \in Request /\ CallOK(req[o], Fixed) /\ stored \in Documents
  BY <1>1, MoverIs DEF IInv, TypeOK
<1>3. /\ r \in Request /\ r.kind = req[o].kind /\ r.pc = "set" /\ r.change = req[o].change
      /\ r.doc = stored /\ r.done = req[o].done /\ r.stale = req[o].stale /\ r.todo = req[o].todo
  BY <1>2 DEF Request
<1> HIDE DEF r
<1>4. req[o].pc = "load" /\ InFlight(o)
  BY <1>1 DEF At, InFlight
<1>5. CallOK(r, Fixed)
  BY <1>2, <1>3, <1>4 DEF CallOK
<1>6. DocOK(r, last, crossed) /\ KeyOK(r, vault)
  BY <1>3 DEF DocOK, KeyOK, IInv, StoredInv
<1>7. /\ \A k : Loads(req[o], k) => Loads(r, k)
      /\ Mends(req[o]) => Mends(r)
      /\ \A s : /\ Sets(req[o], s) => Sets(r, s)
                /\ Tells(req[o], s) => Tells(r, s)
                /\ Uses(req[o], s) => Uses(r, s)
                /\ Brings(r, s) => Brings(req[o], s)
  BY <1>3, <1>4 DEF Loads, Mends, Sets, Brings, Tells, Uses
<1>8. /\ o = Boot => r.kind \in {"none", "boot"} /\ r.pc # "new" /\ r.stale = {}
      /\ o # Boot => r.kind # "boot"
  BY <1>3, RequestIsNoBoot DEF IInv, BootInv, Jobs
<1> QED BY <1>1, <1>3, <1>4, <1>5, <1>6, <1>7, <1>8, QuietStep

LEMMA SecretGetKeeps ==
  ASSUME IInv, NEW o \in Jobs, SecretGet(o)
  PROVE  IInv'
<1>1. /\ At(o, "get") /\ trouble' \in Nat
      /\ UNCHANGED <<env, stored, vault, live, used, last, crossed, broken, told>>
  BY DEF SecretGet, IInv, TypeOK
<1>2. /\ req[o] \in Request /\ CallOK(req[o], Fixed) /\ vault \in [Secrets -> Values]
      /\ req[o].pc = "get" /\ InFlight(o)
      /\ o = Boot => req[o].kind \in {"none", "boot"} /\ req[o].stale = {}
      /\ o # Boot => req[o].kind # "boot"
  BY <1>1, MoverIs, RequestIsNoBoot DEF IInv, TypeOK, BootInv, Jobs, At, InFlight
<1>3. CASE req[o].todo = {}
  <2> DEFINE r == [req[o] EXCEPT !.pc = "repair"]
  <2>1. req' = [req EXCEPT ![o] = r]
    BY <1>3 DEF SecretGet
  <2>2. /\ r \in Request /\ r.kind = req[o].kind /\ r.pc = "repair" /\ r.change = req[o].change
        /\ r.done = req[o].done /\ r.todo = req[o].todo /\ r.loaded = req[o].loaded
        /\ r.stale = req[o].stale
    BY <1>2 DEF Request
  <2> HIDE DEF r
  <2>3. CallOK(r, Fixed) /\ DocOK(r, last, crossed) /\ KeyOK(r, vault)
    BY <1>2, <2>2 DEF CallOK, DocOK, KeyOK
  <2>4. /\ \A k : Loads(req[o], k) => Loads(r, k)
        /\ Mends(req[o]) => Mends(r)
        /\ \A s : /\ Sets(req[o], s) => Sets(r, s)
                  /\ Tells(req[o], s) => Tells(r, s)
                  /\ Uses(req[o], s) => Uses(r, s)
                  /\ Brings(r, s) => Brings(req[o], s)
    BY <1>2, <1>3, <2>2 DEF Loads, Mends, Sets, Brings, Tells, Uses
  <2> QED BY <1>1, <1>2, <2>1, <2>2, <2>3, <2>4, QuietStep
<1>4. CASE req[o].todo # {}
  <2> DEFINE t == CHOOSE s \in req[o].todo : TRUE
             r == [req[o] EXCEPT !.pc = "put", !.key = t, !.value = vault[t],
                                 !.todo = @ \ {t}]
  <2>1. req' = [req EXCEPT ![o] = r]
    BY <1>4 DEF SecretGet
  <2>2. t \in req[o].todo
    BY <1>4
  <2> HIDE DEF t
  <2>3. t \in Secrets \ Fixed /\ vault[t] \in Values
    BY <1>2, <2>2 DEF CallOK, Request
  <2>4. /\ r \in Request /\ r.kind = req[o].kind /\ r.pc = "put" /\ r.change = req[o].change
        /\ r.done = req[o].done /\ r.todo = req[o].todo \ {t} /\ r.loaded = req[o].loaded
        /\ r.key = t /\ r.value = vault[t] /\ r.stale = req[o].stale
    BY <1>2, <2>3 DEF Request
  <2> HIDE DEF r
  <2>5. CallOK(r, Fixed) /\ DocOK(r, last, crossed) /\ KeyOK(r, vault)
    BY <1>2, <2>3, <2>4 DEF CallOK, DocOK, KeyOK
  <2>6. /\ \A k : Loads(req[o], k) => Loads(r, k)
        /\ Mends(req[o]) => Mends(r)
        /\ \A s : /\ Sets(req[o], s) => Sets(r, s)
                  /\ Tells(req[o], s) => Tells(r, s)
                  /\ Uses(req[o], s) => Uses(r, s)
                  /\ Brings(r, s) => Brings(req[o], s)
    BY <1>2, <2>2, <2>4 DEF Loads, Mends, Sets, Brings, Tells, Uses
  <2> QED BY <1>1, <1>2, <2>1, <2>4, <2>5, <2>6, QuietStep
<1> QED BY <1>3, <1>4

(* A request that ends in an error leaves what it has changed broken.      *)
LEMMA ErrorKeeps ==
  ASSUME IInv, NEW o \in Requests, req[o].pc \in {"next", "store", "set"},
         End(o), broken' = broken \cup req[o].done, trouble' \in Nat,
         UNCHANGED <<env, stored, vault, live, used, last, crossed, told>>
  PROVE  IInv'
<1>1. TypeOK /\ BootInv /\ ReqInv /\ StoredInv /\ LiveInv /\ PollInv
      /\ VaultInv /\ BroughtInv /\ ToldInv /\ UsedInv
  BY DEF IInv
<1>2. o \in Jobs /\ o # Boot /\ req[o].kind # "boot" /\ req[o] \in Request
  BY RequestIsNoBoot, MoverIs
<1>3. Idle \in Request /\ Idle.kind = "none" /\ Idle.pc = "idle"
  BY IdleIs
<1>4. Moves(o, Idle)
  BY <1>1, <1>2, <1>3, StepMoves DEF End
<1>5. TypeOK'
  BY <1>1, <1>2, <1>4 DEF TypeOK, Moves, Request
<1>6. BootInv'
  BY <1>1, <1>2, <1>3, <1>4, BootStep
<1>7. ReqInv'
  BY <1>1, <1>2, <1>3, <1>4, IdleIs, ReqStep
<1>8. StoredInv'
  BY <1>1 DEF StoredInv
<1>9. LiveInv'
  <2>1. \A k : InForce(k)' <=> InForce(k)
    BY DEF InForce, Fixed
  <2>2. \A k : Loads(req[o], k) => k \in broken'
    BY <1>2 DEF Loads
  <2> QED BY <1>1, <1>2, <1>3, <1>4, <2>1, <2>2, LiveStep
<1>10. PollInv'
  BY <1>1, <1>2, <1>3, <1>4, PollStep DEF Within, Mends
<1>11. VaultInv'
  <2>1. \A s : ~Sets(req[o], s)
    BY <1>2 DEF Sets, Brings
  <2> QED BY <1>1, <1>2, <1>3, <1>4, <2>1, VaultStep
<1>12. BroughtInv'
  BY <1>1, <1>2, <1>3, <1>4, BroughtStep
<1>13. ToldInv'
  <2>1. \A s : Tells(req[o], s) => s \in broken'
    BY DEF Tells
  <2> QED BY <1>1, <1>2, <1>3, <1>4, <2>1, ToldStep
<1>14. UsedInv'
  <2>1. \A s : Uses(req[o], s) => s \in broken'
    BY DEF Uses
  <2> QED BY <1>1, <1>2, <1>3, <1>4, <2>1, UsedStep
<1> QED BY <1>5, <1>6, <1>7, <1>8, <1>9, <1>10, <1>11, <1>12, <1>13, <1>14 DEF IInv

LEMMA SecretNextKeeps ==
  ASSUME IInv, NEW o \in Requests, SecretNext(o)
  PROVE  IInv'
<1>1. /\ At(o, "next") /\ trouble' \in Nat
      /\ UNCHANGED <<env, stored, vault, live, used, last, crossed, told>>
  BY DEF SecretNext, IInv, TypeOK
<1>2. /\ o \in Jobs /\ o # Boot /\ req[o].kind # "boot" /\ InFlight(o)
      /\ req[o] \in Request /\ CallOK(req[o], Fixed) /\ req[o].pc = "next"
  BY <1>1, MoverIs, RequestIsNoBoot DEF At, InFlight
<1>3. CASE req[o].todo = {}
  <2> DEFINE r == [req[o] EXCEPT !.pc = "refresh"]
  <2>1. req' = [req EXCEPT ![o] = r] /\ broken' = broken
    BY <1>3 DEF SecretNext
  <2>2. /\ r \in Request /\ r.kind = req[o].kind /\ r.pc = "refresh" /\ r.change = req[o].change
        /\ r.done = req[o].done /\ r.todo = req[o].todo /\ r.loaded = req[o].loaded
        /\ r.stale = req[o].stale
    BY <1>2 DEF Request
  <2> HIDE DEF r
  <2>3. CallOK(r, Fixed) /\ DocOK(r, last, crossed) /\ KeyOK(r, vault)
    BY <1>2, <2>2 DEF CallOK, DocOK, KeyOK
  <2>4. /\ \A k : Loads(req[o], k) => Loads(r, k)
        /\ Mends(req[o]) => Mends(r)
        /\ \A s : /\ Sets(req[o], s) => Sets(r, s)
                  /\ Tells(req[o], s) => Tells(r, s)
                  /\ Uses(req[o], s) => Uses(r, s)
    BY <1>2, <2>2 DEF Loads, Mends, Sets, Brings, Tells, Uses
  <2> QED BY <1>1, <1>2, <2>1, <2>2, <2>3, <2>4, QuietStep
<1>4. ASSUME NEW s \in req[o].todo, req[o].change[s] = Invalid,
             End(o), broken' = broken \cup req[o].done
      PROVE  IInv'
  BY <1>1, <1>2, <1>4, ErrorKeeps
<1>5. ASSUME NEW t \in req[o].todo, broken' = broken,
             req' = [req EXCEPT ![o].pc = "store", ![o].key = t, ![o].todo = @ \ {t}]
      PROVE  IInv'
  <2> DEFINE r == [req[o] EXCEPT !.pc = "store", !.key = t, !.todo = @ \ {t}]
  <2>1. req' = [req EXCEPT ![o] = r]
    BY <1>5
  <2>2. /\ r \in Request /\ r.kind = req[o].kind /\ r.pc = "store" /\ r.change = req[o].change
        /\ r.done = req[o].done /\ r.todo = req[o].todo \ {t} /\ r.loaded = req[o].loaded
        /\ r.key = t
    BY <1>2 DEF Request
  <2> HIDE DEF r
  <2>3. CallOK(r, Fixed) /\ DocOK(r, last, crossed) /\ KeyOK(r, vault)
    BY <1>2, <2>2 DEF CallOK, DocOK, KeyOK
  <2>4. /\ \A k : Loads(req[o], k) => Loads(r, k)
        /\ Mends(req[o]) => Mends(r)
        /\ \A s : /\ Sets(req[o], s) => Sets(r, s)
                  /\ Tells(req[o], s) => Tells(r, s)
                  /\ Uses(req[o], s) => Uses(r, s)
    BY <1>2, <2>2 DEF Loads, Mends, Sets, Brings, Tells, Uses
  <2> QED BY <1>1, <1>2, <1>5, <2>1, <2>2, <2>3, <2>4, QuietStep
<1> QED BY <1>3, <1>4, <1>5 DEF SecretNext

LEMMA AuditKeeps ==
  ASSUME IInv, NEW o \in Requests, Audit(o)
  PROVE  IInv'
<1>1. TypeOK /\ BootInv /\ ReqInv /\ StoredInv /\ LiveInv /\ PollInv
      /\ VaultInv /\ BroughtInv /\ ToldInv /\ UsedInv
  BY DEF IInv
<1>2. /\ At(o, "audit") /\ End(o) /\ told' = told \cup (req[o].done \cap Secrets)
      /\ UNCHANGED <<env, stored, vault, live, used, trouble, last, crossed, broken>>
  BY DEF Audit, Audited
<1>3. /\ o \in Jobs /\ o # Boot /\ req[o].kind # "boot" /\ req[o] \in Request
      /\ req[o].pc = "audit"
  BY <1>2, RequestIsNoBoot, MoverIs DEF At
<1>4. Idle \in Request /\ Idle.kind = "none" /\ Idle.pc = "idle"
  BY IdleIs
<1>5. Moves(o, Idle)
  BY <1>1, <1>2, <1>3, <1>4, StepMoves DEF End
<1>6. TypeOK'
  BY <1>1, <1>2, <1>5 DEF TypeOK, Moves
<1>7. BootInv'
  BY <1>1, <1>3, <1>4, <1>5, BootStep
<1>8. ReqInv'
  BY <1>1, <1>2, <1>3, <1>4, <1>5, IdleIs, ReqStep
<1>9. StoredInv'
  BY <1>1, <1>2 DEF StoredInv
<1>10. LiveInv'
  <2>1. \A k : InForce(k)' <=> InForce(k)
    BY <1>2 DEF InForce, Fixed
  <2> QED BY <1>1, <1>2, <1>3, <1>4, <1>5, <2>1, LiveStep DEF Loads
<1>11. PollInv'
  BY <1>1, <1>2, <1>3, <1>4, <1>5, PollStep DEF Within, Mends
<1>12. VaultInv'
  <2>1. \A s : ~Sets(req[o], s)
    BY <1>3 DEF Sets, Brings
  <2> QED BY <1>1, <1>2, <1>3, <1>4, <1>5, <2>1, VaultStep
<1>13. BroughtInv'
  BY <1>1, <1>2, <1>3, <1>4, <1>5, BroughtStep
<1>14. ToldInv'
  <2>1. \A s \in Secrets : Tells(req[o], s) => s \in told'
    BY <1>2 DEF Tells
  <2> QED BY <1>1, <1>2, <1>3, <1>4, <1>5, <2>1, ToldStep
<1>15. UsedInv'
  BY <1>1, <1>2, <1>3, <1>4, <1>5, UsedStep DEF Uses
<1> QED BY <1>6, <1>7, <1>8, <1>9, <1>10, <1>11, <1>12, <1>13, <1>14, <1>15 DEF IInv

LEMMA RefreshKeeps ==
  ASSUME IInv, NEW o \in Requests, Refresh(o)
  PROVE  IInv'
<1> DEFINE r == [req[o] EXCEPT !.pc = "audit"]
<1>1. TypeOK /\ BootInv /\ ReqInv /\ StoredInv /\ LiveInv /\ PollInv
      /\ VaultInv /\ BroughtInv /\ ToldInv /\ UsedInv
  BY DEF IInv
<1>2. /\ At(o, "refresh") /\ req' = [req EXCEPT ![o] = r] /\ used' = [s \in Secrets |-> live[s]]
      /\ UNCHANGED <<env, stored, vault, live, trouble, last, crossed, broken, told>>
  BY DEF Refresh
<1>3. /\ o \in Jobs /\ o # Boot /\ req[o].kind # "boot" /\ req[o] \in Request
      /\ req[o].pc = "refresh" /\ InFlight(o) /\ CallOK(req[o], Fixed)
  BY <1>2, RequestIsNoBoot, MoverIs DEF At, InFlight
<1>4. /\ r \in Request /\ r.kind = req[o].kind /\ r.pc = "audit" /\ r.change = req[o].change
      /\ r.done = req[o].done /\ r.todo = req[o].todo
  BY <1>3 DEF Request
<1> HIDE DEF r
<1>5. Moves(o, r)
  BY <1>1, <1>2, <1>3, <1>4, StepMoves
<1>6. TypeOK'
  BY <1>1, <1>2, <1>5 DEF TypeOK, Moves
<1>7. BootInv'
  BY <1>1, <1>3, <1>4, <1>5, BootStep
<1>8. ReqInv'
  <2>1. CallOK(r, Fixed) /\ DocOK(r, last, crossed) /\ KeyOK(r, vault)
    BY <1>3, <1>4 DEF CallOK, DocOK, KeyOK
  <2> QED BY <1>1, <1>2, <1>3, <1>4, <1>5, <2>1, ReqStep
<1>9. StoredInv'
  BY <1>1, <1>2 DEF StoredInv
<1>10. LiveInv'
  <2>1. \A k : InForce(k)' <=> InForce(k)
    BY <1>2 DEF InForce, Fixed
  <2> QED BY <1>1, <1>2, <1>3, <1>4, <1>5, <2>1, LiveStep DEF Loads
<1>11. PollInv'
  BY <1>1, <1>2, <1>3, <1>4, <1>5, PollStep DEF Within, Mends
<1>12. VaultInv'
  <2>1. \A s : ~Sets(req[o], s)
    BY <1>3 DEF Sets, Brings
  <2> QED BY <1>1, <1>2, <1>3, <1>4, <1>5, <2>1, VaultStep
<1>13. BroughtInv'
  BY <1>1, <1>2, <1>3, <1>4, <1>5, BroughtStep
<1>14. ToldInv'
  BY <1>1, <1>2, <1>3, <1>4, <1>5, ToldStep DEF Tells
<1>15. UsedInv'
  BY <1>1, <1>2, <1>3, <1>4, <1>5, UsedStep
<1> QED BY <1>6, <1>7, <1>8, <1>9, <1>10, <1>11, <1>12, <1>13, <1>14, <1>15 DEF IInv

(* While a request is in flight the load at the start is over.             *)
LEMMA StartIsOver ==
  ASSUME IInv, NEW o \in Requests, InFlight(o)
  PROVE  \A s : ~Brings(req[Boot], s)
BY NameAssumption DEF IInv, BootInv, Brings, InFlight, Jobs

LEMMA SecretPutKeeps ==
  ASSUME IInv, NEW o \in Jobs, SecretPut(o)
  PROVE  IInv'
<1> DEFINE s   == req[o].key
           got == req[o].loaded \/ req[o].value # None
           r   == [req[o] EXCEPT !.pc = "get", !.stale = {}, !.loaded = got]
<1>1. TypeOK /\ BootInv /\ ReqInv /\ StoredInv /\ LiveInv /\ PollInv
      /\ VaultInv /\ BroughtInv /\ ToldInv /\ UsedInv
  BY DEF IInv
<1>2. /\ At(o, "put")
      /\ \/ req[o].value = None /\ live' = live /\ crossed' = crossed
         \/ /\ req[o].value # None /\ live' = [live EXCEPT ![s] = req[o].value]
            /\ crossed' = crossed \cup req[o].stale
      /\ UNCHANGED <<env, stored, vault, used, trouble, last, broken, told>>
  BY DEF SecretPut
<1>3. req' = [req EXCEPT ![o] = r]
  BY Zenon DEF SecretPut
<1>4. /\ req[o] \in Request /\ req[o].pc = "put" /\ InFlight(o)
      /\ CallOK(req[o], Fixed) /\ KeyOK(req[o], vault)
      /\ o = Boot => req[o].kind \in {"none", "boot"} /\ req[o].stale = {}
      /\ o # Boot => req[o].kind # "boot"
  BY <1>1, <1>2, MoverIs, RequestIsNoBoot DEF At, InFlight, BootInv, Jobs
<1>5. s \in Secrets \ Fixed /\ s \notin req[o].todo /\ req[o].value \in Values
      /\ (s \in req[o].stale \/ req[o].value = vault[s])
  BY <1>4 DEF CallOK, KeyOK, Request
<1>6. got \in BOOLEAN /\ (req[o].loaded => got) /\ (req[o].value # None => got)
  OBVIOUS
<1> HIDE DEF got
<1>7. /\ r \in Request /\ r.kind = req[o].kind /\ r.pc = "get" /\ r.change = req[o].change
      /\ r.done = req[o].done /\ r.todo = req[o].todo /\ r.stale = {} /\ r.loaded = got
  BY <1>4, <1>6 DEF Request
<1> HIDE DEF r
<1>8. Moves(o, r)
  BY <1>1, <1>3, <1>7, StepMoves
<1>9. /\ live' \in [Keys -> Nat \cup Values] /\ \A k \in Settings : live'[k] = live[k]
      /\ \A t \in Secrets : live'[t] = IF t = s /\ req[o].value # None
                                       THEN req[o].value ELSE live[t]
  BY <1>1, <1>2, <1>5, KeysDiffer DEF TypeOK
<1>10. crossed \subseteq crossed' /\ crossed' \subseteq Keys
  BY <1>1, <1>2, <1>4 DEF TypeOK, Request
<1>11. TypeOK'
  BY <1>1, <1>2, <1>5, <1>8, <1>9, <1>10 DEF TypeOK, Moves
<1>12. BootInv'
  BY <1>1, <1>4, <1>7, <1>8, BootStep
<1>13. ReqInv'
  <2>1. CallOK(r, Fixed) /\ DocOK(r, last', crossed') /\ KeyOK(r, vault')
    BY <1>4, <1>7 DEF CallOK, DocOK, KeyOK
  <2> QED BY <1>1, <1>2, <1>7, <1>8, <1>10, <2>1, ReqStep
<1>14. StoredInv'
  BY <1>1, <1>2, <1>10 DEF StoredInv
<1>15. LiveInv'
  <2>1. \A k \in DOMAIN last : InForce(k)' <=> InForce(k)
    BY <1>1, <1>2, <1>9, DocumentIs, KeysDiffer DEF InForce, Fixed, TypeOK
  <2>2. \A k : ~Loads(req[o], k)
    BY <1>4 DEF Loads
  <2> QED BY <1>1, <1>2, <1>7, <1>8, <1>10, <2>1, <2>2, LiveStep
<1>16. PollInv'
  BY <1>1, <1>7, <1>8, PollStep DEF Mends
<1>17. VaultInv'
  <2>1. ASSUME NEW t \in Secrets \ (Fixed \cup crossed' \cup broken')
        PROVE  \/ live'[t] = vault'[t] \/ Sets(r, t)
               \/ /\ t \notin crossed \cup broken /\ ~Sets(req[o], t)
                  /\ live'[t] = live[t] /\ vault'[t] = vault[t]
    <3>1. CASE t = s /\ req[o].value # None
      BY <1>2, <1>5, <1>9, <2>1, <3>1
    <3>2. CASE t = s /\ req[o].value = None /\ o = Boot
      <4>1. Brings(req[Boot], s) \/ req[o].kind = "none"
        BY <1>4, <3>2 DEF Brings
      <4>2. live[s] = None
        BY <1>1, <1>4, <1>5, <4>1 DEF BroughtInv, CallOK
      <4> QED BY <1>2, <1>4, <1>5, <1>9, <3>2, <4>2
    <3>3. CASE t = s /\ req[o].value = None /\ o # Boot
      BY <1>2, <1>4, <1>9, <1>10, <2>1, <3>3 DEF Sets, Brings
    <3>4. CASE t # s
      BY <1>2, <1>4, <1>7, <1>9, <1>10, <2>1, <3>4 DEF Sets, Brings
    <3> QED BY <3>1, <3>2, <3>3, <3>4
  <2> QED BY <1>1, <1>2, <1>7, <1>8, <2>1, VaultStep
<1>18. BroughtInv'
  <2>1. o # Boot => \A t : ~Brings(req[Boot], t)
    BY <1>4, StartIsOver DEF Jobs
  <2>2. ASSUME NEW t \in Secrets, Brings(r, t)
        PROVE  Brings(req[o], t) /\ live'[t] = live[t]
    BY <1>4, <1>5, <1>7, <1>9, <2>2 DEF Brings
  <2> QED BY <1>1, <1>2, <1>7, <1>8, <2>1, <2>2, BroughtStep
<1>19. ToldInv'
  BY <1>1, <1>2, <1>7, <1>8, ToldStep DEF Tells
<1>20. UsedInv'
  <2>1. \A t \in Secrets : Uses(req[o], t) => Uses(r, t)
    BY <1>4, <1>6, <1>7 DEF Uses
  <2>2. req[o].value # None => \A t : Uses(r, t)
    BY <1>6, <1>7 DEF Uses
  <2> QED BY <1>1, <1>2, <1>7, <1>8, <2>1, <2>2, UsedStep
<1> QED BY <1>11, <1>12, <1>13, <1>14, <1>15, <1>16, <1>17, <1>18, <1>19, <1>20 DEF IInv

LEMMA ReadFailsKeeps ==
  ASSUME IInv, NEW o \in Jobs, ReadFails(o)
  PROVE  IInv'
<1> DEFINE s == req[o].key
           r == [req[o] EXCEPT !.pc = "get", !.stale = {}]
<1>1. TypeOK /\ BootInv /\ ReqInv /\ StoredInv /\ LiveInv /\ PollInv
      /\ VaultInv /\ BroughtInv /\ ToldInv /\ UsedInv
  BY DEF IInv
<1>2. /\ At(o, "put") /\ req' = [req EXCEPT ![o] = r] /\ broken' = broken \cup {s}
      /\ UNCHANGED <<env, stored, vault, live, used, last, crossed, told>>
      /\ trouble' = trouble + 1
  BY DEF ReadFails, Disturb
<1>3. /\ req[o] \in Request /\ req[o].pc = "put" /\ InFlight(o) /\ CallOK(req[o], Fixed)
      /\ o = Boot => req[o].kind \in {"none", "boot"}
      /\ o # Boot => req[o].kind # "boot"
  BY <1>1, <1>2, MoverIs, RequestIsNoBoot DEF At, InFlight, BootInv, Jobs
<1>4. s \in Secrets \ Fixed /\ s \notin req[o].todo
  BY <1>3 DEF CallOK
<1>5. /\ r \in Request /\ r.kind = req[o].kind /\ r.pc = "get" /\ r.change = req[o].change
      /\ r.done = req[o].done /\ r.todo = req[o].todo /\ r.stale = {}
      /\ r.loaded = req[o].loaded
  BY <1>3 DEF Request
<1> HIDE DEF r
<1>6. Moves(o, r)
  BY <1>1, <1>2, <1>5, StepMoves
<1>7. TypeOK'
  BY <1>1, <1>2, <1>4, <1>6, KeysDiffer DEF TypeOK, Moves
<1>8. BootInv'
  BY <1>1, <1>3, <1>5, <1>6, BootStep
<1>9. ReqInv'
  <2>1. CallOK(r, Fixed) /\ DocOK(r, last', crossed') /\ KeyOK(r, vault')
    BY <1>3, <1>5 DEF CallOK, DocOK, KeyOK
  <2> QED BY <1>1, <1>2, <1>5, <1>6, <2>1, ReqStep
<1>10. StoredInv'
  BY <1>1, <1>2 DEF StoredInv
<1>11. LiveInv'
  <2>1. \A k : InForce(k)' <=> InForce(k)
    BY <1>2 DEF InForce, Fixed
  <2>2. \A k : ~Loads(req[o], k)
    BY <1>3 DEF Loads
  <2> QED BY <1>1, <1>2, <1>5, <1>6, <2>1, <2>2, LiveStep
<1>12. PollInv'
  BY <1>1, <1>5, <1>6, PollStep DEF Mends
<1>13. VaultInv'
  <2>1. \A t : Sets(req[o], t) => Sets(r, t) \/ t = s
    BY <1>3, <1>5 DEF Sets, Brings
  <2> QED BY <1>1, <1>2, <1>5, <1>6, <2>1, VaultStep
<1>14. BroughtInv'
  <2>1. \A t : Brings(r, t) => Brings(req[o], t)
    BY <1>3, <1>5 DEF Brings
  <2> QED BY <1>1, <1>2, <1>5, <1>6, <2>1, BroughtStep
<1>15. ToldInv'
  BY <1>1, <1>2, <1>5, <1>6, ToldStep DEF Tells
<1>16. UsedInv'
  <2>1. \A t \in Secrets : Uses(req[o], t) => Uses(r, t)
    BY <1>3, <1>5 DEF Uses
  <2> QED BY <1>1, <1>2, <1>5, <1>6, <2>1, UsedStep
<1> QED BY <1>7, <1>8, <1>9, <1>10, <1>11, <1>12, <1>13, <1>14, <1>15, <1>16 DEF IInv

LEMMA LoadSetKeeps ==
  ASSUME IInv, NEW o \in Jobs, LoadSet(o)
  PROVE  IInv'
<1> DEFINE some == ~(DOMAIN req[o].doc \subseteq Fixed)
           r == [req[o] EXCEPT !.pc = "get", !.doc = Empty, !.stale = {},
                               !.todo = Secrets \ Fixed, !.loaded = some]
<1>1. TypeOK /\ BootInv /\ ReqInv /\ StoredInv /\ LiveInv /\ PollInv
      /\ VaultInv /\ BroughtInv /\ ToldInv /\ UsedInv
  BY DEF IInv
<1>2. /\ At(o, "set") /\ crossed' = crossed \cup req[o].stale
      /\ live' = [k \in Keys |-> IF k \in Settings /\ k \in Fixed THEN env[k]
                                 ELSE IF k \in DOMAIN req[o].doc THEN req[o].doc[k]
                                 ELSE live[k]]
      /\ UNCHANGED <<env, stored, vault, used, trouble, last, broken, told>>
  BY DEF LoadSet
<1>3. req' = [req EXCEPT ![o] = r]
  BY Zenon DEF LoadSet
<1>4. /\ req[o] \in Request /\ req[o].pc = "set" /\ InFlight(o)
      /\ CallOK(req[o], Fixed) /\ DocOK(req[o], last, crossed)
      /\ o = Boot => req[o].kind \in {"none", "boot"}
      /\ o # Boot => req[o].kind # "boot"
  BY <1>1, <1>2, MoverIs, RequestIsNoBoot DEF At, InFlight, BootInv, Jobs
<1>5. some \in BOOLEAN
  OBVIOUS
<1> HIDE DEF some
<1>6. /\ r \in Request /\ r.kind = req[o].kind /\ r.pc = "get" /\ r.change = req[o].change
      /\ r.done = req[o].done /\ r.todo = Secrets \ Fixed /\ r.stale = {}
  BY <1>4, <1>5, EmptyIs DEF Request
<1> HIDE DEF r
<1>7. Moves(o, r)
  BY <1>1, <1>3, <1>6, StepMoves
<1>8. /\ DOMAIN req[o].doc \subseteq Settings
      /\ \A k \in DOMAIN req[o].doc : req[o].doc[k] \in Nat
  BY <1>4, DocumentIs DEF Request
<1>9. \A k \in Settings : k \in Fixed => env[k] \in Nat
  BY <1>1, EnvironmentAssumption DEF TypeOK, Fixed
<1>10. /\ \A s \in Secrets : live'[s] = live[s]
       /\ \A k \in Settings : /\ live'[k] \in Nat
                              /\ k \in DOMAIN req[o].doc => k \in Fixed \/ live'[k] = req[o].doc[k]
  BY <1>1, <1>2, <1>8, <1>9, KeysDiffer DEF TypeOK
<1>11. live' \in [Keys -> Nat \cup Values]
  <2>1. \A k \in Keys : live'[k] \in Nat \cup Values
    BY <1>1, <1>10 DEF TypeOK, Keys
  <2> QED BY <1>2, <2>1
<1>12. crossed \subseteq crossed' /\ crossed' \subseteq Keys
  BY <1>1, <1>2, <1>4 DEF TypeOK, Request
<1>13. TypeOK'
  BY <1>1, <1>2, <1>7, <1>10, <1>11, <1>12 DEF TypeOK, Moves
<1>14. BootInv'
  BY <1>1, <1>4, <1>6, <1>7, BootStep
<1>15. ReqInv'
  <2>1. CallOK(r, Fixed) /\ DocOK(r, last', crossed') /\ KeyOK(r, vault')
    BY <1>4, <1>6 DEF CallOK, DocOK, KeyOK
  <2> QED BY <1>1, <1>2, <1>6, <1>7, <1>12, <2>1, ReqStep
<1>16. StoredInv'
  BY <1>1, <1>2, <1>12 DEF StoredInv
<1>17. LiveInv'
  <2>1. ASSUME NEW k \in DOMAIN last' \ (crossed' \cup broken') PROVE InForce(k)'
    <3>1. k \in DOMAIN last /\ k \in Settings
      BY <1>1, <1>2, <2>1, DocumentIs DEF TypeOK
    <3>2. k \in DOMAIN req[o].doc /\ req[o].doc[k] = last[k]
      BY <1>2, <1>4, <2>1, <3>1 DEF DocOK
    <3> QED BY <1>2, <1>10, <3>1, <3>2 DEF InForce, Fixed
  <2> QED BY <1>1, <1>6, <1>7, <2>1, LiveStep
<1>18. PollInv'
  BY <1>1, <1>6, <1>7, PollStep DEF Mends
<1>19. VaultInv'
  <2>1. \A s \in Secrets \ Fixed : Sets(req[o], s) => Sets(r, s)
    BY <1>4, <1>6 DEF Sets, Brings
  <2> QED BY <1>1, <1>2, <1>6, <1>7, <1>10, <1>12, <2>1, VaultStep
<1>20. BroughtInv'
  <2>1. \A s : Brings(r, s) => Brings(req[o], s)
    BY <1>4, <1>6 DEF Brings
  <2> QED BY <1>1, <1>2, <1>6, <1>7, <1>10, <2>1, BroughtStep
<1>21. ToldInv'
  BY <1>1, <1>2, <1>6, <1>7, ToldStep DEF Tells
<1>22. UsedInv'
  <2>1. \A s : ~Uses(req[o], s)
    BY <1>4 DEF Uses
  <2> QED BY <1>1, <1>2, <1>6, <1>7, <1>10, <2>1, UsedStep
<1> QED BY <1>13, <1>14, <1>15, <1>16, <1>17, <1>18, <1>19, <1>20, <1>21, <1>22 DEF IInv

(* What the end of a load does to the settings of the process. *)
LEMMA RepairIs ==
  ASSUME TypeOK, live' = Repair(live)
  PROVE  /\ live' \in [Keys -> Nat \cup Values] /\ Within'
         /\ \A k \in Settings : live'[k] \in Nat
         /\ \A s \in Secrets : live'[s] = live[s]
         /\ \A k \in Settings : live'[k] = live[k] \/ (k = "poll" /\ live'[k] = live'["wait"])
         /\ live'["wait"] = live["wait"]
<1> DEFINE cut == IF live["wait"] > 0 /\ live["poll"] > live["wait"]
                  THEN live["wait"] ELSE live["poll"]
<1>1. live["wait"] \in Nat /\ live["poll"] \in Nat /\ "poll" \in Keys /\ "wait" \in Keys
  BY KeysDiffer DEF TypeOK
<1>2. live' = [live EXCEPT !["poll"] = cut]
  BY DEF Repair
<1>3. cut \in Nat /\ (live["wait"] > 0 => cut <= live["wait"])
      /\ (cut = live["poll"] \/ cut = live["wait"])
  BY <1>1
<1> HIDE DEF cut
<1>4. live'["poll"] = cut /\ \A k \in Keys : k # "poll" => live'[k] = live[k]
  BY <1>1, <1>2 DEF TypeOK
<1>5. live' \in [Keys -> Nat \cup Values]
  BY <1>1, <1>2, <1>3 DEF TypeOK
<1>6. live'["wait"] = live["wait"] /\ Within'
  BY <1>1, <1>3, <1>4 DEF Within
<1> QED BY <1>1, <1>3, <1>4, <1>5, <1>6, KeysDiffer DEF TypeOK

LEMMA LoadEndKeeps ==
  ASSUME IInv, NEW o \in Jobs, LoadEnd(o)
  PROVE  IInv'
<1> DEFINE r == IF req[o].kind = "boot" THEN Idle ELSE [req[o] EXCEPT !.pc = "audit"]
<1>1. TypeOK /\ BootInv /\ ReqInv /\ StoredInv /\ LiveInv /\ PollInv
      /\ VaultInv /\ BroughtInv /\ ToldInv /\ UsedInv
  BY DEF IInv
<1>2. /\ At(o, "repair") /\ live' = Repair(live) /\ req' = [req EXCEPT ![o] = r]
      /\ used' = IF req[o].loaded \/ live' # live THEN [s \in Secrets |-> live[s]] ELSE used
      /\ UNCHANGED <<env, stored, vault, trouble, last, crossed, broken, told>>
  BY DEF LoadEnd
<1>3. /\ req[o] \in Request /\ req[o].pc = "repair" /\ InFlight(o) /\ CallOK(req[o], Fixed)
      /\ o = Boot => req[o].kind \in {"none", "boot"} /\ req[o].stale = {}
      /\ o # Boot => req[o].kind # "boot"
  BY <1>1, <1>2, MoverIs, RequestIsNoBoot DEF At, InFlight, BootInv, Jobs
<1>4. req[o].kind \in {"boot", "patch"}
  BY <1>3 DEF CallOK, Request
<1>5. r \in Request /\ CallOK(r, Fixed) /\ r.pc \in {"idle", "audit"} /\ r.kind # "secrets"
      /\ r.kind \in {"none", "patch"} /\ (o = Boot => r.kind = "none" /\ r.stale = {})
  <2>1. CASE req[o].kind = "boot"
    BY <2>1, IdleIs DEF Idle
  <2>2. CASE req[o].kind = "patch"
    <3> DEFINE q == [req[o] EXCEPT !.pc = "audit"]
    <3>1. /\ q \in Request /\ q.kind = "patch" /\ q.pc = "audit"
          /\ q.change = req[o].change /\ q.done = req[o].done
      BY <1>3, <2>2 DEF Request
    <3>2. r = q /\ o # Boot
      BY <1>3, <2>2
    <3> HIDE DEF q, r
    <3>3. CallOK(q, Fixed)
      BY <1>3, <2>2, <3>1 DEF CallOK
    <3> QED BY <3>1, <3>2, <3>3
  <2> QED BY <1>4, <2>1, <2>2
<1> HIDE DEF r
<1>6. Moves(o, r)
  BY <1>1, <1>2, <1>5, StepMoves
<1>7. /\ live' \in [Keys -> Nat \cup Values] /\ Within'
      /\ \A k \in Settings : live'[k] \in Nat
      /\ \A s \in Secrets : live'[s] = live[s]
      /\ \A k \in Settings : live'[k] = live[k] \/ (k = "poll" /\ live'[k] = live'["wait"])
      /\ live'["wait"] = live["wait"]
  BY <1>1, <1>2, RepairIs
<1>8. /\ used' \in [Secrets -> Values]
      /\ \/ used' = used /\ ~req[o].loaded
         \/ \A s \in Secrets : used'[s] = live[s]
  BY <1>1, <1>2 DEF TypeOK
<1>9. TypeOK'
  BY <1>1, <1>2, <1>6, <1>7, <1>8 DEF TypeOK, Moves
<1>10. BootInv'
  BY <1>1, <1>3, <1>5, <1>6, BootStep
<1>11. ReqInv'
  <2>1. DocOK(r, last', crossed') /\ KeyOK(r, vault')
    BY <1>5 DEF DocOK, KeyOK
  <2> QED BY <1>1, <1>2, <1>5, <1>6, <2>1, ReqStep
<1>12. StoredInv'
  BY <1>1, <1>2 DEF StoredInv
<1>13. LiveInv'
  <2>1. ASSUME NEW k \in DOMAIN last, InForce(k) PROVE InForce(k)'
    <3>1. k \in Settings
      BY <1>1, DocumentIs DEF TypeOK
    <3> QED BY <1>2, <1>7, <2>1, <3>1 DEF InForce, Fixed
  <2>2. \A k : ~Loads(req[o], k)
    BY <1>3 DEF Loads
  <2> QED BY <1>1, <1>2, <1>5, <1>6, <2>1, <2>2, LiveStep
<1>14. PollInv'
  BY <1>1, <1>5, <1>6, <1>7, PollStep
<1>15. VaultInv'
  <2>1. \A s : ~Sets(req[o], s)
    BY <1>3 DEF Sets, Brings
  <2> QED BY <1>1, <1>2, <1>5, <1>6, <1>7, <2>1, VaultStep
<1>16. BroughtInv'
  <2>1. \A s : ~Brings(r, s)
    BY <1>5 DEF Brings
  <2> QED BY <1>1, <1>2, <1>5, <1>6, <1>7, <2>1, BroughtStep
<1>17. ToldInv'
  BY <1>1, <1>2, <1>4, <1>5, <1>6, ToldStep DEF Tells
<1>18. UsedInv'
  <2>1. \A s : Uses(req[o], s) => req[o].loaded
    BY <1>3 DEF Uses
  <2> QED BY <1>1, <1>2, <1>5, <1>6, <1>7, <1>8, <2>1, UsedStep
<1> QED BY <1>9, <1>10, <1>11, <1>12, <1>13, <1>14, <1>15, <1>16, <1>17, <1>18 DEF IInv

LEMMA SecretLiveKeeps ==
  ASSUME IInv, NEW o \in Requests, SecretLive(o)
  PROVE  IInv'
<1> DEFINE s   == req[o].key
           now == SecretNow(o, s)
           r   == [req[o] EXCEPT !.pc = "next", !.stale = {}]
<1>1. TypeOK /\ BootInv /\ ReqInv /\ StoredInv /\ LiveInv /\ PollInv
      /\ VaultInv /\ BroughtInv /\ ToldInv /\ UsedInv
  BY DEF IInv
<1>2. /\ At(o, "live") /\ live' = [live EXCEPT ![s] = now] /\ req' = [req EXCEPT ![o] = r]
      /\ crossed' = IF s \in req[o].stale THEN crossed \cup {s} ELSE crossed \ {s}
      /\ UNCHANGED <<env, stored, vault, used, trouble, last, broken, told>>
  BY DEF SecretLive
<1>3. /\ o \in Jobs /\ o # Boot /\ req[o] \in Request /\ req[o].pc = "live" /\ InFlight(o)
      /\ req[o].kind # "boot" /\ CallOK(req[o], Fixed) /\ KeyOK(req[o], vault)
  BY <1>2, MoverIs, RequestIsNoBoot DEF At, InFlight
<1>4. /\ req[o].kind = "secrets" /\ req[o].change \in Writes /\ s \in DOMAIN req[o].change
      /\ s \in req[o].done
  BY <1>3 DEF CallOK, Request
<1>5. s \in Secrets /\ req[o].change[s] \in Values
  BY <1>4, WriteIs
<1>6. now \in Values /\ (s \notin Fixed => now = req[o].change[s])
  BY <1>1, <1>5 DEF SecretNow, TypeOK
<1> HIDE DEF now
<1>7. /\ r \in Request /\ r.kind = req[o].kind /\ r.pc = "next" /\ r.change = req[o].change
      /\ r.done = req[o].done /\ r.todo = req[o].todo /\ r.stale = {}
  BY <1>3 DEF Request
<1> HIDE DEF r
<1>8. Moves(o, r)
  BY <1>1, <1>2, <1>3, <1>7, StepMoves
<1>9. /\ live' \in [Keys -> Nat \cup Values] /\ \A k \in Settings : live'[k] = live[k]
      /\ \A t \in Secrets : live'[t] = IF t = s THEN now ELSE live[t]
  BY <1>1, <1>2, <1>5, <1>6, KeysDiffer DEF TypeOK
<1>10. /\ crossed' \subseteq Keys
       /\ \A k \in Keys : k # s => (k \in crossed <=> k \in crossed')
  BY <1>1, <1>2, <1>5, KeysDiffer DEF TypeOK
<1>11. TypeOK'
  BY <1>1, <1>2, <1>5, <1>6, <1>8, <1>9, <1>10 DEF TypeOK, Moves
<1>12. BootInv'
  BY <1>1, <1>3, <1>7, <1>8, BootStep
<1>13. \A k \in DOMAIN last : k \in Settings /\ k \in Keys /\ k # s
  BY <1>1, <1>5, DocumentIs, KeysDiffer DEF TypeOK
<1>14. ReqInv'
  <2>1. CallOK(r, Fixed) /\ DocOK(r, last', crossed') /\ KeyOK(r, vault')
    BY <1>3, <1>4, <1>7 DEF CallOK, DocOK, KeyOK
  <2> QED BY <1>1, <1>2, <1>3, <1>7, <1>8, <1>10, <1>13, <2>1, ReqStep
<1>15. StoredInv'
  BY <1>1, <1>2, <1>10, <1>13 DEF StoredInv
<1>16. LiveInv'
  <2>1. \A k \in DOMAIN last : InForce(k)' <=> InForce(k)
    BY <1>2, <1>9, <1>13, KeysDiffer DEF InForce, Fixed
  <2>2. \A k : ~Loads(req[o], k)
    BY <1>3 DEF Loads
  <2> QED BY <1>1, <1>2, <1>3, <1>7, <1>8, <1>10, <1>13, <2>1, <2>2, LiveStep
<1>17. PollInv'
  BY <1>1, <1>3, <1>7, <1>8, <1>9, KeysDiffer, PollStep DEF Within, Mends
<1>18. VaultInv'
  <2>1. ASSUME NEW t \in Secrets \ (Fixed \cup crossed' \cup broken')
        PROVE  \/ live'[t] = vault'[t] \/ Sets(r, t)
               \/ /\ t \notin crossed \cup broken /\ ~Sets(req[o], t)
                  /\ live'[t] = live[t] /\ vault'[t] = vault[t]
    <3>1. CASE t = s
      BY <1>2, <1>3, <1>6, <1>9, <2>1, <3>1 DEF KeyOK
    <3>2. CASE t # s
      BY <1>2, <1>3, <1>9, <1>10, <2>1, <3>2, KeysDiffer DEF Sets, Brings
    <3> QED BY <3>1, <3>2
  <2> QED BY <1>1, <1>2, <1>3, <1>7, <1>8, <2>1, VaultStep
<1>19. BroughtInv'
  <2>1. \A t : ~Brings(req[Boot], t)
    BY <1>3, StartIsOver
  <2> QED BY <1>1, <1>2, <1>3, <1>7, <1>8, <2>1, BroughtStep
<1>20. ToldInv'
  BY <1>1, <1>2, <1>3, <1>7, <1>8, ToldStep DEF Tells
<1>21. UsedInv'
  <2>1. Uses(r, s) /\ \A t : Uses(req[o], t) => Uses(r, t)
    BY <1>3, <1>4, <1>7 DEF Uses
  <2> QED BY <1>1, <1>2, <1>3, <1>7, <1>8, <1>9, <2>1, UsedStep
<1> QED BY <1>11, <1>12, <1>14, <1>15, <1>16, <1>17, <1>18, <1>19, <1>20, <1>21 DEF IInv

(* A secret is stored, and the request goes on as r or ends with what it   *)
(* has changed broken.                                                     *)
LEMMA StoreKeeps ==
  ASSUME IInv, NEW o \in Requests, NEW s, req[o].pc = "store", s = req[o].key,
         NEW r \in Request, r.kind # "boot", CallOK(r, Fixed),
         vault' = [vault EXCEPT ![s] = req[o].change[s]],
         told' = told \ {s},
         Stales(o, {s}, r),
         \/ /\ r.pc = "live" /\ r.kind = "secrets" /\ r.done = req[o].done \cup {s}
            /\ r.key = s /\ r.change = req[o].change /\ broken' = broken \ {s}
         \/ r.pc = "idle" /\ broken' = broken \cup req[o].done \cup {s},
         trouble' \in Nat,
         UNCHANGED <<env, stored, live, used, last, crossed>>
  PROVE  IInv'
<1>1. TypeOK /\ BootInv /\ ReqInv /\ StoredInv /\ LiveInv /\ PollInv
      /\ VaultInv /\ BroughtInv /\ ToldInv /\ UsedInv
  BY DEF IInv
<1>2. /\ o \in Jobs /\ o # Boot /\ req[o] \in Request /\ InFlight(o)
      /\ req[o].kind # "boot" /\ CallOK(req[o], Fixed)
  BY MoverIs, RequestIsNoBoot DEF InFlight
<1>3. /\ req[o].kind = "secrets" /\ req[o].change \in Writes /\ s \in DOMAIN req[o].change
      /\ req[o].done \subseteq Secrets
  BY <1>2 DEF CallOK, Request
<1>4. s \in Secrets /\ req[o].change[s] \in Values /\ {s} \in SUBSET Keys
  BY <1>3, WriteIs, KeysDiffer
<1>5. Moves(o, r) /\ Marked(o, {s})
  BY <1>1, <1>2, <1>4, StalesMove
<1>6. /\ vault' \in [Secrets -> Values] /\ vault'[s] = req[o].change[s]
      /\ \A t \in Secrets : t # s => vault'[t] = vault[t]
  BY <1>1, <1>4 DEF TypeOK
<1>7. TypeOK'
  BY <1>1, <1>3, <1>4, <1>5, <1>6, KeysDiffer DEF TypeOK, Moves
<1>8. BootInv'
  BY <1>1, <1>2, <1>5, BootStep
<1>9. ReqInv'
  <2>1. DocOK(r, last', crossed') /\ KeyOK(r, vault')
    BY <1>6 DEF DocOK, KeyOK
  <2>2. ASSUME NEW x \in Jobs \ {o}, req[x].pc \in {"put", "live"}
        PROVE  req[x].key \in req'[x].stale \/ vault'[req[x].key] = vault[req[x].key]
    <3>1. x \in Requests
      BY <1>1, <1>2, <2>2 DEF BootInv, InFlight, Jobs
    <3>2. CallOK(req[x], Fixed) /\ req[x] \in Request
      BY <2>2, MoverIs
    <3>3. req[x].key \in Secrets
      BY <2>2, <3>2, WriteIs DEF CallOK, Request
    <3> QED BY <1>5, <1>6, <2>2, <3>1, <3>3 DEF Marked
  <2> QED BY <1>1, <1>2, <1>5, <2>1, <2>2, ReqStep
<1>10. StoredInv'
  BY <1>1 DEF StoredInv
<1>11. \A k \in DOMAIN last : k \in Settings /\ k # s /\ k \notin req[o].done
  BY <1>1, <1>3, <1>4, DocumentIs, KeysDiffer DEF TypeOK
<1>12. LiveInv'
  <2>1. \A k : InForce(k)' <=> InForce(k)
    BY DEF InForce, Fixed
  <2>2. \A k : ~Loads(req[o], k)
    BY DEF Loads
  <2> QED BY <1>1, <1>2, <1>5, <1>11, <2>1, <2>2, LiveStep
<1>13. PollInv'
  BY <1>1, <1>2, <1>5, PollStep DEF Within, Mends
<1>14. VaultInv'
  <2>1. \A t : ~Sets(req[o], t)
    BY <1>2 DEF Sets, Brings
  <2>2. s \in broken' \/ Sets(r, s)
    BY DEF Sets
  <2>3. \A t : t # s /\ t \in broken => t \in broken'
    OBVIOUS
  <2> QED BY <1>1, <1>2, <1>5, <1>6, <2>1, <2>2, <2>3, VaultStep
<1>15. BroughtInv'
  BY <1>1, <1>2, <1>5, BroughtStep
<1>16. ToldInv'
  <2>1. ASSUME NEW t \in Secrets \ broken'
        PROVE  \/ t \in told' \/ Tells(r, t)
               \/ t \notin broken /\ (t \in told => t \in told') /\ ~Tells(req[o], t)
    BY <2>1 DEF Tells
  <2> QED BY <1>1, <1>2, <1>5, <2>1, ToldStep
<1>17. UsedInv'
  <2>1. ASSUME NEW t \in Secrets \ broken'
        PROVE  Uses(r, t) \/ (t \notin broken /\ ~Uses(req[o], t))
    BY <2>1 DEF Uses
  <2> QED BY <1>1, <1>2, <1>5, <2>1, UsedStep
<1> QED BY <1>7, <1>8, <1>9, <1>10, <1>12, <1>13, <1>14, <1>15, <1>16, <1>17 DEF IInv

LEMMA SecretStoreKeeps ==
  ASSUME IInv, NEW o \in Requests, SecretStore(o)
  PROVE  IInv'
<1> DEFINE s == req[o].key
           r == [req[o] EXCEPT !.pc = "live", !.done = @ \cup {s}]
<1>1. /\ At(o, "store") /\ vault' = [vault EXCEPT ![s] = req[o].change[s]]
      /\ told' = told \ {s} /\ broken' = broken \ {s} /\ Stales(o, {s}, r)
      /\ UNCHANGED <<env, stored, live, used, trouble, last, crossed>>
  BY DEF SecretStore
<1>2. /\ o \in Jobs /\ req[o] \in Request /\ req[o].pc = "store" /\ trouble \in Nat
      /\ req[o].kind # "boot" /\ CallOK(req[o], Fixed)
  BY <1>1, MoverIs, RequestIsNoBoot DEF At, IInv, TypeOK
<1>3. /\ req[o].kind = "secrets" /\ req[o].change \in Writes /\ s \in DOMAIN req[o].change
      /\ req[o].done \subseteq Secrets /\ req[o].todo \subseteq DOMAIN req[o].change
  BY <1>2 DEF CallOK, Request
<1>4. s \in Secrets /\ s \in Keys
  BY <1>3, WriteIs, KeysDiffer
<1>5. /\ r \in Request /\ r.kind = req[o].kind /\ r.pc = "live" /\ r.change = req[o].change
      /\ r.done = req[o].done \cup {s} /\ r.todo = req[o].todo /\ r.key = s
  BY <1>2, <1>4 DEF Request
<1> HIDE DEF r
<1>6. CallOK(r, Fixed)
  BY <1>3, <1>4, <1>5 DEF CallOK
<1> HIDE DEF s
<1> QED BY <1>1, <1>2, <1>3, <1>5, <1>6, StoreKeeps DEF s

(* The settings are written, and the request goes on as r to load them or  *)
(* ends with what it has changed broken.                                   *)
LEMMA WriteKeeps ==
  ASSUME IInv, NEW o \in Requests, NEW K, req[o].pc = "write", K = DOMAIN req[o].change,
         NEW r \in Request, r.kind # "boot", CallOK(r, Fixed),
         stored' = Patched(o), last' = Merge(req[o].change, last),
         crossed' = (crossed \cup req[o].stale) \ K,
         Stales(o, K, r),
         \/ r.pc = "load" /\ r.done = K /\ broken' = broken \ K
         \/ r.pc = "idle" /\ broken' = broken \cup K,
         r.kind # "secrets",
         trouble' \in Nat,
         UNCHANGED <<env, vault, live, used, told>>
  PROVE  IInv'
<1> DEFINE c == req[o].change
<1>1. TypeOK /\ BootInv /\ ReqInv /\ StoredInv /\ LiveInv /\ PollInv
      /\ VaultInv /\ BroughtInv /\ ToldInv /\ UsedInv
  BY DEF IInv
<1>2. /\ o \in Jobs /\ o # Boot /\ req[o] \in Request /\ InFlight(o)
      /\ req[o].kind # "boot" /\ CallOK(req[o], Fixed) /\ DocOK(req[o], last, crossed)
  BY MoverIs, RequestIsNoBoot DEF InFlight
<1>3. req[o].kind = "patch" /\ c \in Documents /\ K \subseteq Settings /\ req[o].doc \in Documents
  <2>1. req[o].kind = "patch" /\ c \in Changes
    BY <1>2 DEF CallOK, Request
  <2>2. req[o].doc \in Documents
    BY <1>2 DEF Request
  <2> QED BY <2>1, <2>2, ChangeIs
<1>4. /\ K \in SUBSET Keys /\ \A s \in Secrets : s \notin K
  BY <1>3, KeysDiffer
<1>5. Moves(o, r) /\ Marked(o, K)
  BY <1>1, <1>2, <1>4, StalesMove
<1>6. /\ stored' \in Documents /\ DOMAIN stored' = K \cup DOMAIN req[o].doc
      /\ \A k \in K : stored'[k] = c[k]
      /\ \A k \in DOMAIN req[o].doc \ K : stored'[k] = req[o].doc[k]
  BY <1>3, MergeIs DEF Patched
<1>7. /\ last' \in Documents /\ DOMAIN last' = K \cup DOMAIN last
      /\ \A k \in K : last'[k] = c[k]
      /\ \A k \in DOMAIN last \ K : last'[k] = last[k]
  <2>1. last \in Documents
    BY <1>1 DEF TypeOK
  <2>2. /\ Merge(c, last) \in Documents /\ DOMAIN Merge(c, last) = DOMAIN c \cup DOMAIN last
        /\ \A k \in DOMAIN c : Merge(c, last)[k] = c[k]
        /\ \A k \in DOMAIN last \ DOMAIN c : Merge(c, last)[k] = last[k]
    BY ONLY <1>3, <2>1, MergeIs
  <2> QED BY <2>1, <2>2
<1>8. /\ crossed' \subseteq Keys /\ broken' \subseteq Keys
      /\ \A k : k \in crossed /\ k \notin K => k \in crossed'
      /\ \A k : k \in broken /\ k \notin K => k \in broken'
  BY <1>1, <1>2, <1>4 DEF TypeOK, Request
<1>9. TypeOK'
  BY <1>1, <1>5, <1>6, <1>7, <1>8 DEF TypeOK, Moves
<1>10. BootInv'
  BY <1>1, <1>2, <1>5, BootStep
<1>11. ReqInv'
  <2>1. DocOK(r, last', crossed') /\ KeyOK(r, vault')
    BY DEF DocOK, KeyOK
  <2>2. ASSUME NEW x \in Jobs \ {o}, req[x].pc \in {"write", "set"}, NEW k \in DOMAIN last'
        PROVE  \/ k \in req'[x].stale
               \/ k \in DOMAIN last /\ last'[k] = last[k] /\ (k \in crossed => k \in crossed')
    <3>1. x \in Requests
      BY <1>1, <1>2, <2>2 DEF BootInv, InFlight, Jobs
    <3> QED BY <1>3, <1>5, <1>7, <1>8, <2>2, <3>1 DEF Marked
  <2> QED BY <1>1, <1>2, <1>5, <2>1, <2>2, ReqStep
<1>12. StoredInv'
  <2>1. ASSUME NEW k \in DOMAIN last', k \notin crossed'
        PROVE  k \in DOMAIN stored' /\ stored'[k] = last'[k]
    <3>1. CASE k \in K
      BY <1>6, <1>7, <3>1
    <3>2. CASE k \notin K
      <4>1. k \in DOMAIN last /\ k \notin req[o].stale /\ k \notin crossed
        BY <1>7, <2>1, <3>2
      <4>2. k \in DOMAIN req[o].doc /\ req[o].doc[k] = last[k]
        BY <1>2, <4>1 DEF DocOK
      <4> QED BY <1>6, <1>7, <3>2, <4>1, <4>2
    <3> QED BY <3>1, <3>2
  <2> QED BY <2>1 DEF StoredInv
<1>13. LiveInv'
  <2>1. \A k \in K : k \in broken' \/ Loads(r, k)
    BY DEF Loads
  <2>2. \A k \in DOMAIN last \ K : InForce(k)' <=> InForce(k)
    BY <1>7 DEF InForce, Fixed
  <2>3. \A k : ~Loads(req[o], k)
    BY DEF Loads
  <2> QED BY <1>1, <1>2, <1>5, <1>7, <1>8, <2>1, <2>2, <2>3, LiveStep
<1>14. PollInv'
  BY <1>1, <1>2, <1>5, PollStep DEF Within, Mends
<1>15. VaultInv'
  <2>1. \A s : ~Sets(req[o], s)
    BY <1>2 DEF Sets, Brings
  <2> QED BY <1>1, <1>2, <1>4, <1>5, <1>8, <2>1, VaultStep
<1>16. BroughtInv'
  BY <1>1, <1>2, <1>5, BroughtStep
<1>17. ToldInv'
  BY <1>1, <1>2, <1>3, <1>4, <1>5, <1>8, ToldStep DEF Tells
<1>18. UsedInv'
  <2>1. \A s : ~Uses(req[o], s)
    BY DEF Uses
  <2> QED BY <1>1, <1>2, <1>4, <1>5, <1>8, <2>1, UsedStep
<1> QED BY <1>9, <1>10, <1>11, <1>12, <1>13, <1>14, <1>15, <1>16, <1>17, <1>18 DEF IInv

LEMMA PatchWriteKeeps ==
  ASSUME IInv, NEW o \in Requests, PatchWrite(o)
  PROVE  IInv'
<1> DEFINE K == DOMAIN req[o].change
           r == [req[o] EXCEPT !.pc = "load", !.stale = {}, !.doc = Empty, !.done = K]
<1>1. /\ At(o, "write") /\ stored' = Patched(o) /\ last' = Merge(req[o].change, last)
      /\ crossed' = (crossed \cup req[o].stale) \ K /\ broken' = broken \ K
      /\ Stales(o, K, r)
      /\ UNCHANGED <<env, vault, live, used, trouble, told>>
  BY DEF PatchWrite
<1>2. /\ o \in Jobs /\ req[o] \in Request /\ req[o].pc = "write" /\ trouble \in Nat
      /\ req[o].kind # "boot" /\ CallOK(req[o], Fixed)
  BY <1>1, MoverIs, RequestIsNoBoot DEF At, IInv, TypeOK
<1>3. req[o].kind = "patch" /\ req[o].change \in Changes
  BY <1>2 DEF CallOK, Request
<1>4. K \subseteq Settings /\ K \subseteq Keys
  BY <1>3, ChangeIs, KeysDiffer
<1>5. /\ r \in Request /\ r.kind = req[o].kind /\ r.pc = "load" /\ r.change = req[o].change
      /\ r.done = K
  BY <1>2, <1>4, EmptyIs DEF Request
<1> HIDE DEF r
<1>6. CallOK(r, Fixed)
  BY <1>3, <1>4, <1>5 DEF CallOK
<1> HIDE DEF K
<1> QED BY <1>1, <1>2, <1>3, <1>5, <1>6, WriteKeeps DEF K

LEMMA CallFailsKeeps ==
  ASSUME IInv, NEW o \in Requests, CallFails(o)
  PROVE  IInv'
<1>1. /\ trouble' \in Nat /\ UNCHANGED <<env, live, used>>
      /\ o \in Jobs /\ o # Boot /\ req[o] \in Request /\ req[o].kind # "boot"
      /\ CallOK(req[o], Fixed)
  BY MoverIs, RequestIsNoBoot DEF CallFails, Disturb, IInv, TypeOK
<1>2. Idle \in Request /\ Idle.kind = "none" /\ Idle.pc = "idle" /\ CallOK(Idle, Fixed)
      /\ DocOK(Idle, last, crossed) /\ KeyOK(Idle, vault)
  BY IdleIs
<1>3. CASE /\ At(o, "write") /\ End(o)
           /\ UNCHANGED <<stored, last, crossed, broken, vault, told>>
  <2>1. req[o].pc = "write" /\ req[o].kind = "patch"
    BY <1>1, <1>3 DEF At, CallOK, Request
  <2>2. /\ \A k : ~Loads(req[o], k)
        /\ ~Mends(req[o])
        /\ \A s : ~Sets(req[o], s) /\ ~Tells(req[o], s) /\ ~Uses(req[o], s)
    BY <2>1 DEF Loads, Mends, Sets, Brings, Tells, Uses
  <2> QED BY <1>1, <1>2, <1>3, <2>2, QuietStep DEF End
<1>4. ASSUME NEW K, K = DOMAIN req[o].change, At(o, "write"),
             stored' = Patched(o), last' = Merge(req[o].change, last),
             crossed' = (crossed \cup req[o].stale) \ K,
             broken' = broken \cup K, Stales(o, K, Idle), UNCHANGED <<vault, told>>
      PROVE  IInv'
  BY <1>1, <1>2, <1>4, WriteKeeps DEF At
<1>5. CASE /\ At(o, "set") \/ At(o, "store")
           /\ broken' = broken \cup req[o].done /\ End(o)
           /\ UNCHANGED <<stored, last, crossed, vault, told>>
  BY <1>1, <1>5, ErrorKeeps DEF At
<1>6. ASSUME NEW s, s = req[o].key, At(o, "store"),
             vault' = [vault EXCEPT ![s] = req[o].change[s]], told' = told \ {s},
             broken' = broken \cup req[o].done \cup {s}, Stales(o, {s}, Idle),
             UNCHANGED <<stored, last, crossed>>
      PROVE  IInv'
  BY <1>1, <1>2, <1>6, StoreKeeps DEF At
<1> QED BY <1>3, <1>4, <1>5, <1>6 DEF CallFails

-----------------------------------------------------------------------------
(* A process that starts owes everything.                                  *)
Starting == [Idle EXCEPT !.kind = "boot", !.pc = "load"]

LEMMA StartingIs ==
  /\ Starting \in Request /\ Starting.kind = "boot" /\ Starting.pc = "load"
  /\ Starting.stale = {}
  /\ \A K, saved, past, v :
       CallOK(Starting, K) /\ DocOK(Starting, saved, past) /\ KeyOK(Starting, v)
  /\ \A k : Loads(Starting, k) /\ Sets(Starting, k) /\ Brings(Starting, k)
  /\ Mends(Starting)
<1>1. /\ Starting \in Request /\ Starting.kind = "boot" /\ Starting.pc = "load"
      /\ Starting.stale = {}
  BY IdleIs DEF Starting, Request, Idle
<1> QED BY <1>1 DEF CallOK, DocOK, KeyOK, Loads, Sets, Brings, Mends

LEMMA StartsWell ==
  ASSUME env' \in Environments, req' \in [Jobs -> Request], req'[Boot] = Starting,
         \A o \in Requests : req'[o].kind = "none" /\ req'[o].pc \in {"new", "idle"},
         live' = [k \in Keys |-> FromStart(k)]', used' = [s \in Secrets |-> FromStart(s)]'
  PROVE  /\ live' \in [Keys -> Nat \cup Values] /\ used' \in [Secrets -> Values]
         /\ \A k \in Settings : live'[k] \in Nat
         /\ \A s \in Secrets : live'[s] \in Values
         /\ BootInv' /\ ReqInv' /\ LiveInv' /\ PollInv' /\ VaultInv' /\ BroughtInv' /\ UsedInv'
<1>1. /\ \A k \in Settings : FromStart(k)' \in Nat
      /\ \A s \in Secrets : FromStart(s)' \in Values /\ (s \notin Fixed' => FromStart(s)' = None)
  <2>1. /\ \A k \in Settings : k \in DOMAIN env' => env'[k] \in Nat
        /\ None \in Values /\ \A s \in DOMAIN env' : env'[s] \in Values
    BY EnvironmentAssumption DEF Values
  <2>2. /\ \A k \in Settings : Defaults[k] \in Nat
        /\ \A s \in Secrets : Defaults[s] = None
    BY KeysDiffer DEF Defaults, Settings
  <2> QED BY <2>1, <2>2 DEF FromStart, Fixed
<1>2. /\ \A k \in Keys : live'[k] = FromStart(k)'
      /\ \A s \in Secrets : used'[s] = FromStart(s)'
  OBVIOUS
<1>3. /\ live' \in [Keys -> Nat \cup Values]
      /\ \A k \in Settings : live'[k] \in Nat
      /\ \A s \in Secrets : live'[s] \in Values
      /\ used' \in [Secrets -> Values]
  <2>1. \A k \in Keys : FromStart(k)' \in Nat \cup Values
    BY <1>1 DEF Keys
  <2> QED BY <1>1, <1>2, <2>1, KeysDiffer
<1>4. Boot \in Jobs /\ \A o \in Requests : o # Boot
  BY NameAssumption DEF Jobs
<1>5. BootInv'
  BY <1>4, StartingIs DEF BootInv, InFlight
<1>6. ReqInv'
  <2>1. ASSUME NEW o \in Requests
        PROVE  CallOK(req'[o], Fixed') /\ DocOK(req'[o], last', crossed') /\ KeyOK(req'[o], vault')
    BY <2>1 DEF CallOK, DocOK, KeyOK
  <2> QED BY <2>1, StartingIs DEF ReqInv, Jobs
<1>7. LiveInv' /\ PollInv' /\ VaultInv'
  BY <1>4, StartingIs DEF LiveInv, PollInv, VaultInv
<1>8. BroughtInv'
  BY <1>1, <1>2, KeysDiffer DEF BroughtInv
<1>9. UsedInv'
  BY <1>2, KeysDiffer DEF UsedInv
<1> QED BY <1>3, <1>5, <1>6, <1>7, <1>8, <1>9

LEMMA InitHolds ==
  ASSUME Init
  PROVE  IInv
<1>1. /\ \A k \in Settings : FromStart(k) \in Nat
      /\ \A s \in Secrets : FromStart(s) \in Values /\ (s \notin Fixed => FromStart(s) = None)
  <2>1. /\ \A k \in Settings : k \in DOMAIN env => env[k] \in Nat
        /\ None \in Values /\ \A s \in DOMAIN env : env[s] \in Values
    BY EnvironmentAssumption DEF Init, Values
  <2>2. /\ \A k \in Settings : Defaults[k] \in Nat
        /\ \A s \in Secrets : Defaults[s] = None
    BY KeysDiffer DEF Defaults, Settings
  <2> QED BY <2>1, <2>2 DEF FromStart, Fixed
<1>2. /\ \A k \in Keys : live[k] = FromStart(k)
      /\ \A s \in Secrets : used[s] = FromStart(s)
  BY DEF Init
<1> DEFINE new == [Idle EXCEPT !.pc = "new"]
<1>3. new \in Request /\ new.kind = "none" /\ new.pc = "new"
  BY IdleIs DEF Request
<1>4. Boot \in Jobs /\ \A o \in Requests : o # Boot /\ o \in Jobs
  BY NameAssumption DEF Jobs
<1>5. req = [o \in Jobs |-> IF o = Boot THEN Starting ELSE new]
  BY DEF Init, Starting
<1> HIDE DEF new
<1>6. /\ req \in [Jobs -> Request] /\ req[Boot] = Starting
      /\ \A o \in Requests : req[o].kind = "none" /\ req[o].pc = "new"
  BY <1>3, <1>4, <1>5, StartingIs
<1>7. TypeOK
  <2>1. \A k \in Keys : FromStart(k) \in Nat \cup Values
    BY <1>1 DEF Keys
  <2>2. live \in [Keys -> Nat \cup Values] /\ used \in [Secrets -> Values]
    BY <1>1, <2>1 DEF Init
  <2>3. /\ \A k \in Settings : live[k] \in Nat
        /\ \A s \in Secrets : live[s] \in Values
    BY <1>1, <1>2, KeysDiffer
  <2>4. vault \in [Secrets -> Values]
    BY DEF Init, Values
  <2> QED BY <1>6, <2>2, <2>3, <2>4, EmptyIs DEF TypeOK, Init
<1>8. BootInv
  BY <1>4, <1>6, StartingIs DEF BootInv, InFlight
<1>9. ReqInv
  <2>1. ASSUME NEW o \in Requests
        PROVE  CallOK(req[o], Fixed) /\ DocOK(req[o], last, crossed) /\ KeyOK(req[o], vault)
    BY <1>6, <2>1 DEF CallOK, DocOK, KeyOK
  <2> QED BY <1>6, <2>1, StartingIs DEF ReqInv, Jobs
<1>10. StoredInv
  BY EmptyIs DEF StoredInv, Init
<1>11. LiveInv /\ PollInv /\ VaultInv
  BY <1>4, <1>6, StartingIs DEF LiveInv, PollInv, VaultInv
<1>12. BroughtInv
  BY <1>1, <1>2, KeysDiffer DEF BroughtInv
<1>13. ToldInv
  BY DEF ToldInv, Init
<1>14. UsedInv
  BY <1>2, KeysDiffer DEF UsedInv
<1> QED BY <1>7, <1>8, <1>9, <1>10, <1>11, <1>12, <1>13, <1>14 DEF IInv

LEMMA RestartKeeps ==
  ASSUME IInv, Restart
  PROVE  IInv'
<1>1. TypeOK /\ BootInv /\ ReqInv /\ StoredInv /\ ToldInv
  BY DEF IInv
<1>2. /\ live' = [k \in Keys |-> FromStart(k)] /\ used' = [s \in Secrets |-> FromStart(s)]
      /\ broken' = broken \cup UNION {req[o].done \cap Secrets : o \in Requests}
      /\ req' = [o \in Jobs |-> IF o = Boot THEN Starting
                                ELSE IF InFlight(o) THEN Idle ELSE req[o]]
      /\ UNCHANGED <<env, stored, vault, last, crossed, told>> /\ trouble' = trouble + 1
  BY DEF Restart, Disturb, Starting
<1>3. Boot \in Jobs /\ \A o \in Requests : o # Boot /\ o \in Jobs
  BY NameAssumption DEF Jobs
<1>4. ASSUME NEW o \in Requests, ~InFlight(o) PROVE req[o].kind = "none"
  <2>1. CallOK(req[o], Fixed) /\ req[o] \in Request /\ req[o].kind # "boot"
    BY <1>1, <1>3 DEF ReqInv, TypeOK, BootInv
  <2> QED BY <1>4, <2>1 DEF CallOK, InFlight, Request
<1>5. ASSUME NEW o \in Requests
      PROVE  req'[o].kind = "none" /\ req'[o].pc \in {"new", "idle"}
  BY <1>2, <1>3, <1>4, IdleIs DEF InFlight
<1>6. req' \in [Jobs -> Request] /\ req'[Boot] = Starting
  BY <1>1, <1>2, <1>3, StartingIs, IdleIs DEF TypeOK
<1>7. /\ live' = [k \in Keys |-> FromStart(k)]' /\ used' = [s \in Secrets |-> FromStart(s)]'
      /\ env' \in Environments
  BY <1>1, <1>2 DEF TypeOK, FromStart
<1>8. /\ live' \in [Keys -> Nat \cup Values] /\ used' \in [Secrets -> Values]
      /\ \A k \in Settings : live'[k] \in Nat
      /\ \A s \in Secrets : live'[s] \in Values
      /\ BootInv' /\ ReqInv' /\ LiveInv' /\ PollInv' /\ VaultInv' /\ BroughtInv' /\ UsedInv'
  BY <1>5, <1>6, <1>7, StartsWell
<1>9. broken' \subseteq Keys
  BY <1>1, <1>2, KeysDiffer DEF TypeOK
<1>10. TypeOK'
  <2>1. trouble' \in Nat /\ env' \in Environments
    BY <1>1, <1>2 DEF TypeOK
  <2>2. /\ stored' \in Documents /\ last' \in Documents /\ vault' \in [Secrets -> Values]
        /\ crossed' \in SUBSET Keys /\ told' \in SUBSET Secrets
    BY <1>1, <1>2 DEF TypeOK
  <2> QED BY <1>6, <1>8, <1>9, <2>1, <2>2 DEF TypeOK
<1>11. StoredInv'
  BY <1>1, <1>2 DEF StoredInv
<1>12. ToldInv'
  <2>1. ASSUME NEW s \in Secrets \ broken' PROVE s \in told'
    <3>1. \A o \in Requests : s \notin req[o].done
      BY <1>2, <2>1
    <3>2. \A o \in Jobs : ~Tells(req[o], s)
      BY <1>1, <3>1 DEF Tells, Jobs, BootInv
    <3>3. s \notin broken
      BY <1>2, <2>1
    <3> QED BY <1>1, <1>2, <3>2, <3>3 DEF ToldInv
  <2> QED BY <2>1 DEF ToldInv
<1> QED BY <1>8, <1>10, <1>11, <1>12 DEF IInv

-----------------------------------------------------------------------------
LEMMA IInvStep ==
  IInv /\ [Next]_vars => IInv'
<1> SUFFICES ASSUME IInv, [Next]_vars PROVE IInv'
  OBVIOUS
<1>1. ASSUME NEW o \in Requests, Patch(o) \/ PatchRead(o) \/ PatchWrite(o) PROVE IInv'
  BY <1>1, PatchKeeps, PatchReadKeeps, PatchWriteKeeps
<1>2. ASSUME NEW o \in Requests, WriteSecrets(o) \/ SecretNext(o) \/ SecretStore(o) PROVE IInv'
  BY <1>2, WriteSecretsKeeps, SecretNextKeeps, SecretStoreKeeps
<1>3. ASSUME NEW o \in Requests, SecretLive(o) \/ Refresh(o) \/ Audit(o) \/ CallFails(o)
      PROVE  IInv'
  BY <1>3, SecretLiveKeeps, RefreshKeeps, AuditKeeps, CallFailsKeeps
<1>4. ASSUME NEW o \in Jobs, LoadRead(o) \/ LoadSet(o) \/ LoadEnd(o) PROVE IInv'
  BY <1>4, LoadReadKeeps, LoadSetKeeps, LoadEndKeeps
<1>5. ASSUME NEW o \in Jobs, SecretGet(o) \/ SecretPut(o) \/ ReadFails(o) PROVE IInv'
  BY <1>5, SecretGetKeeps, SecretPutKeeps, ReadFailsKeeps
<1>6. CASE Restart
  BY <1>6, RestartKeeps
<1>7. CASE UNCHANGED vars
  BY <1>7 DEF vars, IInv, TypeOK, BootInv, ReqInv, StoredInv, LiveInv, PollInv, VaultInv,
              BroughtInv, ToldInv, UsedInv, InForce, Within, Fixed, InFlight
<1> QED BY <1>1, <1>2, <1>3, <1>4, <1>5, <1>6, <1>7 DEF Next

LEMMA Invariant == Spec => []IInv
<1>1. Init => IInv
  BY InitHolds
<1>2. IInv /\ [Next]_vars => IInv'
  BY IInvStep
<1> QED BY <1>1, <1>2, PTL DEF Spec

(* When no request is in flight nothing is owed.                           *)
LEMMA RestOwesNothing ==
  ASSUME IInv, AtRest, NEW o \in Jobs
  PROVE  /\ ~Mends(req[o])
         /\ \A k : ~Loads(req[o], k) /\ ~Sets(req[o], k) /\ ~Tells(req[o], k) /\ ~Uses(req[o], k)
<1>1. req[o].pc \in {"new", "idle"} /\ CallOK(req[o], Fixed)
  BY MoverIs DEF AtRest, InFlight
<1> QED BY <1>1 DEF CallOK, Mends, Loads, Sets, Brings, Tells, Uses

-----------------------------------------------------------------------------
(* Every variable keeps its type.                                          *)
THEOREM TypeCorrect == Spec => []TypeOK
<1>1. IInv => TypeOK
  BY DEF IInv
<1> QED BY <1>1, Invariant, PTL

(* A setting that was saved is stored and in force, also after restarts,   *)
(* unless requests crossed on it or one ended in an error.                 *)
THEOREM SavedStaysInForce == Spec => []SavedIsInForce
<1>1. IInv => SavedIsInForce
  <2> SUFFICES ASSUME IInv, AtRest, NEW k \in DOMAIN last \ (crossed \cup broken)
               PROVE  /\ k \in DOMAIN stored /\ stored[k] = last[k]
                      /\ InForce(k)
    BY DEF SavedIsInForce, InForce
  <2>1. k \in DOMAIN stored /\ stored[k] = last[k]
    BY DEF IInv, StoredInv
  <2>2. InForce(k)
    BY RestOwesNothing DEF IInv, LiveInv
  <2> QED BY <2>1, <2>2
<1> QED BY <1>1, Invariant, PTL

(* The poll interval is within the wait, whatever the requests checked and *)
(* the environment fixes.                                                  *)
THEOREM PollStaysWithinWait == Spec => []PollWithinWait
<1>1. IInv => PollWithinWait
  BY RestOwesNothing DEF IInv, PollInv, Within, PollWithinWait
<1> QED BY <1>1, Invariant, PTL

(* The process has the secrets that are stored, so a cleared one is gone,  *)
(* with the same exceptions.                                               *)
THEOREM ClearedStaysGone == Spec => []ClearedIsGone
<1>1. IInv => ClearedIsGone
  BY RestOwesNothing DEF IInv, VaultInv, ClearedIsGone
<1> QED BY <1>1, Invariant, PTL

(* Every change of a secret is in the audit log and in use, unless the     *)
(* request that made it ended in an error.                                 *)
THEOREM ChangesAreTold == Spec => []ChangeIsTold
<1>1. IInv => ChangeIsTold
  BY RestOwesNothing DEF IInv, ToldInv, UsedInv, ChangeIsTold
<1> QED BY <1>1, Invariant, PTL

=============================================================================
