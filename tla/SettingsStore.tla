--------------------------- MODULE SettingsStore ---------------------------
(***************************************************************************)
(* Runtime settings and runtime secrets.  A PATCH of settings merges its   *)
(* change into the one document they are stored in and then loads settings *)
(* and secrets into the process; a PATCH of secrets writes each to the     *)
(* secret store and to the process; a process that starts loads both       *)
(* before it serves.  What the environment fixes stays as it is in the     *)
(* process.  The handlers await the storage between any two of these.      *)
(*                                                                         *)
(* Of the settings three are kept: the wait for external diagnostics, its  *)
(* poll interval, which depends on it, and one that depends on nothing.    *)
(* Formats of values are checked field by field and left out.              *)
(***************************************************************************)
EXTENDS Naturals, FiniteSets

CONSTANTS
  Secrets,       \* names of runtime secrets
  Requests,      \* PATCH requests of administrators
  MaxRequests,   \* requests in flight at a time
  Changes,       \* bodies of a PATCH of settings
  Writes,        \* bodies of a PATCH of secrets; None clears, Invalid is blank
  Environments,  \* what the environment may fix, with its values
  MaxTrouble,    \* storage calls that raise, and ends of the process
  Boot,          \* the loading of a process that starts
  None, Invalid

Settings == {"wait", "poll", "mode"}
Keys     == Settings \cup Secrets

(* A body of a PATCH of settings, and what is stored, give some of them.   *)
Amounts   == UNION {{change[k] : k \in DOMAIN change} : change \in Changes}
Documents == UNION {[D -> Amounts] : D \in SUBSET Settings}

(* What a secret can be.                                                   *)
Values == {None, Invalid} \cup UNION {{w[s] : s \in DOMAIN w} : w \in Writes \cup Environments}

ASSUME NameAssumption        == Secrets \cap Settings = {} /\ Boot \notin Requests
ASSUME ChangeAssumption      == Changes \subseteq Documents /\ Amounts \subseteq Nat
ASSUME WriteAssumption       == \A w \in Writes : DOMAIN w \subseteq Secrets
ASSUME EnvironmentAssumption ==
  \A e \in Environments : /\ DOMAIN e \subseteq Keys
                          /\ \A k \in DOMAIN e \cap Settings : e[k] \in Nat
ASSUME BoundAssumption       == MaxRequests \in Nat /\ MaxTrouble \in Nat

VARIABLES
  env,         \* keys the environment fixes, with their values
  stored,      \* the document of settings
  vault,       \* the secret store
  live,        \* what the process has
  used,        \* secrets as the clients of the workflow have them
  req,         \* req[o]: a request, what it has read and what it has to do
  trouble,
  last,        \* history: the value last saved for a setting
  crossed,     \* history: keys put back to what a request read before another
               \* request wrote them
  broken,      \* history: keys a request changed, or should have loaded, before
               \* it ended in an error
  told         \* history: secrets whose last change is in the audit log

vars == <<env, stored, vault, live, used, req, trouble, last, crossed, broken, told>>

Defaults == [k \in Keys |-> CASE k = "wait" -> 2 [] k = "poll" -> 1 [] k = "mode" -> 0
                              [] OTHER -> None]

FromStart(k) == IF k \in DOMAIN env THEN env[k] ELSE Defaults[k]

Fixed == DOMAIN env

-----------------------------------------------------------------------------
Jobs == Requests \cup {Boot}

Empty == [k \in {} |-> 0]

Idle == [kind |-> "none", pc |-> "idle", change |-> Empty, doc |-> Empty, todo |-> {},
         key |-> None, value |-> None, done |-> {}, stale |-> {}, loaded |-> FALSE]

InFlight(o) == req[o].pc \notin {"new", "idle"}
Serving == req[Boot].pc = "idle"
AtRest  == \A o \in Jobs : ~InFlight(o)

At(o, pc) == req[o].pc = pc
End(o)    == req' = [req EXCEPT ![o] = Idle]

Admitted == Serving /\ Cardinality({o \in Requests : InFlight(o)}) < MaxRequests

Merge(change, doc) ==
  [k \in DOMAIN change \cup DOMAIN doc |-> IF k \in DOMAIN change THEN change[k] ELSE doc[k]]

(* What the handlers check of a change, with the values of the process for *)
(* what it does not mention.                                               *)
Valid(change) ==
  LET v == [k \in Settings |-> IF k \in DOMAIN change THEN change[k] ELSE live[k]]
  IN v["wait"] > 0 => v["poll"] <= v["wait"]

Request == [kind : {"none", "boot", "patch", "secrets"},
            pc : {"new", "read", "write", "load", "set", "get", "put", "repair", "audit",
                  "next", "store", "live", "refresh", "idle"},
            change : Changes \cup Writes \cup {Empty}, doc : Documents,
            todo : SUBSET Secrets, key : Secrets \cup {None}, value : Values,
            done : SUBSET Keys, stale : SUBSET Keys, loaded : BOOLEAN]

TypeOK ==
  /\ env \in Environments
  /\ stored \in Documents /\ last \in Documents
  /\ vault \in [Secrets -> Values] /\ used \in [Secrets -> Values]
  /\ live \in [Keys -> Nat \cup Values]
  /\ \A k \in Settings : live[k] \in Nat
  /\ \A s \in Secrets : live[s] \in Values
  /\ req \in [Jobs -> Request]
  /\ trouble \in Nat
  /\ crossed \in SUBSET Keys /\ broken \in SUBSET Keys /\ told \in SUBSET Secrets

Init ==
  /\ env \in Environments
  /\ stored = Empty
  /\ vault = [s \in Secrets |-> None]
  /\ live = [k \in Keys |-> FromStart(k)]
  /\ used = [s \in Secrets |-> FromStart(s)]
  /\ req = [o \in Jobs |-> IF o = Boot THEN [Idle EXCEPT !.kind = "boot", !.pc = "load"]
                           ELSE [Idle EXCEPT !.pc = "new"]]
  /\ trouble = 0
  /\ last = Empty
  /\ crossed = {} /\ broken = {}
  /\ told = Secrets

-----------------------------------------------------------------------------
(* PATCH /settings: the change is checked against the process,             *)
Patch(o) ==
  /\ At(o, "new") /\ Admitted
  /\ \E change \in Changes :
       req' = [req EXCEPT ![o] = IF Valid(change)
                                 THEN [Idle EXCEPT !.kind = "patch", !.pc = "read", !.change = change]
                                 ELSE Idle]
  /\ UNCHANGED <<env, stored, vault, live, used, trouble, last, crossed, broken, told>>

(* the document is read,                                                   *)
PatchRead(o) ==
  /\ At(o, "read")
  /\ req' = [req EXCEPT ![o].pc = "write", ![o].doc = stored]
  /\ UNCHANGED <<env, stored, vault, live, used, trouble, last, crossed, broken, told>>

(* What the other requests have read of the keys K is stale from now on.   *)
Stales(o, K, r) ==
  req' = [x \in Jobs |-> IF x = o THEN r
                         ELSE IF x \in Requests /\ InFlight(x)
                              THEN [req[x] EXCEPT !.stale = @ \cup (K \cap
                                     IF req[x].pc \in {"write", "set"} THEN Settings
                                     ELSE IF req[x].pc \in {"put", "live"} THEN {req[x].key}
                                     ELSE {})]
                         ELSE req[x]]

PatchedOnly(o) == req[o].change     \* slip: the document becomes the change

Patched(o) == Merge(req[o].change, req[o].doc)

(* and written with the change in it.                                      *)
PatchWrite(o) ==
  /\ At(o, "write")
  /\ LET K == DOMAIN req[o].change
     IN /\ stored' = Patched(o)
        /\ last' = Merge(req[o].change, last)
        /\ crossed' = (crossed \cup req[o].stale) \ K
        /\ broken' = broken \ K
        /\ Stales(o, K, [req[o] EXCEPT !.pc = "load", !.stale = {}, !.doc = Empty, !.done = K])
  /\ UNCHANGED <<env, vault, live, used, trouble, told>>

-----------------------------------------------------------------------------
(* Loading: the document is read again,                                    *)
LoadRead(o) ==
  /\ At(o, "load")
  /\ req' = [req EXCEPT ![o].pc = "set", ![o].doc = stored]
  /\ UNCHANGED <<env, stored, vault, live, used, trouble, last, crossed, broken, told>>

(* what the environment does not fix is set,                               *)
LoadSet(o) ==
  /\ At(o, "set")
  /\ live' = [k \in Keys |-> IF k \in Settings /\ k \in Fixed THEN env[k]
                             ELSE IF k \in DOMAIN req[o].doc THEN req[o].doc[k]
                             ELSE live[k]]
  /\ crossed' = crossed \cup req[o].stale
  /\ req' = [req EXCEPT ![o].pc = "get", ![o].doc = Empty, ![o].stale = {},
               ![o].todo = Secrets \ Fixed, ![o].loaded = ~(DOMAIN req[o].doc \subseteq Fixed)]
  /\ UNCHANGED <<env, stored, vault, used, trouble, last, broken, told>>

(* and so is each secret that the store has.                               *)
SecretGet(o) ==
  /\ At(o, "get")
  /\ IF req[o].todo = {}
       THEN req' = [req EXCEPT ![o].pc = "repair"]
       ELSE LET s == CHOOSE t \in req[o].todo : TRUE
            IN req' = [req EXCEPT ![o].pc = "put", ![o].key = s, ![o].value = vault[s],
                         ![o].todo = @ \ {s}]
  /\ UNCHANGED <<env, stored, vault, live, used, trouble, last, crossed, broken, told>>

SecretPut(o) ==
  /\ At(o, "put")
  /\ LET s == req[o].key
     IN IF req[o].value = None
        THEN UNCHANGED <<live, crossed>>
        ELSE live' = [live EXCEPT ![s] = req[o].value] /\ crossed' = crossed \cup req[o].stale
  /\ req' = [req EXCEPT ![o].pc = "get", ![o].stale = {},
               ![o].loaded = @ \/ req[o].value # None]
  /\ UNCHANGED <<env, stored, vault, used, trouble, last, broken, told>>

RepairNone(v) == v       \* slip: the values are taken as they are stored

(* A poll interval longer than the wait is cut to it. *)
Repair(v) ==
  [v EXCEPT !["poll"] = IF v["wait"] > 0 /\ @ > v["wait"] THEN v["wait"] ELSE @]

(* Then the workflow takes over what the process has, if any was loaded, *)
LoadEnd(o) ==
  /\ At(o, "repair")
  /\ live' = Repair(live)
  /\ used' = IF req[o].loaded \/ live' # live THEN [s \in Secrets |-> live[s]] ELSE used
  /\ req' = [req EXCEPT ![o] = IF @.kind = "boot" THEN Idle ELSE [@ EXCEPT !.pc = "audit"]]
  /\ UNCHANGED <<env, stored, vault, trouble, last, crossed, broken, told>>

AuditedLast(o) == IF req[o].key \in Secrets THEN {req[o].key} ELSE {}   \* slip: only the last one

Audited(o) == req[o].done \cap Secrets

(* and the changes are entered in the audit log, of the process at least. *)
Audit(o) ==
  /\ At(o, "audit")
  /\ told' = told \cup Audited(o)
  /\ End(o)
  /\ UNCHANGED <<env, stored, vault, live, used, trouble, last, crossed, broken>>

-----------------------------------------------------------------------------
(* PATCH /settings/secrets: one key at a time.  A key with no value and no *)
(* "clear" ends the request, with the keys before it written.              *)
WriteSecrets(o) ==
  /\ At(o, "new") /\ Admitted
  /\ \E w \in Writes :
       req' = [req EXCEPT ![o] = [Idle EXCEPT !.kind = "secrets", !.pc = "next",
                                    !.change = w, !.todo = DOMAIN w]]
  /\ UNCHANGED <<env, stored, vault, live, used, trouble, last, crossed, broken, told>>

SecretNext(o) ==
  /\ At(o, "next")
  /\ IF req[o].todo = {}
       THEN req' = [req EXCEPT ![o].pc = "refresh"] /\ UNCHANGED broken
       ELSE \E s \in req[o].todo :
              IF req[o].change[s] = Invalid
              THEN End(o) /\ broken' = broken \cup req[o].done
              ELSE /\ req' = [req EXCEPT ![o].pc = "store", ![o].key = s, ![o].todo = @ \ {s}]
                   /\ UNCHANGED broken
  /\ UNCHANGED <<env, stored, vault, live, used, trouble, last, crossed, told>>

SecretStore(o) ==
  /\ At(o, "store")
  /\ LET s == req[o].key
     IN /\ vault' = [vault EXCEPT ![s] = req[o].change[s]]
        /\ told' = told \ {s}
        /\ broken' = broken \ {s}
        /\ Stales(o, {s}, [req[o] EXCEPT !.pc = "live", !.done = @ \cup {s}])
  /\ UNCHANGED <<env, stored, live, used, trouble, last, crossed>>

SecretNowKept(o, s) ==       \* slip: a cleared secret stays in the process
  IF s \in Fixed \/ req[o].change[s] = None THEN live[s] ELSE req[o].change[s]

SecretNow(o, s) == IF s \in Fixed THEN live[s] ELSE req[o].change[s]

SecretLive(o) ==
  /\ At(o, "live")
  /\ LET s == req[o].key
     IN /\ live' = [live EXCEPT ![s] = SecretNow(o, s)]
        /\ crossed' = IF s \in req[o].stale THEN crossed \cup {s} ELSE crossed \ {s}
  /\ req' = [req EXCEPT ![o].pc = "next", ![o].stale = {}]
  /\ UNCHANGED <<env, stored, vault, used, trouble, last, broken, told>>

Refresh(o) ==
  /\ At(o, "refresh")
  /\ used' = [s \in Secrets |-> live[s]]
  /\ req' = [req EXCEPT ![o].pc = "audit"]
  /\ UNCHANGED <<env, stored, vault, live, trouble, last, crossed, broken, told>>

-----------------------------------------------------------------------------
Disturb == trouble < MaxTrouble /\ trouble' = trouble + 1

(* A storage call raises, and was applied or not.  The one that reads a    *)
(* secret is logged and passed over, the others end the request.           *)
ReadFails(o) ==
  /\ Disturb
  /\ At(o, "put")
  /\ req' = [req EXCEPT ![o].pc = "get", ![o].stale = {}]
  /\ broken' = broken \cup {req[o].key}
  /\ UNCHANGED <<env, stored, vault, live, used, last, crossed, told>>

CallFails(o) ==
  /\ Disturb
  /\ o \in Requests
  /\ \/ /\ At(o, "write")
        /\ \/ UNCHANGED <<stored, last, crossed>> /\ broken' = broken /\ End(o)
           \/ LET K == DOMAIN req[o].change
              IN /\ stored' = Patched(o)
                 /\ last' = Merge(req[o].change, last)
                 /\ crossed' = (crossed \cup req[o].stale) \ K
                 /\ broken' = broken \cup K
                 /\ Stales(o, K, Idle)
        /\ UNCHANGED <<vault, told>>
     \/ /\ At(o, "set")
        /\ broken' = broken \cup req[o].done
        /\ End(o)
        /\ UNCHANGED <<stored, last, crossed, vault, told>>
     \/ /\ At(o, "store")
        /\ \/ UNCHANGED <<vault, told>> /\ broken' = broken \cup req[o].done /\ End(o)
           \/ LET s == req[o].key
              IN /\ vault' = [vault EXCEPT ![s] = req[o].change[s]]
                 /\ told' = told \ {s}
                 /\ broken' = broken \cup req[o].done \cup {s}
                 /\ Stales(o, {s}, Idle)
        /\ UNCHANGED <<stored, last, crossed>>
  /\ UNCHANGED <<env, live, used>>

(* The process ends with its requests, and another starts. *)
Restart ==
  /\ Disturb
  /\ live' = [k \in Keys |-> FromStart(k)]
  /\ used' = [s \in Secrets |-> FromStart(s)]
  /\ broken' = broken \cup UNION {req[o].done \cap Secrets : o \in Requests}
  /\ req' = [o \in Jobs |-> IF o = Boot THEN [Idle EXCEPT !.kind = "boot", !.pc = "load"]
                            ELSE IF InFlight(o) THEN Idle ELSE req[o]]
  /\ UNCHANGED <<env, stored, vault, last, crossed, told>>

Next ==
  \/ \E o \in Requests :
       \/ Patch(o) \/ PatchRead(o) \/ PatchWrite(o)
       \/ WriteSecrets(o) \/ SecretNext(o) \/ SecretStore(o) \/ SecretLive(o) \/ Refresh(o)
       \/ Audit(o) \/ CallFails(o)
  \/ \E o \in Jobs :
       LoadRead(o) \/ LoadSet(o) \/ SecretGet(o) \/ SecretPut(o) \/ LoadEnd(o) \/ ReadFails(o)
  \/ Restart

Spec == Init /\ [][Next]_vars

-----------------------------------------------------------------------------
(* With no request in flight a setting that was saved is stored with the   *)
(* value it was last saved with, and the process has that value, unless    *)
(* requests crossed on it or one ended in an error: also after a restart,  *)
(* and also when a secret was written at the same time.                    *)
SavedIsInForce ==
  AtRest =>
    \A k \in DOMAIN last \ (crossed \cup broken) :
      /\ k \in DOMAIN stored /\ stored[k] = last[k]
      /\ \/ k \in Fixed
         \/ live[k] = last[k]
         \/ k = "poll" /\ live[k] = live["wait"]

(* With no request in flight the poll interval is within the wait, if      *)
(* there is one: whatever two requests checked against the process before  *)
(* either was stored, and whatever the environment fixes.                  *)
PollWithinWait ==
  AtRest /\ live["wait"] > 0 => live["poll"] <= live["wait"]

(* With no request in flight the process has the secrets that are in the   *)
(* store, so one that was cleared is gone, with the same exceptions.       *)
ClearedIsGone ==
  AtRest => \A s \in Secrets \ (Fixed \cup crossed \cup broken) : live[s] = vault[s]

(* With no request in flight every change of a secret is in the audit log  *)
(* and in use, unless the request that made it ended in an error.          *)
ChangeIsTold ==
  AtRest => \A s \in Secrets \ broken : s \in told /\ used[s] = live[s]

(* An audit entry is made for the changes of every PATCH of secrets.  Does *)
(* not hold: one that fails half way has written secrets and tells nobody. *)
EveryChangeAudited == AtRest => told = Secrets

=============================================================================
