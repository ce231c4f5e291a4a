--------------------------- MODULE LearningQueue ---------------------------
(***************************************************************************)
(* The learning queue: successful remediations that recur become           *)
(* candidates for a playbook, operators decide on them and judge the       *)
(* remediations, and an active playbook guides the runs it fits.  A        *)
(* refresh, a decision and a verdict are handled concurrently; each reads  *)
(* whole items, awaits other reads, and writes whole items back.           *)
(***************************************************************************)
EXTENDS Naturals, Sequences, FiniteSets, SequencesExt

CONSTANTS
  Playbooks,      \* what a candidate is known by: the failure, its reason, the
                  \* action and the suggested fix
  Pattern(_),     \* the one that run n belongs to
  Runs,           \* successful remediations, numbered as their activities are
                  \* created
  Starts,         \* runs finished, verdicts and decisions made at the start
  Requests,       \* requests of operators
  MaxRequests,    \* requests in flight at a time
  LookBack,       \* oldest runs a refresh may look back to
  Batch,          \* activities per page of its scan
  Page,           \* items a listing returns at most
  SampleSize,     \* activities an item keeps as its samples
  None

Statuses == {"candidate", "approved", "rejected", "active", "retired"}
Judged   == {"pass", "fail", None}

(* A run as a scan has read it, with its place among the newest then: one  *)
(* that is read twice is read in two places.                               *)
Entry    == (1..Cardinality(Runs)) \X Runs
SomeItem == [status : Statuses, occurrences : Nat, samples : SUBSET Entry,
             verified : Nat, passed : Nat]

ASSUME RunAssumption   == /\ Runs \subseteq Nat \ {0} /\ IsFiniteSet(Runs)
                          /\ \A n \in Runs : Pattern(n) \in Playbooks
ASSUME PageAssumption  == /\ Page \in Nat \ {0} /\ SampleSize \in Nat \ {0}
                          /\ Batch \in Nat \ {0} /\ LookBack \subseteq Runs
ASSUME StartAssumption ==
  \A s \in Starts :
    /\ DOMAIN s.verdict \subseteq Runs
    /\ \A n \in DOMAIN s.verdict : s.verdict[n] \in Judged
    /\ DOMAIN s.decided \subseteq Playbooks /\ IsFiniteSet(DOMAIN s.decided)
    /\ \A p \in DOMAIN s.decided : s.decided[p] \in Statuses
ASSUME NoneAssumption  == None \notin SomeItem \cup Playbooks \cup {"pass", "fail"}

VARIABLES
  run,       \* run[n]: whether it is finished, the playbook that guided it,
             \* the decision that playbook stood under, and the verdict on it
  queue,     \* the items of the queue
  order,     \* playbooks of the items, the one updated last first
  req,       \* req[o]: a request, what it has read, and what it has to write
  decided,   \* history: the last decision on each playbook
  crossed,   \* history: playbooks written by a request that had read the item
             \* before another wrote it, or that had not found it in its page
  shifted,   \* history: playbooks whose samples are from a scan between whose
             \* pages an activity was created
  unready    \* history: playbooks activated without force that were not ready

vars == <<run, queue, order, req, decided, crossed, shifted, unready>>

MinOccurrences == 2     \* of a refresh, and _LEARNING_PROMOTION_MIN_OCCURRENCES
MinSampleSize  == 2     \* _LEARNING_PROMOTION_MIN_SAMPLE_SIZE

-----------------------------------------------------------------------------
Finished == {n \in Runs : run[n].pc = "done"}
Created  == {n \in Runs : run[n].pc # "new"}

Place(n) == Cardinality({m \in Created : m >= n})

(* The first SampleSize of what a scan has read. *)
Samples(S) == {e \in S : Cardinality({f \in S : f[1] < e[1]}) < SampleSize}

Verified(S) == {e \in S : run[e[2]].verdict # None}
Passed(S)   == {e \in S : run[e[2]].verdict = "pass"}

(* What a request has read is what it counts later, as it was then. *)
ReadIn(r, S) == [r EXCEPT !.seen = @ \cup S, !.verified = @ \cup Verified(S),
                          !.passed = @ \cup Passed(S)]

OfPlaybook(S, p) == {e \in S : Pattern(e[2]) = p}

(* An item made of what a request has read of playbook p. *)
Item(r, p, status) ==
  LET mine == OfPlaybook(r.seen, p)
  IN  [status |-> status, occurrences |-> Cardinality(mine), samples |-> Samples(mine),
       verified |-> Cardinality(mine \cap r.verified),
       passed |-> Cardinality(mine \cap r.passed)]

(* The gates of an activation.  Every occurrence counts as a success, so   *)
(* the gate on the success rate is always passed.                          *)
Ready(item) ==
  /\ item.status \in {"approved", "active"}
  /\ item.occurrences >= MinOccurrences
  /\ Cardinality(item.samples) >= MinSampleSize
  /\ item.verified >= 1
  /\ item.passed * 5 >= item.verified * 4

(* An active playbook guides a run it fits in failure, reason and          *)
(* repository, if 60% of the verdicts are good: the score of a match asks  *)
(* for all three, the rest of the score cannot make up for one.            *)
Guides(p, n) ==
  /\ p = Pattern(n)
  /\ queue[p] # None
  /\ queue[p].status = "active"
  /\ queue[p].passed * 5 >= queue[p].verified * 3
  /\ queue[p].passed > 0

Listed == {order[i] : i \in 1..(IF Len(order) < Page THEN Len(order) ELSE Page)}

StatusOf == [approve |-> "approved", reject |-> "rejected", activate |-> "active",
             retire |-> "retired", reset_candidate |-> "candidate"]

(* What a listing has returned, None where it has not.                     *)
ItemsOf(S) == [p \in Playbooks |-> IF p \in S THEN queue[p] ELSE None]

Idle == [kind |-> "none", pc |-> "idle", p |-> None, n |-> None, status |-> None,
         forced |-> FALSE, offset |-> 0, moved |-> FALSE,
         seen |-> {}, verified |-> {}, passed |-> {},
         items |-> [p \in Playbooks |-> None], todo |-> {}, stale |-> {}]

Request == [kind : {"none", "refresh", "decide", "feedback"},
            pc : {"new", "scan", "list", "count", "write", "idle"},
            p : Playbooks \cup {None}, n : Runs \cup {None}, status : Statuses \cup {None},
            forced : BOOLEAN, offset : Nat, moved : BOOLEAN,
            seen : SUBSET Entry, verified : SUBSET Entry, passed : SUBSET Entry,
            items : [Playbooks -> SomeItem \cup {None}],
            todo : SUBSET Playbooks, stale : SUBSET Playbooks]

SomeRun == [pc : {"new", "begun", "run", "done"}, guide : Playbooks \cup {None},
            under : Statuses \cup {None}, verdict : Judged]

TypeOK ==
  /\ run \in [Runs -> SomeRun]
  /\ queue \in [Playbooks -> SomeItem \cup {None}]
  /\ order \in Seq(Playbooks)
  /\ req \in [Requests -> Request]
  /\ decided \in [Playbooks -> Statuses]
  /\ crossed \in SUBSET Playbooks /\ shifted \in SUBSET Playbooks
  /\ unready \in SUBSET Playbooks

(* The queue as the last refresh left it, with the decisions since. *)
Init ==
  /\ \E start \in Starts :
       LET decidedOn == DOMAIN start.decided
       IN /\ run = [n \in Runs |-> [pc |-> IF n \in DOMAIN start.verdict THEN "done" ELSE "new",
                                    guide |-> None, under |-> None,
                                    verdict |-> IF n \in DOMAIN start.verdict
                                                THEN start.verdict[n] ELSE None]]
          /\ decided = [p \in Playbooks |-> IF p \in decidedOn THEN start.decided[p] ELSE "candidate"]
          /\ queue = [p \in Playbooks |->
                         IF p \in decidedOn
                         THEN Item(ReadIn(Idle, {<<Place(n), n>> : n \in Finished}), p,
                                   start.decided[p])
                         ELSE None]
          /\ order = SetToSeq(decidedOn)
  /\ req = [o \in Requests |-> [Idle EXCEPT !.pc = "new"]]
  /\ crossed = {}
  /\ shifted = {}
  /\ unready = {}

-----------------------------------------------------------------------------
InFlight(o) == req[o].pc \notin {"new", "idle"}

Admitted == Cardinality({o \in Requests : InFlight(o)}) < MaxRequests

(* The order with p first, and those that were before it one place down.   *)
ToFront(p) ==
  LET was == IF p \in Range(order) THEN CHOOSE i \in DOMAIN order : order[i] = p
             ELSE Len(order) + 1
  IN  [i \in DOMAIN order \cup {was} |->
         IF i = 1 THEN p ELSE IF i <= was THEN order[i - 1] ELSE order[i]]

(* A write of one item: it moves to the front, and what the other requests *)
(* hold of it is stale from now on.                                        *)
Upsert(o, p, item, r) ==
  /\ queue' = [queue EXCEPT ![p] = item]
  /\ order' = ToFront(p)
  /\ req' = [x \in Requests |-> IF x = o THEN r
                                ELSE IF req[x].items[p] # None
                                THEN [req[x] EXCEPT !.stale = @ \cup {p}]
                                ELSE req[x]]
  /\ crossed' = IF \/ p \in req[o].stale
                   \/ req[o].kind = "refresh" /\ queue[p] # None /\ req[o].items[p] = None
                THEN crossed \cup {p} ELSE crossed

(* A run that will be successful: its activity is created, which moves all *)
(* others one place down,                                                  *)
Begin(n) ==
  /\ run[n].pc = "new"
  /\ \A m \in Runs : m < n => run[m].pc # "new"
  /\ run' = [run EXCEPT ![n].pc = "begun"]
  /\ req' = [x \in Requests |-> [req[x] EXCEPT !.moved = @ \/ req[x].pc = "scan"]]
  /\ UNCHANGED <<queue, order, decided, crossed, shifted, unready>>

(* it reads the queue before it publishes its fix, *)
Retrieve(n) ==
  /\ run[n].pc = "begun"
  /\ LET p == Pattern(n)
     IN run' = [run EXCEPT ![n] = IF Guides(p, n)
                                  THEN [@ EXCEPT !.pc = "run", !.guide = p, !.under = decided[p]]
                                  ELSE [@ EXCEPT !.pc = "run"]]
  /\ UNCHANGED <<queue, order, req, decided, crossed, shifted, unready>>

(* and its activity is completed. *)
Complete(n) ==
  /\ run[n].pc = "run"
  /\ run' = [run EXCEPT ![n].pc = "done"]
  /\ UNCHANGED <<queue, order, req, decided, crossed, shifted, unready>>

-----------------------------------------------------------------------------
(* A request that has nothing left to write has ended. *)
Rest(r) == IF r.todo = {} THEN Idle ELSE r

(* One page of a scan, at the offset it has come to; only a full one has   *)
(* another after it.                                                       *)
Scanned(r) ==
  LET page  == {n \in Created : n >= r.n /\ Place(n) \in r.offset + 1 .. r.offset + Batch}
      read  == ReadIn(r, {<<Place(n), n>> : n \in page \cap Finished})
      often == {p \in Playbooks : Cardinality(OfPlaybook(read.seen, p)) >= MinOccurrences}
  IN  IF Cardinality(page) = Batch
      THEN [read EXCEPT !.pc = "scan", !.offset = @ + Batch]
      ELSE Rest([read EXCEPT !.pc = "list", !.todo = often])

(* A refresh scans the newest activities, page by page, *)
RefreshStart(o) ==
  /\ req[o].pc = "new" /\ Admitted
  /\ \E k \in LookBack :
       req' = [req EXCEPT ![o] = Scanned([Idle EXCEPT !.kind = "refresh", !.n = k])]
  /\ UNCHANGED <<run, queue, order, decided, crossed, shifted, unready>>

RefreshScan(o) ==
  /\ req[o].pc = "scan"
  /\ req' = [req EXCEPT ![o] = Scanned(@)]
  /\ UNCHANGED <<run, queue, order, decided, crossed, shifted, unready>>

(* lists the items there are, *)
RefreshList(o) ==
  /\ req[o].pc = "list" /\ req[o].kind = "refresh"
  /\ req' = [req EXCEPT ![o].pc = "write", ![o].items = ItemsOf(Listed)]
  /\ UNCHANGED <<run, queue, order, decided, crossed, shifted, unready>>

FreshStatus(o, p) == "candidate"      \* slip: an item there is is not looked up

(* and writes each candidate, with the status that its item was listed     *)
(* with.                                                                   *)
KeptStatus(o, p) ==
  IF req[o].items[p] # None THEN req[o].items[p].status ELSE "candidate"

RefreshWrite(o) ==
  /\ req[o].pc = "write" /\ req[o].kind = "refresh"
  /\ \E p \in req[o].todo :
       /\ Upsert(o, p, Item(req[o], p, KeptStatus(o, p)), Rest([req[o] EXCEPT !.todo = @ \ {p}]))
       /\ shifted' = IF req[o].moved THEN shifted \cup {p} ELSE shifted \ {p}
  /\ UNCHANGED <<run, decided, unready>>

-----------------------------------------------------------------------------
AllowedAnyway(item, action, force) ==     \* slip: approval is enough
  action # "activate" \/ force \/ item.status \in {"approved", "active"}

(* A decision reads the item; one to activate is refused when the item is  *)
(* not ready, unless it is forced.                                         *)
Allowed(item, action, force) == action # "activate" \/ force \/ Ready(item)

DecideRead(o) ==
  /\ req[o].pc = "new" /\ Admitted
  /\ \E p \in Playbooks, action \in DOMAIN StatusOf, force \in BOOLEAN :
       /\ queue[p] # None
       /\ force => action = "activate"
       /\ req' = [req EXCEPT ![o] =
                    IF Allowed(queue[p], action, force)
                    THEN [Idle EXCEPT !.kind = "decide", !.pc = "write", !.p = p,
                            !.status = StatusOf[action], !.forced = force,
                            !.items = ItemsOf({p})]
                    ELSE Idle]
  /\ UNCHANGED <<run, queue, order, decided, crossed, shifted, unready>>

DecideWrite(o) ==
  /\ req[o].pc = "write" /\ req[o].kind = "decide"
  /\ LET p == req[o].p
     IN /\ Upsert(o, p, [req[o].items[p] EXCEPT !.status = req[o].status], Idle)
        /\ decided' = [decided EXCEPT ![p] = req[o].status]
        /\ unready' = IF req[o].status = "active" /\ ~req[o].forced /\ ~Ready(queue[p])
                      THEN unready \cup {p} ELSE unready
  /\ UNCHANGED <<run, shifted>>

-----------------------------------------------------------------------------
(* A verdict is stored with its activity, and what others have read of     *)
(* that activity is stale;                                                 *)
FeedbackStore(o) ==
  /\ req[o].pc = "new" /\ Admitted
  /\ \E n \in Finished, v \in {"pass", "fail"} :
       /\ run' = [run EXCEPT ![n].verdict = v]
       /\ req' = [x \in Requests |->
                    IF x = o THEN [Idle EXCEPT !.kind = "feedback", !.pc = "list", !.n = n]
                    ELSE IF \E e \in req[x].seen : e[2] = n
                    THEN [req[x] EXCEPT !.stale = @ \cup {Pattern(n)}]
                    ELSE req[x]]
  /\ UNCHANGED <<queue, order, decided, crossed, shifted, unready>>

(* then the items are listed that have it as a sample or guided it, *)
FeedbackList(o) ==
  /\ req[o].pc = "list" /\ req[o].kind = "feedback"
  /\ LET n    == req[o].n
         todo == {p \in Listed : (\E e \in queue[p].samples : e[2] = n) \/ run[n].guide = p}
     IN req' = [req EXCEPT ![o] = Rest([@ EXCEPT !.pc = "count", !.items = ItemsOf(Listed),
                                                 !.todo = todo])]
  /\ UNCHANGED <<run, queue, order, decided, crossed, shifted, unready>>

(* the samples of each are read again one by one, *)
NextItem(o) == CHOOSE p \in req[o].todo : TRUE
Unread(o)   == req[o].items[NextItem(o)].samples \ req[o].seen

FeedbackCount(o) ==
  /\ req[o].pc = "count" /\ Unread(o) # {}
  /\ LET e == CHOOSE e \in Unread(o) : \A f \in Unread(o) : e[1] <= f[1]
     IN req' = [req EXCEPT ![o] = ReadIn(@, {e})]
  /\ UNCHANGED <<run, queue, order, decided, crossed, shifted, unready>>

RecountedOne(o, item) ==                  \* slip: only this verdict is added
  [item EXCEPT !.verified = @ + 1,
               !.passed = @ + (IF \E e \in req[o].passed : e[2] = req[o].n THEN 1 ELSE 0)]

(* and it is written with what they said. *)
Recounted(o, item) ==
  [item EXCEPT !.verified = Cardinality(item.samples \cap req[o].verified),
               !.passed = Cardinality(item.samples \cap req[o].passed)]

FeedbackWrite(o) ==
  /\ req[o].pc = "count" /\ Unread(o) = {}
  /\ LET p == NextItem(o)
     IN Upsert(o, p, Recounted(o, req[o].items[p]),
               Rest([req[o] EXCEPT !.todo = @ \ {p}, !.seen = {}, !.verified = {}, !.passed = {}]))
  /\ UNCHANGED <<run, decided, shifted, unready>>

-----------------------------------------------------------------------------
Next ==
  \/ \E n \in Runs : Begin(n) \/ Retrieve(n) \/ Complete(n)
  \/ \E o \in Requests :
       \/ RefreshStart(o) \/ RefreshScan(o) \/ RefreshList(o) \/ RefreshWrite(o)
       \/ DecideRead(o) \/ DecideWrite(o)
       \/ FeedbackStore(o) \/ FeedbackList(o) \/ FeedbackCount(o) \/ FeedbackWrite(o)

Spec == Init /\ [][Next]_vars

-----------------------------------------------------------------------------
(* The status of an item is that of the last decision on it, and no run is *)
(* guided by a playbook whose last decision is not to activate it, unless  *)
(* two requests crossed on the item or it was beyond the page of a         *)
(* refresh.                                                                *)
LostDecisionNeedsRace ==
  /\ \A p \in Playbooks : queue[p] = None \/ queue[p].status = decided[p] \/ p \in crossed
  /\ \A n \in Runs : run[n].guide = None \/ run[n].under = "active" \/ run[n].guide \in crossed

(* A playbook that nobody forced is ready when it becomes active, unless   *)
(* the evidence changed between the check of the gates and the write.      *)
UnreadyNeedsRace == unready \subseteq crossed

(* With no request in flight an item counts the verdicts of its samples,   *)
(* whatever order they came in and whether a refresh or a verdict wrote it *)
(* last; again unless two requests crossed on it or a listing missed it.   *)
(* The counts are about items whose samples are all that was read of them: *)
(* of others a refresh counts every run and a verdict only the samples.    *)
(* No run is twice among the samples, and counted twice, unless an         *)
(* activity was created between two pages of the scan.                     *)
Once(S) == \A e, f \in S : e[2] = f[2] => e = f

VerdictsCounted ==
  (\A o \in Requests : ~InFlight(o)) =>
    \A p \in Playbooks \ crossed : queue[p] # None =>
      /\ queue[p].occurrences <= SampleSize /\ Len(order) <= Page =>
           /\ queue[p].verified = Cardinality(Verified(queue[p].samples))
           /\ queue[p].passed = Cardinality(Passed(queue[p].samples))
      /\ p \notin shifted => Once(queue[p].samples)

(* No run is guided by a playbook that an operator has retired or          *)
(* rejected.  Does not hold: a refresh writes back the state it has read.  *)
RetiredGuidesNoRun ==
  \A n \in Runs : run[n].guide # None => run[n].under = "active"

(* No run is counted twice: two occurrences are two runs.  Does not hold:  *)
(* an activity that is created between two pages of a scan moves the last  *)
(* of the first page into the second.                                      *)
RunsAreCountedOnce ==
  \A p \in Playbooks : queue[p] # None => Once(queue[p].samples)

=============================================================================
