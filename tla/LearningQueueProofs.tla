------------------------ MODULE LearningQueueProofs ------------------------
(***************************************************************************)
(* That a decision on the learning queue is only lost, a playbook only     *)
(* activated unready and a verdict only miscounted where two requests      *)
(* crossed, for any playbooks, runs, requests and start.                   *)
(*                                                                         *)
(* What a request holds of an item is what the queue says of it, or the    *)
(* item is among those stale to it (HeldOK), and the same of the verdicts  *)
(* it has read (ReadOK).  A scan has read each run in the place it is in,  *)
(* once, or an activity was created since it began (PlaceOK).  A write     *)
(* from what is not stale keeps the status that was decided (DecidedInv),  *)
(* and an item is counted or a request is on its way that will count it    *)
(* (CountInv).                                                             *)
(***************************************************************************)
EXTENDS LearningQueue, FiniteSetTheorems, WellFoundedInduction,
        SequenceTheorems, TLAPS

(* What a request is at, *)
CallOK(r) ==
  /\ r.kind = "none" => r.pc \in {"new", "idle"}
  /\ r.kind = "refresh" => /\ r.pc \in {"scan", "list", "write"} /\ r.n \in Runs
                           /\ r.pc # "write" => \A p \in Playbooks : r.items[p] = None
  /\ r.kind = "decide" => r.pc = "write" /\ r.p \in Playbooks /\ r.status \in Statuses
  /\ r.kind = "feedback" => /\ r.pc \in {"list", "count"}
                            /\ r.n \in Runs
                            /\ r.pc = "list" <=> r.todo = {}

(* the items it holds and will write, in a queue q, *)
Held(r) == {p \in Playbooks : \/ r.kind = "decide" /\ r.p = p
                              \/ r.kind = "feedback" /\ p \in r.todo
                              \/ r.kind = "refresh" /\ p \in r.todo /\ r.items[p] # None}

HeldOK(r, q) == \A p \in Held(r) : /\ r.items[p] # None
                                   /\ p \in r.stale \/ r.items[p] = q[p]

(* the verdicts it has read, where the verdicts are now v, *)
Verdicts == [n \in Runs |-> run[n].verdict]

ReadOK(r, v) ==
  /\ r.verified \subseteq r.seen /\ r.passed \subseteq r.seen
  /\ \A e \in r.seen : \/ Pattern(e[2]) \in r.stale
                       \/ /\ e \in r.verified <=> v[e[2]] # None
                          /\ e \in r.passed <=> v[e[2]] = "pass"

(* the places it has read them in, where the places are now pl, *)
Places == [n \in Runs |-> Place(n)]

PlaceOK(r, pl) ==
  r.kind = "refresh" /\ ~r.moved =>
    /\ Once(r.seen)
    /\ r.pc = "scan" => \A e \in r.seen : e[1] = pl[e[2]]

(* and the gates it has passed. *)
GateOK(r) ==
  r.kind = "decide" /\ r.status = "active" /\ ~r.forced => Ready(r.items[r.p])

ReqInv(r, q, v, pl) ==
  CallOK(r) /\ HeldOK(r, q) /\ ReadOK(r, v) /\ PlaceOK(r, pl) /\ GateOK(r)

OrderInv == \A p \in Playbooks : queue[p] # None <=> p \in Range(order)

(* The status of an item, and the runs that it has guided. *)
DecidedInv == \A p \in Playbooks :
  /\ queue[p] = None => decided[p] = "candidate"
  /\ queue[p] # None => queue[p].status = decided[p] \/ p \in crossed

GuideInv ==
  \A n \in Runs : run[n].guide = None \/ run[n].under = "active" \/ run[n].guide \in crossed

(* The verdicts of an item are counted, or a request will count them. *)
VerifiedBy(S, v) == {e \in S : v[e[2]] # None}
PassedBy(S, v)   == {e \in S : v[e[2]] = "pass"}

Counted(item, v) ==
  /\ item.verified = Cardinality(VerifiedBy(item.samples, v))
  /\ item.passed = Cardinality(PassedBy(item.samples, v))

Counts(r, item, p) ==
  /\ r.kind = "feedback"
  /\ \/ r.pc = "list" /\ \E e \in item.samples : e[2] = r.n
     \/ p \in r.todo

OfPattern(item, p) == \A e \in item.samples : Pattern(e[2]) = p

CountOK(p) ==
  queue[p].occurrences <= SampleSize /\ Len(order) <= Page =>
    Counted(queue[p], Verdicts) \/ \E o \in Requests : Counts(req[o], queue[p], p)

CountInv == \A p \in Playbooks \ crossed :
              queue[p] # None => /\ OfPattern(queue[p], p) /\ CountOK(p)
                                 /\ p \notin shifted => Once(queue[p].samples)

IInv == /\ TypeOK
        /\ \A o \in Requests : ReqInv(req[o], queue, Verdicts, Places)
        /\ OrderInv
        /\ DecidedInv /\ GuideInv
        /\ UnreadyNeedsRace
        /\ CountInv

-----------------------------------------------------------------------------
(* A request that does nothing holds nothing.                              *)
LEMMA IdleHolds ==
  ASSUME NEW r \in {Idle, [Idle EXCEPT !.pc = "new"]}, NEW q, NEW v, NEW pl
  PROVE  r \in Request /\ ReqInv(r, q, v, pl) /\ r.kind = "none"
<1>1. [p \in Playbooks |-> None] \in [Playbooks -> SomeItem \cup {None}]
  OBVIOUS
<1>2. Idle \in Request /\ Idle.kind = "none" /\ Idle.pc = "idle" /\ Idle.seen = {}
      /\ Idle.verified = {} /\ Idle.passed = {}
  BY <1>1 DEF Idle, Request
<1>3. /\ r \in Request /\ r.kind = "none" /\ r.pc \in {"new", "idle"} /\ r.seen = {}
      /\ r.verified = {} /\ r.passed = {}
  <2>1. CASE r = [Idle EXCEPT !.pc = "new"]
    BY <1>2, <2>1 DEF Request
  <2> QED BY <1>2, <2>1
<1>4. ReqInv(r, q, v, pl)
  BY <1>3 DEF ReqInv, CallOK, HeldOK, Held, ReadOK, PlaceOK, GateOK
<1> QED BY <1>3, <1>4

(* There are finitely many entries, and an entry for every place.          *)
LEMMA EntriesFinite ==
  ASSUME NEW S \in SUBSET Entry
  PROVE  IsFiniteSet(S) /\ Cardinality(S) \in Nat
<1>1. IsFiniteSet(Runs) /\ Cardinality(Runs) \in Nat
  BY RunAssumption, FS_CardinalityType
<1>2. IsFiniteSet(1..Cardinality(Runs))
  BY <1>1, FS_Interval
<1>3. IsFiniteSet(Entry)
  BY <1>1, <1>2, FS_Product DEF Entry
<1> QED BY <1>3, FS_Subset, FS_CardinalityType

LEMMA EntryShape ==
  ASSUME NEW e \in Entry
  PROVE  e = <<e[1], e[2]>> /\ e[1] \in Nat /\ e[2] \in Runs
<1>1. Cardinality(Runs) \in Nat
  BY RunAssumption, FS_CardinalityType
<1> QED BY <1>1 DEF Entry

LEMMA PlaceIsEntry ==
  ASSUME NEW n \in Created
  PROVE  <<Place(n), n>> \in Entry
<1> DEFINE S == {m \in Created : m >= n}
<1>1. S \in SUBSET Runs /\ n \in S /\ n \in Runs
  BY RunAssumption DEF Created
<1>2. /\ IsFiniteSet(S) /\ IsFiniteSet(Runs) /\ Cardinality(S) <= Cardinality(Runs)
      /\ Cardinality(S) \in Nat /\ Cardinality(Runs) \in Nat
  BY <1>1, RunAssumption, FS_Subset, FS_CardinalityType
<1>3. Cardinality(S) # 0
  BY <1>1, <1>2, FS_EmptySet
<1>4. Place(n) \in 1..Cardinality(Runs)
  BY <1>2, <1>3 DEF Place
<1> QED BY <1>1, <1>4 DEF Entry

(* What a request reads stays of its type, and is what the verdicts say.   *)
LEMMA ReadTyped ==
  ASSUME NEW r \in Request, NEW S \in SUBSET Entry, ReadOK(r, Verdicts)
  PROVE  /\ ReadIn(r, S) \in Request /\ ReadOK(ReadIn(r, S), Verdicts)
         /\ ReadIn(r, S).seen = r.seen \cup S
         /\ ReadIn(r, S).kind = r.kind /\ ReadIn(r, S).pc = r.pc /\ ReadIn(r, S).n = r.n
         /\ ReadIn(r, S).p = r.p /\ ReadIn(r, S).items = r.items
         /\ ReadIn(r, S).todo = r.todo /\ ReadIn(r, S).stale = r.stale
         /\ ReadIn(r, S).moved = r.moved /\ ReadIn(r, S).offset = r.offset
<1>1. Verified(S) \in SUBSET Entry /\ Passed(S) \in SUBSET Entry
  BY DEF Verified, Passed
<1>2. /\ ReadIn(r, S) \in Request
      /\ ReadIn(r, S).seen = r.seen \cup S
      /\ ReadIn(r, S).kind = r.kind /\ ReadIn(r, S).pc = r.pc /\ ReadIn(r, S).n = r.n
      /\ ReadIn(r, S).p = r.p /\ ReadIn(r, S).items = r.items
      /\ ReadIn(r, S).todo = r.todo /\ ReadIn(r, S).stale = r.stale
      /\ ReadIn(r, S).moved = r.moved /\ ReadIn(r, S).offset = r.offset
      /\ ReadIn(r, S).verified = r.verified \cup Verified(S)
      /\ ReadIn(r, S).verified = r.verified \cup Verified(S)
      /\ ReadIn(r, S).passed = r.passed \cup Passed(S)
  BY <1>1 DEF ReadIn, Request
<1> DEFINE read == ReadIn(r, S)
<1>3. \A e \in S : /\ e[2] \in Runs
                   /\ e \in Verified(S) <=> Verdicts[e[2]] # None
                   /\ e \in Passed(S) <=> Verdicts[e[2]] = "pass"
  BY EntryShape DEF Verified, Passed, Verdicts
<1>4. Verified(S) \subseteq S /\ Passed(S) \subseteq S
  BY DEF Verified, Passed
<1> HIDE DEF read
<1>5. ReadOK(read, Verdicts)
  <2>1. /\ read.seen = r.seen \cup S /\ read.verified = r.verified \cup Verified(S)
        /\ read.passed = r.passed \cup Passed(S) /\ read.stale = r.stale
    BY <1>2 DEF read
  <2> QED BY <1>3, <1>4, <2>1 DEF ReadOK
<1> QED BY <1>2, <1>5 DEF read

LEMMA FewAreSamples ==
  ASSUME NEW S \in SUBSET Entry, Cardinality(S) <= SampleSize
  PROVE  Samples(S) = S
<1>1. SUFFICES ASSUME NEW e \in S PROVE Cardinality({f \in S : f[1] < e[1]}) < SampleSize
  BY DEF Samples
<1> DEFINE T == {f \in S : f[1] < e[1]}
<1>2. /\ IsFiniteSet(S) /\ Cardinality(S) \in Nat
      /\ T \in SUBSET S
  BY EntriesFinite
<1>3. T # S
  BY EntryShape
<1>4. /\ IsFiniteSet(T) /\ Cardinality(T) <= Cardinality(S)
      /\ Cardinality(S) = Cardinality(T) => S = T
  BY <1>2, FS_Subset
<1>5. Cardinality(T) \in Nat
  BY <1>4, FS_CardinalityType
<1> HIDE DEF T
<1>6. Cardinality(T) < Cardinality(S)
  BY <1>2, <1>3, <1>4, <1>5
<1> QED BY <1>2, <1>5, <1>6, PageAssumption DEF T

(* An item made of what is not stale counts it, and what was read once.    *)
LEMMA ItemTyped ==
  ASSUME NEW r \in Request, NEW p \in Playbooks, NEW status \in Statuses, NEW v, ReadOK(r, v),
         NEW item, item = Item(r, p, status)
  PROVE  /\ item \in SomeItem /\ item # None /\ item.status = status
         /\ OfPattern(item, p)
         /\ p \notin r.stale /\ item.occurrences <= SampleSize => Counted(item, v)
         /\ Once(r.seen) => Once(item.samples)
<1> DEFINE mine == OfPlaybook(r.seen, p)
           ver  == mine \cap r.verified
           pas  == mine \cap r.passed
<1>1. mine \in SUBSET Entry /\ ver \in SUBSET Entry /\ pas \in SUBSET Entry
  BY DEF Request, OfPlaybook
<1>2. Cardinality(mine) \in Nat /\ Cardinality(ver) \in Nat /\ Cardinality(pas) \in Nat
  BY <1>1, EntriesFinite
<1>3. Samples(mine) \in SUBSET mine
  BY DEF Samples
<1>4. \A e \in mine : e \in r.seen /\ Pattern(e[2]) = p
  BY DEF OfPlaybook
<1>5. p \notin r.stale => ver = VerifiedBy(mine, v) /\ pas = PassedBy(mine, v)
  BY DEF ReadOK, OfPlaybook, VerifiedBy, PassedBy
<1>6. item = [status |-> status, occurrences |-> Cardinality(mine), samples |-> Samples(mine),
              verified |-> Cardinality(ver), passed |-> Cardinality(pas)]
  BY DEF Item
<1>7. Cardinality(mine) <= SampleSize => Samples(mine) = mine
  BY <1>1, FewAreSamples
<1> HIDE DEF mine, ver, pas
<1>8. item \in SomeItem
  BY <1>1, <1>2, <1>3, <1>6 DEF SomeItem
<1>9. OfPattern(item, p) /\ (Once(r.seen) => Once(item.samples))
  BY <1>3, <1>4, <1>6 DEF OfPattern, Once
<1>10. p \notin r.stale /\ item.occurrences <= SampleSize => Counted(item, v)
  BY <1>5, <1>6, <1>7 DEF Counted
<1> QED BY <1>6, <1>8, <1>9, <1>10, NoneAssumption

(* What verdicts are counted depends on the runs that are counted. *)
LEMMA SameVerdicts ==
  ASSUME NEW S, NEW v, NEW w, \A e \in S : v[e[2]] = w[e[2]]
  PROVE  VerifiedBy(S, v) = VerifiedBy(S, w) /\ PassedBy(S, v) = PassedBy(S, w)
BY DEF VerifiedBy, PassedBy

-----------------------------------------------------------------------------
(* What is written comes to the front and pushes nothing out.              *)
LEMMA FrontKeeps ==
  ASSUME order \in Seq(Playbooks), NEW p \in Playbooks
  PROVE  /\ ToFront(p) \in Seq(Playbooks)
         /\ Range(ToFront(p)) = Range(order) \cup {p}
         /\ Len(order) <= Len(ToFront(p)) /\ Len(ToFront(p)) \in Nat
<1> DEFINE was == IF p \in Range(order) THEN CHOOSE i \in DOMAIN order : order[i] = p
                  ELSE Len(order) + 1
           f   == [i \in DOMAIN order \cup {was} |->
                     IF i = 1 THEN p ELSE IF i <= was THEN order[i - 1] ELSE order[i]]
<1>1. PICK len \in Nat : /\ len = Len(order) /\ DOMAIN order = 1..len
                         /\ \A i \in 1..len : order[i] \in Playbooks
  BY LenProperties, ElementOfSeq
<1>2. p \in Range(order) => was \in 1..len /\ order[was] = p
  BY <1>1 DEF Range
<1>3. PICK n \in Nat : \/ n = len /\ was \in 1..n /\ order[was] = p
                       \/ n = len + 1 /\ was = n
  BY <1>1, <1>2
<1>4. DOMAIN order \cup {was} = 1..n
  <2>1. CASE n = len /\ was \in 1..n
    BY <1>1, <2>1
  <2>2. CASE n = len + 1 /\ was = n
    <3>1. 1..n = 1..len \cup {n}
      BY <2>2
    <3> QED BY <1>1, <2>2, <3>1
  <2> QED BY <1>3, <2>1, <2>2
<1>5. ToFront(p) = f
  BY DEF ToFront
<1> HIDE DEF was
<1>6. /\ DOMAIN f = 1..n
      /\ \A i \in 1..n :
           f[i] = IF i = 1 THEN p ELSE IF i <= was THEN order[i - 1] ELSE order[i]
  BY <1>4
<1> HIDE DEF f
<1>7. \A i \in 1..n : i # 1 /\ ~(i <= was) => i \in 1..len
  BY <1>3
<1>8. \A i \in 1..n : i # 1 /\ i <= was => i - 1 \in 1..len
  BY <1>3
<1>9. \A i \in 1..n : f[i] = p \/ \E j \in 1..len : f[i] = order[j]
  BY <1>6, <1>7, <1>8
<1>10. \A i \in 1..n : f[i] \in Playbooks
  BY <1>1, <1>9
<1>11. f \in [1..n -> Playbooks]
  <2>1. f = [i \in 1..n |-> f[i]]
    BY <1>6 DEF f
  <2> QED BY <1>10, <2>1
<1>12. f \in Seq(Playbooks) /\ Len(f) = n
  BY <1>6, <1>11
<1>13. 1 \in 1..n /\ f[1] = p
  BY <1>3, <1>6
<1>14. ASSUME NEW i \in 1..len PROVE \E j \in 1..n : f[j] = order[i]
  <2>1. CASE i > was
    <3>1. i \in 1..n /\ i # 1 /\ ~(i <= was)
      BY <1>3, <2>1
    <3> QED BY <1>6, <3>1
  <2>2. CASE i < was
    <3>1. i + 1 \in 1..n /\ i + 1 # 1 /\ i + 1 <= was /\ (i + 1) - 1 = i
      BY <1>3, <2>2
    <3> QED BY <1>6, <3>1
  <2>3. CASE i = was
    <3>1. order[i] = p
      BY <1>3, <2>3
    <3> QED BY <1>13, <3>1
  <2> QED BY <1>3, <2>1, <2>2, <2>3
<1>15. Range(f) = Range(order) \cup {p}
  <2>1. Range(order) = {order[i] : i \in 1..len} /\ Range(f) = {f[i] : i \in 1..n}
    BY <1>1, <1>6 DEF Range
  <2> QED BY <1>9, <1>13, <1>14, <2>1
<1>16. len <= n
  BY <1>3
<1> QED BY <1>1, <1>5, <1>12, <1>15, <1>16

(* A listing has items that there are, and all when it is long enough. *)
LEMMA ListedInOrder ==
  ASSUME order \in Seq(Playbooks)
  PROVE  /\ Listed \subseteq Range(order) /\ Listed \subseteq Playbooks
         /\ Len(order) <= Page => Listed = Range(order)
<1>1. PICK len \in Nat : /\ len = Len(order) /\ DOMAIN order = 1..len
                         /\ \A i \in 1..len : order[i] \in Playbooks
  BY LenProperties, ElementOfSeq
<1>2. PICK k \in Nat : k = IF len < Page THEN len ELSE Page
  BY PageAssumption
<1>3. k <= len /\ (len <= Page => k = len)
  BY <1>2, PageAssumption
<1>4. Listed = {order[i] : i \in 1..k} /\ Range(order) = {order[i] : i \in 1..len}
  BY <1>1, <1>2 DEF Listed, Range
<1>5. \A i \in 1..k : i \in 1..len
  BY <1>3
<1> QED BY <1>1, <1>3, <1>4, <1>5

-----------------------------------------------------------------------------
(* What another writes is stale from then on to a request that holds it,   *)
(* or has read it,                                                         *)
LEMMA MarkKeeps ==
  ASSUME NEW r \in Request, NEW p \in Playbooks, NEW q, NEW q2, NEW v, NEW v2, NEW pl,
         ReqInv(r, q, v, pl),
         \A x \in Playbooks \ {p} : q2[x] = q[x],
         \A n \in Runs : Pattern(n) = p \/ v2[n] = v[n],
         NEW m, m = [r EXCEPT !.stale = @ \cup {p}]
  PROVE  /\ m \in Request /\ ReqInv(m, q2, v2, pl)
         /\ \A item, x : Counts(m, item, x) <=> Counts(r, item, x)
<1>1. /\ m \in Request /\ m.kind = r.kind /\ m.pc = r.pc /\ m.p = r.p /\ m.n = r.n
      /\ m.status = r.status /\ m.forced = r.forced /\ m.seen = r.seen
      /\ m.verified = r.verified /\ m.passed = r.passed /\ m.moved = r.moved
      /\ m.items = r.items /\ m.todo = r.todo /\ m.stale = r.stale \cup {p}
  BY DEF Request
<1>2. CallOK(m) /\ GateOK(m) /\ PlaceOK(m, pl)
  BY <1>1 DEF ReqInv, CallOK, GateOK, PlaceOK
<1>3. Held(m) = Held(r)
  BY <1>1 DEF Held
<1>4. HeldOK(m, q2)
  BY <1>1, <1>3 DEF ReqInv, HeldOK, Held
<1>5. ReadOK(m, v2)
  <2>1. \A e \in r.seen : e[2] \in Runs
    BY EntryShape DEF Request
  <2> QED BY <1>1, <2>1 DEF ReqInv, ReadOK
<1>6. \A item, x : Counts(m, item, x) <=> Counts(r, item, x)
  BY <1>1 DEF Counts
<1> QED BY <1>1, <1>2, <1>4, <1>5, <1>6 DEF ReqInv

(* and nothing is to one that does not, or has not.                        *)
LEMMA UnheldKeeps ==
  ASSUME NEW r \in Request, NEW p \in Playbooks, NEW q, NEW q2, NEW v, NEW pl,
         ReqInv(r, q, v, pl), r.items[p] = None, \A x \in Playbooks \ {p} : q2[x] = q[x]
  PROVE  ReqInv(r, q2, v, pl)
<1>1. HeldOK(r, q2)
  BY DEF ReqInv, HeldOK, Held
<1> QED BY <1>1 DEF ReqInv

LEMMA UnreadKeeps ==
  ASSUME NEW r \in Request, NEW q, NEW v, NEW v2, NEW pl, ReqInv(r, q, v, pl),
         \A e \in r.seen : v2[e[2]] = v[e[2]]
  PROVE  ReqInv(r, q, v2, pl)
<1>1. ReadOK(r, v2)
  BY DEF ReqInv, ReadOK
<1> QED BY <1>1 DEF ReqInv

(* One that has nothing left to write has nothing left to count.           *)
LEMMA RestKeeps ==
  ASSUME NEW r \in Request, NEW q, NEW v, NEW pl,
         r.todo # {} => ReqInv(r, q, v, pl), r.kind = "feedback" => r.pc # "list"
  PROVE  /\ Rest(r) \in Request /\ ReqInv(Rest(r), q, v, pl)
         /\ \A item, x : Counts(Rest(r), item, x) <=> Counts(r, item, x)
<1>1. CASE r.todo = {}
  <2>1. Rest(r) = Idle
    BY <1>1 DEF Rest
  <2>2. Idle \in Request /\ ReqInv(Idle, q, v, pl) /\ Idle.kind = "none"
    BY IdleHolds
  <2>3. \A item, x : ~Counts(Idle, item, x) /\ ~Counts(r, item, x)
    BY <1>1, <2>2 DEF Counts
  <2> QED BY <2>1, <2>2, <2>3
<1>2. CASE r.todo # {}
  BY <1>2 DEF Rest
<1> QED BY <1>1, <1>2

LEMMA FlightKind ==
  ASSUME NEW o \in Requests, CallOK(req[o]), req[o] \in Request
  PROVE  InFlight(o) <=> req[o].kind # "none"
BY DEF CallOK, InFlight, Request

-----------------------------------------------------------------------------
(* A step of a request that writes no item. *)
LEMMA MoveKeeps ==
  ASSUME IInv, NEW o \in Requests, NEW r \in Request,
         req' = [req EXCEPT ![o] = r], ReqInv(r, queue, Verdicts, Places),
         UNCHANGED <<run, queue, order, decided, crossed, shifted, unready>>,
         \A p \in Playbooks : /\ queue[p] # None /\ Len(order) <= Page
                              /\ Counts(req[o], queue[p], p)
                              => Counts(r, queue[p], p)
  PROVE  IInv'
<1>1. /\ TypeOK /\ \A x \in Requests : ReqInv(req[x], queue, Verdicts, Places)
      /\ OrderInv /\ DecidedInv /\ GuideInv /\ UnreadyNeedsRace /\ CountInv
  BY DEF IInv
<1>2. TypeOK'
  BY <1>1 DEF TypeOK
<1>3. Verdicts' = Verdicts /\ Places' = Places
  BY DEF Verdicts, Places, Place, Created
<1>4. \A x \in Requests : req'[x] = IF x = o THEN r ELSE req[x]
  BY <1>1 DEF TypeOK
<1>5. \A x \in Requests : ReqInv(req[x], queue, Verdicts, Places)'
  BY <1>1, <1>3, <1>4
<1>6. OrderInv' /\ DecidedInv' /\ GuideInv' /\ UnreadyNeedsRace'
  BY <1>1 DEF OrderInv, DecidedInv, GuideInv, UnreadyNeedsRace
<1>7. CountInv'
  <2> SUFFICES ASSUME NEW p \in Playbooks \ crossed, queue[p] # None,
                      queue[p].occurrences <= SampleSize, Len(order) <= Page,
                      ~Counted(queue[p], Verdicts)
               PROVE  \E x \in Requests : Counts(req'[x], queue[p], p)
    BY <1>1, <1>3 DEF CountInv, CountOK
  <2>1. PICK x \in Requests : Counts(req[x], queue[p], p)
    BY <1>1 DEF CountInv, CountOK
  <2> QED BY <1>4, <2>1
<1> QED BY <1>2, <1>5, <1>6, <1>7 DEF IInv

(* A write of an item.                                                     *)
LEMMA WriteKeeps ==
  ASSUME IInv, NEW o \in Requests, NEW p \in Playbooks, NEW item \in SomeItem,
         NEW r \in Request, NEW s \in Statuses,
         Upsert(o, p, item, r), UNCHANGED run,
         shifted' \in SUBSET Playbooks, shifted' \ {p} = shifted \ {p},
         decided' = [decided EXCEPT ![p] = s], item.status = s \/ p \in crossed',
         unready' \in SUBSET Playbooks, unready' \subseteq unready \cup (crossed' \cap {p}),
         ReqInv(r, queue', Verdicts, Places),
         \A q \in Playbooks \ {p} : Counts(req[o], queue[q], q) => Counts(r, queue[q], q),
         p \notin crossed' =>
           /\ OfPattern(item, p)
           /\ item.occurrences <= SampleSize /\ Len(order) <= Page =>
                \/ Counted(item, Verdicts)
                \/ \E x \in Requests \ {o} : Counts(req[x], item, p)
           /\ p \notin shifted' => Once(item.samples)
  PROVE  IInv'
<1>1. /\ TypeOK /\ \A x \in Requests : ReqInv(req[x], queue, Verdicts, Places)
      /\ OrderInv /\ DecidedInv /\ GuideInv /\ UnreadyNeedsRace /\ CountInv
  BY DEF IInv
<1>2. /\ queue' = [queue EXCEPT ![p] = item] /\ order' = ToFront(p)
      /\ crossed \subseteq crossed' /\ crossed' \in SUBSET Playbooks
  BY <1>1 DEF Upsert, TypeOK
<1>3. /\ queue' \in [Playbooks -> SomeItem \cup {None}]
      /\ queue'[p] = item /\ \A q \in Playbooks \ {p} : queue'[q] = queue[q]
  BY <1>1, <1>2 DEF TypeOK
<1>4. item # None
  BY NoneAssumption
<1>5. /\ order' \in Seq(Playbooks) /\ Range(order') = Range(order) \cup {p}
      /\ Len(order) <= Len(order') /\ Len(order) \in Nat /\ Len(order') \in Nat
  BY <1>1, <1>2, FrontKeeps, LenProperties DEF TypeOK
<1>6. Verdicts' = Verdicts /\ Places' = Places
  BY DEF Verdicts, Places, Place, Created
<1>7. ASSUME NEW x \in Requests
      PROVE  /\ req'[x] \in Request /\ ReqInv(req'[x], queue', Verdicts, Places)
             /\ x = o => req'[x] = r
             /\ x # o => \A i, q : Counts(req[x], i, q) => Counts(req'[x], i, q)
  <2>1. req[x] \in Request /\ ReqInv(req[x], queue, Verdicts, Places)
    BY <1>1 DEF TypeOK
  <2>2. req'[x] = IF x = o THEN r
                  ELSE IF req[x].items[p] # None
                  THEN [req[x] EXCEPT !.stale = @ \cup {p}]
                  ELSE req[x]
    BY DEF Upsert
  <2>3. CASE x = o
    BY <2>2, <2>3
  <2>4. CASE x # o /\ req[x].items[p] # None
    <3>1. \A y \in Playbooks \ {p} : queue'[y] = queue[y]
      BY <1>3
    <3>2. req'[x] = [req[x] EXCEPT !.stale = @ \cup {p}]
      BY <2>2, <2>4
    <3>3. /\ req'[x] \in Request /\ ReqInv(req'[x], queue', Verdicts, Places)
          /\ \A i, q : Counts(req'[x], i, q) <=> Counts(req[x], i, q)
      <4>1. \A n \in Runs : Pattern(n) = p \/ Verdicts[n] = Verdicts[n]
        OBVIOUS
      <4> QED BY ONLY <2>1, <3>1, <3>2, <4>1, MarkKeeps, p \in Playbooks
    <3> QED BY <2>4, <3>3
  <2>5. CASE x # o /\ req[x].items[p] = None
    <3>1. req'[x] = req[x] /\ \A y \in Playbooks \ {p} : queue'[y] = queue[y]
      BY <1>3, <2>2, <2>5
    <3>2. ReqInv(req[x], queue', Verdicts, Places)
      BY <2>1, <2>5, <3>1, UnheldKeeps
    <3> QED BY <2>1, <2>5, <3>1, <3>2
  <2> QED BY <2>3, <2>4, <2>5
<1>8. TypeOK'
  <2>1. req' \in [Requests -> Request]
    BY <1>7 DEF Upsert
  <2> QED BY <1>1, <1>2, <1>3, <1>5, <2>1 DEF TypeOK
<1>9. \A x \in Requests : ReqInv(req[x], queue, Verdicts, Places)'
  BY <1>6, <1>7
<1>10. OrderInv'
  BY <1>1, <1>3, <1>4, <1>5 DEF OrderInv
<1>11. DecidedInv'
  BY <1>1, <1>2, <1>3, <1>4 DEF DecidedInv, TypeOK
<1>12. GuideInv' /\ UnreadyNeedsRace'
  BY <1>1, <1>2 DEF GuideInv, UnreadyNeedsRace
<1>13. CountInv'
  <2> SUFFICES ASSUME NEW q \in Playbooks, q \notin crossed', queue'[q] # None
               PROVE  /\ OfPattern(queue'[q], q)
                      /\ CountOK(q)'
                      /\ q \notin shifted' => Once(queue'[q].samples)
    BY DEF CountInv
  <2>1. CASE q = p
    <3>1. queue'[q] = item /\ (Len(order') <= Page => Len(order) <= Page)
      BY <1>3, <1>5, <2>1, PageAssumption
    <3>2. ASSUME item.occurrences <= SampleSize, Len(order) <= Page
          PROVE  Counted(item, Verdicts) \/ \E x \in Requests : Counts(req'[x], item, q)
      <4>1. CASE Counted(item, Verdicts)
        BY <4>1
      <4>2. CASE \E x \in Requests \ {o} : Counts(req[x], item, p)
        BY <1>7, <2>1, <4>2
      <4> QED BY <2>1, <3>2, <4>1, <4>2
    <3>3. CountOK(q)'
      BY <1>6, <3>1, <3>2 DEF CountOK
    <3> QED BY <2>1, <3>1, <3>3
  <2>2. CASE q # p
    <3>1. queue'[q] = queue[q] /\ q \notin crossed
      BY <1>2, <1>3, <2>2
    <3>2. OfPattern(queue[q], q) /\ CountOK(q) /\ (q \notin shifted => Once(queue[q].samples))
      BY <1>1, <3>1 DEF CountInv
    <3>3. ASSUME NEW x \in Requests, Counts(req[x], queue[q], q)
          PROVE  Counts(req'[x], queue[q], q)
      BY <1>7, <2>2, <3>3
    <3>4. Len(order') <= Page => Len(order) <= Page
      BY <1>5, PageAssumption
    <3>5. CountOK(q)'
      BY <1>6, <3>1, <3>2, <3>3, <3>4 DEF CountOK
    <3>6. q \notin shifted' => q \notin shifted
      <4>1. q \in shifted \ {p} => q \in shifted' \ {p}
        OBVIOUS
      <4> QED BY <2>2, <4>1
    <3> QED BY <3>1, <3>2, <3>5, <3>6
  <2> QED BY <2>1, <2>2
<1> QED BY <1>8, <1>9, <1>10, <1>11, <1>12, <1>13 DEF IInv

-----------------------------------------------------------------------------
LEMMA InitIInv == Init => IInv
<1> SUFFICES ASSUME Init PROVE IInv
  OBVIOUS
<1>1. PICK start \in Starts :
        /\ run = [n \in Runs |-> [pc |-> IF n \in DOMAIN start.verdict THEN "done" ELSE "new",
                                  guide |-> None, under |-> None,
                                  verdict |-> IF n \in DOMAIN start.verdict
                                              THEN start.verdict[n] ELSE None]]
        /\ decided = [p \in Playbooks |-> IF p \in DOMAIN start.decided
                                          THEN start.decided[p] ELSE "candidate"]
        /\ queue = [p \in Playbooks |->
                       IF p \in DOMAIN start.decided
                       THEN Item(ReadIn(Idle, {<<Place(n), n>> : n \in Finished}), p,
                                 start.decided[p])
                       ELSE None]
        /\ order = SetToSeq(DOMAIN start.decided)
  BY DEF Init
<1>2. PICK V : V = DOMAIN start.verdict
  OBVIOUS
<1>3. PICK D : D = DOMAIN start.decided
  OBVIOUS
<1>4. /\ V \subseteq Runs /\ \A n \in V : start.verdict[n] \in Judged
      /\ D \subseteq Playbooks /\ IsFiniteSet(D) /\ \A p \in D : start.decided[p] \in Statuses
  BY <1>2, <1>3, StartAssumption
<1>5. run \in [Runs -> SomeRun]
  <2>1. ASSUME NEW n \in Runs
        PROVE  run[n] \in SomeRun
    BY <1>1, <1>2, <1>4 DEF SomeRun, Judged
  <2> QED BY <1>1, <2>1
<1> DEFINE S == {<<Place(n), n>> : n \in Finished}
           r == ReadIn(Idle, S)
<1>6. ASSUME NEW p \in D
      PROVE  /\ queue[p] \in SomeItem /\ queue[p] # None
             /\ queue[p].status = decided[p] /\ decided[p] \in Statuses
             /\ OfPattern(queue[p], p) /\ Once(queue[p].samples)
             /\ queue[p].occurrences <= SampleSize => Counted(queue[p], Verdicts)
  <2>1. S \in SUBSET Entry
    BY PlaceIsEntry DEF Finished, Created
  <2>2. Once(S)
    BY DEF Once
  <2>3. Idle \in Request /\ ReadOK(Idle, Verdicts) /\ Idle.seen = {} /\ Idle.stale = {}
    BY IdleHolds DEF ReqInv, Idle
  <2> HIDE DEF S
  <2>4. r \in Request /\ ReadOK(r, Verdicts) /\ r.seen = S /\ r.stale = {}
    <3>1. /\ r \in Request /\ ReadOK(r, Verdicts)
          /\ r.seen = Idle.seen \cup S /\ r.stale = Idle.stale
      BY ONLY <2>1, <2>3, ReadTyped
    <3> QED BY <2>3, <3>1
  <2>5. decided[p] = start.decided[p] /\ decided[p] \in Statuses /\ p \in Playbooks
    BY <1>1, <1>3, <1>4, <1>6
  <2>6. queue[p] = Item(r, p, decided[p])
    BY <1>1, <1>3, <1>6, <2>5 DEF S
  <2> HIDE DEF r
  <2> QED BY <2>2, <2>4, <2>5, <2>6, ItemTyped
<1> HIDE DEF r
<1>7. \A p \in Playbooks \ D : queue[p] = None /\ decided[p] = "candidate"
  BY <1>1, <1>3
<1>8. queue \in [Playbooks -> SomeItem \cup {None}] /\ decided \in [Playbooks -> Statuses]
  <2>1. ASSUME NEW p \in Playbooks
        PROVE  queue[p] \in SomeItem \cup {None} /\ decided[p] \in Statuses
    BY <1>6, <1>7 DEF Statuses
  <2>2. queue = [p \in Playbooks |-> queue[p]] /\ decided = [p \in Playbooks |-> decided[p]]
    BY <1>1
  <2> QED BY <2>1, <2>2
<1>9. order \in Seq(Playbooks) /\ Range(order) = D
  <2>1. PICK k \in Nat : k = Cardinality(D) /\ ExistsBijection(1..k, D)
    BY <1>4, FS_CardinalityType
  <2>2. \E f \in [1..k -> D] : IsInjective(f)
    BY <2>1 DEF ExistsBijection, Bijection, Injection
  <2>3. order \in [1..k -> D] /\ IsInjective(order)
    BY <1>1, <1>3, <2>1, <2>2 DEF SetToSeq
  <2>4. IsFiniteSet(1..k) /\ Cardinality(1..k) = k
    BY <2>1, FS_Interval
  <2>5. order \in Surjection(1..k, D)
    BY <1>4, <2>1, <2>3, <2>4, FS_Injection DEF Injection
  <2>6. Range(order) = D
    BY <2>3, <2>5 DEF Surjection, Range
  <2>7. order \in [1..k -> Playbooks]
    BY <1>4, <2>3
  <2> QED BY <2>1, <2>6, <2>7
<1>10. /\ \A o \in Requests : req[o] = [Idle EXCEPT !.pc = "new"]
       /\ DOMAIN req = Requests /\ crossed = {} /\ shifted = {} /\ unready = {}
       /\ req = [o \in Requests |-> [Idle EXCEPT !.pc = "new"]]
  BY DEF Init
<1>11. \A o \in Requests : req[o] \in Request /\ ReqInv(req[o], queue, Verdicts, Places)
  BY <1>10, IdleHolds
<1>12. TypeOK
  <2>1. req \in [Requests -> Request]
    BY <1>10, <1>11
  <2> QED BY <1>5, <1>8, <1>9, <1>10, <2>1 DEF TypeOK
<1>13. OrderInv
  BY <1>4, <1>6, <1>7, <1>9 DEF OrderInv
<1>14. DecidedInv
  BY <1>4, <1>6, <1>7 DEF DecidedInv
<1>15. GuideInv /\ UnreadyNeedsRace
  BY <1>1, <1>10 DEF GuideInv, UnreadyNeedsRace
<1>16. CountInv
  <2> SUFFICES ASSUME NEW p \in Playbooks, queue[p] # None
               PROVE  OfPattern(queue[p], p) /\ CountOK(p) /\ Once(queue[p].samples)
    BY DEF CountInv
  <2>1. p \in D
    BY <1>7
  <2> QED BY <1>6, <2>1 DEF CountOK
<1> QED BY <1>11, <1>12, <1>13, <1>14, <1>15, <1>16 DEF IInv

-----------------------------------------------------------------------------
(* A new activity moves all others: what was scanned of them is no longer  *)
(* where it was.                                                           *)
LEMMA BeginKeeps ==
  ASSUME IInv, NEW n \in Runs, Begin(n)
  PROVE  IInv'
<1>1. /\ TypeOK /\ \A x \in Requests : ReqInv(req[x], queue, Verdicts, Places)
      /\ OrderInv /\ DecidedInv /\ GuideInv /\ UnreadyNeedsRace /\ CountInv
  BY DEF IInv
<1>2. UNCHANGED <<queue, order, decided, crossed, shifted, unready>>
  BY DEF Begin
<1>3. /\ run' \in [Runs -> SomeRun]
      /\ \A m \in Runs : /\ run'[m].guide = run[m].guide /\ run'[m].under = run[m].under
                         /\ run'[m].verdict = run[m].verdict
  <2>1. run \in [Runs -> SomeRun] /\ run[n] \in SomeRun
    BY <1>1 DEF TypeOK
  <2> DEFINE r == [run[n] EXCEPT !.pc = "begun"]
  <2>2. /\ r \in SomeRun /\ r.guide = run[n].guide /\ r.under = run[n].under
        /\ r.verdict = run[n].verdict
    BY <2>1 DEF SomeRun
  <2>3. run' = [run EXCEPT ![n] = r]
    BY <2>1 DEF Begin
  <2> HIDE DEF r
  <2> QED BY <2>1, <2>2, <2>3
<1>4. Verdicts' = Verdicts
  BY <1>3 DEF Verdicts
<1>5. ASSUME NEW x \in Requests
      PROVE  /\ req'[x] \in Request /\ ReqInv(req'[x], queue, Verdicts, Places')
             /\ \A i, q : Counts(req[x], i, q) <=> Counts(req'[x], i, q)
  <2>1. PICK r \in Request : r = req[x] /\ ReqInv(r, queue, Verdicts, Places)
    BY <1>1 DEF TypeOK
  <2>2. PICK m : m = [r EXCEPT !.moved = @ \/ r.pc = "scan"]
    OBVIOUS
  <2>3. /\ m \in Request /\ m.kind = r.kind /\ m.pc = r.pc /\ m.p = r.p /\ m.n = r.n
        /\ m.status = r.status /\ m.forced = r.forced /\ m.seen = r.seen
        /\ m.verified = r.verified /\ m.passed = r.passed
        /\ m.items = r.items /\ m.todo = r.todo /\ m.stale = r.stale
        /\ ~m.moved => ~r.moved /\ r.pc # "scan"
    BY <2>2 DEF Request
  <2>4. CallOK(m) /\ GateOK(m) /\ ReadOK(m, Verdicts)
    BY <2>1, <2>3 DEF ReqInv, CallOK, GateOK, ReadOK
  <2>5. HeldOK(m, queue)
    BY <2>1, <2>3 DEF ReqInv, HeldOK, Held
  <2>6. PlaceOK(m, Places')
    BY <2>1, <2>3 DEF ReqInv, PlaceOK
  <2>7. \A i, q : Counts(r, i, q) <=> Counts(m, i, q)
    BY <2>3 DEF Counts
  <2>8. req'[x] = m
    BY <2>1, <2>2 DEF Begin
  <2> QED BY <2>1, <2>3, <2>4, <2>5, <2>6, <2>7, <2>8 DEF ReqInv
<1>6. TypeOK'
  <2>1. req' \in [Requests -> Request]
    BY <1>5 DEF Begin
  <2> QED BY <1>1, <1>2, <1>3, <2>1 DEF TypeOK
<1>7. \A x \in Requests : ReqInv(req[x], queue, Verdicts, Places)'
  BY <1>2, <1>4, <1>5
<1>8. OrderInv' /\ DecidedInv' /\ GuideInv' /\ UnreadyNeedsRace'
  BY <1>1, <1>2, <1>3 DEF OrderInv, DecidedInv, GuideInv, UnreadyNeedsRace
<1>9. CountInv'
  BY <1>1, <1>2, <1>4, <1>5 DEF CountInv, CountOK
<1> QED BY <1>6, <1>7, <1>8, <1>9 DEF IInv

(* A run changes no item: it remembers the playbook it was guided by.      *)
LEMMA RunKeeps ==
  ASSUME IInv, NEW n \in Runs, Retrieve(n) \/ Complete(n)
  PROVE  IInv'
<1>1. /\ TypeOK /\ \A x \in Requests : ReqInv(req[x], queue, Verdicts, Places)
      /\ OrderInv /\ DecidedInv /\ GuideInv /\ UnreadyNeedsRace /\ CountInv
  BY DEF IInv
<1>2. UNCHANGED <<queue, order, req, decided, crossed, shifted, unready>>
  BY DEF Retrieve, Complete
<1>3. run[n] \in SomeRun /\ run \in [Runs -> SomeRun]
  BY <1>1 DEF TypeOK
<1>4. PICK r \in SomeRun :
        /\ run' = [run EXCEPT ![n] = r] /\ r.verdict = run[n].verdict
        /\ r.pc # "new" /\ run[n].pc # "new"
        /\ \/ r.guide = run[n].guide /\ r.under = run[n].under
           \/ r.guide = Pattern(n) /\ r.under = decided[Pattern(n)] /\ Guides(Pattern(n), n)
  <2>1. CASE Complete(n)
    <3>1. [run[n] EXCEPT !.pc = "done"] \in SomeRun
      BY <1>3 DEF SomeRun
    <3> QED BY <1>3, <2>1, <3>1 DEF Complete, SomeRun
  <2>2. CASE Retrieve(n) /\ ~Guides(Pattern(n), n)
    <3>1. [run[n] EXCEPT !.pc = "run"] \in SomeRun
      BY <1>3 DEF SomeRun
    <3> QED BY <1>3, <2>2, <3>1 DEF Retrieve, SomeRun
  <2>3. CASE Retrieve(n) /\ Guides(Pattern(n), n)
    <3>1. Pattern(n) \in Playbooks /\ decided[Pattern(n)] \in Statuses
      BY <1>1, RunAssumption DEF TypeOK
    <3> DEFINE r == [run[n] EXCEPT !.pc = "run", !.guide = Pattern(n),
                                   !.under = decided[Pattern(n)]]
    <3>2. /\ r \in SomeRun /\ r.verdict = run[n].verdict
          /\ r.guide = Pattern(n) /\ r.under = decided[Pattern(n)] /\ r.pc = "run"
      BY <1>3, <3>1 DEF SomeRun
    <3>3. run' = [run EXCEPT ![n] = r]
      BY <2>3 DEF Retrieve
    <3> HIDE DEF r
    <3> QED BY <2>3, <3>2, <3>3 DEF Retrieve
  <2> QED BY <2>1, <2>2, <2>3
<1>5. /\ run' \in [Runs -> SomeRun] /\ \A m \in Runs : run'[m] = IF m = n THEN r ELSE run[m]
  BY <1>3, <1>4
<1>6. Verdicts' = Verdicts /\ Places' = Places
  <2>1. Created' = Created
    BY <1>4, <1>5 DEF Created
  <2> QED BY <1>4, <1>5, <2>1 DEF Verdicts, Places, Place
<1>7. TypeOK' /\ OrderInv' /\ DecidedInv' /\ UnreadyNeedsRace'
  BY <1>1, <1>2, <1>5 DEF TypeOK, OrderInv, DecidedInv, UnreadyNeedsRace
<1>8. \A x \in Requests : ReqInv(req[x], queue, Verdicts, Places)'
  BY <1>1, <1>2, <1>6
<1>9. CountInv'
  BY <1>1, <1>2, <1>6 DEF CountInv, CountOK
<1>10. GuideInv'
  <2>1. Guides(Pattern(n), n) => decided[Pattern(n)] = "active" \/ Pattern(n) \in crossed
    BY <1>1, RunAssumption DEF Guides, DecidedInv
  <2> QED BY <1>1, <1>2, <1>4, <1>5, <2>1 DEF GuideInv
<1> QED BY <1>7, <1>8, <1>9, <1>10 DEF IInv

-----------------------------------------------------------------------------

(* A listing returns items that there are. *)
LEMMA ItemsOfTyped ==
  ASSUME TypeOK, NEW S \in SUBSET Playbooks
  PROVE  /\ ItemsOf(S) \in [Playbooks -> SomeItem \cup {None}]
         /\ \A p \in Playbooks : ItemsOf(S)[p] # None => ItemsOf(S)[p] = queue[p]
         /\ \A p \in S : ItemsOf(S)[p] = queue[p]
BY DEF TypeOK, ItemsOf

(* A request that ends or is refused has nothing left to count.            *)
LEMMA EndKeeps ==
  ASSUME IInv, NEW o \in Requests, req' = [req EXCEPT ![o] = Idle],
         UNCHANGED <<run, queue, order, decided, crossed, shifted, unready>>,
         req[o].kind = "feedback" => req[o].pc # "list" /\ req[o].todo = {}
  PROVE  IInv'
<1>1. Idle \in Request /\ ReqInv(Idle, queue, Verdicts, Places)
  BY IdleHolds
<1>2. \A p \in Playbooks : ~Counts(req[o], queue[p], p)
  BY DEF Counts
<1> QED BY <1>1, <1>2, MoveKeeps

(* A page adds runs at the place they are in, and a scan that no activity  *)
(* was created in has read none in two.                                    *)
LEMMA ScannedHolds ==
  ASSUME TypeOK, NEW r \in Request, r.kind = "refresh", r.n \in Runs,
         \A p \in Playbooks : r.items[p] = None, ReadOK(r, Verdicts),
         ~r.moved => \A e \in r.seen : e[1] = Places[e[2]]
  PROVE  Scanned(r) \in Request /\ ReqInv(Scanned(r), queue, Verdicts, Places)
<1> DEFINE page  == {n \in Created : n >= r.n /\ Place(n) \in r.offset + 1 .. r.offset + Batch}
           S     == {<<Place(n), n>> : n \in page \cap Finished}
           read  == ReadIn(r, S)
           often == {p \in Playbooks : Cardinality(OfPlaybook(read.seen, p)) >= MinOccurrences}
           more  == [read EXCEPT !.pc = "scan", !.offset = @ + Batch]
           last  == [read EXCEPT !.pc = "list", !.todo = often]
<1>1. S \in SUBSET Entry
  BY PlaceIsEntry
<1>2. \A e \in S : e[1] = Places[e[2]]
  BY DEF Created, Places
<1> HIDE DEF S
<1>3. /\ read \in Request /\ ReadOK(read, Verdicts) /\ read.seen = r.seen \cup S
      /\ read.kind = "refresh" /\ read.n \in Runs /\ read.items = r.items
      /\ read.moved = r.moved
  <2>1. /\ read \in Request /\ ReadOK(read, Verdicts) /\ read.seen = r.seen \cup S
        /\ read.kind = r.kind /\ read.n = r.n /\ read.items = r.items
        /\ read.moved = r.moved
    BY ONLY <1>1, ReadTyped, r \in Request, ReadOK(r, Verdicts)
  <2> QED BY <2>1
<1> HIDE DEF read
<1>4. ~read.moved => /\ \A e \in read.seen : e[1] = Places[e[2]]
                     /\ Once(read.seen)
  <2>1. ~read.moved => \A e \in read.seen : e[1] = Places[e[2]]
    BY <1>2, <1>3
  <2>2. \A e \in read.seen : e = <<e[1], e[2]>>
    BY <1>3, EntryShape DEF Request
  <2> QED BY <2>1, <2>2 DEF Once
<1>5. more \in Request /\ ReqInv(more, queue, Verdicts, Places)
  <2>1. /\ more \in Request /\ more.kind = "refresh" /\ more.pc = "scan"
        /\ more.n = read.n /\ more.items = read.items /\ more.moved = read.moved
        /\ more.seen = read.seen /\ more.verified = read.verified
        /\ more.passed = read.passed /\ more.stale = read.stale /\ more.todo = read.todo
    <3>1. PICK k \in Nat : k = read.offset + Batch
      BY <1>3, PageAssumption DEF Request
    <3>2. more = [read EXCEPT !.pc = "scan", !.offset = k]
      BY <3>1
    <3> HIDE DEF more
    <3> QED BY <1>3, <3>2 DEF Request
  <2> HIDE DEF more
  <2>2. ReadOK(more, Verdicts) /\ PlaceOK(more, Places) /\ GateOK(more)
    BY <1>3, <1>4, <2>1 DEF ReadOK, PlaceOK, GateOK
  <2>3. CallOK(more) /\ HeldOK(more, queue)
    BY <1>3, <2>1 DEF CallOK, HeldOK, Held
  <2> QED BY <2>1, <2>2, <2>3 DEF ReqInv
<1>6. last \in Request /\ ReqInv(last, queue, Verdicts, Places) /\ last.kind = "refresh"
  <2>1. /\ last \in Request /\ last.kind = "refresh" /\ last.pc = "list"
        /\ last.n = read.n /\ last.items = read.items /\ last.moved = read.moved
        /\ last.seen = read.seen /\ last.verified = read.verified
        /\ last.passed = read.passed /\ last.stale = read.stale
    BY <1>3 DEF Request
  <2> HIDE DEF last
  <2>2. ReadOK(last, Verdicts) /\ PlaceOK(last, Places) /\ GateOK(last)
    BY <1>3, <1>4, <2>1 DEF ReadOK, PlaceOK, GateOK
  <2>3. CallOK(last) /\ HeldOK(last, queue)
    BY <1>3, <2>1 DEF CallOK, HeldOK, Held
  <2> QED BY <2>1, <2>2, <2>3 DEF ReqInv
<1>7. Scanned(r) = IF Cardinality(page) = Batch THEN more ELSE Rest(last)
  BY DEF Scanned, read, S
<1> HIDE DEF more, last, page
<1>8. Rest(last) \in Request /\ ReqInv(Rest(last), queue, Verdicts, Places)
  BY <1>6, RestKeeps
<1> QED BY <1>5, <1>7, <1>8

LEMMA RefreshStartKeeps ==
  ASSUME IInv, NEW o \in Requests, RefreshStart(o)
  PROVE  IInv'
<1>1. req[o] \in Request /\ CallOK(req[o]) /\ req[o].pc = "new" /\ TypeOK
  BY DEF IInv, TypeOK, ReqInv, RefreshStart
<1>2. PICK k \in Runs :
        req' = [req EXCEPT ![o] = Scanned([Idle EXCEPT !.kind = "refresh", !.n = k])]
  BY PageAssumption DEF RefreshStart
<1> DEFINE r == [Idle EXCEPT !.kind = "refresh", !.n = k]
<1>3. Idle \in Request /\ ReadOK(Idle, Verdicts) /\ Idle.seen = {}
  BY IdleHolds DEF ReqInv, Idle
<1>4. \A p \in Playbooks : Idle.items[p] = None
  BY DEF Idle
<1>5. /\ r \in Request /\ r.kind = "refresh" /\ r.n = k /\ r.items = Idle.items
      /\ r.seen = Idle.seen /\ r.verified = Idle.verified /\ r.passed = Idle.passed
      /\ r.stale = Idle.stale
  BY <1>3 DEF Request
<1> HIDE DEF r
<1>6. ReadOK(r, Verdicts)
  BY <1>3, <1>5 DEF ReadOK
<1>7. Scanned(r) \in Request /\ ReqInv(Scanned(r), queue, Verdicts, Places)
  BY <1>1, <1>3, <1>4, <1>5, <1>6, ScannedHolds
<1>8. \A p \in Playbooks : ~Counts(req[o], queue[p], p)
  BY <1>1 DEF CallOK, Counts
<1>9. req' = [req EXCEPT ![o] = Scanned(r)]
  BY <1>2 DEF r
<1> QED BY <1>7, <1>8, <1>9, MoveKeeps DEF RefreshStart

LEMMA RefreshScanKeeps ==
  ASSUME IInv, NEW o \in Requests, RefreshScan(o)
  PROVE  IInv'
<1>1. /\ req[o] \in Request /\ ReqInv(req[o], queue, Verdicts, Places) /\ TypeOK
      /\ req[o].pc = "scan" /\ req' = [req EXCEPT ![o] = Scanned(req[o])]
  BY DEF IInv, TypeOK, RefreshScan
<1>2. /\ req[o].kind = "refresh" /\ req[o].n \in Runs
      /\ \A p \in Playbooks : req[o].items[p] = None
  BY <1>1 DEF ReqInv, CallOK, Request
<1>3. ~req[o].moved => \A e \in req[o].seen : e[1] = Places[e[2]]
  BY <1>1, <1>2 DEF ReqInv, PlaceOK
<1>4. Scanned(req[o]) \in Request /\ ReqInv(Scanned(req[o]), queue, Verdicts, Places)
  BY <1>1, <1>2, <1>3, ScannedHolds DEF ReqInv
<1>5. \A p \in Playbooks : ~Counts(req[o], queue[p], p)
  BY <1>2 DEF Counts
<1> QED BY <1>1, <1>4, <1>5, MoveKeeps DEF RefreshScan

LEMMA RefreshListKeeps ==
  ASSUME IInv, NEW o \in Requests, RefreshList(o)
  PROVE  IInv'
<1>1. /\ req[o] \in Request /\ ReqInv(req[o], queue, Verdicts, Places) /\ req \in [Requests -> Request]
      /\ order \in Seq(Playbooks) /\ TypeOK
  BY DEF IInv, TypeOK
<1> DEFINE r == [req[o] EXCEPT !.pc = "write", !.items = ItemsOf(Listed)]
<1>2. /\ ItemsOf(Listed) \in [Playbooks -> SomeItem \cup {None}]
      /\ \A p \in Playbooks : ItemsOf(Listed)[p] # None => ItemsOf(Listed)[p] = queue[p]
  BY <1>1, ListedInOrder, ItemsOfTyped
<1>3. /\ r \in Request /\ r.kind = "refresh" /\ r.pc = "write" /\ r.items = ItemsOf(Listed)
      /\ r.stale = req[o].stale /\ r.n = req[o].n /\ r.moved = req[o].moved
      /\ r.seen = req[o].seen /\ r.verified = req[o].verified /\ r.passed = req[o].passed
  BY <1>1, <1>2 DEF Request, RefreshList
<1>4. req' = [req EXCEPT ![o] = r]
  BY <1>1 DEF RefreshList
<1> HIDE DEF r
<1>5. ReqInv(r, queue, Verdicts, Places)
  BY <1>1, <1>2, <1>3 DEF RefreshList, ReqInv, CallOK, HeldOK, Held, ReadOK, PlaceOK, GateOK
<1>6. \A p \in Playbooks : ~Counts(req[o], queue[p], p)
  BY DEF RefreshList, Counts
<1> QED BY <1>3, <1>4, <1>5, <1>6, MoveKeeps DEF RefreshList

LEMMA RefreshWriteKeeps ==
  ASSUME IInv, NEW o \in Requests, RefreshWrite(o)
  PROVE  IInv'
<1>1. /\ TypeOK /\ req[o] \in Request /\ ReqInv(req[o], queue, Verdicts, Places)
      /\ DecidedInv /\ req[o].kind = "refresh" /\ req[o].pc = "write"
      /\ UNCHANGED <<run, decided, unready>>
  BY DEF IInv, TypeOK, RefreshWrite
<1>2. PICK p \in req[o].todo :
        /\ Upsert(o, p, Item(req[o], p, KeptStatus(o, p)), Rest([req[o] EXCEPT !.todo = @ \ {p}]))
        /\ shifted' = IF req[o].moved THEN shifted \cup {p} ELSE shifted \ {p}
  BY DEF RefreshWrite
<1>3. p \in Playbooks
  BY <1>1 DEF Request
<1>4. KeptStatus(o, p) \in Statuses
  BY <1>1, <1>3 DEF KeptStatus, Request, SomeItem, Statuses
<1> DEFINE r    == [req[o] EXCEPT !.todo = @ \ {p}]
           item == Item(req[o], p, KeptStatus(o, p))
<1>5. /\ r \in Request /\ r.kind = "refresh" /\ r.pc = "write" /\ r.items = req[o].items
      /\ r.stale = req[o].stale /\ r.todo = req[o].todo \ {p} /\ r.n = req[o].n
      /\ r.seen = req[o].seen /\ r.verified = req[o].verified /\ r.passed = req[o].passed
      /\ r.moved = req[o].moved
  BY <1>1, <1>3 DEF Request
<1>6. Upsert(o, p, item, Rest(r))
  BY <1>2
<1>7. /\ item \in SomeItem /\ item.status = KeptStatus(o, p) /\ OfPattern(item, p)
      /\ p \notin req[o].stale /\ item.occurrences <= SampleSize => Counted(item, Verdicts)
      /\ Once(req[o].seen) => Once(item.samples)
  BY <1>1, <1>3, <1>4, ItemTyped DEF ReqInv
<1> HIDE DEF r, item
<1>8. /\ p \in req[o].stale => p \in crossed'
      /\ queue[p] # None /\ req[o].items[p] = None => p \in crossed'
      /\ queue' = [queue EXCEPT ![p] = item] /\ crossed \subseteq crossed'
  BY <1>1, <1>6 DEF Upsert
<1>9. \A q \in Playbooks \ {p} : queue'[q] = queue[q]
  BY <1>1, <1>8 DEF TypeOK
<1>10. Rest(r) \in Request /\ ReqInv(Rest(r), queue', Verdicts, Places)
  <2>1. CallOK(r) /\ GateOK(r) /\ ReadOK(r, Verdicts) /\ PlaceOK(r, Places)
    BY <1>1, <1>5 DEF ReqInv, CallOK, ReadOK, PlaceOK, GateOK
  <2>2. ASSUME NEW q \in Held(r)
        PROVE  q \in Held(req[o]) /\ q \in Playbooks \ {p}
    BY <1>1, <1>5, <2>2 DEF Held
  <2>3. HeldOK(r, queue')
    BY <1>1, <1>5, <1>9, <2>2 DEF ReqInv, HeldOK
  <2> QED BY <1>5, <2>1, <2>3, RestKeeps DEF ReqInv
<1>11. item.status = decided[p] \/ p \in crossed'
  <2>1. CASE queue[p] = None
    <3>1. decided[p] = "candidate"
      BY <1>1, <1>3, <2>1 DEF DecidedInv
    <3>2. req[o].items[p] = None \/ p \in req[o].stale
      BY <1>1, <1>3, <2>1 DEF ReqInv, HeldOK, Held
    <3> QED BY <1>7, <1>8, <3>1, <3>2 DEF KeptStatus
  <2>2. CASE queue[p] # None /\ req[o].items[p] # None
    <3>1. p \in req[o].stale \/ req[o].items[p] = queue[p]
      BY <1>1, <1>3, <2>2 DEF ReqInv, HeldOK, Held
    <3>2. queue[p].status = decided[p] \/ p \in crossed
      BY <1>1, <1>3, <2>2 DEF DecidedInv
    <3> QED BY <1>7, <1>8, <2>2, <3>1, <3>2 DEF KeptStatus
  <2> QED BY <1>8, <2>1, <2>2
<1>12. ASSUME p \notin crossed'
       PROVE  /\ OfPattern(item, p)
              /\ item.occurrences <= SampleSize => Counted(item, Verdicts)
              /\ p \notin shifted' => Once(item.samples)
  <2>1. p \notin shifted' => ~req[o].moved
    BY <1>2
  <2>2. ~req[o].moved => Once(req[o].seen)
    BY <1>1 DEF ReqInv, PlaceOK
  <2> QED BY <1>7, <1>8, <1>12, <2>1, <2>2
<1>13. /\ decided' = [decided EXCEPT ![p] = decided[p]] /\ decided[p] \in Statuses
       /\ unready' \in SUBSET Playbooks /\ unready' \subseteq unready
       /\ shifted' \in SUBSET Playbooks /\ shifted' \ {p} = shifted \ {p}
  BY <1>1, <1>2, <1>3 DEF TypeOK
<1>14. \A q \in Playbooks : ~Counts(req[o], queue[q], q)
  BY <1>1 DEF Counts
<1> QED BY <1>1, <1>3, <1>6, <1>7, <1>10, <1>11, <1>12, <1>13, <1>14, WriteKeeps

-----------------------------------------------------------------------------
LEMMA DecideReadKeeps ==
  ASSUME IInv, NEW o \in Requests, DecideRead(o)
  PROVE  IInv'
<1>1. /\ req[o] \in Request /\ CallOK(req[o]) /\ req \in [Requests -> Request] /\ TypeOK
      /\ req[o].pc = "new"
  BY DEF IInv, TypeOK, ReqInv, DecideRead
<1>2. PICK p \in Playbooks, action \in DOMAIN StatusOf, force \in BOOLEAN :
        /\ queue[p] # None
        /\ force => action = "activate"
        /\ req' = [req EXCEPT ![o] =
                     IF Allowed(queue[p], action, force)
                     THEN [Idle EXCEPT !.kind = "decide", !.pc = "write", !.p = p,
                             !.status = StatusOf[action], !.forced = force,
                             !.items = ItemsOf({p})]
                     ELSE Idle]
  BY Zenon DEF DecideRead
<1>3. req[o].kind # "feedback"
  BY <1>1 DEF CallOK
<1>4. CASE ~Allowed(queue[p], action, force)
  <2>1. req' = [req EXCEPT ![o] = Idle]
    BY <1>2, <1>4
  <2> QED BY <1>3, <2>1, EndKeeps DEF DecideRead
<1>5. CASE Allowed(queue[p], action, force)
  <2> DEFINE r == [Idle EXCEPT !.kind = "decide", !.pc = "write", !.p = p,
                             !.status = StatusOf[action], !.forced = force,
                             !.items = ItemsOf({p})]
  <2>1. /\ StatusOf[action] \in Statuses
        /\ StatusOf[action] = "active" => action = "activate"
    BY DEF StatusOf, Statuses
  <2>2. /\ ItemsOf({p}) \in [Playbooks -> SomeItem \cup {None}] /\ ItemsOf({p})[p] = queue[p]
    BY <1>1, ItemsOfTyped
  <2>3. /\ r \in Request /\ r.kind = "decide" /\ r.pc = "write" /\ r.p = p
        /\ r.status = StatusOf[action] /\ r.forced = force /\ r.items = ItemsOf({p})
        /\ r.seen = {} /\ r.verified = {} /\ r.passed = {}
    <3>1. Idle \in Request /\ Idle.seen = {} /\ Idle.verified = {} /\ Idle.passed = {}
      BY IdleHolds DEF Idle
    <3> QED BY <2>1, <2>2, <3>1 DEF Request
  <2>4. req' = [req EXCEPT ![o] = r]
    BY <1>2, <1>5
  <2> HIDE DEF r
  <2>5. GateOK(r)
    BY <1>5, <2>1, <2>2, <2>3 DEF Allowed, GateOK
  <2>6. ReqInv(r, queue, Verdicts, Places)
    BY <1>2, <2>1, <2>2, <2>3, <2>5 DEF ReqInv, CallOK, HeldOK, Held, ReadOK, PlaceOK
  <2>7. \A q \in Playbooks : ~Counts(req[o], queue[q], q)
    BY <1>3 DEF Counts
  <2> QED BY <2>3, <2>4, <2>6, <2>7, MoveKeeps DEF DecideRead
<1> QED BY <1>4, <1>5

LEMMA DecideWriteKeeps ==
  ASSUME IInv, NEW o \in Requests, DecideWrite(o)
  PROVE  IInv'
<1>1. /\ TypeOK /\ req[o] \in Request /\ ReqInv(req[o], queue, Verdicts, Places) /\ CountInv
      /\ req[o].kind = "decide" /\ req[o].pc = "write"
  BY DEF IInv, TypeOK, DecideWrite
<1>2. PICK p \in Playbooks : p = req[o].p
  BY <1>1 DEF ReqInv, CallOK
<1>3. PICK s \in Statuses : s = req[o].status
  BY <1>1 DEF ReqInv, CallOK
<1>4. PICK was \in SomeItem : was = req[o].items[p]
  BY <1>1, <1>2 DEF ReqInv, HeldOK, Held, Request
<1> DEFINE item == [was EXCEPT !.status = s]
<1>5. /\ item \in SomeItem /\ item.status = s /\ item.samples = was.samples
      /\ item.occurrences = was.occurrences /\ item.verified = was.verified
      /\ item.passed = was.passed
  BY DEF SomeItem
<1>6. Upsert(o, p, item, Idle) /\ decided' = [decided EXCEPT ![p] = s] /\ UNCHANGED <<run, shifted>>
  BY <1>2, <1>3, <1>4 DEF DecideWrite
<1> HIDE DEF item
<1>7. p \in req[o].stale \/ was = queue[p]
  BY <1>1, <1>2, <1>4 DEF ReqInv, HeldOK, Held
<1>8. /\ p \in req[o].stale => p \in crossed'
      /\ crossed \subseteq crossed'
  BY <1>6 DEF Upsert
<1>9. Idle \in Request /\ ReqInv(Idle, queue', Verdicts, Places)
  BY IdleHolds
<1>10. /\ unready' \in SUBSET Playbooks
       /\ unready' \subseteq unready \cup (crossed' \cap {p})
  <2>1. s = "active" /\ ~req[o].forced => Ready(was)
    BY <1>1, <1>2, <1>3, <1>4 DEF ReqInv, GateOK
  <2>2. unready' = IF s = "active" /\ ~req[o].forced /\ ~Ready(queue[p])
                   THEN unready \cup {p} ELSE unready
    BY <1>2, <1>3 DEF DecideWrite
  <2>3. s = "active" /\ ~req[o].forced /\ ~Ready(queue[p]) => p \in crossed'
    BY <1>7, <1>8, <2>1
  <2> QED BY <1>1, <2>2, <2>3 DEF TypeOK
<1>11. ASSUME p \notin crossed'
       PROVE  /\ OfPattern(item, p)
              /\ item.occurrences <= SampleSize /\ Len(order) <= Page =>
                   \/ Counted(item, Verdicts)
                   \/ \E x \in Requests \ {o} : Counts(req[x], item, p)
              /\ p \notin shifted' => Once(item.samples)
  <2>1. was = queue[p] /\ p \notin crossed /\ queue[p] # None
    BY <1>7, <1>8, <1>11, NoneAssumption
  <2>2. OfPattern(was, p) /\ CountOK(p) /\ (p \notin shifted => Once(was.samples))
    BY <1>1, <2>1 DEF CountInv
  <2>3. ~Counts(req[o], queue[p], p)
    BY <1>1 DEF Counts
  <2>4. OfPattern(item, p)
    BY <1>5, <2>2 DEF OfPattern
  <2>5. Counted(was, Verdicts) => Counted(item, Verdicts)
    BY <1>5 DEF Counted
  <2>6. \A x \in Requests : Counts(req[x], was, p) => Counts(req[x], item, p)
    BY <1>5 DEF Counts
  <2> QED BY <1>5, <1>6, <2>1, <2>2, <2>3, <2>4, <2>5, <2>6 DEF CountOK
<1>12. \A q \in Playbooks : ~Counts(req[o], queue[q], q)
  BY <1>1 DEF Counts
<1>13. shifted' \in SUBSET Playbooks /\ shifted' \ {p} = shifted \ {p}
  BY <1>1, <1>6 DEF TypeOK
<1> QED BY <1>5, <1>6, <1>9, <1>10, <1>11, <1>12, <1>13, WriteKeeps

-----------------------------------------------------------------------------
LEMMA FeedbackStoreKeeps ==
  ASSUME IInv, NEW o \in Requests, FeedbackStore(o)
  PROVE  IInv'
<1>1. /\ TypeOK /\ \A x \in Requests : ReqInv(req[x], queue, Verdicts, Places)
      /\ OrderInv /\ DecidedInv /\ GuideInv /\ UnreadyNeedsRace /\ CountInv
  BY DEF IInv
<1>2. PICK n \in Runs, v \in {"pass", "fail"} :
        /\ run' = [run EXCEPT ![n].verdict = v]
        /\ req' = [x \in Requests |->
                     IF x = o THEN [Idle EXCEPT !.kind = "feedback", !.pc = "list", !.n = n]
                     ELSE IF \E e \in req[x].seen : e[2] = n
                     THEN [req[x] EXCEPT !.stale = @ \cup {Pattern(n)}]
                     ELSE req[x]]
  BY DEF FeedbackStore, Finished
<1>3. UNCHANGED <<queue, order, decided, crossed, shifted, unready>> /\ req[o].pc = "new"
  BY DEF FeedbackStore
<1>4. /\ run' \in [Runs -> SomeRun]
      /\ \A m \in Runs : /\ run'[m].guide = run[m].guide /\ run'[m].under = run[m].under
                         /\ m # n => run'[m].verdict = run[m].verdict
                         /\ run'[m].pc = run[m].pc
  <2>1. run \in [Runs -> SomeRun] /\ run[n] \in SomeRun
    BY <1>1 DEF TypeOK
  <2> DEFINE r == [run[n] EXCEPT !.verdict = v]
  <2>2. r \in SomeRun /\ r.guide = run[n].guide /\ r.under = run[n].under
          /\ r.pc = run[n].pc
    BY <2>1 DEF SomeRun, Judged
  <2>3. run' = [run EXCEPT ![n] = r]
    BY <1>2, <2>1
  <2> HIDE DEF r
  <2> QED BY <2>1, <2>2, <2>3
<1> DEFINE r == [Idle EXCEPT !.kind = "feedback", !.pc = "list", !.n = n]
<1>5. /\ r \in Request /\ r.kind = "feedback" /\ r.pc = "list" /\ r.n = n /\ r.todo = {}
      /\ r.seen = {} /\ r.verified = {} /\ r.passed = {}
  <2>1. /\ Idle \in Request /\ Idle.todo = {} /\ Idle.seen = {} /\ Idle.verified = {}
        /\ Idle.passed = {}
    BY IdleHolds DEF Idle
  <2> QED BY <2>1 DEF Request
<1>6. req'[o] = r
  BY <1>2
<1> HIDE DEF r
<1>7. \A q, w, pl : ReqInv(r, q, w, pl)
  BY <1>5 DEF ReqInv, CallOK, HeldOK, Held, ReadOK, PlaceOK, GateOK
<1>15. Places' = Places
  <2>1. Created' = Created
    BY <1>4 DEF Created
  <2> QED BY <2>1 DEF Places, Place
<1>8. \A m \in Runs : Pattern(m) = Pattern(n) \/ Verdicts'[m] = Verdicts[m]
  BY <1>4 DEF Verdicts
<1>9. Pattern(n) \in Playbooks
  BY RunAssumption
<1>10. ASSUME NEW x \in Requests
       PROVE  /\ req'[x] \in Request /\ ReqInv(req'[x], queue, Verdicts', Places)
              /\ \A i, q : Counts(req[x], i, q) => Counts(req'[x], i, q)
  <2>1. req[x] \in Request /\ ReqInv(req[x], queue, Verdicts, Places)
    BY <1>1 DEF TypeOK
  <2>2. CASE x = o
    <3>1. \A i, q : ~Counts(req[x], i, q)
      BY <1>3, <2>1, <2>2 DEF ReqInv, CallOK, Counts
    <3> QED BY <1>5, <1>6, <1>7, <2>2, <3>1
  <2>3. CASE x # o /\ \E e \in req[x].seen : e[2] = n
    <3>1. req'[x] = [req[x] EXCEPT !.stale = @ \cup {Pattern(n)}]
      BY <1>2, <2>3
    <3>2. \A q \in Playbooks \ {Pattern(n)} : queue[q] = queue[q]
      OBVIOUS
    <3>3. /\ req'[x] \in Request /\ ReqInv(req'[x], queue, Verdicts', Places)
          /\ \A i, q : Counts(req'[x], i, q) <=> Counts(req[x], i, q)
      BY ONLY <1>8, <1>9, <2>1, <3>1, <3>2, MarkKeeps, SMTT(30)
    <3> QED BY <3>3
  <2>4. CASE x # o /\ ~ \E e \in req[x].seen : e[2] = n
    <3>1. req'[x] = req[x]
      BY <1>2, <2>4
    <3>2. \A e \in req[x].seen : Verdicts'[e[2]] = Verdicts[e[2]]
      <4>1. \A e \in req[x].seen : e[2] \in Runs
        BY <2>1, EntryShape DEF Request
      <4> QED BY <1>4, <2>4, <4>1 DEF Verdicts
    <3> QED BY <2>1, <3>1, <3>2, UnreadKeeps
  <2> QED BY <2>2, <2>3, <2>4
<1>11. TypeOK'
  <2>1. req' \in [Requests -> Request]
    BY <1>2, <1>10
  <2> QED BY <1>1, <1>3, <1>4, <2>1 DEF TypeOK
<1>12. \A x \in Requests : ReqInv(req[x], queue, Verdicts, Places)'
  BY <1>3, <1>10, <1>15
<1>13. OrderInv' /\ DecidedInv' /\ GuideInv' /\ UnreadyNeedsRace'
  BY <1>1, <1>3, <1>4 DEF OrderInv, DecidedInv, GuideInv, UnreadyNeedsRace
<1>14. CountInv'
  <2> SUFFICES ASSUME NEW p \in Playbooks \ crossed, queue[p] # None,
                      queue[p].occurrences <= SampleSize, Len(order) <= Page
               PROVE  Counted(queue[p], Verdicts') \/ \E x \in Requests : Counts(req'[x], queue[p], p)
    BY <1>1, <1>3 DEF CountInv, CountOK
  <2>1. Counted(queue[p], Verdicts) \/ \E x \in Requests : Counts(req[x], queue[p], p)
    BY <1>1 DEF CountInv, CountOK
  <2>2. CASE \E e \in queue[p].samples : e[2] = n
    <3>1. Counts(req'[o], queue[p], p)
      BY <1>5, <1>6, <2>2 DEF Counts
    <3> QED BY <3>1
  <2>3. CASE \E x \in Requests : Counts(req[x], queue[p], p)
    BY <1>10, <2>3
  <2>4. CASE ~(\E e \in queue[p].samples : e[2] = n) /\ Counted(queue[p], Verdicts)
    <3>1. queue[p] \in SomeItem
      BY <1>1 DEF TypeOK
    <3>2. \A e \in queue[p].samples : e[2] \in Runs
      BY <3>1, EntryShape DEF SomeItem
    <3>3. \A e \in queue[p].samples : Verdicts[e[2]] = Verdicts'[e[2]]
      BY <1>4, <2>4, <3>2 DEF Verdicts
    <3>4. /\ VerifiedBy(queue[p].samples, Verdicts) = VerifiedBy(queue[p].samples, Verdicts')
          /\ PassedBy(queue[p].samples, Verdicts) = PassedBy(queue[p].samples, Verdicts')
      BY <3>3, SameVerdicts
    <3> QED BY <2>4, <3>4 DEF Counted
  <2> QED BY <2>1, <2>2, <2>3, <2>4
<1> QED BY <1>11, <1>12, <1>13, <1>14 DEF IInv

LEMMA FeedbackListKeeps ==
  ASSUME IInv, NEW o \in Requests, FeedbackList(o)
  PROVE  IInv'
<1>1. /\ req[o] \in Request /\ ReqInv(req[o], queue, Verdicts, Places)
      /\ req \in [Requests -> Request]
      /\ order \in Seq(Playbooks) /\ TypeOK /\ OrderInv
      /\ req[o].kind = "feedback" /\ req[o].pc = "list"
  BY DEF IInv, TypeOK, FeedbackList
<1>2. PICK todo \in SUBSET Listed :
        todo = {p \in Listed : \/ \E e \in queue[p].samples : e[2] = req[o].n
                               \/ run[req[o].n].guide = p}
  OBVIOUS
<1>3. /\ Listed \subseteq Playbooks /\ \A p \in Listed : queue[p] # None
      /\ Len(order) <= Page => \A p \in Playbooks : queue[p] # None => p \in Listed
  BY <1>1, ListedInOrder DEF OrderInv
<1>4. /\ ItemsOf(Listed) \in [Playbooks -> SomeItem \cup {None}]
      /\ \A p \in Listed : ItemsOf(Listed)[p] = queue[p]
  BY <1>1, <1>3, ItemsOfTyped
<1> DEFINE r == [req[o] EXCEPT !.pc = "count", !.items = ItemsOf(Listed), !.todo = todo]
<1>5. /\ r \in Request /\ r.kind = "feedback" /\ r.pc = "count" /\ r.items = ItemsOf(Listed)
      /\ r.todo = todo /\ r.n = req[o].n /\ r.stale = req[o].stale
      /\ r.seen = req[o].seen /\ r.verified = req[o].verified /\ r.passed = req[o].passed
  BY <1>1, <1>2, <1>3, <1>4 DEF Request
<1>6. req' = [req EXCEPT ![o] = Rest(r)]
  BY <1>1, <1>2 DEF FeedbackList
<1> HIDE DEF r
<1>7. r.todo # {} => ReqInv(r, queue, Verdicts, Places)
  BY <1>1, <1>2, <1>3, <1>4, <1>5 DEF ReqInv, CallOK, HeldOK, Held, ReadOK, PlaceOK, GateOK
<1>8. /\ Rest(r) \in Request /\ ReqInv(Rest(r), queue, Verdicts, Places)
      /\ \A item, p : Counts(Rest(r), item, p) <=> Counts(r, item, p)
  BY <1>5, <1>7, RestKeeps
<1>9. ASSUME NEW p \in Playbooks, queue[p] # None, Len(order) <= Page,
             Counts(req[o], queue[p], p)
      PROVE  Counts(Rest(r), queue[p], p)
  <2>1. (\E e \in queue[p].samples : e[2] = req[o].n) /\ p \in Listed
    BY <1>1, <1>3, <1>9 DEF Counts, ReqInv, CallOK
  <2>2. Counts(r, queue[p], p)
    BY <1>2, <1>5, <2>1 DEF Counts
  <2> QED BY <1>8, <2>2
<1> QED BY <1>6, <1>8, <1>9, MoveKeeps DEF FeedbackList

(* A request that counts has an item to write. *)
LEMMA CountsItem ==
  ASSUME NEW o \in Requests, req[o] \in Request, ReqInv(req[o], queue, Verdicts, Places),
         req[o].pc = "count"
  PROVE  /\ req[o].kind = "feedback" /\ NextItem(o) \in req[o].todo
         /\ NextItem(o) \in Playbooks /\ req[o].items[NextItem(o)] \in SomeItem
<1>1. req[o].kind = "feedback" /\ req[o].todo # {}
  BY DEF ReqInv, CallOK, Request
<1>2. NextItem(o) \in req[o].todo
  BY <1>1 DEF NextItem
<1>3. NextItem(o) \in Playbooks
  BY <1>2 DEF Request
<1> QED BY <1>1, <1>2, <1>3 DEF ReqInv, HeldOK, Held, Request

LEMMA FeedbackCountKeeps ==
  ASSUME IInv, NEW o \in Requests, FeedbackCount(o)
  PROVE  IInv'
<1>1. /\ req[o] \in Request /\ ReqInv(req[o], queue, Verdicts, Places)
      /\ TypeOK /\ req[o].pc = "count"
  BY DEF IInv, TypeOK, FeedbackCount
<1>2. req[o].kind = "feedback" /\ req[o].items[NextItem(o)] \in SomeItem
  BY <1>1, CountsItem
<1>3. PICK e : req' = [req EXCEPT ![o] = ReadIn(req[o], {e})] /\ e \in Entry
  <2>1. Unread(o) \subseteq Entry /\ Unread(o) # {}
    BY <1>2 DEF Unread, SomeItem, FeedbackCount
  <2>2. \E e \in Unread(o) : \A x \in Unread(o) : e[1] <= x[1]
    <3> DEFINE P == {x[1] : x \in Unread(o)}
    <3>1. P \in SUBSET Nat /\ P # {}
      BY <2>1, EntryShape
    <3> HIDE DEF P
    <3>2. \E m \in P : \A x \in P : ~ (<<x, m>> \in OpToRel(<, Nat))
      BY <3>1, NatLessThanWellFounded, WFMin
    <3>3. \E m \in P : \A x \in P : ~ (x < m)
      BY <3>1, <3>2 DEF OpToRel
    <3>4. PICK m \in P : \A x \in P : m <= x
      BY <3>1, <3>3
    <3>5. PICK e \in Unread(o) : e[1] = m
      BY DEF P
    <3>6. \A x \in Unread(o) : x[1] \in P
      BY DEF P
    <3> QED BY <3>4, <3>5, <3>6
  <2> QED BY <2>1, <2>2 DEF FeedbackCount
<1> DEFINE r == ReadIn(req[o], {e})
<1>4. /\ r \in Request /\ ReadOK(r, Verdicts)
      /\ r.kind = req[o].kind /\ r.pc = req[o].pc /\ r.n = req[o].n
      /\ r.items = req[o].items /\ r.todo = req[o].todo /\ r.stale = req[o].stale
  <2>1. {e} \in SUBSET Entry /\ ReadOK(req[o], Verdicts)
    BY <1>1, <1>3 DEF ReqInv
  <2> QED BY ONLY <1>1, <2>1, ReadTyped
<1> HIDE DEF r
<1>5. ReqInv(r, queue, Verdicts, Places)
  BY <1>1, <1>2, <1>4 DEF ReqInv, CallOK, HeldOK, Held, PlaceOK, GateOK
<1>6. \A p \in Playbooks : Counts(req[o], queue[p], p) => Counts(r, queue[p], p)
  BY <1>4 DEF Counts
<1>7. req' = [req EXCEPT ![o] = r]
  BY <1>3 DEF r
<1> QED BY <1>4, <1>5, <1>6, <1>7, MoveKeeps DEF FeedbackCount

LEMMA FeedbackWriteKeeps ==
  ASSUME IInv, NEW o \in Requests, FeedbackWrite(o)
  PROVE  IInv'
<1>1. /\ TypeOK /\ req[o] \in Request /\ ReqInv(req[o], queue, Verdicts, Places)
      /\ CountInv /\ DecidedInv /\ req[o].pc = "count" /\ Unread(o) = {}
  BY DEF IInv, TypeOK, FeedbackWrite
<1>2. PICK p \in Playbooks : p = NextItem(o) /\ p \in req[o].todo
  BY <1>1, CountsItem
<1>3. PICK was \in SomeItem : was = req[o].items[p]
  BY <1>1, <1>2, CountsItem
<1>4. req[o].kind = "feedback" /\ was.samples \subseteq req[o].seen
  BY <1>1, <1>2, <1>3, CountsItem DEF Unread
<1> DEFINE item == Recounted(o, was)
           r    == [req[o] EXCEPT !.todo = @ \ {p}, !.seen = {}, !.verified = {}, !.passed = {}]
<1>5. /\ item \in SomeItem /\ item.status = was.status /\ item.samples = was.samples
      /\ item.verified = Cardinality(was.samples \cap req[o].verified)
      /\ item.passed = Cardinality(was.samples \cap req[o].passed)
  <2>1. was.samples \in SUBSET Entry
    BY DEF SomeItem
  <2>2. /\ Cardinality(was.samples \cap req[o].verified) \in Nat
        /\ Cardinality(was.samples \cap req[o].passed) \in Nat
    <3>1. was.samples \cap req[o].verified \in SUBSET Entry
      BY <2>1
    <3>2. was.samples \cap req[o].passed \in SUBSET Entry
      BY <2>1
    <3> QED BY <3>1, <3>2, EntriesFinite
  <2> QED BY <2>2 DEF Recounted, SomeItem
<1>6. /\ r \in Request /\ r.kind = "feedback" /\ r.pc = "count" /\ r.items = req[o].items
      /\ r.n = req[o].n /\ r.stale = req[o].stale /\ r.todo = req[o].todo \ {p}
      /\ r.seen = {} /\ r.verified = {} /\ r.passed = {}
  BY <1>1, <1>4 DEF Request
<1>7. Upsert(o, p, item, Rest(r)) /\ UNCHANGED <<run, decided, shifted, unready>>
  BY <1>2, <1>3 DEF FeedbackWrite
<1> HIDE DEF item, r
<1>8. p \in req[o].stale \/ was = queue[p]
  BY <1>1, <1>2, <1>3, <1>4 DEF ReqInv, HeldOK, Held
<1>9. /\ p \in req[o].stale => p \in crossed'
      /\ crossed \subseteq crossed' /\ queue' = [queue EXCEPT ![p] = item]
  BY <1>7 DEF Upsert
<1>10. \A q \in Playbooks \ {p} : queue'[q] = queue[q]
  BY <1>1, <1>9 DEF TypeOK
<1>11. /\ Rest(r) \in Request /\ ReqInv(Rest(r), queue', Verdicts, Places)
       /\ \A i, q : Counts(Rest(r), i, q) <=> Counts(r, i, q)
  <2>1. /\ r.todo # {} => CallOK(r)
        /\ GateOK(r) /\ ReadOK(r, Verdicts) /\ PlaceOK(r, Places)
    BY <1>1, <1>4, <1>6 DEF ReqInv, CallOK, ReadOK, PlaceOK, GateOK
  <2>2. ASSUME NEW q \in Held(r)
        PROVE  q \in Held(req[o]) /\ q \in Playbooks \ {p}
    BY <1>4, <1>6, <2>2 DEF Held
  <2>3. HeldOK(r, queue')
    BY <1>1, <1>6, <1>10, <2>2 DEF ReqInv, HeldOK
  <2> QED BY <1>6, <2>1, <2>3, RestKeeps DEF ReqInv
<1>12. item.status = decided[p] \/ p \in crossed'
  BY <1>1, <1>5, <1>8, <1>9, NoneAssumption DEF DecidedInv
<1>13. ASSUME p \notin crossed'
       PROVE  /\ OfPattern(item, p) /\ Counted(item, Verdicts)
              /\ p \notin shifted' => Once(item.samples)
  <2>1. was = queue[p] /\ p \notin crossed /\ queue[p] # None /\ p \notin req[o].stale
    BY <1>8, <1>9, <1>13, NoneAssumption
  <2>2. OfPattern(was, p) /\ (p \notin shifted => Once(was.samples))
    BY <1>1, <2>1 DEF CountInv
  <2>3. /\ was.samples \cap req[o].verified = VerifiedBy(was.samples, Verdicts)
        /\ was.samples \cap req[o].passed = PassedBy(was.samples, Verdicts)
    BY <1>1, <1>4, <2>1, <2>2 DEF ReqInv, ReadOK, OfPattern, VerifiedBy, PassedBy
  <2> QED BY <1>5, <1>7, <2>2, <2>3 DEF OfPattern, Counted
<1>14. /\ decided' = [decided EXCEPT ![p] = decided[p]] /\ decided[p] \in Statuses
       /\ unready' \in SUBSET Playbooks /\ unready' \subseteq unready
       /\ shifted' \in SUBSET Playbooks /\ shifted' \ {p} = shifted \ {p}
  BY <1>1, <1>7 DEF TypeOK
<1>15. \A q \in Playbooks \ {p} : Counts(req[o], queue[q], q) => Counts(Rest(r), queue[q], q)
  BY <1>1, <1>6, <1>11 DEF Counts
<1> QED BY <1>5, <1>7, <1>11, <1>12, <1>13, <1>14, <1>15, WriteKeeps

-----------------------------------------------------------------------------
LEMMA StepIInv == IInv /\ [Next]_vars => IInv'
<1> SUFFICES ASSUME IInv, [Next]_vars PROVE IInv'
  OBVIOUS
<1>1. CASE UNCHANGED vars
  <2>1. Verdicts' = Verdicts /\ Places' = Places
    BY <1>1 DEF vars, Verdicts, Places, Place, Created
  <2>2. TypeOK' /\ OrderInv' /\ DecidedInv' /\ GuideInv' /\ UnreadyNeedsRace'
    BY <1>1 DEF vars, IInv, TypeOK, OrderInv, DecidedInv, GuideInv, UnreadyNeedsRace
  <2>3. CountInv' /\ \A x \in Requests : ReqInv(req[x], queue, Verdicts, Places)'
    BY <1>1, <2>1 DEF vars, IInv, CountInv, CountOK
  <2> QED BY <2>2, <2>3 DEF IInv
<1>2. ASSUME NEW n \in Runs, Begin(n) \/ Retrieve(n) \/ Complete(n) PROVE IInv'
  BY <1>2, BeginKeeps, RunKeeps
<1>3. ASSUME NEW o \in Requests,
             RefreshStart(o) \/ RefreshScan(o) \/ RefreshList(o) \/ RefreshWrite(o)
      PROVE  IInv'
  BY <1>3, RefreshStartKeeps, RefreshScanKeeps, RefreshListKeeps, RefreshWriteKeeps
<1>4. ASSUME NEW o \in Requests, DecideRead(o) \/ DecideWrite(o) PROVE IInv'
  BY <1>4, DecideReadKeeps, DecideWriteKeeps
<1>5. ASSUME NEW o \in Requests, FeedbackStore(o) \/ FeedbackList(o) \/ FeedbackCount(o) \/ FeedbackWrite(o)
      PROVE  IInv'
  BY <1>5, FeedbackStoreKeeps, FeedbackListKeeps, FeedbackCountKeeps, FeedbackWriteKeeps
<1> QED BY <1>1, <1>2, <1>3, <1>4, <1>5 DEF Next

LEMMA AlwaysIInv == Spec => []IInv
BY InitIInv, StepIInv, PTL DEF Spec

(* Every variable keeps its type: what a request does with the items and   *)
(* verdicts it has read is defined, whatever was written in between.       *)
THEOREM TypeCorrect == Spec => []TypeOK
<1>1. IInv => TypeOK
  BY DEF IInv
<1> QED BY <1>1, AlwaysIInv, PTL

(* The status of an item is the last decision on it, and a run is guided   *)
(* by what was last decided to be active, unless two requests crossed.     *)
THEOREM DecisionIsKept == Spec => []LostDecisionNeedsRace
<1>1. IInv => LostDecisionNeedsRace
  BY DEF IInv, DecidedInv, GuideInv, LostDecisionNeedsRace
<1> QED BY <1>1, AlwaysIInv, PTL

(* What becomes active without force has passed the gates, unless two      *)
(* requests crossed on it.                                                 *)
THEOREM ActiveIsReady == Spec => []UnreadyNeedsRace
<1>1. IInv => UnreadyNeedsRace
  BY DEF IInv
<1> QED BY <1>1, AlwaysIInv, PTL

(* When no request is in flight, the verdicts of an item's samples are     *)
(* those it counts, whichever requests came before and in which order, and *)
(* no run is a sample twice unless the pages of the scan shifted.          *)
THEOREM VerdictsAreCounted == Spec => []VerdictsCounted
<1>1. IInv => VerdictsCounted
  <2> SUFFICES ASSUME IInv, \A o \in Requests : ~InFlight(o),
                      NEW p \in Playbooks \ crossed, queue[p] # None
               PROVE  /\ queue[p].occurrences <= SampleSize /\ Len(order) <= Page =>
                           /\ queue[p].verified = Cardinality(Verified(queue[p].samples))
                           /\ queue[p].passed = Cardinality(Passed(queue[p].samples))
                      /\ p \notin shifted => Once(queue[p].samples)
    BY DEF VerdictsCounted
  <2>1. \A o \in Requests : ~Counts(req[o], queue[p], p)
    BY FlightKind DEF IInv, TypeOK, ReqInv, Counts
  <2>2. \A e \in queue[p].samples : e[2] \in Runs
    BY EntryShape DEF IInv, TypeOK, SomeItem
  <2>3. /\ Verified(queue[p].samples) = VerifiedBy(queue[p].samples, Verdicts)
        /\ Passed(queue[p].samples) = PassedBy(queue[p].samples, Verdicts)
    BY <2>2 DEF Verified, Passed, VerifiedBy, PassedBy, Verdicts
  <2> QED BY <2>1, <2>3 DEF IInv, CountInv, CountOK, Counted
<1> QED BY <1>1, AlwaysIInv, PTL

=============================================================================
