------------------------- MODULE RemediationProofs -------------------------
(***************************************************************************)
(* Proofs about Remediation, for any calls and what they are asked, any    *)
(* issues and branches there are at first, and any trouble.                *)
(***************************************************************************)
EXTENDS Remediation, SequenceTheorems, TLAPS

Places == {"new", "branch", "refind", "block", "reuse", "track", "newtrack", "open", "merge",
           "supersede", "close", "create", "link", "linking"} \cup Ended

(* A step of one call, told by what its record becomes. *)
Became(c, pc, n, pr, issue, todo, linked) ==
  /\ call' \in [Calls -> Call]
  /\ \A d \in Calls \ {c} : call'[d] = call[d]
  /\ call'[c].pc = pc /\ call'[c].n = n /\ call'[c].pr = pr /\ call'[c].issue = issue
  /\ call'[c].todo = todo /\ call'[c].linked = linked

(* A call that has not begun has nothing; what it is doing is of its kind; *)
Fresh(c) ==
  /\ At(c, "new") => call[c].n = 1 /\ call[c].pr = 0
  /\ call[c].pc \in {"branch", "refind", "block", "track", "newtrack", "open"} => Kind(c) = "pr"
  /\ call[c].pc \in {"create", "link", "linking"} => Kind(c) = "issue"

(* what it needs for that it has; *)
Held(c) ==
  /\ call[c].pc \in {"reuse", "merge", "supersede", "close"} => call[c].pr # 0
  /\ call[c].pc \in {"link", "linking"} => call[c].issue # 0

(* its pull request is of its run; *)
OwnRun(c) == call[c].pr # 0 => prs[call[c].pr].mark[2] = Run(c)

(* it closes review issues of its run; *)
OwnIssues(c) ==
  At(c, "close") =>
    \A i \in call[c].todo : issues[i].kind = "review" /\ issues[i].run = Run(c)

(* and all branches up to the one it is at were there. *)
Tried(c) ==
  /\ At(c, "branch") => \A k \in 1..(call[c].n - 1) : Branch(c, k) \in branches
  /\ call[c].pc \in {"refind", "track", "newtrack", "open"} =>
       \A k \in 1..call[c].n : Branch(c, k) \in branches

CallInv(c) == Fresh(c) /\ Held(c) /\ OwnRun(c) /\ OwnIssues(c) /\ Tried(c)

(* A pull request is on a branch of its run, and so were those tried       *)
(* before it.                                                              *)
PROnBranch ==
  \A p \in DOMAIN prs :
    /\ prs[p].branch[1] = prs[p].mark[2]
    /\ \A k \in 1..prs[p].branch[2] : <<prs[p].mark[2], k>> \in branches

(* Review issues have signatures, and only they end by a green run. *)
SignedIsReview == \A i \in DOMAIN issues : issues[i].signed => issues[i].kind = "review"

GreenIssues == \A g \in Greens : \A i \in green[g].todo : issues[i].kind = "review"

Basic == /\ TypeOK /\ PROnBranch /\ SignedIsReview /\ GreenIssues
         /\ \A c \in Calls : CallInv(c)

(* Two calls in flight with one target have met. *)
PairsMet ==
  \A c, d \in Calls :
    c # d /\ InFlight(c) /\ InFlight(d) /\ SameTarget(c, d) => {c, d} \in met

(* An open pull request a call has not found before it opens its own is on *)
(* a branch it has yet to try, or calls for their fingerprint overlapped.  *)
OverlapFor(f)     == \E m \in met : \A c \in m : Fingerprint(c) = f

NoRival(c) ==
  \A p \in OpenPRs :
    prs[p].touches /\ prs[p].mark = Fingerprint(c) =>
      /\ call[c].pc \in {"branch", "refind"} =>
           call[c].n <= prs[p].branch[2] \/ OverlapFor(Fingerprint(c))
      /\ call[c].pc \in {"track", "newtrack", "open"} => OverlapFor(Fingerprint(c))

(* When a call creates an issue there is none that is open and has its     *)
(* signature, or calls with that signature overlapped.                     *)
OverlapOf(sig)    == \E m \in met : \A c \in m : Signature(c) = sig

NoTwin(c) ==
  At(c, "create") =>
    \A i \in OpenIssues :
      issues[i].signed /\ <<issues[i].plan, issues[i].lane>> = Signature(c)
        => OverlapOf(Signature(c))

(* Links are reported by calls that have ended, and what was reported is   *)
(* in the body that another call is about to write, or they overlapped.    *)
Reports(c) ==
  /\ call[c].linked => Kind(c) = "issue" /\ Linked(c) /\ At(c, "done")
  /\ At(c, "linking") => Linked(c)

(* A link is in a body, or one to a number that its own begins. *)
Stands(i, body) == i \in body \/ \E j \in body : StartsAs(i, j)

KeepsLinks(c) ==
  At(c, "linking") =>
    \A d \in Calls :
      call[d].linked => \/ Stands(call[d].issue, call[c].todo)
                        \/ \E m \in met : d \in m

Linkers == \A c \in Calls : Reports(c) /\ KeepsLinks(c)
Twins   == \A c \in Calls : NoTwin(c)
Rivals  == \A c \in Calls : NoRival(c)

IInv ==
  /\ Basic /\ PairsMet
  /\ Rivals /\ OnePRPerFingerprint
  /\ Twins /\ OneIssuePerSignature
  /\ Linkers /\ ReportedLinkIsThere
  /\ SupersededHasPR /\ TrackingEndsByMerge

-----------------------------------------------------------------------------
(* A step of a call replaces its record.                                   *)
LEMMA CallMoves ==
  ASSUME TypeOK, NEW c \in Calls, NEW q \in Call, call' = [call EXCEPT ![c] = q]
  PROVE  Became(c, q.pc, q.n, q.pr, q.issue, q.todo, q.linked)
BY DEF TypeOK, Became

(* A call that only goes on. *)
LEMMA Goes ==
  ASSUME TypeOK, NEW c \in Calls, NEW pc \in Places, Goto(c, pc)
  PROVE  Became(c, pc, call[c].n, call[c].pr, call[c].issue, call[c].todo, call[c].linked)
<1> DEFINE q == [call[c] EXCEPT !.pc = pc]
<1>1. call[c] \in Call
  BY DEF TypeOK
<1>2. /\ q \in Call /\ q.pc = pc /\ q.n = call[c].n /\ q.pr = call[c].pr
      /\ q.issue = call[c].issue /\ q.todo = call[c].todo /\ q.linked = call[c].linked
  BY <1>1 DEF Call, Places
<1>3. call' = [call EXCEPT ![c] = q]
  BY DEF Goto
<1> HIDE DEF q
<1>4. Became(c, q.pc, q.n, q.pr, q.issue, q.todo, q.linked)
  BY <1>2, <1>3, CallMoves
<1> QED BY <1>2, <1>4

(* A pull request is found, *)
LEMMA Finds ==
  ASSUME TypeOK, NEW c \in Calls, NEW p \in Nat,
         call' = [call EXCEPT ![c].pc = "reuse", ![c].pr = p, ![c].reused = TRUE]
  PROVE  Became(c, "reuse", call[c].n, p, call[c].issue, call[c].todo, call[c].linked)
<1> DEFINE q == [call[c] EXCEPT !.pc = "reuse", !.pr = p, !.reused = TRUE]
<1>1. call[c] \in Call
  BY DEF TypeOK
<1>2. /\ q \in Call /\ q.pc = "reuse" /\ q.n = call[c].n /\ q.pr = p
      /\ q.issue = call[c].issue /\ q.todo = call[c].todo /\ q.linked = call[c].linked
  BY <1>1 DEF Call
<1>3. call' = [call EXCEPT ![c] = q]
  OBVIOUS
<1> HIDE DEF q
<1>4. Became(c, q.pc, q.n, q.pr, q.issue, q.todo, q.linked)
  BY <1>2, <1>3, CallMoves
<1> QED BY <1>2, <1>4

(* or opened; *)
LEMMA Opens ==
  ASSUME TypeOK, NEW c \in Calls, NEW p \in Nat,
         call' = [call EXCEPT ![c].pc = "merge", ![c].pr = p]
  PROVE  Became(c, "merge", call[c].n, p, call[c].issue, call[c].todo, call[c].linked)
<1> DEFINE q == [call[c] EXCEPT !.pc = "merge", !.pr = p]
<1>1. call[c] \in Call
  BY DEF TypeOK
<1>2. /\ q \in Call /\ q.pc = "merge" /\ q.n = call[c].n /\ q.pr = p
      /\ q.issue = call[c].issue /\ q.todo = call[c].todo /\ q.linked = call[c].linked
  BY <1>1 DEF Call
<1>3. call' = [call EXCEPT ![c] = q]
  OBVIOUS
<1> HIDE DEF q
<1>4. Became(c, q.pc, q.n, q.pr, q.issue, q.todo, q.linked)
  BY <1>2, <1>3, CallMoves
<1> QED BY <1>2, <1>4

(* the next branch is tried; *)
LEMMA Retries ==
  ASSUME TypeOK, NEW c \in Calls, call[c].n < MaxSuffix,
         call' = [call EXCEPT ![c].pc = "branch", ![c].n = @ + 1]
  PROVE  Became(c, "branch", call[c].n + 1, call[c].pr, call[c].issue, call[c].todo,
                call[c].linked)
<1> DEFINE m == call[c].n + 1
           q == [call[c] EXCEPT !.pc = "branch", !.n = m]
<1>1. call[c] \in Call
  BY DEF TypeOK
<1>2. m \in 1..MaxSuffix
  BY <1>1, SuffixAssumption DEF Call
<1>3. call' = [call EXCEPT ![c] = q]
  OBVIOUS
<1> HIDE DEF m
<1>4. /\ q \in Call /\ q.pc = "branch" /\ q.n = m /\ q.pr = call[c].pr
      /\ q.issue = call[c].issue /\ q.todo = call[c].todo /\ q.linked = call[c].linked
  BY <1>1, <1>2 DEF Call
<1> HIDE DEF q
<1>5. Became(c, q.pc, q.n, q.pr, q.issue, q.todo, q.linked)
  BY <1>3, <1>4, CallMoves
<1> QED BY <1>4, <1>5 DEF m

(* an issue is found or created. *)
LEMMA Files ==
  ASSUME TypeOK, NEW c \in Calls, NEW pc \in Places, NEW i \in Nat,
         NEW reused \in BOOLEAN,
         \/ call' = [call EXCEPT ![c].pc = pc, ![c].issue = i]
         \/ call' = [call EXCEPT ![c].issue = i, ![c].pc = pc]
         \/ call' = [call EXCEPT ![c].pc = pc, ![c].issue = i, ![c].reused = reused]
  PROVE  Became(c, pc, call[c].n, call[c].pr, i, call[c].todo, call[c].linked)
<1> DEFINE q == [call[c] EXCEPT !.pc = pc, !.issue = i]
           r == [call[c] EXCEPT !.pc = pc, !.issue = i, !.reused = reused]
           s == [call[c] EXCEPT !.issue = i, !.pc = pc]
<1>1. call[c] \in Call
  BY DEF TypeOK
<1>2. /\ q \in Call /\ q.pc = pc /\ q.n = call[c].n /\ q.pr = call[c].pr
      /\ q.issue = i /\ q.todo = call[c].todo /\ q.linked = call[c].linked
  BY <1>1 DEF Call, Places
<1>3. /\ r \in Call /\ r.pc = pc /\ r.n = call[c].n /\ r.pr = call[c].pr
      /\ r.issue = i /\ r.todo = call[c].todo /\ r.linked = call[c].linked
  BY <1>1 DEF Call, Places
<1>4. /\ s \in Call /\ s.pc = pc /\ s.n = call[c].n /\ s.pr = call[c].pr
      /\ s.issue = i /\ s.todo = call[c].todo /\ s.linked = call[c].linked
  BY <1>1 DEF Call, Places
<1>5. \/ call' = [call EXCEPT ![c] = q]
      \/ call' = [call EXCEPT ![c] = r]
      \/ call' = [call EXCEPT ![c] = s]
  OBVIOUS
<1> HIDE DEF q, r, s
<1>6. CASE call' = [call EXCEPT ![c] = q]
  <2>1. Became(c, q.pc, q.n, q.pr, q.issue, q.todo, q.linked)
    BY <1>2, <1>6, CallMoves
  <2> QED BY <1>2, <2>1
<1>7. CASE call' = [call EXCEPT ![c] = r]
  <2>1. Became(c, r.pc, r.n, r.pr, r.issue, r.todo, r.linked)
    BY <1>3, <1>7, CallMoves
  <2> QED BY <1>3, <2>1
<1>8. CASE call' = [call EXCEPT ![c] = s]
  <2>1. Became(c, s.pc, s.n, s.pr, s.issue, s.todo, s.linked)
    BY <1>4, <1>8, CallMoves
  <2> QED BY <1>4, <2>1
<1> QED BY <1>5, <1>6, <1>7, <1>8

(* What is to be closed, or was read of the body, is kept; *)
LEMMA Lists ==
  ASSUME TypeOK, NEW c \in Calls, NEW pc \in Places, NEW t \in SUBSET Nat,
         call' = [call EXCEPT ![c].pc = pc, ![c].todo = t]
  PROVE  Became(c, pc, call[c].n, call[c].pr, call[c].issue, t, call[c].linked)
<1> DEFINE q == [call[c] EXCEPT !.pc = pc, !.todo = t]
<1>1. call[c] \in Call
  BY DEF TypeOK
<1>2. /\ q \in Call /\ q.pc = pc /\ q.n = call[c].n /\ q.pr = call[c].pr
      /\ q.issue = call[c].issue /\ q.todo = t /\ q.linked = call[c].linked
  BY <1>1 DEF Call, Places
<1>3. call' = [call EXCEPT ![c] = q]
  OBVIOUS
<1> HIDE DEF q
<1>4. Became(c, q.pc, q.n, q.pr, q.issue, q.todo, q.linked)
  BY <1>2, <1>3, CallMoves
<1> QED BY <1>2, <1>4

(* one less is to be closed; *)
LEMMA Closes ==
  ASSUME TypeOK, NEW c \in Calls, NEW i,
         call' = [call EXCEPT ![c].todo = @ \ {i}]
  PROVE  Became(c, call[c].pc, call[c].n, call[c].pr, call[c].issue, call[c].todo \ {i},
                call[c].linked)
<1> DEFINE t == call[c].todo \ {i}
           q == [call[c] EXCEPT !.todo = t]
<1>1. call[c] \in Call
  BY DEF TypeOK
<1>2. t \in SUBSET Nat
  BY <1>1 DEF Call
<1>3. call' = [call EXCEPT ![c] = q]
  OBVIOUS
<1> HIDE DEF t
<1>4. /\ q \in Call /\ q.pc = call[c].pc /\ q.n = call[c].n /\ q.pr = call[c].pr
      /\ q.issue = call[c].issue /\ q.todo = t /\ q.linked = call[c].linked
  BY <1>1, <1>2 DEF Call
<1> HIDE DEF q
<1>5. Became(c, q.pc, q.n, q.pr, q.issue, q.todo, q.linked)
  BY <1>3, <1>4, CallMoves
<1> QED BY <1>4, <1>5 DEF t

(* and a call ends with its link in the body or not. *)
LEMMA Links ==
  ASSUME TypeOK, NEW c \in Calls, NEW x \in BOOLEAN,
         \/ call' = [call EXCEPT ![c].pc = "done", ![c].linked = x]
         \/ call' = [call EXCEPT ![c].pc = "done", ![c].todo = {}, ![c].linked = x]
  PROVE  \E t \in SUBSET call[c].todo :
           Became(c, "done", call[c].n, call[c].pr, call[c].issue, t, x)
<1> DEFINE q == [call[c] EXCEPT !.pc = "done", !.linked = x]
           r == [call[c] EXCEPT !.pc = "done", !.todo = {}, !.linked = x]
<1>1. call[c] \in Call
  BY DEF TypeOK
<1>2. /\ q \in Call /\ q.pc = "done" /\ q.n = call[c].n /\ q.pr = call[c].pr
      /\ q.issue = call[c].issue /\ q.todo = call[c].todo /\ q.linked = x
  BY <1>1 DEF Call, Ended
<1>3. /\ r \in Call /\ r.pc = "done" /\ r.n = call[c].n /\ r.pr = call[c].pr
      /\ r.issue = call[c].issue /\ r.todo = {} /\ r.linked = x
  BY <1>1 DEF Call, Ended
<1>4. \/ call' = [call EXCEPT ![c] = q]
      \/ call' = [call EXCEPT ![c] = r]
  OBVIOUS
<1> HIDE DEF q, r
<1>5. CASE call' = [call EXCEPT ![c] = q]
  <2>1. Became(c, q.pc, q.n, q.pr, q.issue, q.todo, q.linked)
    BY <1>2, <1>5, CallMoves
  <2> QED BY <1>2, <2>1
<1>6. CASE call' = [call EXCEPT ![c] = r]
  <2>1. Became(c, r.pc, r.n, r.pr, r.issue, r.todo, r.linked)
    BY <1>3, <1>6, CallMoves
  <2> QED BY <1>3, <2>1
<1> QED BY <1>4, <1>5, <1>6


-----------------------------------------------------------------------------
(* What a step does to the issues: a call creates one, once or twice, *)
Makes(c, kind) ==
  /\ \/ At(c, "newtrack") /\ kind = "tracking"
     \/ At(c, "create") /\ kind = "review"
     \/ At(c, "block") /\ kind = "blocked"
  /\ ~At(c, "create")'

(* or one is closed that a call or a green run has on its list, or that a  *)
(* merged pull request names, or by people.                                *)
MayClose(i, why) ==
  \/ why = "superseded" /\ \E c \in Calls : At(c, "close") /\ i \in call[c].todo
  \/ why = "green" /\ \E g \in Greens : i \in green[g].todo
  \/ why = "human"
  \/ /\ why = "merge"
     /\ \E p \in OpenPRs : /\ prs[p].closes = i
                           /\ prs' = [prs EXCEPT ![p].state = "merged"]

IssueStep ==
  \/ issues' = issues
  \/ \E c \in Calls, kind \in {"review", "blocked", "tracking"} :
       Makes(c, kind) /\ issues' = Append(issues, NewIssue(c, kind))
  \/ \E c \in Calls, kind \in {"review", "blocked", "tracking"} :
       /\ Makes(c, kind) /\ issues' = issues \o <<NewIssue(c, kind), NewIssue(c, kind)>>
       /\ kind = "review" => {c} \in met'
  \/ \E i \in DOMAIN issues, why \in {"merge", "superseded", "green", "human"} :
       MayClose(i, why) /\ issues' = Close(i, why)
  \/ \E i \in DOMAIN issues : issues' = [issues EXCEPT ![i].marked = TRUE]

(* What it does to the pull requests. *)
Opening == {"branch", "refind", "track", "newtrack", "open"}

PRStep ==
  \/ prs' = prs
  \/ \E c \in Calls : /\ At(c, "open") /\ call'[c].pc \notin Opening
                      /\ prs' = Append(prs, NewPR(c)) /\ branches' = branches
  \/ \E p \in OpenPRs : \/ prs' = [prs EXCEPT ![p].state = "merged"]
                        \/ prs' = [prs EXCEPT ![p].state = "closed"]
                        \/ prs' = [prs EXCEPT ![p].touches = FALSE]

LEMMA AfterErrorIs ==
  ASSUME NEW c, NEW pc
  PROVE  AfterError(c, pc) = IF pc \in {"track", "newtrack"} THEN {"open"}
                             ELSE IF pc \in {"link", "linking"} THEN {"done"}
                             ELSE {"failed", "unavailable"}
<1>1. CASE pc \in {"track", "newtrack"}
  BY <1>1 DEF AfterError
<1>2. CASE pc \in {"link", "linking"}
  BY <1>2 DEF AfterError
<1>3. CASE pc \notin {"track", "newtrack", "link", "linking"}
  BY <1>3 DEF AfterError
<1> QED BY <1>1, <1>2, <1>3

LEMMA MergedIs ==
  ASSUME TypeOK, NEW p \in OpenPRs, Merged(p)
  PROVE  IssueStep /\ PRStep
<1>1. p \in DOMAIN prs /\ prs' = [prs EXCEPT ![p].state = "merged"]
  BY DEF OpenPRs, Merged
<1>2. PRStep
  BY <1>1 DEF PRStep
<1>3. CASE prs[p].closes = 0
  BY <1>2, <1>3 DEF Merged, IssueStep
<1>4. CASE prs[p].closes # 0
  <2>1. prs[p].closes \in DOMAIN issues
    BY <1>1, <1>4 DEF TypeOK
  <2>2. MayClose(prs[p].closes, "merge")
    BY <1>1 DEF MayClose
  <2>3. issues' = Close(prs[p].closes, "merge")
    BY <1>4 DEF Merged
  <2> QED BY <1>2, <2>1, <2>2, <2>3 DEF IssueStep
<1> QED BY <1>3, <1>4

LEMMA CallArtifacts ==
  ASSUME Basic, NEW c \in Calls, CallStep(c)
  PROVE  IssueStep /\ PRStep
<1>0. TypeOK /\ Len(issues) + 1 \in Nat /\ Len(prs) + 1 \in Nat
  BY LenProperties DEF Basic, TypeOK
<1>1. CASE (BlockedIssue(c) \/ CreateTracking(c) \/ CreateIssue(c)) /\ issues' # issues
  <2>1. PICK pc \in {"done", "open", "link"} :
          call' = [call EXCEPT ![c].pc = pc, ![c].issue = Len(issues) + 1]
    BY <1>1 DEF BlockedIssue, CreateTracking, CreateIssue
  <2>2. call'[c].pc = pc
    BY <1>0, <2>1, Files, ZenonT(30) DEF Places, Ended, Became
  <2> QED BY <1>1, <2>2 DEF BlockedIssue, CreateTracking, CreateIssue, At, Makes, IssueStep,
                            PRStep
<1>2. CASE OpenPR(c)
  <2>1. call'[c].pc = "merge"
    BY <1>0, <1>2, Opens DEF OpenPR, Became
  <2> QED BY <1>2, <2>1 DEF OpenPR, IssueStep, PRStep, Opening
<1>3. CASE Merge(c)
  <2>1. call[c].pr \in DOMAIN prs
    BY <1>3 DEF Merge, At, Basic, CallInv, Held, TypeOK
  <2>2. CASE prs[call[c].pr].state = "open" /\ Merged(call[c].pr)
    BY <2>1, <2>2, MergedIs DEF Basic, OpenPRs
  <2>3. CASE UNCHANGED <<prs, issues>>
    BY <2>3 DEF IssueStep, PRStep
  <2> QED BY <1>3, <2>2, <2>3 DEF Merge
<1>4. CASE CloseSuperseded(c)
  <2>1. PRStep
    BY <1>4 DEF CloseSuperseded, PRStep
  <2>2. CASE issues' = issues
    BY <2>1, <2>2 DEF IssueStep
  <2>3. ASSUME NEW i \in call[c].todo, issues' = Close(i, "superseded")
        PROVE  IssueStep
    <3>1. i \in DOMAIN issues
      BY DEF Basic, TypeOK
    <3>2. MayClose(i, "superseded")
      BY <1>4 DEF CloseSuperseded, MayClose
    <3> QED BY <2>3, <3>1, <3>2 DEF IssueStep
  <2> QED BY <1>4, <2>1, <2>2, <2>3 DEF CloseSuperseded
<1>5. CASE UNCHANGED <<issues, prs>>
  BY <1>5 DEF IssueStep, PRStep
<1> QED BY <1>1, <1>2, <1>3, <1>4, <1>5 DEF CallStep, FindPR, FindPRAgain, BlockedIssue,
          CreateBranch, FindTracking, CreateTracking, CreateIssue, FindSuperseded, FindIssue, ReadBody, WriteBody, Quiet

LEMMA ResentArtifacts ==
  ASSUME Basic, NEW c \in Calls, RequestResent(c)
  PROVE  IssueStep /\ PRStep
<1>0. TypeOK /\ Len(issues) + 2 \in Nat
  BY LenProperties DEF Basic, TypeOK
<1>1. CASE At(c, "branch")
  BY <1>1 DEF RequestResent, Created, At, IssueStep, PRStep
<1>2. ASSUME NEW kind \in {"review", "blocked", "tracking"}, Makes(c, kind),
             issues' = issues \o <<NewIssue(c, kind), NewIssue(c, kind)>>
      PROVE  IssueStep
  <2>1. kind = "review" => At(c, "create")
    BY <1>2 DEF Makes
  <2>2. kind = "review" => {c} \in met'
    BY <2>1 DEF RequestResent
  <2> QED BY <1>2, <2>2 DEF IssueStep
<1>3. CASE ~At(c, "branch")
  <2> DEFINE pc == CASE At(c, "newtrack") -> "open"
                     [] At(c, "create")   -> "link"
                     [] OTHER             -> "done"
  <2>1. PRStep
    BY <1>3 DEF RequestResent, PRStep
  <2>5. call' = [call EXCEPT ![c].issue = Len(issues) + 2, ![c].pc = pc]
    BY <1>3 DEF RequestResent
  <2>6. pc \in {"open", "link", "done"}
    OBVIOUS
  <2> HIDE DEF pc
  <2>7. call'[c].pc = pc
    BY <1>0, <2>5, <2>6, Files, ZenonT(30) DEF Places, Ended, Became
  <2>8. ~At(c, "create")'
    BY <2>6, <2>7 DEF At
  <2>2. CASE At(c, "newtrack")
    <3>1. issues' = issues \o <<NewIssue(c, "tracking"), NewIssue(c, "tracking")>>
      BY <1>3, <2>2 DEF RequestResent, At
    <3> QED BY <1>2, <2>1, <2>2, <2>8, <3>1 DEF Makes
  <2>3. CASE At(c, "create")
    <3>1. issues' = issues \o <<NewIssue(c, "review"), NewIssue(c, "review")>>
      BY <1>3, <2>3 DEF RequestResent, At
    <3> QED BY <1>2, <2>1, <2>3, <2>8, <3>1 DEF Makes
  <2>4. CASE At(c, "block")
    <3>1. issues' = issues \o <<NewIssue(c, "blocked"), NewIssue(c, "blocked")>>
      BY <1>3, <2>4 DEF RequestResent, At
    <3> QED BY <1>2, <2>1, <2>4, <2>8, <3>1 DEF Makes
  <2> QED BY <1>3, <2>2, <2>3, <2>4 DEF RequestResent, At
<1> QED BY <1>1, <1>3

LEMMA Artifacts ==
  ASSUME Basic, [Next]_vars
  PROVE  IssueStep /\ PRStep
<1>1. ASSUME NEW c \in Calls, RequestLost(c)
      PROVE  IssueStep /\ PRStep
  <2>1. PICK pc \in AfterError(c, call[c].pc) : Goto(c, pc)
    BY <1>1 DEF RequestLost
  <2>2. pc \in Ended \cup {"open"} /\ (At(c, "open") => pc \in Ended)
    BY <1>1, AfterErrorIs DEF RequestLost, Ended, At
  <2>3. TypeOK /\ pc \in Places
    BY <2>2 DEF Basic, Places
  <2>4. call'[c].pc = pc
    BY <2>1, <2>3, Goes DEF Became
  <2> QED BY <1>1, <2>2, <2>4
          DEF RequestLost, Created, At, Makes, IssueStep, PRStep, Opening, Ended
<1>2. ASSUME NEW g \in Greens, GreenCloses(g)
      PROVE  IssueStep /\ PRStep
  <2>1. PRStep
    BY <1>2 DEF GreenCloses, PRStep
  <2>2. CASE issues' = issues
    BY <2>1, <2>2 DEF IssueStep
  <2>3. ASSUME NEW i \in green[g].todo, issues' = Close(i, "green")
        PROVE  IssueStep
    <3>1. i \in DOMAIN issues
      BY DEF Basic, TypeOK
    <3>2. MayClose(i, "green")
      BY DEF MayClose
    <3> QED BY <2>3, <3>1, <3>2 DEF IssueStep
  <2> QED BY <1>2, <2>1, <2>2, <2>3 DEF GreenCloses
<1>3. CASE Upgrade
  BY <1>3 DEF Upgrade, OpenIssues, IssueStep, PRStep
<1>4. CASE People
  <2>1. ASSUME NEW p \in OpenPRs, Merged(p)
        PROVE  IssueStep /\ PRStep
    BY <2>1, MergedIs DEF Basic
  <2>2. ASSUME NEW i \in OpenIssues, issues' = Close(i, "human"), prs' = prs
        PROVE  IssueStep /\ PRStep
    BY <2>2 DEF OpenIssues, MayClose, IssueStep, PRStep
  <2>3. ASSUME NEW p \in OpenPRs, issues' = issues,
               \/ prs' = [prs EXCEPT ![p].state = "closed"]
               \/ prs' = [prs EXCEPT ![p].touches = FALSE]
        PROVE  IssueStep /\ PRStep
    BY <2>3 DEF IssueStep, PRStep
  <2> QED BY <1>4, <2>1, <2>2, <2>3 DEF People
<1>5. CASE UNCHANGED <<issues, prs>>
  BY <1>5 DEF IssueStep, PRStep
<1> QED BY <1>1, <1>2, <1>3, <1>4, <1>5, CallArtifacts, ResentArtifacts
        DEF Next, RequestFails, CutOff, GreenLists, vars

-----------------------------------------------------------------------------
(* An issue keeps what it says, and does not open again. *)
SameIssue(old, new) ==
  /\ new.kind = old.kind /\ new.plan = old.plan /\ new.run = old.run
  /\ new.lane = old.lane /\ new.signed = old.signed
  /\ new.why = "open" => old.why = "open"

IssuesStay ==
  \A i \in DOMAIN issues : i \in DOMAIN issues' /\ SameIssue(issues[i], issues'[i])

(* What is new was made by a call that was about to make it. *)
NewIssuesMade ==
  \A i \in DOMAIN issues' \ DOMAIN issues :
    \E c \in Calls, kind \in {"review", "blocked", "tracking"} :
      Makes(c, kind) /\ issues'[i] = NewIssue(c, kind)

IssuesAfter == issues' \in Seq(Issue) /\ Len(issues) <= Len(issues') /\ IssuesStay

LEMMA NewIssueType ==
  ASSUME TypeOK, NEW c \in Calls, NEW kind \in {"review", "blocked", "tracking"}
  PROVE  NewIssue(c, kind) \in Issue
BY DEF TypeOK, NewIssue, Issue, Request, Plan, Run, Lane

LEMMA SignsReviews ==
  ASSUME NEW c, NEW kind
  PROVE  NewIssue(c, kind).signed => kind = "review"
BY DEF NewIssue

LEMMA AppendedIssue ==
  ASSUME TypeOK, NEW x \in Issue, issues' = Append(issues, x)
  PROVE  /\ IssuesAfter /\ \A i \in DOMAIN issues' \ DOMAIN issues : issues'[i] = x
         /\ \A i \in DOMAIN issues : issues'[i] = issues[i]
<1>1. issues \in Seq(Issue)
  BY DEF TypeOK
<1>2. /\ issues' \in Seq(Issue) /\ Len(issues') = Len(issues) + 1
      /\ \A i \in 1..Len(issues) : issues'[i] = issues[i]
      /\ issues'[Len(issues) + 1] = x
  BY <1>1, AppendProperties
<1> QED BY <1>1, <1>2, LenProperties DEF IssuesAfter, IssuesStay, SameIssue

LEMMA TwiceIssue ==
  ASSUME TypeOK, NEW x \in Issue, issues' = issues \o <<x, x>>
  PROVE  /\ IssuesAfter /\ \A i \in DOMAIN issues' \ DOMAIN issues : issues'[i] = x
         /\ \A i \in DOMAIN issues : issues'[i] = issues[i]
<1>1. issues \in Seq(Issue) /\ <<x, x>> \in Seq(Issue) /\ Len(<<x, x>>) = 2
  BY DEF TypeOK
<1> DEFINE two == <<x, x>>
<1>2. \A i \in 1..2 : two[i] = x
  OBVIOUS
<1>3. two \in Seq(Issue) /\ Len(two) = 2 /\ issues' = issues \o two
  BY <1>1
<1> HIDE DEF two
<1>4. /\ issues' \in Seq(Issue) /\ Len(issues') = Len(issues) + 2
      /\ \A i \in 1..(Len(issues) + 2) :
           issues'[i] = IF i <= Len(issues) THEN issues[i] ELSE two[i - Len(issues)]
  BY <1>1, <1>3, ConcatProperties
<1>5. Len(issues) \in Nat /\ DOMAIN issues = 1..Len(issues) /\ DOMAIN issues' = 1..Len(issues')
  BY <1>1, <1>4, LenProperties
<1>6. \A i \in DOMAIN issues' \ DOMAIN issues : issues'[i] = x
  <2> TAKE i \in DOMAIN issues' \ DOMAIN issues
  <2>1. i \in (Len(issues) + 1)..(Len(issues) + 2) /\ i - Len(issues) \in 1..2
    BY <1>4, <1>5
  <2> QED BY <1>2, <1>4, <1>5, <2>1
<1>7. \A i \in DOMAIN issues : i \in DOMAIN issues' /\ issues'[i] = issues[i]
  BY <1>4, <1>5
<1> QED BY <1>4, <1>5, <1>6, <1>7 DEF IssuesAfter, IssuesStay, SameIssue

LEMMA ReplacedIssue ==
  ASSUME TypeOK, NEW i \in DOMAIN issues, NEW x \in Issue, SameIssue(issues[i], x),
         issues' = [issues EXCEPT ![i] = x]
  PROVE  /\ IssuesAfter /\ DOMAIN issues' = DOMAIN issues
         /\ \A j \in DOMAIN issues : issues'[j] = IF j = i THEN x ELSE issues[j]
<1>1. /\ issues \in Seq(Issue) /\ DOMAIN issues = 1..Len(issues) /\ Len(issues) \in Nat
  BY LenProperties DEF TypeOK
<1>2. /\ issues' \in Seq(Issue) /\ Len(issues') = Len(issues)
      /\ \A j \in 1..Len(issues) : issues'[j] = IF j = i THEN x ELSE issues[j]
  BY <1>1, ExceptSeq
<1>3. DOMAIN issues' = 1..Len(issues)
  BY <1>2, LenProperties
<1>4. IssuesStay
  BY <1>1, <1>2, <1>3 DEF IssuesStay, SameIssue
<1> QED BY <1>1, <1>2, <1>3, <1>4 DEF IssuesAfter

LEMMA ClosedIssue ==
  ASSUME TypeOK, NEW i \in DOMAIN issues,
         NEW why \in {"merge", "superseded", "green", "human"}, issues' = Close(i, why)
  PROVE  /\ IssuesAfter /\ DOMAIN issues' = DOMAIN issues
         /\ \A j \in DOMAIN issues : issues'[j].why # issues[j].why => j = i /\ issues'[i].why = why
<1> DEFINE w == IF issues[i].why = "open" THEN why ELSE issues[i].why
           x == [issues[i] EXCEPT !.why = w]
<1>1. issues[i] \in Issue
  BY LenProperties, ElementOfSeq DEF TypeOK
<1>2. w \in {"open", "merge", "superseded", "green", "human"} /\ (w = "open" => issues[i].why = "open")
  BY <1>1 DEF Issue
<1>3. issues' = [issues EXCEPT ![i] = x]
  BY DEF Close
<1>4. w = issues[i].why \/ w = why
  OBVIOUS
<1> HIDE DEF w
<1>5. x \in Issue /\ x.why = w /\ SameIssue(issues[i], x)
  BY <1>1, <1>2 DEF Issue, SameIssue
<1> HIDE DEF x
<1> QED BY <1>3, <1>4, <1>5, ReplacedIssue

LEMMA MarkedIssue ==
  ASSUME TypeOK, NEW i \in DOMAIN issues, issues' = [issues EXCEPT ![i].marked = TRUE]
  PROVE  /\ IssuesAfter /\ DOMAIN issues' = DOMAIN issues
         /\ \A j \in DOMAIN issues : issues'[j].why = issues[j].why
<1> DEFINE x == [issues[i] EXCEPT !.marked = TRUE]
<1>1. issues[i] \in Issue
  BY LenProperties, ElementOfSeq DEF TypeOK
<1>2. issues' = [issues EXCEPT ![i] = x]
  OBVIOUS
<1>3. x \in Issue /\ x.why = issues[i].why /\ SameIssue(issues[i], x)
  BY <1>1 DEF Issue, SameIssue
<1> HIDE DEF x
<1> QED BY <1>2, <1>3, ReplacedIssue

(* An issue is closed only as MayClose has it. *)
LEMMA WhyChanges ==
  ASSUME TypeOK, IssueStep, NEW i \in DOMAIN issues, issues'[i].why # issues[i].why
  PROVE  MayClose(i, issues'[i].why)
<1>1. ASSUME NEW c \in Calls, NEW kind \in {"review", "blocked", "tracking"},
             \/ issues' = Append(issues, NewIssue(c, kind))
             \/ issues' = issues \o <<NewIssue(c, kind), NewIssue(c, kind)>>
      PROVE  FALSE
  <2> DEFINE x == NewIssue(c, kind)
  <2>1. x \in Issue
    BY NewIssueType
  <2>2. (issues' = Append(issues, x)) \/ (issues' = issues \o <<x, x>>)
    BY <1>1
  <2> HIDE DEF x
  <2>3. issues'[i] = issues[i]
    BY <2>1, <2>2, AppendedIssue, TwiceIssue
  <2> QED BY <2>3
<1>2. ASSUME NEW j \in DOMAIN issues, NEW why \in {"merge", "superseded", "green", "human"},
             MayClose(j, why), issues' = Close(j, why)
      PROVE  MayClose(i, issues'[i].why)
  <2>1. j = i /\ issues'[i].why = why
    BY <1>2, ClosedIssue
  <2> QED BY <1>2, <2>1
<1>3. ASSUME NEW j \in DOMAIN issues, issues' = [issues EXCEPT ![j].marked = TRUE]
      PROVE  FALSE
  BY <1>3, MarkedIssue
<1>4. issues' # issues
  OBVIOUS
<1> QED BY <1>1, <1>2, <1>3, <1>4 DEF IssueStep

(* Issues after a step. *)
LEMMA IssuesKept ==
  ASSUME TypeOK, IssueStep
  PROVE  IssuesAfter /\ NewIssuesMade
<1>1. CASE issues' = issues
  BY <1>1 DEF TypeOK, IssuesAfter, IssuesStay, SameIssue, NewIssuesMade
<1>2. ASSUME NEW c \in Calls, NEW kind \in {"review", "blocked", "tracking"}, Makes(c, kind),
             \/ issues' = Append(issues, NewIssue(c, kind))
             \/ issues' = issues \o <<NewIssue(c, kind), NewIssue(c, kind)>>
      PROVE  IssuesAfter /\ NewIssuesMade
  <2> DEFINE x == NewIssue(c, kind)
  <2>1. x \in Issue
    BY NewIssueType
  <2>2. (issues' = Append(issues, x)) \/ (issues' = issues \o <<x, x>>)
    BY <1>2
  <2> HIDE DEF x
  <2>3. IssuesAfter /\ \A i \in DOMAIN issues' \ DOMAIN issues : issues'[i] = x
    BY <2>1, <2>2, AppendedIssue, TwiceIssue
  <2> QED BY <1>2, <2>3 DEF NewIssuesMade, x
<1>3. ASSUME NEW i \in DOMAIN issues, NEW why \in {"merge", "superseded", "green", "human"},
             issues' = Close(i, why)
      PROVE  IssuesAfter /\ NewIssuesMade
  BY <1>3, ClosedIssue DEF NewIssuesMade
<1>4. ASSUME NEW i \in DOMAIN issues, issues' = [issues EXCEPT ![i].marked = TRUE]
      PROVE  IssuesAfter /\ NewIssuesMade
  BY <1>4, MarkedIssue DEF NewIssuesMade
<1> QED BY <1>1, <1>2, <1>3, <1>4 DEF IssueStep

-----------------------------------------------------------------------------
(* A pull request keeps its marks and its branch; once it is not open or   *)
(* without its files it stays so.                                          *)
SamePR(old, new) ==
  /\ new.mark = old.mark /\ new.branch = old.branch /\ new.closes = old.closes
  /\ new.state = "open" => old.state = "open"
  /\ old.state = "merged" => new.state = "merged"
  /\ new.touches => old.touches

PRsAfter ==
  /\ prs' \in Seq(PullRequest) /\ Len(prs) <= Len(prs')
  /\ \A p \in DOMAIN prs : p \in DOMAIN prs' /\ SamePR(prs[p], prs'[p])

NewPRsOpened ==
  \A p \in DOMAIN prs' \ DOMAIN prs :
    \E c \in Calls : /\ At(c, "open") /\ call'[c].pc \notin Opening
                    /\ prs'[p] = NewPR(c) /\ branches' = branches

LEMMA NewPRType ==
  ASSUME TypeOK, NEW c \in Calls
  PROVE  NewPR(c) \in PullRequest
BY DEF TypeOK, NewPR, PullRequest, Request, Call, Fingerprint, Branch, Plan, Run

LEMMA ChangedPR ==
  ASSUME TypeOK, NEW p \in OpenPRs,
         \/ prs' = [prs EXCEPT ![p].state = "merged"]
         \/ prs' = [prs EXCEPT ![p].state = "closed"]
         \/ prs' = [prs EXCEPT ![p].touches = FALSE]
  PROVE  PRsAfter /\ DOMAIN prs' = DOMAIN prs
<1> DEFINE x == [prs[p] EXCEPT !.state = "merged"]
           y == [prs[p] EXCEPT !.state = "closed"]
           z == [prs[p] EXCEPT !.touches = FALSE]
<1>1. /\ prs \in Seq(PullRequest) /\ DOMAIN prs = 1..Len(prs) /\ Len(prs) \in Nat
      /\ p \in 1..Len(prs) /\ prs[p] \in PullRequest /\ prs[p].state = "open"
  BY LenProperties, ElementOfSeq DEF TypeOK, OpenPRs
<1>2. \/ prs' = [prs EXCEPT ![p] = x]
      \/ prs' = [prs EXCEPT ![p] = y]
      \/ prs' = [prs EXCEPT ![p] = z]
  OBVIOUS
<1>3. x \in PullRequest /\ SamePR(prs[p], x)
  BY <1>1 DEF PullRequest, SamePR
<1>4. y \in PullRequest /\ SamePR(prs[p], y)
  BY <1>1 DEF PullRequest, SamePR
<1>5. z \in PullRequest /\ SamePR(prs[p], z)
  BY <1>1 DEF PullRequest, SamePR
<1>6. \A q \in DOMAIN prs : SamePR(prs[q], prs[q])
  BY DEF SamePR
<1> HIDE DEF x, y, z
<1>7. ASSUME NEW q \in PullRequest, prs' = [prs EXCEPT ![p] = q], SamePR(prs[p], q)
      PROVE  PRsAfter /\ DOMAIN prs' = DOMAIN prs
  <2>1. /\ prs' \in Seq(PullRequest) /\ Len(prs') = Len(prs)
        /\ \A j \in 1..Len(prs) : prs'[j] = IF j = p THEN q ELSE prs[j]
    BY <1>1, <1>7, ExceptSeq
  <2>2. DOMAIN prs' = 1..Len(prs)
    BY <2>1, LenProperties
  <2> QED BY <1>1, <1>6, <1>7, <2>1, <2>2 DEF PRsAfter
<1> QED BY <1>2, <1>3, <1>4, <1>5, <1>7

(* Pull requests after a step. *)
LEMMA PRsKept ==
  ASSUME TypeOK, PRStep
  PROVE  PRsAfter /\ NewPRsOpened
<1>1. CASE prs' = prs
  BY <1>1 DEF TypeOK, PRsAfter, SamePR, NewPRsOpened
<1>2. ASSUME NEW c \in Calls, At(c, "open"), call'[c].pc \notin Opening,
             prs' = Append(prs, NewPR(c)), branches' = branches
      PROVE  PRsAfter /\ NewPRsOpened
  <2> DEFINE x == NewPR(c)
  <2>1. x \in PullRequest /\ prs \in Seq(PullRequest)
    BY NewPRType DEF TypeOK
  <2> HIDE DEF x
  <2>2. /\ prs' \in Seq(PullRequest) /\ Len(prs') = Len(prs) + 1
        /\ \A i \in 1..Len(prs) : prs'[i] = prs[i]
        /\ prs'[Len(prs) + 1] = x
    BY <1>2, <2>1, AppendProperties DEF x
  <2>3. PRsAfter
    BY <2>1, <2>2, LenProperties DEF PRsAfter, SamePR
  <2>4. \A p \in DOMAIN prs' \ DOMAIN prs : prs'[p] = x
    BY <2>1, <2>2, LenProperties
  <2> QED BY <1>2, <2>3, <2>4 DEF NewPRsOpened, x
<1>3. ASSUME NEW p \in OpenPRs,
             \/ prs' = [prs EXCEPT ![p].state = "merged"]
             \/ prs' = [prs EXCEPT ![p].state = "closed"]
             \/ prs' = [prs EXCEPT ![p].touches = FALSE]
      PROVE  PRsAfter /\ NewPRsOpened
  BY <1>3, ChangedPR DEF NewPRsOpened
<1> QED BY <1>1, <1>2, <1>3 DEF PRStep

-----------------------------------------------------------------------------
(* Nothing that is there goes away, and nobody is asked anything else.     *)
Grown ==
  ask' = ask /\ branches \subseteq branches' /\ met \subseteq met' /\ IssuesAfter /\ PRsAfter

LEMMA Grows ==
  ASSUME Basic, [Next]_vars
  PROVE  Grown /\ NewIssuesMade /\ NewPRsOpened
<1>1. IssuesAfter /\ PRsAfter /\ NewIssuesMade /\ NewPRsOpened
  BY Artifacts, IssuesKept, PRsKept DEF Basic
<1>2. ask' = ask
  BY ZenonT(30) DEF Next, CallStep, FindPR, FindPRAgain, BlockedIssue, CreateBranch, FindTracking,
     CreateTracking, OpenPR, Merge, FindSuperseded, CloseSuperseded, FindIssue, CreateIssue,
     ReadBody, WriteBody, RequestFails, RequestLost, RequestResent, CutOff, GreenLists,
     GreenCloses, Upgrade, People, Created, vars
<1>3. branches \subseteq branches'
  BY ZenonT(30) DEF Next, CallStep, FindPR, FindPRAgain, BlockedIssue, CreateBranch, FindTracking,
     CreateTracking, OpenPR, Merge, FindSuperseded, CloseSuperseded, FindIssue, CreateIssue,
     ReadBody, WriteBody, RequestFails, RequestLost, RequestResent, CutOff, GreenLists,
     GreenCloses, Upgrade, People, Created, vars
<1>4. met \subseteq met'
  BY ZenonT(30) DEF Next, CallStep, FindPR, FindPRAgain, BlockedIssue, CreateBranch, FindTracking,
     CreateTracking, OpenPR, Merge, FindSuperseded, CloseSuperseded, FindIssue, CreateIssue,
     ReadBody, WriteBody, RequestFails, RequestLost, RequestResent, CutOff, GreenLists,
     GreenCloses, Upgrade, People, Begins, Quiet, vars
<1> QED BY <1>1, <1>2, <1>3, <1>4 DEF Grown

(* What the type invariant and CallInv say of one call. *)
Good(c) ==
  /\ CallInv(c)
  /\ call[c].pr \in {0} \cup DOMAIN prs
  /\ call[c].issue \in {0} \cup DOMAIN issues
  /\ call[c].todo \subseteq DOMAIN issues

(* They hold of a call that nothing was done with, *)
LEMMA Unmoved ==
  ASSUME Basic, Grown, NEW c \in Calls, call'[c] = call[c]
  PROVE  Good(c)'
<1>1. Good(c)
  BY DEF Basic, TypeOK, Good
<1>2. CallInv(c)'
  <2>1. Fresh(c)' /\ Held(c)'
    BY <1>1 DEF Good, CallInv, Fresh, Held, At, Kind, Grown
  <2>2. OwnRun(c)'
    BY <1>1 DEF Good, CallInv, OwnRun, Run, Grown, PRsAfter, SamePR
  <2>3. OwnIssues(c)'
    BY <1>1 DEF Good, CallInv, OwnIssues, At, Run, Grown, IssuesAfter, IssuesStay, SameIssue
  <2>4. Tried(c)'
    BY <1>1 DEF Good, CallInv, Tried, At, Branch, Run, Grown
  <2> QED BY <2>1, <2>2, <2>3, <2>4 DEF CallInv
<1>3. /\ call'[c].pr \in {0} \cup DOMAIN prs'
      /\ call'[c].issue \in {0} \cup DOMAIN issues'
      /\ call'[c].todo \subseteq DOMAIN issues'
  BY <1>1 DEF Good, Grown, PRsAfter, IssuesAfter, IssuesStay
<1> QED BY <1>2, <1>3 DEF Good

(* and of one that became something sound. *)
Sound(c, pc, n, pr, issue, todo) ==
  /\ pc # "new"
  /\ pc \in {"branch", "refind", "block", "track", "newtrack", "open"} => Kind(c) = "pr"
  /\ pc \in {"create", "link", "linking"} => Kind(c) = "issue"
  /\ pc \in {"reuse", "merge", "supersede", "close"} => pr # 0
  /\ pc \in {"link", "linking"} => issue # 0
  /\ pr # 0 => pr \in DOMAIN prs' /\ prs'[pr].mark[2] = Run(c)
  /\ pc = "close" => \A i \in todo : issues[i].kind = "review" /\ issues[i].run = Run(c)
  /\ pc = "branch" => \A k \in 1..(n - 1) : Branch(c, k) \in branches'
  /\ pc \in {"refind", "track", "newtrack", "open"} => \A k \in 1..n : Branch(c, k) \in branches'
  /\ issue # 0 => issue \in DOMAIN issues'
  /\ todo \subseteq DOMAIN issues

LEMMA Moved ==
  ASSUME Basic, Grown, NEW c \in Calls, NEW pc, NEW n, NEW pr, NEW issue, NEW todo, NEW linked,
         Became(c, pc, n, pr, issue, todo, linked), Sound(c, pc, n, pr, issue, todo)
  PROVE  Good(c)'
<1>1. /\ call'[c].pc = pc /\ call'[c].n = n /\ call'[c].pr = pr /\ call'[c].issue = issue
      /\ call'[c].todo = todo
  BY DEF Became
<1>2. CallInv(c)'
  <2>1. Fresh(c)' /\ Held(c)'
    BY <1>1 DEF Sound, Fresh, Held, At, Kind, Grown
  <2>2. OwnRun(c)'
    BY <1>1 DEF Sound, OwnRun, Run, Grown
  <2>3. OwnIssues(c)'
    BY <1>1 DEF Sound, OwnIssues, At, Run, Grown, IssuesAfter, IssuesStay, SameIssue
  <2>4. Tried(c)'
    BY <1>1 DEF Sound, Tried, At, Branch, Run, Grown
  <2> QED BY <2>1, <2>2, <2>3, <2>4 DEF CallInv
<1>3. /\ call'[c].pr \in {0} \cup DOMAIN prs'
      /\ call'[c].issue \in {0} \cup DOMAIN issues'
      /\ call'[c].todo \subseteq DOMAIN issues'
  BY <1>1 DEF Sound, Grown, IssuesAfter, IssuesStay
<1> QED BY <1>2, <1>3 DEF Good

(* What a call has stays sound, wherever it goes with it. *)
LEMMA Carries ==
  ASSUME Basic, Grown, NEW c \in Calls
  PROVE  /\ call[c].pr # 0 => call[c].pr \in DOMAIN prs' /\ prs'[call[c].pr].mark[2] = Run(c)
         /\ call[c].issue # 0 => call[c].issue \in DOMAIN issues'
         /\ call[c].todo \subseteq DOMAIN issues
         /\ call[c].pc \in {"reuse", "merge", "supersede", "close"} => call[c].pr # 0
         /\ call[c].pc \in {"link", "linking"} => call[c].issue # 0
         /\ call[c].pc = "branch" => \A k \in 1..(call[c].n - 1) : Branch(c, k) \in branches'
         /\ call[c].pc \in {"refind", "track", "newtrack", "open"} =>
              \A k \in 1..call[c].n : Branch(c, k) \in branches'
         /\ call[c].n \in 1..MaxSuffix
<1>1. Good(c)
  BY DEF Basic, TypeOK, Good
<1>2. /\ call[c].pr # 0 => call[c].pr \in DOMAIN prs' /\ prs'[call[c].pr].mark[2] = Run(c)
  BY <1>1 DEF Good, CallInv, OwnRun, Grown, PRsAfter, SamePR
<1>3. /\ call[c].issue # 0 => call[c].issue \in DOMAIN issues'
      /\ call[c].todo \subseteq DOMAIN issues
  BY <1>1 DEF Good, Grown, IssuesAfter, IssuesStay
<1>4. call[c].n \in 1..MaxSuffix
  BY DEF Basic, TypeOK, Call
<1> QED BY <1>1, <1>2, <1>3, <1>4 DEF Good, CallInv, Held, Tried, At, Grown

(* A pull request that a call may take is of its run; *)
LEMMA ReusableIsOfTheRun ==
  ASSUME Basic, NEW c \in Calls, NEW p \in Reusable(c)
  PROVE  p \in DOMAIN prs /\ p \in Nat \ {0} /\ prs[p].mark[2] = Run(c)
<1>1. p \in DOMAIN prs
  BY DEF Reusable, OpenPRs
<1>2. p \in Nat \ {0}
  BY <1>1, LenProperties DEF Basic, TypeOK
<1>3. CASE prs[p].mark = Fingerprint(c)
  BY <1>1, <1>2, <1>3 DEF Fingerprint
<1>4. CASE prs[p].branch = Branch(c, call[c].n)
  <2>1. prs[p].branch[1] = Run(c)
    BY <1>4 DEF Branch
  <2> QED BY <1>1, <1>2, <2>1 DEF Basic, PROnBranch
<1> QED BY <1>3, <1>4 DEF Reusable

-----------------------------------------------------------------------------
(* A step of a call moves no other, and leaves it good: the steps of a     *)
(* plan that is a pull request, *)
Alone(c) == call' \in [Calls -> Call] /\ \A d \in Calls \ {c} : call'[d] = call[d]

Acts(c) == CallStep(c) \/ RequestFails(c) \/ RequestLost(c) \/ RequestResent(c) \/ CutOff(c)

(* Where a call may come to, and from where. *)
Enters(c) ==
  /\ call'[c].linked = call[c].linked
  /\ call'[c].pc # "linking"
  /\ call'[c].pc = "create" => FindIssue(c) /\ Matching(c) = {}
  /\ call'[c].pc \in Opening =>
       \/ At(c, "new") /\ call'[c].pc = "branch" /\ call'[c].n = 1
       \/ /\ At(c, "refind") /\ Reusable(c) = {}
          /\ call'[c].pc = "branch" /\ call'[c].n = call[c].n + 1
       \/ At(c, "branch") /\ call'[c].pc = "refind" /\ call'[c].n = call[c].n
       \/ /\ At(c, "branch") /\ Branch(c, call[c].n) \notin branches
          /\ call'[c].pc \in {"track", "open"}
       \/ call[c].pc \in {"track", "newtrack"} /\ call'[c].pc \in {"newtrack", "open"}

LEMMA FindingKeeps ==
  ASSUME Basic, Grown, NEW c \in Calls, FindPR(c) \/ FindPRAgain(c)
  PROVE  Good(c)' /\ Alone(c) /\ Enters(c)
<1>1. TypeOK /\ CallInv(c)
  BY DEF Basic
<1>2. ASSUME NEW p \in Reusable(c),
             call' = [call EXCEPT ![c].pc = "reuse", ![c].pr = p, ![c].reused = TRUE]
      PROVE  Good(c)' /\ Alone(c) /\ Enters(c)
  <2>1. p \in DOMAIN prs /\ p \in Nat \ {0} /\ prs[p].mark[2] = Run(c)
    BY ReusableIsOfTheRun
  <2>2. Became(c, "reuse", call[c].n, p, call[c].issue, call[c].todo, call[c].linked)
    BY <1>1, <1>2, <2>1, Finds
  <2>3. Sound(c, "reuse", call[c].n, p, call[c].issue, call[c].todo)
    BY <2>1, Carries DEF Sound, Grown, PRsAfter, SamePR
  <2> QED BY <2>2, <2>3, Moved DEF Became, Alone, Enters, Opening
<1>3. ASSUME NEW pc \in {"branch", "block"}, At(c, "new"), Kind(c) = "pr", Goto(c, pc)
      PROVE  Good(c)' /\ Alone(c) /\ Enters(c)
  <2>1. Became(c, pc, call[c].n, call[c].pr, call[c].issue, call[c].todo, call[c].linked)
    BY <1>1, <1>3, Goes DEF Places
  <2>2. call[c].n = 1
    BY <1>1, <1>3 DEF CallInv, Fresh
  <2>3. Sound(c, pc, call[c].n, call[c].pr, call[c].issue, call[c].todo)
    BY <1>3, <2>2, Carries DEF Sound
  <2> QED BY <1>3, <2>1, <2>2, <2>3, Moved DEF Became, Alone, Enters, Opening
<1>4. ASSUME At(c, "refind"), Reusable(c) = {}, call[c].n < MaxSuffix,
             call' = [call EXCEPT ![c].pc = "branch", ![c].n = @ + 1]
      PROVE  Good(c)' /\ Alone(c) /\ Enters(c)
  <2>1. Became(c, "branch", call[c].n + 1, call[c].pr, call[c].issue, call[c].todo,
               call[c].linked)
    BY <1>1, <1>4, Retries
  <2>2. Sound(c, "branch", call[c].n + 1, call[c].pr, call[c].issue, call[c].todo)
    BY <1>1, <1>4, Carries DEF Sound, At, CallInv, Fresh
  <2> QED BY <1>4, <2>1, <2>2, Moved DEF Became, Alone, Enters, Opening
<1>5. ASSUME call' = [call EXCEPT ![c].pc = "failed"]
      PROVE  Good(c)' /\ Alone(c) /\ Enters(c)
  <2>1. Became(c, "failed", call[c].n, call[c].pr, call[c].issue, call[c].todo, call[c].linked)
    BY <1>1, <1>5, Goes DEF Places, Ended, Goto
  <2>2. Sound(c, "failed", call[c].n, call[c].pr, call[c].issue, call[c].todo)
    BY Carries DEF Sound
  <2> QED BY <2>1, <2>2, Moved DEF Became, Alone, Enters, Opening
<1> QED BY <1>2, <1>3, <1>4, <1>5 DEF FindPR, FindPRAgain

(* A call that goes on with what it has. *)
LEMMA Onward ==
  ASSUME Basic, Grown, NEW c \in Calls, NEW pc \in Places, Goto(c, pc),
         \/ pc \in Ended
         \/ pc \in {"refind", "track", "open"} /\ At(c, "branch")
            /\ Branch(c, call[c].n) \in branches'
            /\ (pc = "refind" \/ Branch(c, call[c].n) \notin branches)
         \/ pc \in {"newtrack", "open"} /\ call[c].pc \in {"track", "newtrack"}
         \/ pc = "merge" /\ At(c, "reuse")
         \/ pc = "supersede" /\ At(c, "merge")
         \/ pc = "create" /\ FindIssue(c) /\ Matching(c) = {}
  PROVE  Good(c)' /\ Alone(c) /\ Enters(c)
<1>1. TypeOK /\ CallInv(c)
  BY DEF Basic
<1>2. Became(c, pc, call[c].n, call[c].pr, call[c].issue, call[c].todo, call[c].linked)
  BY <1>1, Goes
<1>3. Sound(c, pc, call[c].n, call[c].pr, call[c].issue, call[c].todo)
  <2>1. pc = "create" \/ pc \notin {"new", "create", "link", "linking", "branch", "close"}
    BY DEF Ended
  <2>2. /\ pc \in {"branch", "refind", "block", "track", "newtrack", "open"} => Kind(c) = "pr"
        /\ pc \in {"reuse", "merge", "supersede", "close"} => call[c].pr # 0
        /\ pc \in {"create", "link", "linking"} => Kind(c) = "issue"
    BY <1>1, Carries DEF At, Ended, CallInv, Fresh, FindIssue
  <2>3. pc \in {"refind", "track", "newtrack", "open"} =>
          \A k \in 1..call[c].n : Branch(c, k) \in branches'
    <3>1. CASE At(c, "branch") /\ Branch(c, call[c].n) \in branches'
      BY <3>1, Carries DEF At
    <3>2. CASE call[c].pc \in {"track", "newtrack"}
      BY <3>2, Carries
    <3> QED BY <3>1, <3>2 DEF Ended
  <2> QED BY <2>1, <2>2, <2>3, Carries DEF Sound
<1>4. Enters(c)
  <2>1. call'[c].pc = pc /\ call'[c].n = call[c].n /\ call'[c].linked = call[c].linked
    BY <1>2 DEF Became
  <2> QED BY <2>1 DEF Enters, Opening, Ended
<1> QED BY <1>2, <1>3, <1>4, Moved DEF Became, Alone

LEMMA PublishingKeeps ==
  ASSUME Basic, Grown, NEW c \in Calls,
         BlockedIssue(c) \/ CreateBranch(c) \/ FindTracking(c) \/ CreateTracking(c) \/ OpenPR(c)
  PROVE  Good(c)' /\ Alone(c) /\ Enters(c)
<1>1. /\ TypeOK /\ CallInv(c) /\ issues \in Seq(Issue) /\ DOMAIN issues = 1..Len(issues)
      /\ Len(issues) \in Nat /\ prs \in Seq(PullRequest) /\ Len(prs) \in Nat
  BY LenProperties DEF Basic, TypeOK
<1>2. ASSUME NEW pc \in Places, NEW i \in Nat \ {0}, i \in DOMAIN issues',
             \/ pc = "done" /\ At(c, "block")
             \/ pc = "open" /\ call[c].pc \in {"track", "newtrack"}
             \/ pc = "merge" /\ At(c, "reuse"),
             call' = [call EXCEPT ![c].pc = pc, ![c].issue = i]
      PROVE  Good(c)' /\ Alone(c) /\ Enters(c)
  <2>1. Became(c, pc, call[c].n, call[c].pr, i, call[c].todo, call[c].linked)
    BY <1>1, <1>2, Files
  <2>2. Sound(c, pc, call[c].n, call[c].pr, i, call[c].todo)
    BY <1>1, <1>2, Carries DEF Sound, CallInv, Fresh, At
  <2> QED BY <1>2, <2>1, <2>2, Moved DEF Became, Alone, Enters, Opening
<1>3. ASSUME NEW kind \in {"review", "blocked", "tracking"},
             issues' = Append(issues, NewIssue(c, kind))
      PROVE  Len(issues) + 1 \in DOMAIN issues' /\ Len(issues) + 1 \in Nat \ {0}
  <2> DEFINE x == NewIssue(c, kind)
  <2>1. x \in Issue
    BY <1>1, NewIssueType
  <2> HIDE DEF x
  <2>2. Append(issues, x) \in Seq(Issue) /\ Len(Append(issues, x)) = Len(issues) + 1
    BY <1>1, <2>1, AppendProperties
  <2>3. DOMAIN Append(issues, x) = 1..(Len(issues) + 1)
    BY <2>2, LenProperties
  <2>4. issues' = Append(issues, x)
    BY <1>3 DEF x
  <2> QED BY <1>1, <2>3, <2>4
<1>4. CASE BlockedIssue(c)
  <2>1. CASE Goto(c, "unavailable")
    BY <2>1, Onward DEF Places, Ended
  <2> QED BY <1>2, <1>3, <1>4, <2>1 DEF BlockedIssue, Places, Ended
<1>5. CASE CreateTracking(c)
  BY <1>2, <1>3, <1>5 DEF CreateTracking, Places, At
<1>6. CASE CreateBranch(c)
  <2> DEFINE pc == IF Branch(c, call[c].n) \in branches THEN "refind"
                   ELSE IF Tracking THEN "track" ELSE "open"
  <2>1. Goto(c, pc) /\ At(c, "branch") /\ Branch(c, call[c].n) \in branches'
    BY <1>6 DEF CreateBranch
  <2>2. /\ pc \in {"refind", "track", "open"}
        /\ pc = "refind" \/ Branch(c, call[c].n) \notin branches
    OBVIOUS
  <2> HIDE DEF pc
  <2>3. pc \in Places
    BY <2>2 DEF Places
  <2> QED BY <2>1, <2>2, <2>3, Onward
<1>7. CASE FindTracking(c)
  <2>1. ASSUME NEW i \in TrackingIssues(c), NEW pc \in {"open", "merge"},
               pc = IF call[c].pc = "reuse" THEN "merge" ELSE "open",
               call' = [call EXCEPT ![c].pc = pc, ![c].issue = i]
        PROVE  Good(c)' /\ Alone(c) /\ Enters(c)
    <3>1. i \in DOMAIN issues /\ i \in Nat \ {0} /\ issues' = issues
      BY <1>1, <1>7 DEF TrackingIssues, OpenIssues, FindTracking
    <3> QED BY <1>2, <1>7, <2>1, <3>1 DEF FindTracking, Places, At
  <2>2. CASE Goto(c, IF At(c, "reuse") THEN "merge" ELSE "newtrack")
    <3>1. CASE At(c, "reuse")
      BY <2>2, <3>1, Onward DEF Places
    <3>2. CASE ~At(c, "reuse")
      BY <1>7, <2>2, <3>2, Onward DEF FindTracking, Places, At
    <3> QED BY <3>1, <3>2
  <2> DEFINE to == IF call[c].pc = "reuse" THEN "merge" ELSE "open"
  <2>3. to \in {"open", "merge"}
    OBVIOUS
  <2>4. ASSUME NEW i \in TrackingIssues(c),
               call' = [call EXCEPT ![c].pc = IF @ = "reuse" THEN "merge" ELSE "open",
                                    ![c].issue = i]
        PROVE  call' = [call EXCEPT ![c].pc = to, ![c].issue = i]
    BY <2>4
  <2> HIDE DEF to
  <2>5. ASSUME NEW i \in TrackingIssues(c),
               call' = [call EXCEPT ![c].pc = to, ![c].issue = i]
        PROVE  Good(c)' /\ Alone(c) /\ Enters(c)
    BY <2>1, <2>3, <2>5 DEF to
  <2> QED BY <1>7, <2>2, <2>4, <2>5 DEF FindTracking
<1>8. CASE OpenPR(c)
  <2> DEFINE x == NewPR(c)
  <2>1. x \in PullRequest /\ x.mark[2] = Run(c)
    BY <1>1, NewPRType DEF NewPR, Fingerprint
  <2> HIDE DEF x
  <2>2. prs' = Append(prs, x) /\ call' = [call EXCEPT ![c].pc = "merge", ![c].pr = Len(prs) + 1]
    BY <1>8 DEF OpenPR, x
  <2>3. prs' \in Seq(PullRequest) /\ Len(prs') = Len(prs) + 1 /\ prs'[Len(prs) + 1] = x
    BY <1>1, <2>1, <2>2, AppendProperties
  <2>4. Len(prs) + 1 \in DOMAIN prs' /\ Len(prs) + 1 \in Nat \ {0}
    BY <1>1, <2>3, LenProperties
  <2>5. Became(c, "merge", call[c].n, Len(prs) + 1, call[c].issue, call[c].todo, call[c].linked)
    BY <1>1, <2>2, <2>4, Opens
  <2>6. Sound(c, "merge", call[c].n, Len(prs) + 1, call[c].issue, call[c].todo)
    BY <2>1, <2>3, <2>4, Carries DEF Sound
  <2> QED BY <2>5, <2>6, Moved DEF Became, Alone, Enters, Opening
<1> QED BY <1>4, <1>5, <1>6, <1>7, <1>8

LEMMA EndingKeeps ==
  ASSUME Basic, Grown, NEW c \in Calls, Merge(c) \/ FindSuperseded(c) \/ CloseSuperseded(c)
  PROVE  Good(c)' /\ Alone(c) /\ Enters(c)
<1>1. TypeOK /\ CallInv(c)
  BY DEF Basic
<1>2. CASE Merge(c)
  <2>1. PICK pc \in {"done", "supersede"} : Goto(c, pc)
    BY <1>2 DEF Merge
  <2> QED BY <1>2, <2>1, Onward DEF Merge, Places, Ended
<1>3. CASE FindSuperseded(c)
  <2> DEFINE t == Superseded(c) \ {call[c].issue}
  <2>1. /\ t \subseteq DOMAIN issues
        /\ \A i \in t : issues[i].kind = "review" /\ issues[i].run = Run(c)
    BY DEF Superseded, OpenIssues
  <2>2. DOMAIN issues \subseteq Nat
    BY <1>1, LenProperties DEF TypeOK
  <2>3. call' = [call EXCEPT ![c].pc = "close", ![c].todo = t] /\ At(c, "supersede")
    BY <1>3 DEF FindSuperseded
  <2> HIDE DEF t
  <2>4. Became(c, "close", call[c].n, call[c].pr, call[c].issue, t, call[c].linked)
    BY <1>1, <2>1, <2>2, <2>3, Lists DEF Places
  <2>5. Sound(c, "close", call[c].n, call[c].pr, call[c].issue, t)
    BY <2>1, <2>3, Carries DEF Sound, At
  <2> QED BY <2>4, <2>5, Moved DEF Became, Alone, Enters, Opening
<1>4. CASE CloseSuperseded(c)
  <2>1. ASSUME NEW i \in call[c].todo, call' = [call EXCEPT ![c].todo = @ \ {i}]
        PROVE  Good(c)' /\ Alone(c) /\ Enters(c)
    <3> DEFINE t == call[c].todo \ {i}
    <3>1. Became(c, call[c].pc, call[c].n, call[c].pr, call[c].issue, t, call[c].linked)
      BY <1>1, <2>1, Closes
    <3>2. Sound(c, call[c].pc, call[c].n, call[c].pr, call[c].issue, t) /\ call[c].pc = "close"
      BY <1>1, <1>4, Carries DEF Sound, CallInv, OwnIssues, CloseSuperseded, At
    <3> QED BY <3>1, <3>2, Moved DEF Became, Alone, Enters, Opening
  <2>2. CASE Goto(c, "done")
    BY <2>2, Onward DEF Places, Ended
  <2> QED BY <1>4, <2>1, <2>2 DEF CloseSuperseded
<1> QED BY <1>2, <1>3, <1>4

(* those of one that is an issue, *)
LEMMA IssueKeeps ==
  ASSUME Basic, Grown, NEW c \in Calls, FindIssue(c) \/ CreateIssue(c)
  PROVE  Good(c)' /\ Alone(c) /\ Enters(c)
<1>1. /\ TypeOK /\ CallInv(c) /\ issues \in Seq(Issue) /\ DOMAIN issues = 1..Len(issues)
      /\ Len(issues) \in Nat /\ links \subseteq DOMAIN issues
      /\ Linked(c) \in BOOLEAN
  BY LenProperties DEF Basic, TypeOK, Request, Linked
<1>2. ASSUME NEW i \in Nat \ {0}, i \in DOMAIN issues', Kind(c) = "issue",
             \/ call' = [call EXCEPT ![c].pc = "link", ![c].issue = i]
             \/ call' = [call EXCEPT ![c].pc = "link", ![c].issue = i, ![c].reused = TRUE]
      PROVE  Good(c)' /\ Alone(c) /\ Enters(c)
  <2>1. Became(c, "link", call[c].n, call[c].pr, i, call[c].todo, call[c].linked)
    BY <1>1, <1>2, Files DEF Places
  <2>2. Sound(c, "link", call[c].n, call[c].pr, i, call[c].todo)
    BY <1>2, Carries DEF Sound
  <2> QED BY <2>1, <2>2, Moved DEF Became, Alone, Enters, Opening
<1>3. CASE FindIssue(c)
  <2>1. ASSUME NEW i \in Matching(c),
               call' = [call EXCEPT ![c].pc = "link", ![c].issue = i, ![c].reused = TRUE]
        PROVE  Good(c)' /\ Alone(c) /\ Enters(c)
    <3>1. i \in DOMAIN issues
      BY DEF Matching, OpenIssues
    <3>2. i \in Nat \ {0}
      BY <1>1, <3>1
    <3>3. issues' = issues /\ Kind(c) = "issue"
      BY <1>3, ZenonT(30) DEF FindIssue
    <3> QED BY <1>2, <2>1, <3>1, <3>2, <3>3
  <2>2. CASE Matching(c) = {} /\ Goto(c, "create")
    BY <1>3, <2>2, Onward DEF FindIssue, Places
  <2> QED BY <1>3, <2>1, <2>2 DEF FindIssue
<1>4. CASE CreateIssue(c)
  <2> DEFINE x == NewIssue(c, "review")
  <2>1. x \in Issue /\ Kind(c) = "issue"
    BY <1>1, <1>4, NewIssueType DEF CallInv, Fresh, CreateIssue, At
  <2> HIDE DEF x
  <2>2. /\ issues' = Append(issues, x)
        /\ call' = [call EXCEPT ![c].pc = "link", ![c].issue = Len(issues) + 1]
    BY <1>4 DEF CreateIssue, x
  <2>3. issues' \in Seq(Issue) /\ Len(issues') = Len(issues) + 1
    BY <1>1, <2>1, <2>2, AppendProperties
  <2>4. Len(issues) + 1 \in DOMAIN issues' /\ Len(issues) + 1 \in Nat \ {0}
    BY <1>1, <2>3, LenProperties
  <2> QED BY <1>2, <2>1, <2>2, <2>4
<1> QED BY <1>3, <1>4

(* which ends with a link, *)
LEMMA BodyKeeps ==
  ASSUME Basic, Grown, NEW c \in Calls, ReadBody(c) \/ WriteBody(c)
  PROVE  /\ Good(c)' /\ Alone(c)
         /\ call'[c].issue = call[c].issue /\ call'[c].pc \in {"linking", "done"}
         /\ call'[c].linked /\ ReadBody(c) =>
              \/ call[c].linked
              \/ Linked(c) /\ Mentioned(call[c].issue) /\ At(c, "done")'
         /\ WriteBody(c) => At(c, "done")'
         /\ At(c, "linking")' =>
              ReadBody(c) /\ Linked(c) /\ call'[c].todo = links /\ call'[c].linked = call[c].linked
<1>1. /\ TypeOK /\ CallInv(c) /\ DOMAIN issues \subseteq Nat
      /\ links \subseteq DOMAIN issues
      /\ Linked(c) \in BOOLEAN
  BY LenProperties DEF Basic, TypeOK, Request, Linked
<1>2. ASSUME NEW x \in BOOLEAN,
             \/ call' = [call EXCEPT ![c].pc = "done", ![c].linked = x]
             \/ call' = [call EXCEPT ![c].pc = "done", ![c].todo = {}, ![c].linked = x]
      PROVE  /\ Good(c)' /\ Alone(c) /\ call'[c].issue = call[c].issue
             /\ call'[c].pc = "done" /\ call'[c].linked = x
  <2>1. PICK t \in SUBSET call[c].todo :
          Became(c, "done", call[c].n, call[c].pr, call[c].issue, t, x)
    BY <1>1, <1>2, Links
  <2>2. Sound(c, "done", call[c].n, call[c].pr, call[c].issue, t)
    BY Carries DEF Sound
  <2> QED BY <2>1, <2>2, Moved DEF Became, Alone
<1>3. CASE ReadBody(c)
  <2>1. CASE Linked(c) /\ ~Mentioned(call[c].issue)
    <3>1. call' = [call EXCEPT ![c].pc = "linking", ![c].todo = links]
      BY <1>3, <2>1 DEF ReadBody
    <3>2. links \in SUBSET Nat
      BY <1>1
    <3>3. Became(c, "linking", call[c].n, call[c].pr, call[c].issue, links, call[c].linked)
      BY <1>1, <3>1, <3>2, Lists DEF Places
    <3>4. Sound(c, "linking", call[c].n, call[c].pr, call[c].issue, links)
      BY <1>1, <1>3, Carries DEF Sound, ReadBody, At, CallInv, Fresh
    <3>5. Good(c)' /\ ~WriteBody(c)
      BY <1>3, <3>3, <3>4, Moved DEF ReadBody, WriteBody, At
    <3> QED BY <1>3, <2>1, <3>3, <3>5 DEF Became, Alone, At
  <2>2. CASE ~(Linked(c) /\ ~Mentioned(call[c].issue))
    <3>1. call' = [call EXCEPT ![c].pc = "done", ![c].linked = Linked(c)]
      BY <1>3, <2>2 DEF ReadBody
    <3> QED BY <1>1, <1>2, <2>2, <3>1 DEF At
  <2> QED BY <2>1, <2>2
<1>4. CASE WriteBody(c)
  <2>1. ~ReadBody(c)
    BY <1>4 DEF ReadBody, WriteBody, At
  <2> QED BY <1>2, <1>4, <2>1 DEF WriteBody, At
<1> QED BY <1>3, <1>4

(* and what a request that fails makes of it. *)
LEMMA TroubleKeeps ==
  ASSUME Basic, Grown, NEW c \in Calls,
         RequestFails(c) \/ RequestLost(c) \/ RequestResent(c) \/ CutOff(c)
  PROVE  Good(c)' /\ Alone(c) /\ Enters(c)
<1>1. /\ TypeOK /\ CallInv(c) /\ issues \in Seq(Issue) /\ DOMAIN issues = 1..Len(issues)
      /\ Len(issues) \in Nat
  BY LenProperties DEF Basic, TypeOK
<1>2. ASSUME NEW pc \in AfterError(c, call[c].pc), Goto(c, pc)
      PROVE  Good(c)' /\ Alone(c) /\ Enters(c)
  <2>1. pc \in Ended \/ (pc = "open" /\ call[c].pc \in {"track", "newtrack"})
    BY AfterErrorIs DEF Ended
  <2>2. pc \in Places
    BY <2>1 DEF Places
  <2> QED BY <1>2, <2>1, <2>2, Onward
<1>3. CASE RequestFails(c)
  <2>1. ASSUME At(c, "close"), NEW i \in call[c].todo, call' = [call EXCEPT ![c].todo = @ \ {i}]
        PROVE  Good(c)' /\ Alone(c) /\ Enters(c)
    <3> DEFINE t == call[c].todo \ {i}
    <3>1. Became(c, call[c].pc, call[c].n, call[c].pr, call[c].issue, t, call[c].linked)
      BY <1>1, <2>1, Closes
    <3>2. Sound(c, call[c].pc, call[c].n, call[c].pr, call[c].issue, t) /\ call[c].pc = "close"
      BY <1>1, <2>1, Carries DEF Sound, CallInv, OwnIssues, At
    <3> QED BY <3>1, <3>2, Moved DEF Became, Alone, Enters, Opening
  <2> QED BY <1>2, <1>3, <2>1 DEF RequestFails
<1>4. CASE RequestLost(c)
  BY <1>2, <1>4 DEF RequestLost
<1>5. CASE CutOff(c)
  BY <1>5, Onward DEF CutOff, Places, Ended
<1>6. CASE RequestResent(c)
  <2>1. CASE At(c, "branch")
    <3>1. Goto(c, "refind") /\ Branch(c, call[c].n) \in branches'
      BY <1>6, <2>1 DEF RequestResent, Created
    <3> QED BY <2>1, <3>1, Onward DEF Places
  <2>2. CASE ~At(c, "branch")
    <3> DEFINE kind == CASE At(c, "newtrack") -> "tracking"
                         [] At(c, "create")   -> "review"
                         [] OTHER             -> "blocked"
               x    == NewIssue(c, kind)
               i    == Len(issues) + 2
               pc   == CASE At(c, "newtrack") -> "open"
                         [] At(c, "create")   -> "link"
                         [] OTHER             -> "done"
    <3>1. issues' = issues \o <<x, x>> /\ call' = [call EXCEPT ![c].issue = i, ![c].pc = pc]
      BY <1>6, <2>2 DEF RequestResent
    <3>2. x \in Issue
      BY <1>1, NewIssueType
    <3> HIDE DEF x, i, kind
    <3>3. \/ pc = "done"
          \/ pc = "open" /\ At(c, "newtrack")
          \/ pc = "link" /\ At(c, "create")
      <4>1. CASE At(c, "newtrack")
        BY <4>1 DEF At
      <4>2. CASE At(c, "create") /\ ~At(c, "newtrack")
        BY <4>2
      <4>3. CASE ~At(c, "create") /\ ~At(c, "newtrack")
        BY <4>3 DEF At
      <4> QED BY <4>1, <4>2, <4>3
    <3> HIDE DEF pc
    <3>4. <<x, x>> \in Seq(Issue) /\ Len(<<x, x>>) = 2
      BY <3>2
    <3>5. issues' \in Seq(Issue) /\ Len(issues') = Len(issues) + 2
      BY <1>1, <3>1, <3>4, ConcatProperties
    <3>6. i \in DOMAIN issues' /\ i \in Nat \ {0}
      BY <1>1, <3>5, LenProperties DEF i
    <3>7. Became(c, pc, call[c].n, call[c].pr, i, call[c].todo, call[c].linked)
      BY <1>1, <3>1, <3>3, <3>6, Files DEF Places, Ended
    <3>8. Sound(c, pc, call[c].n, call[c].pr, i, call[c].todo)
      BY <1>1, <3>3, <3>6, Carries DEF Sound, CallInv, Fresh, At
    <3> QED BY <3>3, <3>7, <3>8, Moved DEF Became, Alone, Enters, Opening, At
  <2> QED BY <2>1, <2>2
<1> QED BY <1>3, <1>4, <1>5, <1>6

(* One call moves at a time, and all stay good. *)
LEMMA CallsStayGood ==
  ASSUME Basic, [Next]_vars
  PROVE  /\ call' \in [Calls -> Call] /\ \A c \in Calls : Good(c)'
         /\ \A c \in Calls : call'[c] # call[c] => Acts(c) /\ Alone(c)
<1>1. Grown
  BY Grows
<1>2. ASSUME NEW c \in Calls, Acts(c), Good(c)' /\ Alone(c)
      PROVE  /\ call' \in [Calls -> Call] /\ \A d \in Calls : Good(d)'
             /\ \A d \in Calls : call'[d] # call[d] => Acts(d) /\ Alone(d)
  BY <1>1, <1>2, Unmoved DEF Alone
<1>3. ASSUME NEW c \in Calls, Acts(c)
      PROVE  Good(c)' /\ Alone(c)
  BY <1>1, <1>3, FindingKeeps, PublishingKeeps, EndingKeeps, IssueKeeps, BodyKeeps,
     TroubleKeeps      DEF Acts, CallStep
<1>4. CASE call' = call
  BY <1>1, <1>4, Unmoved DEF Basic, TypeOK
<1> QED BY <1>2, <1>3, <1>4 DEF Next, Acts, GreenLists, GreenCloses, Upgrade, People, vars

-----------------------------------------------------------------------------
(* Branches and links after a step, *)
LEMMA BranchesAre ==
  ASSUME Basic, [Next]_vars
  PROVE  branches' \subseteq Runs \X (1..MaxSuffix)
<1>1. \A c \in Calls : Branch(c, call[c].n) \in Runs \X (1..MaxSuffix)
  BY DEF Basic, TypeOK, Branch, Run, Request, Call
<1>2. ASSUME NEW c \in Calls, branches' = branches \cup {Branch(c, call[c].n)}
      PROVE  branches' \subseteq Runs \X (1..MaxSuffix)
  BY <1>1, <1>2 DEF Basic, TypeOK
<1>3. CASE branches' = branches
  BY <1>3 DEF Basic, TypeOK
<1> QED BY <1>2, <1>3, ZenonT(30) DEF Next, CallStep, FindPR, FindPRAgain, BlockedIssue, CreateBranch,
     FindTracking, CreateTracking, OpenPR, Merge, FindSuperseded, CloseSuperseded, FindIssue,
     CreateIssue, ReadBody, WriteBody, RequestFails, RequestLost, RequestResent, CutOff,
     GreenLists, GreenCloses, Upgrade, People, Created, vars

LEMMA LinksAre ==
  ASSUME Basic, [Next]_vars
  PROVE  links' \subseteq DOMAIN issues'
<1>1. DOMAIN issues \subseteq DOMAIN issues'
  BY Grows DEF Grown, IssuesAfter, IssuesStay
<1>2. ASSUME NEW c \in Calls, WriteBody(c)
      PROVE  links' \subseteq DOMAIN issues'
  <2>1. call[c].issue # 0 /\ call[c].issue \in {0} \cup DOMAIN issues /\ call[c].todo \subseteq DOMAIN issues
    BY <1>2 DEF Basic, TypeOK, CallInv, Held, WriteBody, At
  <2> QED BY <1>1, <1>2, <2>1 DEF WriteBody, BodyWith
<1>3. CASE links' = links
  BY <1>1, <1>3 DEF Basic, TypeOK
<1> QED BY <1>2, <1>3, ZenonT(30) DEF Next, CallStep, FindPR, FindPRAgain, BlockedIssue, CreateBranch,
     FindTracking, CreateTracking, OpenPR, Merge, FindSuperseded, CloseSuperseded, FindIssue,
     CreateIssue, ReadBody, RequestFails, RequestLost, RequestResent, CutOff,
     GreenLists, GreenCloses, Upgrade, People, vars

(* the lists of the green runs, *)
LEMMA GreensAre ==
  ASSUME Basic, [Next]_vars
  PROVE  /\ green' \in [Greens -> Success]
         /\ \A g \in Greens : \A i \in green'[g].todo :
              i \in DOMAIN issues' /\ issues'[i].kind = "review"
<1>1. \A i \in DOMAIN issues : i \in DOMAIN issues' /\ issues'[i].kind = issues[i].kind
  BY Grows DEF Grown, IssuesAfter, IssuesStay, SameIssue
<1>2. /\ green \in [Greens -> Success] /\ DOMAIN issues \subseteq Nat
      /\ \A g \in Greens : \A i \in green[g].todo : i \in DOMAIN issues /\ issues[i].kind = "review"
  BY LenProperties DEF Basic, TypeOK, GreenIssues
<1>3. ASSUME NEW g \in Greens, NEW t \in SUBSET DOMAIN issues,
             \A i \in t : issues[i].kind = "review",
             \/ green' = [green EXCEPT ![g].pc = "close", ![g].todo = t]
             \/ green' = [green EXCEPT ![g].todo = t]
             \/ green' = [green EXCEPT ![g].pc = "done"]
      PROVE  /\ green' \in [Greens -> Success]
             /\ \A h \in Greens : \A i \in green'[h].todo :
                  i \in DOMAIN issues' /\ issues'[i].kind = "review"
  <2>1. /\ green' \in [Greens -> Success] /\ \A h \in Greens \ {g} : green'[h] = green[h]
        /\ green'[g].todo = t \/ green'[g].todo = green[g].todo
    BY <1>2, <1>3 DEF Success
  <2> QED BY <1>1, <1>2, <1>3, <2>1
<1>4. ASSUME NEW g \in Greens, GreenLists(g)
      PROVE  /\ green' \in [Greens -> Success]
             /\ \A h \in Greens : \A i \in green'[h].todo :
                  i \in DOMAIN issues' /\ issues'[i].kind = "review"
  <2>1. PICK t \in {Green(g), {}} : green' = [green EXCEPT ![g].pc = "close", ![g].todo = t]
    BY <1>4 DEF GreenLists
  <2>2. t \subseteq DOMAIN issues /\ \A i \in t : issues[i].kind = "review"
    BY DEF Green, OpenIssues
  <2> QED BY <1>3, <2>1, <2>2
<1>5. ASSUME NEW g \in Greens, GreenCloses(g)
      PROVE  /\ green' \in [Greens -> Success]
             /\ \A h \in Greens : \A i \in green'[h].todo :
                  i \in DOMAIN issues' /\ issues'[i].kind = "review"
  <2>1. ASSUME NEW i \in green[g].todo, green' = [green EXCEPT ![g].todo = @ \ {i}]
        PROVE  /\ green' \in [Greens -> Success]
               /\ \A h \in Greens : \A j \in green'[h].todo :
                    j \in DOMAIN issues' /\ issues'[j].kind = "review"
    <3> DEFINE t == green[g].todo \ {i}
    <3>1. t \in SUBSET DOMAIN issues /\ \A j \in t : issues[j].kind = "review"
      BY <1>2
    <3>2. green' = [green EXCEPT ![g].todo = t]
      BY <2>1
    <3> HIDE DEF t
    <3> QED BY <1>3, <3>1, <3>2
  <2>2. CASE green' = [green EXCEPT ![g].pc = "done"]
    <3> DEFINE t == green[g].todo
    <3>1. t \in SUBSET DOMAIN issues /\ \A j \in t : issues[j].kind = "review"
      BY <1>2
    <3> HIDE DEF t
    <3> QED BY <1>3, <2>2, <3>1
  <2> QED BY <1>5, <2>1, <2>2 DEF GreenCloses
<1>6. CASE green' = green
  BY <1>1, <1>2, <1>6
<1> QED BY <1>4, <1>5, <1>6, ZenonT(30) DEF Next, CallStep, FindPR, FindPRAgain, BlockedIssue,
     CreateBranch, FindTracking, CreateTracking, OpenPR, Merge, FindSuperseded,
     CloseSuperseded, FindIssue, CreateIssue, ReadBody, WriteBody, RequestFails, RequestLost,
     RequestResent, CutOff, Upgrade, People, Quiet, vars

(* and the counters. *)
LEMMA CountersAre ==
  ASSUME Basic, [Next]_vars
  PROVE  trouble' \in Nat /\ met' \subseteq SUBSET Calls
<1>1. trouble' \in Nat
  <2>1. trouble \in Nat
    BY DEF Basic, TypeOK
  <2>2. ASSUME NEW c \in Calls, CallStep(c)
        PROVE  trouble' = trouble
    BY <2>2, ZenonT(30) DEF CallStep, FindPR, FindPRAgain, BlockedIssue, CreateBranch,
       FindTracking, CreateTracking, OpenPR, Merge, FindSuperseded, CloseSuperseded, FindIssue,
       CreateIssue, ReadBody, WriteBody, Quiet
  <2>3. ASSUME NEW c \in Calls, RequestFails(c) \/ RequestLost(c) \/ RequestResent(c) \/ CutOff(c)
        PROVE  trouble' = trouble + 1
    BY <2>3, ZenonT(30) DEF RequestFails, RequestLost, RequestResent, CutOff, Disturb
  <2>4. ASSUME NEW g \in Greens, GreenLists(g) \/ GreenCloses(g)
        PROVE  trouble' = trouble
    BY <2>4 DEF GreenLists, GreenCloses
  <2>5. CASE Upgrade \/ People \/ UNCHANGED vars
    BY <2>1, <2>5 DEF Upgrade, People, Disturb, vars
  <2> QED BY <2>1, <2>2, <2>3, <2>4, <2>5 DEF Next
<1>2. met' \subseteq SUBSET Calls
  <2>1. ASSUME NEW c \in Calls, Begins(c)
        PROVE  met' \subseteq SUBSET Calls
    BY <2>1 DEF Begins, Basic, TypeOK
  <2>2. ASSUME NEW c \in Calls, met' = met \cup {{c}}
        PROVE  met' \subseteq SUBSET Calls
    BY <2>2 DEF Basic, TypeOK
  <2>3. CASE met' = met
    BY <2>3 DEF Basic, TypeOK
  <2>4. ASSUME NEW c \in Calls, CallStep(c)
        PROVE  met' = met \/ met' = met \cup {{c}} \/ Begins(c)
    BY <2>4, ZenonT(30) DEF CallStep, FindPR, FindPRAgain, BlockedIssue, CreateBranch,
       FindTracking, CreateTracking, OpenPR, Merge, FindSuperseded, CloseSuperseded, FindIssue,
       CreateIssue, ReadBody, WriteBody, Quiet
  <2>5. ASSUME NEW c \in Calls, RequestFails(c) \/ RequestLost(c) \/ RequestResent(c) \/ CutOff(c)
        PROVE  met' = met \/ met' = met \cup {{c}}
    BY <2>5, ZenonT(30) DEF RequestFails, RequestLost, RequestResent, CutOff
  <2>6. ASSUME (\E g \in Greens : GreenLists(g) \/ GreenCloses(g)) \/ Upgrade \/ People
               \/ UNCHANGED vars
        PROVE  met' = met
    BY <2>6, ZenonT(30) DEF GreenLists, GreenCloses, Upgrade, People, vars
  <2> QED BY <2>1, <2>2, <2>3, <2>4, <2>5, <2>6 DEF Next
<1> QED BY <1>1, <1>2

(* Basic is an invariant. *)
LEMMA BasicInit ==
  ASSUME Init
  PROVE  Basic
<1>1. PICK s \in Scenarios : ask = s.asks /\ issues = s.issues /\ branches = s.branches
  BY DEF Init
<1>2. /\ ask \in [Calls -> Request] /\ branches \subseteq Runs \X (1..MaxSuffix)
      /\ issues \in Seq(Issue) /\ SignedIsReview
  BY <1>1, ScenarioAssumption DEF SignedIsReview
<1>3. prs \in Seq(PullRequest) /\ DOMAIN prs = {}
  BY DEF Init
<1>4. call \in [Calls -> Call] /\ green \in [Greens -> Success]
  BY SuffixAssumption DEF Init, Call, Success
<1>5. TypeOK
  BY <1>2, <1>3, <1>4 DEF Init, TypeOK
<1>6. PROnBranch /\ GreenIssues
  BY <1>3 DEF Init, PROnBranch, GreenIssues
<1>7. \A c \in Calls : CallInv(c)
  BY DEF Init, CallInv, Fresh, Held, OwnRun, OwnIssues, Tried, At
<1> QED BY <1>2, <1>5, <1>6, <1>7 DEF Basic

LEMMA BasicStep ==
  ASSUME Basic, [Next]_vars
  PROVE  Basic'
<1>1. Grown /\ NewIssuesMade /\ NewPRsOpened
  BY Grows
<1>2. call' \in [Calls -> Call] /\ \A c \in Calls : Good(c)'
  BY CallsStayGood
<1>3. \A p \in DOMAIN prs' : prs'[p].closes \in {0} \cup DOMAIN issues'
  <2> TAKE p \in DOMAIN prs'
  <2>1. DOMAIN issues \subseteq DOMAIN issues'
    BY <1>1 DEF Grown, IssuesAfter, IssuesStay
  <2>2. CASE p \in DOMAIN prs
    BY <1>1, <2>1, <2>2 DEF Grown, PRsAfter, SamePR, Basic, TypeOK
  <2>3. CASE p \notin DOMAIN prs
    <3>1. PICK c \in Calls : prs'[p] = NewPR(c)
      BY <1>1, <2>3 DEF NewPRsOpened
    <3>2. prs'[p].closes = call[c].issue
      BY <3>1 DEF NewPR
    <3> QED BY <2>1, <3>2 DEF Basic, TypeOK
  <2> QED BY <2>2, <2>3
<1>4. TypeOK'
  <2>1. ask' \in [Calls -> Request] /\ prs' \in Seq(PullRequest) /\ issues' \in Seq(Issue)
    BY <1>1 DEF Grown, PRsAfter, IssuesAfter, Basic, TypeOK
  <2>2. \A c \in Calls : /\ call'[c].pr \in {0} \cup DOMAIN prs'
                         /\ call'[c].issue \in {0} \cup DOMAIN issues'
                         /\ call'[c].todo \subseteq DOMAIN issues'
    BY <1>2 DEF Good
  <2> QED BY <1>2, <1>3, <2>1, <2>2, BranchesAre, LinksAre, GreensAre, CountersAre DEF TypeOK
<1>5. PROnBranch'
  <2> SUFFICES ASSUME NEW p \in DOMAIN prs'
               PROVE  /\ prs'[p].branch[1] = prs'[p].mark[2]
                      /\ \A k \in 1..prs'[p].branch[2] : <<prs'[p].mark[2], k>> \in branches'
    BY DEF PROnBranch
  <2>1. CASE p \in DOMAIN prs
    BY <1>1, <2>1 DEF Grown, PRsAfter, SamePR, Basic, PROnBranch
  <2>2. CASE p \notin DOMAIN prs
    <3>1. PICK c \in Calls : At(c, "open") /\ prs'[p] = NewPR(c)
      BY <1>1, <2>2 DEF NewPRsOpened
    <3>2. prs'[p].branch = <<Run(c), call[c].n>> /\ prs'[p].mark[2] = Run(c)
      BY <3>1 DEF NewPR, Branch, Fingerprint
    <3>3. \A k \in 1..call[c].n : Branch(c, k) \in branches'
      BY <1>1, <3>1, Carries DEF At
    <3> QED BY <3>2, <3>3 DEF Branch
  <2> QED BY <2>1, <2>2
<1>6. SignedIsReview'
  <2> SUFFICES ASSUME NEW i \in DOMAIN issues', issues'[i].signed
               PROVE  issues'[i].kind = "review"
    BY DEF SignedIsReview
  <2>1. CASE i \in DOMAIN issues
    BY <1>1, <2>1 DEF Grown, IssuesAfter, IssuesStay, SameIssue, Basic, SignedIsReview
  <2>2. CASE i \notin DOMAIN issues
    <3>1. PICK c \in Calls, kind \in {"review", "blocked", "tracking"} :
            issues'[i] = NewIssue(c, kind)
      BY <1>1, <2>2 DEF NewIssuesMade
    <3>2. issues'[i].kind = kind
      BY <3>1 DEF NewIssue
    <3>3. issues'[i].signed => kind = "review"
      BY <3>1, SignsReviews
    <3> QED BY <3>2, <3>3
  <2> QED BY <2>1, <2>2
<1>7. GreenIssues'
  BY GreensAre DEF GreenIssues
<1>8. \A c \in Calls : CallInv(c)'
  BY <1>2 DEF Good
<1> QED BY <1>4, <1>5, <1>6, <1>7, <1>8 DEF Basic

-----------------------------------------------------------------------------
(* Why the issues are closed. *)
LEMMA NewIssueIsOpen ==
  ASSUME NewIssuesMade, NEW i \in DOMAIN issues' \ DOMAIN issues
  PROVE  issues'[i].why = "open"
BY DEF NewIssuesMade, NewIssue

LEMMA SupersededStep ==
  ASSUME Basic, SupersededHasPR, [Next]_vars
  PROVE  SupersededHasPR'
<1> SUFFICES ASSUME NEW i \in DOMAIN issues', issues'[i].why = "superseded"
             PROVE  \E p \in DOMAIN prs' : prs'[p].mark[2] = issues'[i].run
  BY DEF SupersededHasPR
<1>1. Grown /\ NewIssuesMade /\ IssueStep
  BY Grows, Artifacts
<1>2. i \in DOMAIN issues /\ issues'[i].run = issues[i].run
  BY <1>1, NewIssueIsOpen DEF Grown, IssuesAfter, IssuesStay, SameIssue
<1>3. \E p \in DOMAIN prs : prs[p].mark[2] = issues[i].run
  <2>1. CASE issues[i].why = "superseded"
    BY <1>2, <2>1 DEF SupersededHasPR
  <2>2. CASE issues[i].why # "superseded"
    <3>1. MayClose(i, "superseded")
      BY <1>1, <1>2, <2>2, WhyChanges DEF Basic
    <3>2. PICK c \in Calls : At(c, "close") /\ i \in call[c].todo
      BY <3>1 DEF MayClose
    <3>3. Good(c)
      BY DEF Basic, TypeOK, Good
    <3> QED BY <3>2, <3>3 DEF Good, CallInv, Held, OwnRun, OwnIssues, At
  <2> QED BY <2>1, <2>2
<1> QED BY <1>1, <1>2, <1>3 DEF Grown, PRsAfter, SamePR

LEMMA TrackingStep ==
  ASSUME Basic, TrackingEndsByMerge, [Next]_vars
  PROVE  TrackingEndsByMerge'
<1> SUFFICES ASSUME NEW i \in DOMAIN issues', issues'[i].kind = "tracking"
             PROVE  /\ issues'[i].why \in {"open", "merge", "human"}
                    /\ issues'[i].why = "merge" =>
                         \E p \in DOMAIN prs' : prs'[p].state = "merged" /\ prs'[p].closes = i
  BY DEF TrackingEndsByMerge
<1>1. Grown /\ NewIssuesMade /\ IssueStep
  BY Grows, Artifacts
<1>2. CASE i \notin DOMAIN issues
  BY <1>1, <1>2, NewIssueIsOpen
<1>3. CASE i \in DOMAIN issues /\ issues'[i].why = issues[i].why
  <2>1. issues[i].kind = "tracking"
    BY <1>1, <1>3 DEF Grown, IssuesAfter, IssuesStay, SameIssue
  <2> QED BY <1>1, <1>3, <2>1 DEF TrackingEndsByMerge, Grown, PRsAfter, SamePR
<1>4. CASE i \in DOMAIN issues /\ issues'[i].why # issues[i].why
  <2>1. issues[i].kind = "tracking" /\ MayClose(i, issues'[i].why)
    BY <1>1, <1>4, WhyChanges DEF Basic, Grown, IssuesAfter, IssuesStay, SameIssue
  <2>2. ~ \E c \in Calls : At(c, "close") /\ i \in call[c].todo
    BY <2>1 DEF Basic, CallInv, OwnIssues
  <2>3. ~ \E g \in Greens : i \in green[g].todo
    BY <2>1 DEF Basic, GreenIssues
  <2>4. ASSUME NEW p \in OpenPRs, prs[p].closes = i, prs' = [prs EXCEPT ![p].state = "merged"]
        PROVE  \E q \in DOMAIN prs' : prs'[q].state = "merged" /\ prs'[q].closes = i
    <3>1. p \in DOMAIN prs /\ prs[p] \in PullRequest /\ DOMAIN prs' = DOMAIN prs
      BY <2>4, LenProperties, ElementOfSeq DEF OpenPRs, Basic, TypeOK
    <3>2. prs'[p].state = "merged" /\ prs'[p].closes = i
      BY <2>4, <3>1 DEF PullRequest
    <3> QED BY <3>1, <3>2
  <2> QED BY <2>1, <2>2, <2>3, <2>4 DEF MayClose
<1> QED BY <1>2, <1>3, <1>4

-----------------------------------------------------------------------------
(* A call that comes to be in flight begins, *)
LEMMA FlightBegins ==
  ASSUME Basic, [Next]_vars, NEW c \in Calls, InFlight(c)', ~InFlight(c)
  PROVE  Begins(c) /\ Alone(c)
<1>1. call'[c] # call[c]
  BY DEF InFlight
<1>2. Acts(c) /\ Alone(c)
  BY <1>1, CallsStayGood
<1>3. call[c].pc \in Ended \cup {"new"}
  BY DEF InFlight
<1>4. CASE FindPR(c) \/ FindIssue(c)
  BY <1>2, <1>4 DEF FindPR, FindIssue
<1>5. ~RequestFails(c) /\ ~CutOff(c)
  BY DEF RequestFails, CutOff
<1>6. ~RequestLost(c) /\ ~RequestResent(c)
  BY <1>3 DEF RequestLost, RequestResent, Ended
<1>7. /\ ~FindPRAgain(c) /\ ~BlockedIssue(c) /\ ~CreateBranch(c) /\ ~FindTracking(c)
      /\ ~CreateTracking(c) /\ ~OpenPR(c) /\ ~Merge(c)
  BY <1>3 DEF FindPRAgain, BlockedIssue, CreateBranch, FindTracking, CreateTracking, OpenPR,
     Merge, At, Ended
<1>8. /\ ~FindSuperseded(c) /\ ~CloseSuperseded(c) /\ ~CreateIssue(c) /\ ~ReadBody(c)
      /\ ~WriteBody(c)
  BY <1>3 DEF FindSuperseded, CloseSuperseded, CreateIssue, ReadBody, WriteBody, At, Ended
<1> QED BY <1>2, <1>4, <1>5, <1>6, <1>7, <1>8 DEF Acts, CallStep

(* and meets those that are. *)
LEMMA SameTargetStays ==
  ASSUME ask' = ask, NEW c, NEW d
  PROVE  SameTarget(c, d)' <=> SameTarget(c, d)
BY DEF SameTarget, Kind, Fingerprint, Signature, Linked, Plan, Run, Lane

LEMMA PairsStep ==
  ASSUME Basic, PairsMet, [Next]_vars
  PROVE  PairsMet'
<1>1. Grown
  BY Grows
<1> SUFFICES ASSUME NEW c \in Calls, NEW d \in Calls, c # d, InFlight(c)', InFlight(d)',
                    SameTarget(c, d)
             PROVE  {c, d} \in met'
  BY <1>1, SameTargetStays DEF PairsMet, Grown
<1>2. CASE InFlight(c) /\ InFlight(d)
  BY <1>1, <1>2 DEF PairsMet, Grown
<1>3. ASSUME NEW x \in Calls, NEW y \in Calls, x # y, InFlight(x)', InFlight(y)', ~InFlight(x),
             SameTarget(x, y)
      PROVE  {x, y} \in met'
  <2>1. Begins(x) /\ Alone(x)
    BY <1>3, FlightBegins
  <2>2. InFlight(y)
    BY <1>3, <2>1 DEF Alone, InFlight
  <2> QED BY <1>3, <2>1, <2>2 DEF Begins
<1>4. SameTarget(d, c) /\ {c, d} = {d, c}
  BY DEF SameTarget
<1> QED BY <1>2, <1>3, <1>4

-----------------------------------------------------------------------------

(* Where a call that moved has come to. *)
LEMMA MoverEnters ==
  ASSUME Basic, [Next]_vars, NEW c \in Calls, call'[c] # call[c]
  PROVE  Alone(c) /\ (Enters(c) \/ ReadBody(c) \/ WriteBody(c))
<1>1. Acts(c) /\ Alone(c)
  BY CallsStayGood
<1>2. Grown
  BY Grows
<1> QED BY <1>1, <1>2, FindingKeeps, PublishingKeeps, EndingKeeps, IssueKeeps, TroubleKeeps
        DEF Acts, CallStep

(* A call that has ended does not move. *)
LEMMA DoneStays ==
  ASSUME Basic, [Next]_vars, NEW c \in Calls, At(c, "done")
  PROVE  call'[c] = call[c]
<1> SUFFICES ASSUME Acts(c)
             PROVE  FALSE
  BY CallsStayGood
<1>1. ~FindPR(c) /\ ~FindIssue(c) /\ ~FindPRAgain(c) /\ ~BlockedIssue(c) /\ ~CreateBranch(c)
  BY DEF FindPR, FindIssue, FindPRAgain, BlockedIssue, CreateBranch, At
<1>2. ~FindTracking(c) /\ ~CreateTracking(c) /\ ~OpenPR(c) /\ ~Merge(c)
  BY DEF FindTracking, CreateTracking, OpenPR, Merge, At
<1>3. /\ ~FindSuperseded(c) /\ ~CloseSuperseded(c) /\ ~CreateIssue(c) /\ ~ReadBody(c)
      /\ ~WriteBody(c)
  BY DEF FindSuperseded, CloseSuperseded, CreateIssue, ReadBody, WriteBody, At
<1>4. ~RequestFails(c) /\ ~RequestLost(c) /\ ~RequestResent(c) /\ ~CutOff(c)
  BY DEF RequestFails, RequestLost, RequestResent, CutOff, InFlight, Ended, At
<1> QED BY <1>1, <1>2, <1>3, <1>4 DEF Acts, CallStep

-----------------------------------------------------------------------------
(* Links: how a call comes to report one, or to write the body. *)
LEMMA Linking ==
  ASSUME Basic, [Next]_vars, NEW c \in Calls, Reports(c)
  PROVE  /\ Reports(c)'
         /\ call'[c].linked /\ call'[c] # call[c] =>
              Kind(c) = "issue" /\ Linked(c) /\ InFlight(c) /\ Stands(call'[c].issue, links')
         /\ At(c, "linking")' /\ call'[c] # call[c] =>
              call'[c].todo = links /\ links' = links /\ ~call'[c].linked
<1>1. Basic /\ CallInv(c) /\ Grown /\ ask' = ask
  BY Grows DEF Basic, Grown
<1>2. CASE call'[c] = call[c]
  BY <1>1, <1>2 DEF Reports, Kind, Linked, At
<1>3. CASE call'[c] # call[c]
  <2>1. ~call[c].linked
    BY <1>3, DoneStays DEF Reports
  <2>2. CASE Enters(c)
    BY <1>3, <2>1, <2>2 DEF Reports, Enters, At
  <2>3. CASE ReadBody(c)
    <3>1. Kind(c) = "issue" /\ InFlight(c) /\ links' = links
      BY <1>1, <2>3 DEF CallInv, Fresh, ReadBody, At, InFlight, Ended
    <3>2. /\ call'[c].linked => Linked(c) /\ Mentioned(call[c].issue) /\ At(c, "done")'
          /\ call'[c].issue = call[c].issue
          /\ At(c, "linking")' => Linked(c) /\ call'[c].todo = links /\ ~call'[c].linked
      BY <1>1, <2>1, <2>3, BodyKeeps
    <3> QED BY <1>1, <3>1, <3>2 DEF Reports, Kind, Linked, Mentioned, Stands
  <2>4. CASE WriteBody(c)
    <3>1. Kind(c) = "issue" /\ InFlight(c) /\ Linked(c)
      BY <1>1, <2>4 DEF CallInv, Fresh, WriteBody, At, InFlight, Ended, Reports
    <3>2. call'[c].issue = call[c].issue /\ At(c, "done")' /\ call[c].issue \in links'
      BY <1>1, <2>4, BodyKeeps DEF WriteBody, BodyWith
    <3> QED BY <1>1, <3>1, <3>2 DEF Reports, Kind, Linked, At, Stands
  <2> QED BY <1>3, <2>2, <2>3, <2>4, MoverEnters
<1> QED BY <1>2, <1>3

(* The body is written by a call at "linking", with what it read of it. *)
LEMMA LinksWritten ==
  ASSUME [Next]_vars
  PROVE  \/ links' = links
         \/ \E c \in Calls : At(c, "linking") /\ links' = call[c].todo \cup {call[c].issue}
<1>1. ASSUME NEW c \in Calls, WriteBody(c)
      PROVE  At(c, "linking") /\ links' = call[c].todo \cup {call[c].issue}
  BY <1>1 DEF WriteBody, BodyWith
<1>2. CASE links' = links
  BY <1>2
<1> QED BY <1>1, <1>2, ZenonT(30) DEF Next, CallStep, FindPR, FindPRAgain, BlockedIssue,
     CreateBranch, FindTracking, CreateTracking, OpenPR, Merge, FindSuperseded,
     CloseSuperseded, FindIssue, CreateIssue, ReadBody, RequestFails, RequestLost,
     RequestResent, CutOff, GreenLists, GreenCloses, Upgrade, People, vars

LEMMA LinkersStep ==
  ASSUME Basic, PairsMet, Linkers, ReportedLinkIsThere, [Next]_vars
  PROVE  Linkers' /\ ReportedLinkIsThere'
<1>1. met \subseteq met' /\ ask' = ask
  BY Grows DEF Grown
<1>2. \A c \in Calls : Reports(c)'
  BY Linking DEF Linkers
<1>3. ASSUME NEW c \in Calls, At(c, "linking")', NEW d \in Calls, call'[d].linked
      PROVE  Stands(call'[d].issue, call'[c].todo) \/ \E m \in met' : d \in m
  <2>1. CASE call'[c] = call[c] /\ call'[d] = call[d]
    BY <1>1, <1>3, <2>1 DEF Linkers, KeepsLinks, At
  <2>2. CASE call'[c] = call[c] /\ call'[d] # call[d]
    <3>1. c # d
      BY <2>2
    <3>2. /\ Kind(c) = "issue" /\ Linked(c) /\ InFlight(c)
          /\ Kind(d) = "issue" /\ Linked(d) /\ InFlight(d)
      BY <1>3, <2>2, Linking DEF Linkers, Reports, Basic, CallInv, Fresh, At, InFlight, Ended
    <3>3. {c, d} \in met
      BY <3>1, <3>2 DEF PairsMet, SameTarget
    <3> QED BY <1>1, <3>3
  <2>3. CASE call'[c] # call[c]
    <3>1. call'[c].todo = links /\ ~call'[c].linked /\ links' = links
      BY <1>3, <2>3, Linking DEF Linkers
    <3>2. d # c
      BY <1>3, <3>1
    <3>3. call'[d] = call[d]
      BY <2>3, <3>2, MoverEnters DEF Alone
    <3> QED BY <1>1, <1>3, <3>1, <3>3 DEF ReportedLinkIsThere, Stands
  <2> QED BY <2>1, <2>2, <2>3
<1>4. ASSUME NEW c \in Calls, call'[c].linked, ~Stands(call'[c].issue, links')
      PROVE  \E m \in met' : c \in m
  <2>1. call'[c] = call[c]
    BY <1>4, Linking DEF Linkers
  <2>2. CASE links' = links
    BY <1>1, <1>4, <2>1, <2>2 DEF ReportedLinkIsThere, Stands
  <2>3. ASSUME NEW d \in Calls, At(d, "linking"), links' = call[d].todo \cup {call[d].issue}
        PROVE  \E m \in met' : c \in m
    BY <1>1, <1>4, <2>1, <2>3 DEF Linkers, KeepsLinks, Stands
  <2> QED BY <2>2, <2>3, LinksWritten
<1>5. ReportedLinkIsThere'
  BY <1>4 DEF ReportedLinkIsThere, Stands
<1> QED BY <1>2, <1>3, <1>5 DEF Linkers, KeepsLinks

-----------------------------------------------------------------------------
(* Issues: two new ones with one signature come from one request. *)
LEMMA TwoNewIssues ==
  ASSUME TypeOK, IssueStep, NEW i \in DOMAIN issues' \ DOMAIN issues,
         NEW j \in DOMAIN issues' \ DOMAIN issues, i # j, issues'[i].signed
  PROVE  \E c \in Calls : {c} \in met' /\ issues'[i] = NewIssue(c, "review")
<1>1. issues' # issues
  OBVIOUS
<1>2. ASSUME NEW c \in Calls, NEW kind \in {"review", "blocked", "tracking"},
             issues' = Append(issues, NewIssue(c, kind))
      PROVE  FALSE
  <2> DEFINE x == NewIssue(c, kind)
  <2>1. x \in Issue /\ issues \in Seq(Issue)
    BY NewIssueType DEF TypeOK
  <2>2. issues' = Append(issues, x)
    BY <1>2
  <2> HIDE DEF x
  <2>3. Append(issues, x) \in Seq(Issue) /\ Len(Append(issues, x)) = Len(issues) + 1
    BY <2>1, AppendProperties
  <2>4. /\ DOMAIN issues = 1..Len(issues) /\ DOMAIN issues' = 1..(Len(issues) + 1)
        /\ Len(issues) \in Nat
    BY <2>1, <2>2, <2>3, LenProperties
  <2> QED BY <2>4
<1>3. ASSUME NEW c \in Calls, NEW kind \in {"review", "blocked", "tracking"},
             issues' = issues \o <<NewIssue(c, kind), NewIssue(c, kind)>>,
             kind = "review" => {c} \in met'
      PROVE  {c} \in met' /\ issues'[i] = NewIssue(c, "review")
  <2> DEFINE x == NewIssue(c, kind)
  <2>1. x \in Issue /\ issues' = issues \o <<x, x>>
    BY <1>3, NewIssueType
  <2> HIDE DEF x
  <2>2. issues'[i] = x
    BY <2>1, TwiceIssue
  <2>3. kind = "review"
    BY <2>2, SignsReviews DEF x
  <2> QED BY <1>3, <2>2, <2>3 DEF x
<1>4. ASSUME NEW k \in DOMAIN issues, NEW why \in {"merge", "superseded", "green", "human"},
             issues' = Close(k, why)
      PROVE  FALSE
  BY <1>4, ClosedIssue
<1>5. ASSUME NEW k \in DOMAIN issues, issues' = [issues EXCEPT ![k].marked = TRUE]
      PROVE  FALSE
  BY <1>5, MarkedIssue
<1> QED BY <1>1, <1>2, <1>3, <1>4, <1>5 DEF IssueStep

(* An issue that is open after a step was open, or its maker, which was    *)
(* about to make it, has moved on.                                         *)
LEMMA OpenOrNew ==
  ASSUME Basic, [Next]_vars, NEW i \in OpenIssues', issues'[i].signed
  PROVE  \/ /\ i \in OpenIssues /\ issues[i].signed
            /\ <<issues[i].plan, issues[i].lane>> = <<issues'[i].plan, issues'[i].lane>>
         \/ /\ i \in DOMAIN issues' \ DOMAIN issues
            /\ \E c \in Calls : /\ At(c, "create") /\ ~At(c, "create")'
                                /\ Signature(c) = <<issues'[i].plan, issues'[i].lane>>
<1>1. Grown /\ NewIssuesMade
  BY Grows
<1>2. CASE i \in DOMAIN issues
  BY <1>1, <1>2 DEF Grown, IssuesAfter, IssuesStay, SameIssue, OpenIssues
<1>3. CASE i \notin DOMAIN issues
  <2>1. i \in DOMAIN issues'
    BY DEF OpenIssues
  <2>2. PICK c \in Calls, kind \in {"review", "blocked", "tracking"} :
          Makes(c, kind) /\ issues'[i] = NewIssue(c, kind)
    BY <1>1, <1>3, <2>1 DEF NewIssuesMade
  <2>3. kind = "review"
    BY <2>2, SignsReviews
  <2>4. At(c, "create") /\ ~At(c, "create")'
    BY <2>2, <2>3 DEF Makes
  <2>5. Signature(c) = <<issues'[i].plan, issues'[i].lane>>
    BY <2>2 DEF NewIssue, Signature
  <2> QED BY <1>3, <2>1, <2>4, <2>5
<1> QED BY <1>2, <1>3

LEMMA SignatureStays ==
  ASSUME ask' = ask, met \subseteq met', NEW sig
  PROVE  /\ \A c : Signature(c)' = Signature(c)
         /\ OverlapOf(sig) => OverlapOf(sig)'
BY DEF Signature, Plan, Lane, OverlapOf

LEMMA TwinsStep ==
  ASSUME Basic, PairsMet, Twins, [Next]_vars
  PROVE  Twins'
<1>1. ask' = ask /\ met \subseteq met'
  BY Grows DEF Grown
<1> SUFFICES ASSUME NEW c \in Calls, At(c, "create")', NEW i \in OpenIssues', issues'[i].signed,
                    <<issues'[i].plan, issues'[i].lane>> = Signature(c)
             PROVE  OverlapOf(Signature(c))
                    \/ OverlapOf(Signature(c))'
  BY <1>1, SignatureStays DEF Twins, NoTwin
<1>2. CASE call'[c] = call[c]
  <2>1. At(c, "create")
    BY <1>2 DEF At
  <2>2. CASE i \in OpenIssues /\ issues[i].signed
             /\ <<issues[i].plan, issues[i].lane>> = Signature(c)
    BY <2>1, <2>2 DEF Twins, NoTwin
  <2>3. ASSUME NEW d \in Calls, At(d, "create"), ~At(d, "create")', Signature(d) = Signature(c)
        PROVE  OverlapOf(Signature(c))
    <3>1. c # d
      BY <2>3
    <3>2. /\ Kind(c) = "issue" /\ InFlight(c)
          /\ Kind(d) = "issue" /\ InFlight(d)
      BY <2>1, <2>3 DEF Basic, CallInv, Fresh, At, InFlight, Ended
    <3>3. {c, d} \in met
      BY <2>3, <3>1, <3>2 DEF PairsMet, SameTarget
    <3> QED BY <2>3, <3>3 DEF OverlapOf
  <2> QED BY <2>2, <2>3, OpenOrNew
<1>3. CASE call'[c] # call[c]
  <2>1. Enters(c)
    BY <1>3, MoverEnters, BodyKeeps, Grows DEF At
  <2>2. FindIssue(c) /\ Matching(c) = {}
    BY <2>1 DEF Enters, At
  <2>3. issues' = issues
    BY <2>2 DEF FindIssue
  <2>4. i \in OpenIssues /\ issues[i].signed /\ issues[i].plan = Plan(c) /\ issues[i].lane = Lane(c)
    BY <2>3 DEF OpenIssues, Signature
  <2>5. issues[i].kind = "review"
    BY <2>4 DEF OpenIssues, Basic, SignedIsReview
  <2> QED BY <2>2, <2>4, <2>5 DEF Matching
<1> QED BY <1>2, <1>3

LEMMA OneIssueStep ==
  ASSUME Basic, Twins, OneIssuePerSignature, [Next]_vars
  PROVE  OneIssuePerSignature'
<1> SUFFICES ASSUME NEW i \in OpenIssues', NEW j \in OpenIssues', issues'[i].signed,
                    issues'[j].signed, i # j, NEW sig, sig = <<issues'[i].plan, issues'[i].lane>>,
                    sig = <<issues'[j].plan, issues'[j].lane>>
             PROVE  OverlapOf(sig)'
  BY DEF OneIssuePerSignature, OverlapOf
<1>1. ask' = ask /\ met \subseteq met' /\ IssueStep
  BY Grows, Artifacts DEF Grown
<1>2. CASE /\ i \in OpenIssues /\ issues[i].signed /\ sig = <<issues[i].plan, issues[i].lane>>
           /\ j \in OpenIssues /\ issues[j].signed /\ sig = <<issues[j].plan, issues[j].lane>>
  BY <1>1, <1>2, SignatureStays DEF OneIssuePerSignature, OverlapOf
<1>3. ASSUME NEW k \in OpenIssues, issues[k].signed, sig = <<issues[k].plan, issues[k].lane>>,
             NEW c \in Calls, At(c, "create"), Signature(c) = sig
      PROVE  OverlapOf(sig)'
  BY <1>1, <1>3, SignatureStays DEF Twins, NoTwin
<1>4. ASSUME i \in DOMAIN issues' \ DOMAIN issues, j \in DOMAIN issues' \ DOMAIN issues
      PROVE  OverlapOf(sig)'
  <2>1. PICK c \in Calls : {c} \in met' /\ issues'[i] = NewIssue(c, "review")
    BY <1>1, <1>4, TwoNewIssues DEF Basic
  <2>2. Signature(c) = sig
    BY <2>1 DEF NewIssue, Signature
  <2>3. Signature(c)' = sig
    BY <1>1, <2>2, SignatureStays
  <2> QED BY <2>1, <2>3 DEF OverlapOf
<1> QED BY <1>2, <1>3, <1>4, OpenOrNew

-----------------------------------------------------------------------------
(* Pull requests: at most one is new. *)
LEMMA OneNewPR ==
  ASSUME TypeOK, PRStep, NEW p \in DOMAIN prs' \ DOMAIN prs, NEW q \in DOMAIN prs' \ DOMAIN prs
  PROVE  p = q
<1>1. prs' # prs
  OBVIOUS
<1>2. ASSUME NEW c \in Calls, prs' = Append(prs, NewPR(c))
      PROVE  p = q
  <2> DEFINE x == NewPR(c)
  <2>1. x \in PullRequest /\ prs \in Seq(PullRequest)
    BY NewPRType DEF TypeOK
  <2>2. prs' = Append(prs, x)
    BY <1>2
  <2> HIDE DEF x
  <2>3. Append(prs, x) \in Seq(PullRequest) /\ Len(Append(prs, x)) = Len(prs) + 1
    BY <2>1, AppendProperties
  <2>4. /\ DOMAIN prs = 1..Len(prs) /\ DOMAIN prs' = 1..(Len(prs) + 1)
        /\ Len(prs) \in Nat
    BY <2>1, <2>2, <2>3, LenProperties
  <2> QED BY <2>4
<1>3. ASSUME NEW r \in OpenPRs,
             \/ prs' = [prs EXCEPT ![r].state = "merged"]
             \/ prs' = [prs EXCEPT ![r].state = "closed"]
             \/ prs' = [prs EXCEPT ![r].touches = FALSE]
      PROVE  FALSE
  BY <1>3, ChangedPR
<1> QED BY <1>1, <1>2, <1>3 DEF PRStep

(* One that is open with its files after a step was, or a call has just    *)
(* opened it.                                                              *)
LEMMA LiveOrNew ==
  ASSUME Basic, [Next]_vars, NEW p \in OpenPRs', prs'[p].touches
  PROVE  \/ /\ p \in OpenPRs /\ prs[p].touches
            /\ prs[p].mark = prs'[p].mark /\ prs[p].branch = prs'[p].branch
         \/ /\ p \in DOMAIN prs' \ DOMAIN prs
            /\ \E c \in Calls : /\ At(c, "open") /\ call'[c].pc \notin Opening
                                /\ Fingerprint(c) = prs'[p].mark
<1>1. Grown /\ NewPRsOpened
  BY Grows
<1>2. CASE p \in DOMAIN prs
  BY <1>1, <1>2 DEF Grown, PRsAfter, SamePR, OpenPRs
<1>3. CASE p \notin DOMAIN prs
  <2>1. p \in DOMAIN prs'
    BY DEF OpenPRs
  <2>2. PICK c \in Calls : At(c, "open") /\ call'[c].pc \notin Opening /\ prs'[p] = NewPR(c)
    BY <1>1, <1>3, <2>1 DEF NewPRsOpened
  <2>3. Fingerprint(c) = prs'[p].mark
    BY <2>2 DEF NewPR
  <2> QED BY <1>3, <2>1, <2>2, <2>3
<1> QED BY <1>2, <1>3

LEMMA FingerprintStays ==
  ASSUME ask' = ask, met \subseteq met', NEW f
  PROVE  /\ \A c : Fingerprint(c)' = Fingerprint(c)
         /\ OverlapFor(f) => OverlapFor(f)'
BY DEF Fingerprint, Plan, Run, OverlapFor

(* A pull request on the branch a call is at is found; one that is on a    *)
(* branch from there on has the branch there.                              *)
LEMMA OnItsBranch ==
  ASSUME Basic, NEW c \in Calls, NEW p \in OpenPRs, prs[p].touches,
         prs[p].mark = Fingerprint(c), call[c].n <= prs[p].branch[2]
  PROVE  /\ Branch(c, call[c].n) \in branches
         /\ Reusable(c) = {} => call[c].n + 1 <= prs[p].branch[2]
<1>1. /\ p \in DOMAIN prs /\ prs[p] \in PullRequest /\ call[c].n \in 1..MaxSuffix
      /\ prs[p].mark[2] = Run(c)
  BY LenProperties, ElementOfSeq DEF OpenPRs, Basic, TypeOK, Call, Fingerprint
<1>2. /\ prs[p].branch[1] = Run(c) /\ prs[p].branch[2] \in 1..MaxSuffix
      /\ prs[p].branch = <<prs[p].branch[1], prs[p].branch[2]>>
      /\ \A k \in 1..prs[p].branch[2] : <<Run(c), k>> \in branches
  BY <1>1 DEF Basic, PROnBranch, PullRequest
<1>3. Branch(c, call[c].n) \in branches
  BY <1>1, <1>2, SuffixAssumption DEF Branch
<1>4. ASSUME prs[p].branch[2] = call[c].n
      PROVE  p \in Reusable(c)
  <2>1. prs[p].branch = Branch(c, call[c].n)
    BY <1>2, <1>4 DEF Branch
  <2> QED BY <2>1 DEF Reusable
<1> QED BY <1>1, <1>2, <1>3, <1>4, SuffixAssumption

LEMMA RivalsStep ==
  ASSUME Basic, PairsMet, Rivals, [Next]_vars
  PROVE  Rivals'
<1>1. ask' = ask /\ met \subseteq met'
  BY Grows DEF Grown
<1> SUFFICES ASSUME NEW c \in Calls, NEW p \in OpenPRs', prs'[p].touches,
                    prs'[p].mark = Fingerprint(c), call'[c].pc \in Opening,
                    ~OverlapFor(Fingerprint(c))
             PROVE  call'[c].pc \in {"branch", "refind"} /\ call'[c].n <= prs'[p].branch[2]
  BY <1>1, FingerprintStays DEF Rivals, NoRival, Opening
<1>2. ASSUME NEW d \in Calls, At(d, "open"), call'[d].pc \notin Opening,
             Fingerprint(d) = Fingerprint(c)
      PROVE  FALSE
  <2>1. c # d /\ call'[d] # call[d]
    BY <1>2 DEF At, Opening
  <2>2. call'[c] = call[c]
    BY <2>1, MoverEnters DEF Alone
  <2>3. /\ Kind(c) = "pr" /\ InFlight(c)
        /\ Kind(d) = "pr" /\ InFlight(d)
    BY <1>2, <2>2 DEF Basic, CallInv, Fresh, At, InFlight, Ended, Opening
  <2>4. {c, d} \in met
    BY <1>2, <2>1, <2>3 DEF PairsMet, SameTarget
  <2> QED BY <1>2, <2>4 DEF OverlapFor
<1>3. /\ p \in OpenPRs /\ prs[p].touches
      /\ prs[p].mark = Fingerprint(c) /\ prs[p].branch = prs'[p].branch
  BY <1>2, LiveOrNew
<1>4. NoRival(c)
  BY DEF Rivals
<1>5. CASE call'[c] = call[c]
  BY <1>3, <1>4, <1>5 DEF NoRival, Opening
<1>6. CASE call'[c] # call[c]
  <2>1. Enters(c)
    BY <1>6, MoverEnters, BodyKeeps, Grows DEF Opening
  <2>2. CASE At(c, "new") /\ call'[c].pc = "branch" /\ call'[c].n = 1
    <3>1. prs[p] \in PullRequest
      BY <1>3, LenProperties, ElementOfSeq DEF OpenPRs, Basic, TypeOK
    <3>2. prs[p].branch[2] \in 1..MaxSuffix
      BY <3>1 DEF PullRequest
    <3> QED BY <1>3, <2>2, <3>2, SuffixAssumption
  <2>3. CASE /\ At(c, "refind") /\ Reusable(c) = {}
             /\ call'[c].pc = "branch" /\ call'[c].n = call[c].n + 1
    BY <1>3, <1>4, <2>3, OnItsBranch DEF NoRival, At
  <2>4. CASE At(c, "branch") /\ call'[c].pc = "refind" /\ call'[c].n = call[c].n
    BY <1>3, <1>4, <2>4 DEF NoRival, At
  <2>5. CASE At(c, "branch") /\ Branch(c, call[c].n) \notin branches
    BY <1>3, <1>4, <2>5, OnItsBranch DEF NoRival, At
  <2>6. CASE call[c].pc \in {"track", "newtrack"}
    BY <1>3, <1>4, <2>6 DEF NoRival
  <2> QED BY <2>1, <2>2, <2>3, <2>4, <2>5, <2>6 DEF Enters
<1> QED BY <1>5, <1>6

LEMMA OnePRStep ==
  ASSUME Basic, Rivals, OnePRPerFingerprint, [Next]_vars
  PROVE  OnePRPerFingerprint'
<1> SUFFICES ASSUME NEW p \in OpenPRs', NEW q \in OpenPRs', p # q, NEW f,
                    prs'[p].mark = f, prs'[q].mark = f, prs'[p].touches, prs'[q].touches
             PROVE  OverlapFor(f)'
  BY DEF OnePRPerFingerprint, OverlapFor
<1>1. ask' = ask /\ met \subseteq met' /\ PRStep
  BY Grows, Artifacts DEF Grown
<1>2. CASE /\ p \in OpenPRs /\ prs[p].touches /\ prs[p].mark = f
           /\ q \in OpenPRs /\ prs[q].touches /\ prs[q].mark = f
  BY <1>1, <1>2, FingerprintStays DEF OnePRPerFingerprint, OverlapFor
<1>3. ASSUME NEW r \in OpenPRs, prs[r].touches, prs[r].mark = f,
             NEW c \in Calls, At(c, "open"), Fingerprint(c) = f
      PROVE  OverlapFor(f)'
  BY <1>1, <1>3, FingerprintStays DEF Rivals, NoRival, At
<1>4. CASE p \in DOMAIN prs' \ DOMAIN prs /\ q \in DOMAIN prs' \ DOMAIN prs
  BY <1>1, <1>4, OneNewPR DEF Basic
<1> QED BY <1>2, <1>3, <1>4, LiveOrNew

-----------------------------------------------------------------------------
LEMMA IInvInit ==
  ASSUME Init
  PROVE  IInv
<1>1. PICK s \in Scenarios : ask = s.asks /\ issues = s.issues /\ branches = s.branches
  BY DEF Init
<1>2. Basic
  BY BasicInit
<1>3. /\ \A c \in Calls : At(c, "new") /\ ~call[c].linked
      /\ OpenPRs = {}
  BY DEF Init, OpenPRs, At
<1>4. PairsMet
  BY <1>3 DEF PairsMet, InFlight, At
<1>5. Rivals /\ OnePRPerFingerprint
  BY <1>3 DEF Rivals, NoRival, OnePRPerFingerprint
<1>6. Twins /\ Linkers /\ ReportedLinkIsThere
  BY <1>3 DEF Twins, NoTwin, Linkers, Reports, KeepsLinks, ReportedLinkIsThere, At
<1>7. OneIssuePerSignature
  <2>1. \A i, j \in DOMAIN issues :
          /\ issues[i].signed /\ issues[j].signed
          /\ issues[i].plan = issues[j].plan
          /\ issues[i].lane = issues[j].lane
          => i = j
    BY <1>1, ScenarioAssumption
  <2> QED BY <2>1 DEF OneIssuePerSignature, OpenIssues
<1>8. SupersededHasPR /\ TrackingEndsByMerge
  <2>1. \A i \in DOMAIN issues : issues[i].why = "open"
    BY <1>1, ScenarioAssumption
  <2> QED BY <2>1 DEF SupersededHasPR, TrackingEndsByMerge
<1> QED BY <1>2, <1>4, <1>5, <1>6, <1>7, <1>8 DEF IInv

LEMMA IInvStep ==
  ASSUME IInv, [Next]_vars
  PROVE  IInv'
BY BasicStep, PairsStep, RivalsStep, OnePRStep, TwinsStep, OneIssueStep, LinkersStep,
   SupersededStep, TrackingStep DEF IInv

(* What is named in a state exists in it: calls, pull requests, lists and  *)
(* the links in a body name issues and pull requests that GitHub has.      *)
THEOREM TypeCorrect == Spec => []TypeOK
<1>1. Init => IInv
  BY IInvInit
<1>2. IInv /\ [Next]_vars => IInv'
  BY IInvStep
<1>3. IInv => TypeOK
  BY DEF IInv, Basic
<1> QED BY <1>1, <1>2, <1>3, PTL DEF Spec

(* Two open pull requests for one plan of one run take two calls that      *)
(* overlapped: a later call finds the first one on the branch it wanted,   *)
(* however many branches others have taken, and whatever was lost.         *)
THEOREM OneRequestPerFingerprint == Spec => []OnePRPerFingerprint
<1>1. Init => IInv
  BY IInvInit
<1>2. IInv /\ [Next]_vars => IInv'
  BY IInvStep
<1>3. IInv => OnePRPerFingerprint
  BY DEF IInv
<1> QED BY <1>1, <1>2, <1>3, PTL DEF Spec

(* Two open review issues with one signature take calls that overlapped,   *)
(* or a request that was sent twice.                                       *)
THEOREM OneIssueForSignature == Spec => []OneIssuePerSignature
<1>1. Init => IInv
  BY IInvInit
<1>2. IInv /\ [Next]_vars => IInv'
  BY IInvStep
<1>3. IInv => OneIssuePerSignature
  BY DEF IInv
<1> QED BY <1>1, <1>2, <1>3, PTL DEF Spec

(* A link that was reported is missing only after an overlap, since the    *)
(* body is written back as it was read and only who read before may take   *)
(* it out, or when one to an issue whose number begins the same was taken  *)
(* for it: that one stays in the body by the same argument.                *)
THEOREM LinkReportedIsThere == Spec => []ReportedLinkIsThere
<1>1. Init => IInv
  BY IInvInit
<1>2. IInv /\ [Next]_vars => IInv'
  BY IInvStep
<1>3. IInv => ReportedLinkIsThere
  BY DEF IInv
<1> QED BY <1>1, <1>2, <1>3, PTL DEF Spec

(* A pull request that a call reports is of the run it was asked about,    *)
(* since a call takes only what is on a branch of its run, which is where  *)
(* only calls for that run put theirs, or carries its fingerprint.         *)
THEOREM ReportedPROfRun == Spec => []ReportedPRIsOfTheRun
<1>1. Init => IInv
  BY IInvInit
<1>2. IInv /\ [Next]_vars => IInv'
  BY IInvStep
<1>3. IInv => ReportedPRIsOfTheRun
  BY DEF IInv, Basic, CallInv, OwnRun, ReportedPRIsOfTheRun
<1> QED BY <1>1, <1>2, <1>3, PTL DEF Spec

(* A review issue is closed as superseded only when its run has a pull     *)
(* request: a call lists issues of its own run, after it has opened one.   *)
THEOREM SupersededByPR == Spec => []SupersededHasPR
<1>1. Init => IInv
  BY IInvInit
<1>2. IInv /\ [Next]_vars => IInv'
  BY IInvStep
<1>3. IInv => SupersededHasPR
  BY DEF IInv
<1> QED BY <1>1, <1>2, <1>3, PTL DEF Spec

(* A tracking issue is closed only by the merge of the pull request that   *)
(* names it, or by people: what calls and green runs list is review issues.*)
THEOREM TrackingClosedByMerge == Spec => []TrackingEndsByMerge
<1>1. Init => IInv
  BY IInvInit
<1>2. IInv /\ [Next]_vars => IInv'
  BY IInvStep
<1>3. IInv => TrackingEndsByMerge
  BY DEF IInv
<1> QED BY <1>1, <1>2, <1>3, PTL DEF Spec

=============================================================================
