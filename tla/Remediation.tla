---------------------------- MODULE Remediation ----------------------------
(***************************************************************************)
(* What the remediation agent leaves on GitHub.  A call publishes the plan *)
(* of one failed run as a pull request or as a review issue: it looks for  *)
(* what an earlier call left, and creates what it does not find, one       *)
(* request at a time.  Next to the calls run the handler of a successful   *)
(* run, which closes review issues, an operator's upgrade of issues that   *)
(* carry no lane markers yet, and the people of the repository.            *)
(*                                                                         *)
(* What a body says is reduced to its markers: the plan and the run make   *)
(* the fingerprint, the plan and the lane (workflow, branch, repository)   *)
(* the signature.  A request may raise without or after it was applied,    *)
(* and the HTTP client may send one again that was applied.  Whether a     *)
(* pull request gets merged is up to AutoMerge; here it may.               *)
(***************************************************************************)
EXTENDS Naturals, Sequences, FiniteSets

CONSTANTS
  Plans, Runs, Lanes, \* plans, failed runs, and their workflows and branches
  Calls,        \* calls of the agent
  Scenarios,    \* what the calls are asked to publish, and the issues and
                \* branches there are
  Greens,       \* successful runs
  GreenLane(_), \* the workflow and branch of one
  Tracking,     \* auto_create_tracking_issue_for_prs and auto_create_issue
  StartsAs(_, _), \* whether the number of an issue begins another's, as 12 does 123
  MaxSuffix,    \* branch names tried
  MaxBusy,      \* calls in flight at a time
  MaxTrouble    \* requests that raise or are sent twice, calls cut off, and
                \* things people close or rewrite

ASSUME SuffixAssumption == MaxSuffix \in Nat \ {0}

Request == [kind : {"pr", "issue"}, plan : Plans, run : Runs, lane : Lanes,
            linked : BOOLEAN]

PullRequest == [mark : Plans \X Runs, branch : Runs \X (1..MaxSuffix),
                state : {"open", "merged", "closed"}, touches : BOOLEAN, closes : Nat]

Issue == [kind : {"review", "blocked", "tracking"}, plan : Plans, run : Runs, lane : Lanes,
          marked : BOOLEAN, signed : BOOLEAN, titled : BOOLEAN,
          why : {"open", "merge", "superseded", "green", "human"}]

(* At first the issues are open, and no two have one signature.  A title   *)
(* with "auto-fix tracking" in it is what people, or an earlier version,   *)
(* gave a tracking issue.                                                  *)
ASSUME ScenarioAssumption ==
  \A s \in Scenarios :
    /\ s.asks \in [Calls -> Request]
    /\ s.branches \subseteq Runs \X (1..MaxSuffix)
    /\ s.issues \in Seq(Issue)
    /\ \A i \in DOMAIN s.issues :
         /\ s.issues[i].why = "open"
         /\ s.issues[i].signed => s.issues[i].kind = "review"
         /\ s.issues[i].titled => s.issues[i].kind = "tracking"
    /\ \A i, j \in DOMAIN s.issues :
         /\ s.issues[i].signed /\ s.issues[j].signed
         /\ s.issues[i].plan = s.issues[j].plan
         /\ s.issues[i].lane = s.issues[j].lane
         => i = j

VARIABLES
  ask,        \* ask[c]: kind of artifact, plan, failed run, its lane (workflow
              \* and branch), and whether somebody's pull request is linked
  branches,   \* branches by run and suffix
  prs,        \* pull requests of the agent, in order of creation
  issues,     \* issues of the agent, in order of creation
  links,      \* issues the body of somebody's pull request says it closes
  call,       \* call[c]: where a call is, and what it has found
  green,      \* green[g]: where the handler of a successful run is
  trouble,
  met         \* history: the pairs of calls with one target that overlapped, and
              \* the calls whose request was applied twice

vars == <<ask, branches, prs, issues, links, call, green, trouble, met>>

-----------------------------------------------------------------------------
Kind(c)   == ask[c].kind
Plan(c)   == ask[c].plan
Run(c)    == ask[c].run
Lane(c)   == ask[c].lane
Linked(c) == ask[c].linked

Fingerprint(c) == <<Plan(c), Run(c)>>
Signature(c)   == <<Plan(c), Lane(c)>>

Branch(c, n) == <<Run(c), n>>

Ended == {"done", "failed", "unavailable", "gone"}

InFlight(c) == call[c].pc \notin Ended \cup {"new"}

(* Calls that may work on one artifact: a pull request is known by its     *)
(* fingerprint, an issue by its signature, and all links are in one body.  *)
SameTarget(c, d) ==
  /\ Kind(c) = Kind(d)
  /\ \/ Fingerprint(c) = Fingerprint(d)
     \/ Kind(c) = "issue" /\ Signature(c) = Signature(d)
     \/ Kind(c) = "issue" /\ Linked(c) /\ Linked(d)

NewPR(c) ==
  [mark |-> Fingerprint(c), branch |-> Branch(c, call[c].n), state |-> "open",
   touches |-> TRUE, closes |-> call[c].issue]

NewIssue(c, kind) ==
  [kind |-> kind, plan |-> Plan(c), run |-> Run(c), lane |-> Lane(c),
   marked |-> kind = "review", signed |-> kind = "review", titled |-> FALSE, why |-> "open"]

OpenPRs    == {p \in DOMAIN prs : prs[p].state = "open"}
OpenIssues == {i \in DOMAIN issues : issues[i].why = "open"}

ReusableUnmarked(c) ==     \* slip: whatever is open and changes the files
  LET onBranch == {p \in OpenPRs : prs[p].branch = Branch(c, call[c].n)}
      listed   == IF onBranch # {} THEN onBranch ELSE OpenPRs
  IN {p \in listed : prs[p].touches}

ReusableOnBranch(c) ==     \* slip: only what is on the first branch
  {p \in OpenPRs : prs[p].branch = Branch(c, 1) /\ prs[p].touches}

(* The pull requests a call may take for its own: on the branch or, when   *)
(* the branch has none, any that carries the fingerprint; and only one     *)
(* that still changes a file of the plan.                                  *)
Reusable(c) ==
  LET onBranch == {p \in OpenPRs : prs[p].branch = Branch(c, call[c].n)}
      listed   == IF onBranch # {} THEN onBranch ELSE OpenPRs
  IN {p \in listed : /\ p \in onBranch \/ prs[p].mark = Fingerprint(c)
                     /\ prs[p].touches}

(* The agent titles its tracking issues "[PipelineHealer] Auto-fix: ...",  *)
(* and looks for "auto-fix tracking" in the title of those it may reuse.   *)
TrackingIssues(c) ==
  {i \in OpenIssues : /\ issues[i].titled
                      /\ <<issues[i].plan, issues[i].run>> = Fingerprint(c)}

MatchingOfRun(c) ==        \* slip: the signature is not looked at
  {i \in OpenIssues : /\ issues[i].kind = "review"
                      /\ issues[i].plan = Plan(c)
                      /\ issues[i].run = Run(c)}

(* By fingerprint, by signature, or by run, kind and title. *)
Matching(c) ==
  {i \in OpenIssues :
     /\ issues[i].kind = "review"
     /\ issues[i].plan = Plan(c)
     /\ \/ issues[i].run = Run(c)
        \/ issues[i].signed /\ issues[i].lane = Lane(c)}

SupersededOfLane(c) ==     \* slip: of other runs too
  {i \in OpenIssues : issues[i].kind = "review" /\ issues[i].lane = Lane(c)}

SupersededAny(c) ==        \* slip: whatever has not the title of a tracking issue
  {i \in OpenIssues : ~issues[i].titled /\ issues[i].run = Run(c)}

(* Review issues a pull request makes superfluous.  The signature of a     *)
(* pull request's plan is that of no issue, since it has the action in it. *)
Superseded(c) ==
  {i \in OpenIssues : /\ ~issues[i].titled
                      /\ issues[i].kind = "review"
                      /\ issues[i].run = Run(c)}

Green(g) ==
  {i \in OpenIssues : /\ ~issues[i].titled
                      /\ issues[i].kind = "review"
                      /\ issues[i].marked
                      /\ issues[i].lane = GreenLane(g)}

Call == [pc : {"new", "branch", "refind", "block", "reuse", "track", "newtrack", "open",
               "merge", "supersede", "close", "create", "link", "linking"} \cup Ended,
         n : 1..MaxSuffix, pr : Nat, issue : Nat, todo : SUBSET Nat,
         reused : BOOLEAN, linked : BOOLEAN]

Success == [pc : {"new", "close", "done"}, todo : SUBSET Nat]

(* What is named exists. *)
TypeOK ==
  /\ ask \in [Calls -> Request]
  /\ branches \subseteq Runs \X (1..MaxSuffix)
  /\ prs \in Seq(PullRequest) /\ issues \in Seq(Issue)
  /\ \A p \in DOMAIN prs : prs[p].closes \in {0} \cup DOMAIN issues
  /\ links \subseteq DOMAIN issues
  /\ call \in [Calls -> Call] /\ green \in [Greens -> Success]
  /\ \A c \in Calls : /\ call[c].pr \in {0} \cup DOMAIN prs
                      /\ call[c].issue \in {0} \cup DOMAIN issues
                      /\ call[c].todo \subseteq DOMAIN issues
  /\ \A g \in Greens : green[g].todo \subseteq DOMAIN issues
  /\ trouble \in Nat /\ met \subseteq SUBSET Calls

Init ==
  /\ \E s \in Scenarios : ask = s.asks /\ issues = s.issues /\ branches = s.branches
  /\ prs = <<>>
  /\ links = {}
  /\ call = [c \in Calls |-> [pc |-> "new", n |-> 1, pr |-> 0, issue |-> 0,
                              todo |-> {}, reused |-> FALSE, linked |-> FALSE]]
  /\ green = [g \in Greens |-> [pc |-> "new", todo |-> {}]]
  /\ trouble = 0
  /\ met = {}

-----------------------------------------------------------------------------
At(c, pc) == call[c].pc = pc
Goto(c, pc) == call' = [call EXCEPT ![c].pc = pc]

(* Closing an issue, for a reason. *)
Close(i, why) == [issues EXCEPT ![i].why = IF @ = "open" THEN why ELSE @]

Quiet == UNCHANGED <<green, trouble, met>>

(* The first request of a call begins it. *)
Begins(c) ==
  /\ Cardinality({d \in Calls : InFlight(d)}) < MaxBusy
  /\ met' = met \cup {{c, d} : d \in {e \in Calls : InFlight(e) /\ SameTarget(c, e)}}

(* Look for a pull request, and when there is one for its tracking issue;  *)
(* without one, the files of the plan are read and rendered, and may turn  *)
(* out not to be there or as expected.                                     *)
FindPR(c) ==
  /\ At(c, "new") /\ Kind(c) = "pr" /\ Begins(c)
  /\ \/ \E p \in Reusable(c) :
          call' = [call EXCEPT ![c].pc = "reuse", ![c].pr = p, ![c].reused = TRUE]
     \/ Reusable(c) = {} /\ \E pc \in {"branch", "block"} : Goto(c, pc)
  /\ UNCHANGED <<ask, branches, prs, issues, links, green, trouble>>

(* The branch is taken: by a call that has a pull request on it, or not. *)
FindPRAgain(c) ==
  /\ At(c, "refind")
  /\ \/ \E p \in Reusable(c) :
          call' = [call EXCEPT ![c].pc = "reuse", ![c].pr = p, ![c].reused = TRUE]
     \/ /\ Reusable(c) = {}
        /\ call' = IF call[c].n < MaxSuffix
                     THEN [call EXCEPT ![c].pc = "branch", ![c].n = @ + 1]
                     ELSE [call EXCEPT ![c].pc = "failed"]
  /\ UNCHANGED <<ask, branches, prs, issues, links>> /\ Quiet

(* An issue in place of the pull request, unless auto_create_issue is off. *)
(* Nothing looks for an older one.                                         *)
BlockedIssue(c) ==
  /\ At(c, "block")
  /\ \/ /\ issues' = Append(issues, NewIssue(c, "blocked"))
        /\ call' = [call EXCEPT ![c].pc = "done", ![c].issue = Len(issues) + 1]
     \/ Goto(c, "unavailable") /\ UNCHANGED issues
  /\ UNCHANGED <<ask, branches, prs, links>> /\ Quiet

(* A new branch gets the commits at once; one that fails is RequestLost. *)
CreateBranch(c) ==
  /\ At(c, "branch")
  /\ branches' = branches \cup {Branch(c, call[c].n)}
  /\ Goto(c, IF Branch(c, call[c].n) \in branches THEN "refind"
             ELSE IF Tracking THEN "track" ELSE "open")
  /\ UNCHANGED <<ask, prs, issues, links>> /\ Quiet

FindTracking(c) ==
  /\ call[c].pc \in {"track", "reuse"}
  /\ \/ \E i \in TrackingIssues(c) :
          call' = [call EXCEPT ![c].pc = IF @ = "reuse" THEN "merge" ELSE "open",
                               ![c].issue = i]
     \/ /\ TrackingIssues(c) = {}
        /\ Goto(c, IF At(c, "reuse") THEN "merge" ELSE "newtrack")
  /\ UNCHANGED <<ask, branches, prs, issues, links>> /\ Quiet

CreateTracking(c) ==
  /\ At(c, "newtrack")
  /\ issues' = Append(issues, NewIssue(c, "tracking"))
  /\ call' = [call EXCEPT ![c].pc = "open", ![c].issue = Len(issues) + 1]
  /\ UNCHANGED <<ask, branches, prs, links>> /\ Quiet

OpenPR(c) ==
  /\ At(c, "open")
  /\ prs' = Append(prs, NewPR(c))
  /\ call' = [call EXCEPT ![c].pc = "merge", ![c].pr = Len(prs) + 1]
  /\ UNCHANGED <<ask, branches, issues, links>> /\ Quiet

(* GitHub closes the issue a merged pull request names. *)
Merged(p) ==
  /\ prs' = [prs EXCEPT ![p].state = "merged"]
  /\ issues' = IF prs[p].closes = 0 THEN issues ELSE Close(prs[p].closes, "merge")

(* AutoMerge: by now the pull request may be merged. *)
Merge(c) ==
  /\ At(c, "merge")
  /\ \/ prs[call[c].pr].state = "open" /\ Merged(call[c].pr)
     \/ UNCHANGED <<prs, issues>>
  /\ Goto(c, IF call[c].reused THEN "done" ELSE "supersede")
  /\ UNCHANGED <<ask, branches, links>> /\ Quiet

FindSuperseded(c) ==
  /\ At(c, "supersede")
  /\ call' = [call EXCEPT ![c].pc = "close", ![c].todo = Superseded(c) \ {call[c].issue}]
  /\ UNCHANGED <<ask, branches, prs, issues, links>> /\ Quiet

CloseSuperseded(c) ==
  /\ At(c, "close")
  /\ \/ \E i \in call[c].todo : /\ issues' = Close(i, "superseded")
                                /\ call' = [call EXCEPT ![c].todo = @ \ {i}]
     \/ call[c].todo = {} /\ Goto(c, "done") /\ UNCHANGED issues
  /\ UNCHANGED <<ask, branches, prs, links>> /\ Quiet

-----------------------------------------------------------------------------
FindIssue(c) ==
  /\ At(c, "new") /\ Kind(c) = "issue" /\ Begins(c)
  /\ \/ \E i \in Matching(c) :
          call' = [call EXCEPT ![c].pc = "link", ![c].issue = i, ![c].reused = TRUE]
     \/ Matching(c) = {} /\ Goto(c, "create")
  /\ UNCHANGED <<ask, branches, prs, issues, links, green, trouble>>

CreateIssue(c) ==
  /\ At(c, "create")
  /\ issues' = Append(issues, NewIssue(c, "review"))
  /\ call' = [call EXCEPT ![c].pc = "link", ![c].issue = Len(issues) + 1]
  /\ UNCHANGED <<ask, branches, prs, links>> /\ Quiet

(* "Closes #12" is in a body that has "Closes #123". *)
Mentioned(i) == \E j \in links : j = i \/ StartsAs(i, j)

(* The body of somebody's pull request is read, extended and written. *)
ReadBody(c) ==
  /\ At(c, "link")
  /\ call' = IF Linked(c) /\ ~Mentioned(call[c].issue)
               THEN [call EXCEPT ![c].pc = "linking", ![c].todo = links]
               ELSE [call EXCEPT ![c].pc = "done", ![c].linked = Linked(c)]
  /\ UNCHANGED <<ask, branches, prs, issues, links>> /\ Quiet

BodyOnly(c) == {call[c].issue}     \* slip: what was read is not kept

BodyWith(c) == call[c].todo \cup {call[c].issue}

WriteBody(c) ==
  /\ At(c, "linking")
  /\ links' = BodyWith(c)
  /\ call' = [call EXCEPT ![c].pc = "done", ![c].todo = {}, ![c].linked = TRUE]
  /\ UNCHANGED <<ask, branches, prs, issues>> /\ Quiet

-----------------------------------------------------------------------------
(* A request raises and was not applied.  What the tracking issue of a new *)
(* pull request, the closing and the linking raise is logged; the rest     *)
(* ends the call, as a failure or, when GitHub says that the repository    *)
(* takes none of these, as a remediation that had nowhere to go.           *)
AfterError(c, pc) ==
  IF pc \in {"track", "newtrack"} THEN {"open"}
  ELSE IF pc \in {"link", "linking"} THEN {"done"}
  ELSE {"failed", "unavailable"}

Disturb == trouble < MaxTrouble /\ trouble' = trouble + 1

RequestFails(c) ==
  /\ Disturb
  /\ InFlight(c) /\ ~At(c, "merge")
  /\ IF At(c, "close")
       THEN \E i \in call[c].todo : call' = [call EXCEPT ![c].todo = @ \ {i}]
       ELSE \E pc \in AfterError(c, call[c].pc) : Goto(c, pc)
  /\ UNCHANGED <<ask, branches, prs, issues, links, green, met>>

(* A request that creates something is applied and raises, *)
Created(c) ==
  /\ branches' = IF At(c, "branch") THEN branches \cup {Branch(c, call[c].n)} ELSE branches
  /\ prs' = IF At(c, "open") THEN Append(prs, NewPR(c)) ELSE prs
  /\ issues' = CASE At(c, "newtrack") -> Append(issues, NewIssue(c, "tracking"))
                 [] At(c, "create")   -> Append(issues, NewIssue(c, "review"))
                 [] At(c, "block")    -> Append(issues, NewIssue(c, "blocked"))
                 [] OTHER             -> issues

RequestLost(c) ==
  /\ Disturb
  /\ call[c].pc \in {"branch", "open", "newtrack", "create", "block"}
  /\ Created(c)
  /\ \E pc \in AfterError(c, call[c].pc) : Goto(c, pc)
  /\ UNCHANGED <<ask, links, green, met>>

(* or is sent again by the client: a branch that exists is taken for       *)
(* another call's, and an issue is there twice.  (A second pull request on *)
(* the branch is refused, which is RequestLost.)                           *)
RequestResent(c) ==
  /\ Disturb
  /\ call[c].pc \in {"branch", "newtrack", "create", "block"}
  /\ IF At(c, "branch")
       THEN Created(c) /\ Goto(c, "refind")
       ELSE LET kind == CASE At(c, "newtrack") -> "tracking"
                          [] At(c, "create")   -> "review"
                          [] OTHER             -> "blocked"
            IN /\ issues' = issues \o <<NewIssue(c, kind), NewIssue(c, kind)>>
               /\ call' = [call EXCEPT ![c].issue = Len(issues) + 2,
                            ![c].pc = CASE At(c, "newtrack") -> "open"
                                        [] At(c, "create")   -> "link"
                                        [] OTHER             -> "done"]
               /\ UNCHANGED <<ask, branches, prs>>
  /\ met' = IF At(c, "create") THEN met \cup {{c}} ELSE met
  /\ UNCHANGED <<ask, links, green>>

(* The step's timeout, or the end of the process. *)
CutOff(c) ==
  /\ Disturb
  /\ InFlight(c)
  /\ Goto(c, "gone")
  /\ UNCHANGED <<ask, branches, prs, issues, links, green, met>>

-----------------------------------------------------------------------------
(* A successful run is looked into when an activity of its workflow has    *)
(* published an issue, a review issue or one in place of a pull request.   *)
GreenLists(g) ==
  /\ green[g].pc = "new"
  /\ LET published == \E c \in Calls : /\ At(c, "done") /\ call[c].pr = 0
                                       /\ Lane(c) = GreenLane(g)
     IN green' = [green EXCEPT ![g].pc = "close",
                               ![g].todo = IF published THEN Green(g) ELSE {}]
  /\ UNCHANGED <<ask, branches, prs, issues, links, call, trouble, met>>

GreenCloses(g) ==
  /\ green[g].pc = "close"
  /\ \/ \E i \in green[g].todo : /\ issues' = Close(i, "green")
                                 /\ green' = [green EXCEPT ![g].todo = @ \ {i}]
     \/ green[g].todo = {} /\ green' = [green EXCEPT ![g].pc = "done"]
        /\ UNCHANGED issues
  /\ UNCHANGED <<ask, branches, prs, links, call, trouble, met>>

(* An operator has the markers of their lane added to issues that have     *)
(* none, tracking issues as the agent titles them included.  Nothing else  *)
(* writes the body of such an issue in between.                            *)
Upgrade ==
  /\ \E i \in OpenIssues : /\ ~issues[i].titled /\ ~issues[i].marked
                           /\ issues' = [issues EXCEPT ![i].marked = TRUE]
  /\ UNCHANGED <<ask, branches, prs, links, call, green, trouble, met>>

(* People merge, close and rewrite pull requests, and close issues. *)
People ==
  /\ Disturb
  /\ \/ \E p \in OpenPRs : Merged(p)
     \/ \E p \in OpenPRs : prs' = [prs EXCEPT ![p].state = "closed"] /\ UNCHANGED issues
     \/ \E p \in OpenPRs : /\ prs[p].touches
                           /\ prs' = [prs EXCEPT ![p].touches = FALSE]
                           /\ UNCHANGED issues
     \/ \E i \in OpenIssues : issues' = Close(i, "human") /\ UNCHANGED prs
  /\ UNCHANGED <<ask, branches, links, call, green, met>>

-----------------------------------------------------------------------------
CallStep(c) ==
  \/ FindPR(c) \/ FindPRAgain(c) \/ BlockedIssue(c) \/ CreateBranch(c)
  \/ FindTracking(c) \/ CreateTracking(c) \/ OpenPR(c) \/ Merge(c)
  \/ FindSuperseded(c) \/ CloseSuperseded(c)
  \/ FindIssue(c) \/ CreateIssue(c) \/ ReadBody(c) \/ WriteBody(c)

Next ==
  \/ \E c \in Calls : CallStep(c)
  \/ \E c \in Calls : RequestFails(c) \/ RequestLost(c) \/ RequestResent(c) \/ CutOff(c)
  \/ \E g \in Greens : GreenLists(g) \/ GreenCloses(g)
  \/ Upgrade
  \/ People

Spec == Init /\ [][Next]_vars

-----------------------------------------------------------------------------
(* However often a run is remediated, and wherever a call was cut off or   *)
(* an answer got lost: two open pull requests for one fingerprint, both    *)
(* still with its files, take two calls that overlapped.                   *)
OnePRPerFingerprint ==
  \A p, q \in OpenPRs :
    p # q /\ prs[p].mark = prs[q].mark /\ prs[p].touches /\ prs[q].touches
      => \E m \in met : \A c \in m : Fingerprint(c) = prs[p].mark

(* A failure that comes again in another run of the workflow on its branch *)
(* is filed under the open review issue there is.  Two of them take calls  *)
(* that overlapped, or a request to create that was sent twice.            *)
OneIssuePerSignature ==
  \A i, j \in {k \in OpenIssues : issues[k].signed} :
    LET sig == <<issues[i].plan, issues[i].lane>>
    IN i # j /\ sig = <<issues[j].plan, issues[j].lane>>
         => \E m \in met : \A c \in m : Signature(c) = sig

(* A pull request a call reports as its own is one for its run, also when  *)
(* it was found in a listing of all that are open.                         *)
ReportedPRIsOfTheRun ==
  \A c \in Calls : At(c, "done") /\ call[c].pr # 0 => prs[call[c].pr].mark[2] = Run(c)

(* No review issue is closed as superseded before its run has the pull     *)
(* request that supersedes it.                                             *)
SupersededHasPR ==
  \A i \in DOMAIN issues :
    issues[i].why = "superseded" => \E p \in DOMAIN prs : prs[p].mark[2] = issues[i].run

(* A tracking issue stays open until its pull request is merged or someone *)
(* closes it, also when it has been given the markers of its lane: neither *)
(* another pull request of its run nor a successful run of the lane does.  *)
TrackingEndsByMerge ==
  \A i \in DOMAIN issues :
    issues[i].kind = "tracking" =>
      /\ issues[i].why \in {"open", "merge", "human"}
      /\ issues[i].why = "merge" =>
           \E p \in DOMAIN prs : prs[p].state = "merged" /\ prs[p].closes = i

(* A link that a call has reported is in the body, unless another call     *)
(* wrote the body at the same time, or a link to an issue whose number     *)
(* begins the same was taken for it.                                       *)
ReportedLinkIsThere ==
  \A c \in Calls :
    call[c].linked /\ call[c].issue \notin links =>
      \/ \E m \in met : c \in m
      \/ \E j \in links : StartsAs(call[c].issue, j)

(* A call makes a tracking issue only when none is open for its            *)
(* fingerprint, unless a call for it overlapped.  Does not hold: no call   *)
(* finds the issue that an earlier one has made.                           *)
TrackingIsReused ==
  \A c \in Calls, i \in OpenIssues :
    /\ At(c, "newtrack")
    /\ issues[i].kind = "tracking"
    /\ <<issues[i].plan, issues[i].run>> = Fingerprint(c)
    => \E m \in met : c \in m

=============================================================================
