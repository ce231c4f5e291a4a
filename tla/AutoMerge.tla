----------------------------- MODULE AutoMerge -----------------------------
(***************************************************************************)
(* The auto-merge of a pull request of the remediation agent.  Each call   *)
(* of the agent that made or found the pull request applies the policy:    *)
(* nothing, GitHub's own auto-merge, or polling the pull request and the   *)
(* checks of its head until it can be merged.  What is polled comes from   *)
(* three requests (the pull request, the commit statuses, the check runs), *)
(* and between any two of them checks report, commits are pushed and       *)
(* people close the pull request or make a draft of it.                    *)
(***************************************************************************)
EXTENDS Naturals, FiniteSets

CONSTANTS
  Callers,     \* calls of the agent that apply the policy to the pull request
  Statuses,    \* contexts that report commit statuses
  Runs,        \* apps that report check runs
  Policies,    \* auto_merge_strategy, auto_merge_require_clean_checks, and the
               \* contexts that branch protection asks for
  MaxHead,     \* commits pushed to the branch
  MaxPolls,    \* rounds within auto_merge_poll_seconds
  MaxTrouble   \* requests that raise, calls cut off, acts of people

ASSUME PollAssumption == MaxPolls \in Nat \ {0}
ASSUME HeadAssumption == MaxHead \in Nat \ {0}

VARIABLES
  policy,   \* the settings, and those of the branch
  pr,       \* the pull request: state, draft, mergeable, head, and the head
            \* GitHub was asked to merge by itself
  checks,   \* checks[h]: what each context says of head h
  call,     \* call[c]: where a call is, its rounds, and what it has read
  trouble,
  merged    \* history: who merged, and what the contexts said then

vars == <<policy, pr, checks, call, trouble, merged>>

Contexts == Statuses \cup Runs
Heads    == 1..MaxHead

ASSUME PolicyAssumption ==
  Policies \subseteq [strategy : {"off", "native", "clean"}, clean : BOOLEAN,
                      required : SUBSET Contexts]

-----------------------------------------------------------------------------
(* The checks of a head as they are summarised: the worst of what has been *)
(* reported, whether there is any, and whether one was successful.  The    *)
(* statuses are combined into one, the check runs are looked at each.      *)
Worst(s) == IF "fail" \in s THEN "failure"
            ELSE IF "pending" \in s THEN "pending"
            ELSE IF "pass" \in s THEN "success" ELSE "none"

StatusesOf(h) ==
  LET w == {checks[h][k] : k \in Statuses} \ {"none"}
  IN IF "fail" \in w THEN {"fail"} ELSE IF "pending" \in w THEN {"pending"} ELSE w

RunsOf(h) == {checks[h][k] : k \in Runs} \ {"none"}

(* What GitHub says of a pull request that may be merged: it is blocked by *)
(* a required context; clean, when all are well; and of one where only     *)
(* others are not, both are met.                                           *)
MergeStates ==
  IF \E k \in policy.required : checks[pr.head][k] # "pass" THEN {"blocked"}
  ELSE IF \A k \in Contexts : checks[pr.head][k] \in {"none", "pass"} THEN {"clean"}
  ELSE {"clean", "unstable"}

(* The checks let a round merge. *)
ChecksReady(state, seen) ==
  \/ Worst(seen) = "success"
  \/ state = "clean" /\ "pass" \in seen

Init ==
  /\ policy \in Policies
  /\ pr = [state |-> "open", draft |-> FALSE, mergeable |-> TRUE, head |-> 1, armed |-> 0]
  /\ checks = [h \in Heads |-> [k \in Contexts |-> "none"]]
  /\ call = [c \in Callers |-> [pc |-> "new", polls |-> 0, head |-> 1, ok |-> FALSE,
                                state |-> "blocked", seen |-> {}, result |-> "none"]]
  /\ trouble = 0
  /\ merged = [by |-> {}, head |-> 1, said |-> {}]

-----------------------------------------------------------------------------
At(c, pc) == call[c].pc = pc
End(c, result) == call' = [call EXCEPT ![c].pc = "end", ![c].result = result]

(* The policy is applied to the pull request as the call has it: made just *)
(* now or fetched.                                                         *)
Begin(c) ==
  /\ At(c, "new")
  /\ IF policy.strategy = "off"
       THEN End(c, "off")
       ELSE call' = [call EXCEPT ![c].head = pr.head,
                       ![c].pc = IF policy.strategy = "native" THEN "enable" ELSE "poll"]
  /\ UNCHANGED <<policy, pr, checks, trouble, merged>>

(* github_auto_merge: GitHub takes the request for the head it has. *)
Enable(c) ==
  /\ At(c, "enable")
  /\ IF pr.state = "open" /\ pr.head = call[c].head
       THEN pr' = [pr EXCEPT !.armed = pr.head] /\ End(c, "enabled")
       ELSE UNCHANGED pr /\ End(c, "error")
  /\ UNCHANGED <<policy, checks, trouble, merged>>

PollPROnce(c) ==             \* slip: the head of the first round is kept
  /\ At(c, "poll")
  /\ \E s \in MergeStates :
       call' = [call EXCEPT ![c].polls = @ + 1, ![c].state = s,
                  ![c].ok = pr.state = "open" /\ ~pr.draft /\ pr.mergeable,
                  ![c].seen = {},
                  ![c].pc = IF policy.clean THEN "statuses" ELSE "decide"]
  /\ UNCHANGED <<policy, pr, checks, trouble, merged>>

(* merge_when_clean: a round reads the pull request, *)
PollPR(c) ==
  /\ At(c, "poll")
  /\ \E s \in MergeStates :
       call' = [call EXCEPT ![c].polls = @ + 1, ![c].head = pr.head, ![c].state = s,
                  ![c].ok = pr.state = "open" /\ ~pr.draft /\ pr.mergeable,
                  ![c].seen = {},
                  ![c].pc = IF policy.clean THEN "statuses" ELSE "decide"]
  /\ UNCHANGED <<policy, pr, checks, trouble, merged>>

(* the statuses of its head, *)
PollStatuses(c) ==
  /\ At(c, "statuses")
  /\ call' = [call EXCEPT ![c].seen = StatusesOf(call[c].head), ![c].pc = "runs"]
  /\ UNCHANGED <<policy, pr, checks, trouble, merged>>

(* and its check runs. *)
PollRuns(c) ==
  /\ At(c, "runs")
  /\ call' = [call EXCEPT ![c].seen = @ \cup RunsOf(call[c].head), ![c].pc = "decide"]
  /\ UNCHANGED <<policy, pr, checks, trouble, merged>>

Ready(c) ==
  /\ call[c].ok
  /\ call[c].state \in {"clean", "unstable"}
  /\ policy.clean => ChecksReady(call[c].state, call[c].seen)

(* The round ends with a merge, with another round, or at the deadline,    *)
(* which slow requests may bring on earlier.                               *)
Decide(c) ==
  /\ At(c, "decide")
  /\ IF Ready(c) THEN call' = [call EXCEPT ![c].pc = "merge"]
     ELSE IF call[c].polls < MaxPolls THEN call' = [call EXCEPT ![c].pc = "poll"]
     ELSE End(c, "timeout")
  /\ UNCHANGED <<policy, pr, checks, trouble, merged>>

(* GitHub merges what is open and not blocked, if the head is the one that *)
(* the request names.                                                      *)
Mergeable == pr.state = "open" /\ ~pr.draft /\ pr.mergeable /\ "blocked" \notin MergeStates

MergedBy(x) ==
  /\ pr' = [pr EXCEPT !.state = "merged"]
  /\ merged' = [by |-> x, head |-> pr.head, said |-> {checks[pr.head][k] : k \in Contexts}]

SameHeadAny(c) == TRUE       \* slip: the request names no head

SameHead(c) == pr.head = call[c].head

Merge(c) ==
  /\ At(c, "merge")
  /\ IF Mergeable /\ SameHead(c)
       THEN MergedBy({c}) /\ End(c, "merged")
       ELSE UNCHANGED <<pr, merged>> /\ End(c, "error")
  /\ UNCHANGED <<policy, checks, trouble>>

-----------------------------------------------------------------------------
Disturb == trouble < MaxTrouble /\ trouble' = trouble + 1

(* A request raises: it was not applied, or the merge was and its answer   *)
(* is lost.  Either ends the policy with an error.                         *)
RequestFails(c) ==
  /\ Disturb
  /\ call[c].pc \in {"enable", "poll", "statuses", "runs", "merge"}
  /\ End(c, "error")
  /\ \/ UNCHANGED <<pr, merged>>
     \/ At(c, "merge") /\ Mergeable /\ SameHead(c) /\ MergedBy({c})
  /\ UNCHANGED <<policy, checks>>

(* The step's timeout or the end of the process. *)
CutOff(c) ==
  /\ Disturb
  /\ call[c].pc \notin {"new", "end"}
  /\ End(c, "gone")
  /\ UNCHANGED <<policy, pr, checks, merged>>

-----------------------------------------------------------------------------
(* GitHub's own auto-merge, once the branch requirements pass. *)
GitHubMerges ==
  /\ pr.armed # 0 /\ Mergeable
  /\ MergedBy({})
  /\ UNCHANGED <<policy, checks, call, trouble>>

Reports(k) ==
  /\ \/ checks[pr.head][k] = "none" /\ checks' = [checks EXCEPT ![pr.head][k] = "pending"]
     \/ /\ checks[pr.head][k] = "pending"
        /\ \E v \in {"pass", "fail"} : checks' = [checks EXCEPT ![pr.head][k] = v]
  /\ UNCHANGED <<policy, pr, call, trouble, merged>>

People ==
  /\ Disturb
  /\ pr.state = "open"
  /\ \/ pr.head < MaxHead /\ pr' = [pr EXCEPT !.head = @ + 1]
     \/ pr' = [pr EXCEPT !.state = "closed"]
     \/ pr' = [pr EXCEPT !.draft = ~@]
     \/ pr' = [pr EXCEPT !.mergeable = ~@]
  /\ UNCHANGED <<policy, checks, call, merged>>

CallStep(c) ==
  \/ Begin(c) \/ Enable(c)
  \/ PollPR(c) \/ PollStatuses(c) \/ PollRuns(c) \/ Decide(c) \/ Merge(c)

Next ==
  \/ \E c \in Callers : CallStep(c) \/ RequestFails(c) \/ CutOff(c)
  \/ GitHubMerges
  \/ \E k \in Contexts : Reports(k)
  \/ People

Spec == Init /\ [][Next]_vars

(* The event loop runs a call on; GitHub does as it likes. *)
FairSpec == Spec /\ \A c \in Callers : WF_vars(CallStep(c))

-----------------------------------------------------------------------------
Results == {"none", "off", "enabled", "merged", "error", "timeout", "gone"}

Said == {"none", "pending", "pass", "fail"}

PullRequest == [state : {"open", "closed", "merged"}, draft : BOOLEAN, mergeable : BOOLEAN,
                head : Heads, armed : {0} \cup Heads]

Call == [pc : {"new", "enable", "poll", "statuses", "runs", "decide", "merge", "end"},
         polls : Nat, head : Heads, ok : BOOLEAN,
         state : {"blocked", "clean", "unstable"}, seen : SUBSET {"pending", "pass", "fail"},
         result : Results]

TypeOK ==
  /\ policy \in Policies
  /\ pr \in PullRequest
  /\ checks \in [Heads -> [Contexts -> Said]]
  /\ call \in [Callers -> Call]
  /\ trouble \in Nat
  /\ merged \in [by : SUBSET Callers, head : Heads, said : SUBSET Said]

(* With auto_merge_require_clean_checks a call merges only a head of which *)
(* a context had said "pass", whatever was pushed between the round that   *)
(* found it ready and the merge.                                           *)
MergedHeadHasPassed ==
  merged.by # {} /\ policy.clean => "pass" \in merged.said

(* With auto_merge_require_clean_checks a call that has read of a failing  *)
(* check does not merge.  Does not hold: a failure only keeps it waiting,  *)
(* and what GitHub calls clean is merged if one check has passed.          *)
NoFailureMerged ==
  \A c \in merged.by : policy.clean => "fail" \notin call[c].seen

(* What is open, clean and left alone is merged by a call that still has a *)
(* round to go.                                                            *)
AllWell == /\ pr.state = "open" /\ ~pr.draft /\ pr.mergeable
           /\ \A k \in Contexts : checks[pr.head][k] = "pass"

CleanIsMerged ==
  \A c \in Callers :
    At(c, "poll") /\ AllWell /\ trouble = MaxTrouble ~> pr.state = "merged"

=============================================================================
