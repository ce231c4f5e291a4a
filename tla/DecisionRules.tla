--------------------------- MODULE DecisionRules ---------------------------
(***************************************************************************)
(* From the evidence of a failure to what is done about it: one call of    *)
(* DiagnosisAgent.diagnose, with its calls to GitHub and to the model, and *)
(* one of RemediationAgent.remediate, up to the publishing that module     *)
(* Remediation has.  Settings may be changed at any time.                  *)
(***************************************************************************)
EXTENDS FixPlan

CONSTANTS
  Logs,      \* the error texts: [text, minutes, vars], with what was extracted
  Signals,   \* the sums of confidence_delta the external sources come to
  Matches,   \* how many words of its failure type a similar issue has
  Responses  \* responses of the model: the sequences of their candidates

ASSUME LogAssumption == Logs \subseteq ErrorTexts
ASSUME ResponseAssumption == Responses \subseteq Seq(Candidates)
ASSUME EvidenceAssumption == Signals \subseteq 0..100 /\ Matches \subseteq 0..6

VARIABLES
  step,      \* the await diagnose or remediate is at
  jenkins,   \* source_selection_path is "jenkins_bridge"
  log,       \* {} when no log was analysed, or the set of the one error text
  signal,    \* the external evidence
  diagnosis, \* {} for None, or the set of the diagnosis
  native,    \* its confidence before any external evidence was weighed
  rejected,  \* the payload of the model was rejected
  settings,  \* the settings remediate found
  plan,
  done       \* the action published; "skip" when a switch forbids it, "dry" when only planned

evidence == <<jenkins, log, signal>>
outcome  == <<settings, plan, done>>
decisionVars == <<step, evidence, diagnosis, native, rejected, outcome>>

The(set) == CHOOSE x \in set : TRUE
Each(Op(_)) == {Op(d) : d \in diagnosis}

-----------------------------------------------------------------------------
(* diagnose. *)

(* Without logs only the report that no runner was acquired says anything. *)
DiagnoseWithoutLogs ==
  /\ step = "start" /\ log = {}
  /\ diagnosis' \in {{NoRunnerDiagnosis}, {[Blank EXCEPT !.confidence = 0]}}
  /\ native' = The(diagnosis').confidence
  /\ step' = "diagnosed"
  /\ UNCHANGED <<evidence, rejected, outcome>>

Match ==
  /\ step = "start" /\ log # {}
  /\ diagnosis' = PatternDiagnoses(The(log))
  /\ step' = "matched"
  /\ UNCHANGED <<evidence, native, rejected, outcome>>

Correlate ==
  /\ step = "matched"
  /\ \E overlap \in BOOLEAN : diagnosis' = Each(LAMBDA d : Correlated(d, overlap))
  /\ step' = "correlated"
  /\ UNCHANGED <<evidence, native, rejected, outcome>>

(* The search may find nothing or be unavailable: no match then. *)
SearchHistory ==
  /\ step = "correlated"
  /\ \E matches \in Matches : diagnosis' = Each(LAMBDA d : WithHistory(d, matches))
  /\ native' = IF diagnosis' = {} THEN 0 ELSE The(diagnosis').confidence
  /\ step' = "searched"
  /\ UNCHANGED <<evidence, rejected, outcome>>

(* A pattern diagnosis of 0.8 or more is final. *)
WeighSignal ==
  /\ step = "searched"
  /\ diagnosis' = Each(LAMBDA d : WithSignal(d, signal))
  /\ step' = IF \E d \in diagnosis' : d.confidence >= 80 THEN "diagnosed" ELSE "asking"
  /\ UNCHANGED <<evidence, native, rejected, outcome>>

(* The agent cannot be made: diagnose raises, and the activity fails. *)
NoAgent ==
  /\ step = "asking"
  /\ step' = "error"
  /\ UNCHANGED <<evidence, diagnosis, native, rejected, outcome>>

(***************************************************************************)
(* A response, to the prompt or to the sanitized one.  What is parsed from *)
(* it is weighed, the pattern diagnosis that replaces a rejected payload   *)
(* too, though it has been weighed before.                                 *)
(***************************************************************************)
Answer ==
  /\ step \in {"asking", "asking again"}
  /\ \E response \in Responses :
       LET parsed == Parsed(response, diagnosis)
           valid  == \E i \in DOMAIN response : Valid(response[i])
       IN  /\ diagnosis' = {WithSignal(parsed, signal)}
           /\ rejected' = ~valid
           /\ native' = IF valid \/ diagnosis = {} THEN parsed.confidence ELSE native
  /\ step' = "diagnosed"
  /\ UNCHANGED <<evidence, outcome>>

(* Slip: when the call failed, its diagnosis is weighed like a response's. *)
CallFailsWeighed ==
  /\ step = "asking"
  /\ diagnosis' = {WithSignal(d, signal) : d \in IF diagnosis = {} THEN {Unknown(30)} ELSE diagnosis}
  /\ native' = IF diagnosis = {} THEN 30 ELSE native
  /\ step' = "diagnosed"
  /\ UNCHANGED <<evidence, rejected, outcome>>

(* What is left when the model cannot be asked; it is not weighed again. *)
Fallback(confidence) ==
  /\ diagnosis' = IF diagnosis = {} THEN {Unknown(confidence)} ELSE diagnosis
  /\ native' = IF diagnosis = {} THEN confidence ELSE native
  /\ step' = "diagnosed"
  /\ UNCHANGED <<evidence, rejected, outcome>>

CallFails == step = "asking" /\ Fallback(30)

(* The provider's content filter: once more, with the evidence sanitized. *)
Filtered ==
  /\ step = "asking"
  /\ step' = "asking again"
  /\ UNCHANGED <<evidence, diagnosis, native, rejected, outcome>>

(* The second call fails, or is filtered: with or without an excerpt to show. *)
SecondCallFails ==
  /\ step = "asking again"
  /\ \E confidence \in {30, 35, 20} : Fallback(confidence)

-----------------------------------------------------------------------------
(* remediate: no await lies between the plan and the switch of its action, so *)
(* one state of the settings decides. *)

Settings == [demo : BOOLEAN, create_pr : BOOLEAN, create_issue : BOOLEAN,
             retry : BOOLEAN, jenkins_pr : BOOLEAN,
             apply : BOOLEAN]   \* auto_apply_remediation: off, the plan is made and kept

(* Slip: a low confidence goes to the generators like any other. *)
PlansUngated(d, mode) == {GeneratedPlan(d, mode)} \cup {p \in {IssueOnly} : d.source = "llm"}

(***************************************************************************)
(* A confidence below 0.5 gets a review issue.  What the model put into    *)
(* error_details may make a generator raise, which gives an issue too.     *)
(***************************************************************************)
Plans(d, mode) ==
  IF d.confidence < 50
  THEN {ReviewIssue}
  ELSE {GeneratedPlan(d, mode)} \cup {p \in {IssueOnly} : d.source = "llm"}

(* Slip: for a Jenkins build its own switch is enough. *)
RestrictedBySwitch(p, s) == IF p.action = "pr" /\ jenkins /\ ~s.jenkins_pr THEN ReviewIssue ELSE p

(* _is_jenkins_bridge_issue_only: a Jenkins build's pull request takes two switches. *)
Restricted(p, s) ==
  IF p.action = "pr" /\ jenkins /\ ~(s.create_pr /\ s.jenkins_pr) THEN ReviewIssue ELSE p

(* _is_action_enabled. *)
Enabled(action, s) ==
  CASE action = "pr"    -> s.create_pr
    [] action = "issue" -> s.create_issue
    [] action = "retry" -> s.retry

Remediate ==
  /\ step = "diagnosed"
  /\ settings' \in Settings
  /\ \E p \in Plans(The(diagnosis), settings'.demo) : plan' = Restricted(p, settings')
  /\ done' = IF ~settings'.apply THEN "dry"
             ELSE IF Enabled(plan'.action, settings') THEN plan'.action ELSE "skip"
  /\ step' = "remediated"
  /\ UNCHANGED <<evidence, diagnosis, native, rejected>>

DecisionInit ==
  /\ step = "start"
  /\ jenkins \in BOOLEAN
  /\ log \in {{}} \cup {{l} : l \in Logs}
  /\ signal \in Signals
  /\ diagnosis = {} /\ native = 0 /\ rejected = FALSE
  /\ settings = [demo |-> FALSE, create_pr |-> FALSE, create_issue |-> FALSE,
                 retry |-> FALSE, jenkins_pr |-> FALSE, apply |-> FALSE]
  /\ plan = IssueOnly /\ done = "none"

DecisionNext ==
  \/ DiagnoseWithoutLogs \/ Match \/ Correlate \/ SearchHistory \/ WeighSignal
  \/ NoAgent \/ Answer \/ CallFails \/ Filtered \/ SecondCallFails
  \/ Remediate

DecisionSpec == DecisionInit /\ [][DecisionNext]_decisionVars

-----------------------------------------------------------------------------
(* Properties. *)

Steps == {"start", "matched", "correlated", "searched", "asking", "asking again",
          "diagnosed", "remediated", "error"}

DecisionTypeOK ==
  /\ step \in Steps
  /\ jenkins \in BOOLEAN
  /\ log \subseteq Logs /\ \A l, m \in log : l = m
  /\ signal \in Signals
  /\ diagnosis \subseteq Diagnoses
  /\ \A d \in diagnosis : d.confidence \in 0..100
  /\ \A d, e \in diagnosis : d = e
  /\ native \in Int
  /\ rejected \in BOOLEAN
  /\ settings \in Settings
  /\ plan \in RemediationPlans
  /\ done \in {"none", "skip", "dry", "pr", "issue", "retry"}

Result == The(diagnosis)

(* Whatever the model answered and whatever raised on the way: a pull        *)
(* request or a retry is only ever published for a confidence of 0.5 or      *)
(* more and with the switches it takes, runs are retried and variables and   *)
(* timeouts changed in demo modes only, no secret is ever set, and nothing   *)
(* at all is published while repairs are only planned.                       *)
ActionsStayInBounds ==
  /\ done \in {"pr", "retry"} => Result.confidence >= 50
  /\ done \in {"pr", "issue", "retry"} => settings.apply
  /\ done = "pr" => settings.create_pr /\ (jenkins => settings.jenkins_pr)
  /\ (done = "retry" \/ (done = "pr" /\ (plan.vars # {} \/ plan.minutes > 0))) => settings.demo
  /\ plan.vars \cap Secretive = {}

(* A failure of a Jenkins build leaves an issue when it may not get its pull *)
(* request: the switch that forbids the one does not silence the other.  (A  *)
(* dry run leaves nothing but the plan, and is not meant here.)              *)
JenkinsIsHeard ==
  jenkins /\ done = "skip" => ~settings.create_issue \/ plan.action = "retry"

(* The flag the diagnosis shows and the plan the generators make agree: out  *)
(* of demo modes a pattern diagnosis gets a pull request exactly when it is  *)
(* auto-fixable, but for a dependency nobody could name.                     *)
FixableMeansPR ==
  step = "remediated" /\ Result.source = "pattern" /\ ~settings.demo
    /\ (jenkins => settings.create_pr /\ settings.jenkins_pr)
  => (plan.action = "pr" <=> Result.fixable /\ (Result.type = "dependency" => Result.named))

(* External evidence moves the confidence once at most, on every path but    *)
(* one: after a rejected payload the pattern diagnosis is weighed again.     *)
SignalCountsOnce ==
  step \in {"diagnosed", "remediated"} /\ ~rejected
  => Result.confidence \in {native, Max({0, Min({Ceiling, native + signal})})}
=============================================================================
