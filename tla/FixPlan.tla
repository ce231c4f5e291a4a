------------------------------ MODULE FixPlan ------------------------------
(***************************************************************************)
(* FixGenerators: the plan for a diagnosis.  A plan is an action, what it  *)
(* edits and the variables it sets; titles and bodies are left out.  demo  *)
(* is _is_demo_mode: heal_mode is demo or freestyle, not safe or debug.    *)
(***************************************************************************)
EXTENDS Diagnosis

CONSTANT Secretive   \* the variables whose name looks like a secret's

Edits == {"package.json", "requirements.txt", "eslint.config.js", "autofix workflow",
          "workflow permissions", "workflow variables", "workflow timeout"}

RemediationPlans ==
  [action : {"pr", "issue", "retry"}, edits : SUBSET Edits, vars : SUBSET STRING, minutes : Int]

Plan(action, edits) == [action |-> action, edits |-> edits, vars |-> {}, minutes |-> 0]
IssueOnly == Plan("issue", {})
PR(edits) == Plan("pr", edits)

DependencyPlan(diagnosis) ==
  CASE diagnosis.named /\ diagnosis.manager = "npm" -> PR({"package.json"})
    [] diagnosis.named /\ diagnosis.manager = "pip" -> PR({"requirements.txt"})
    [] OTHER -> IssueOnly

LintPlan(diagnosis) ==
  LET taken  == diagnosis.linter = "unknown" /\ diagnosis.config # "none"
      linter == IF taken THEN "eslint" ELSE diagnosis.linter
      wanted == /\ linter = "eslint"
                /\ diagnosis.config = "missing" \/ (taken /\ diagnosis.config = "mentioned")
  IN  CASE wanted -> PR({"eslint.config.js"})
        [] ~wanted /\ linter \in Autofixers /\ diagnosis.fixable
             -> PR({"autofix workflow"})
        [] OTHER -> IssueOnly

TestPlan(diagnosis, demo) ==
  IF diagnosis.flaky /\ demo THEN Plan("retry", {}) ELSE IssueOnly

PermissionsPlan == PR({"workflow permissions"})

(* Secrets are never set, and other variables only in a demo. *)
VariablesPlan(diagnosis, demo) ==
  LET safe == diagnosis.vars \ Secretive
  IN  IF demo /\ diagnosis.kind \in {"env_var", "secret", "none"} /\ safe # {}
      THEN [PR({"workflow variables"}) EXCEPT !.vars = safe]
      ELSE IssueOnly

BuildConfigPlan(diagnosis, demo) ==
  IF diagnosis.permissions THEN PermissionsPlan ELSE VariablesPlan(diagnosis, demo)

TimeoutPlan(diagnosis, demo) ==
  LET kind == CASE diagnosis.kind # "none" -> diagnosis.kind
                [] /\ diagnosis.kind = "none" /\ diagnosis.resource \notin {"disk", "memory"}
                   /\ diagnosis.suggested > diagnosis.minutes /\ diagnosis.minutes >= 0 -> "increase_timeout"
                [] OTHER -> "optimize_step"
  IN  IF demo /\ kind = "increase_timeout"
      THEN [PR({"workflow timeout"}) EXCEPT !.minutes = Max({5, diagnosis.suggested})]
      ELSE IssueOnly

(* generate_fix; an unknown failure, or a generator that raises, gets an issue. *)
GeneratedPlan(diagnosis, demo) ==
  CASE diagnosis.type = "dependency"   -> DependencyPlan(diagnosis)
    [] diagnosis.type = "lint"         -> LintPlan(diagnosis)
    [] diagnosis.type = "test"         -> TestPlan(diagnosis, demo)
    [] diagnosis.type = "build_config" -> BuildConfigPlan(diagnosis, demo)
    [] diagnosis.type = "timeout"      -> TimeoutPlan(diagnosis, demo)
    [] OTHER                           -> IssueOnly

(* generate_review_issue. *)
ReviewIssue == IssueOnly
=============================================================================
