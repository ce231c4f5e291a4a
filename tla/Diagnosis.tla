----------------------------- MODULE Diagnosis -----------------------------
(***************************************************************************)
(* What DiagnosisAgent makes of the evidence.  The error text is the set   *)
(* of the signs the regular expressions look for, with the numbers and     *)
(* names they extract; a confidence is a number of hundredths; the wording *)
(* of causes and suggestions is left out.  Several fields of error_details *)
(* keep the value the fix generators assume when a key is missing.         *)
(***************************************************************************)
EXTENDS Integers, Sequences, FiniteSetsExt

CONSTANT Names   \* the strings error_details may have: the model writes any

(* The ones that mean something; "none" is the empty one. *)
Known == {"none", "unknown", "npm", "pip", "docker", "generic",
          "eslint", "prettier", "black", "ruff", "isort", "flake8", "mypy", "disk", "memory",
          "version_conflict", "image_pull", "registry_access", "missing",
          "runner_capacity", "increase_timeout", "optimize_step",
          "workflow_permission", "env_var", "secret", "runner_env", "file_path", "rate_limit"}

ASSUME KnownAssumption == Known \subseteq Names

Types == {"dependency", "lint", "test", "timeout", "build_config", "unknown"}

(* Where the details name eslint.config.js: nowhere, as the missing file, without *)
(* any missing file, or while another file is the missing one.                    *)
Configs == {"none", "missing", "mentioned", "elsewhere"}

(* The most the signals can raise a confidence to. *)
Ceiling == 95

Diagnoses ==
  [type : Types, confidence : Int, fixable : BOOLEAN, source : {"none", "pattern", "llm"},
   manager : Names, named : BOOLEAN, linter : Names, config : Configs, flaky : BOOLEAN,
   minutes : Int, suggested : Int, resource : Names, kind : Names,
   permissions : BOOLEAN, vars : SUBSET STRING]

(* An error text, and what a response of the model has. *)
ErrorTexts == [text : SUBSET STRING, minutes : Nat, vars : SUBSET STRING]
Candidates == [lacks : SUBSET STRING, diagnosis : Diagnoses]

Blank ==
  [type |-> "unknown", confidence |-> 0, fixable |-> FALSE, source |-> "none",
   manager |-> "npm", named |-> FALSE,
   linter |-> "unknown", config |-> "none",
   flaky |-> FALSE,
   minutes |-> 0, suggested |-> 0, resource |-> "unknown",
   kind |-> "none", permissions |-> FALSE, vars |-> {}]

-----------------------------------------------------------------------------
(* _pattern_based_diagnosis.  In each table the first sign found counts. *)

FirstOf(table, text) == table[Min({i \in DOMAIN table : table[i].sign \in text})]
Has(table, text)     == \E i \in DOMAIN table : table[i].sign \in text

Found(type, confidence, fixable) ==
  [Blank EXCEPT !.type = type, !.confidence = confidence, !.fixable = fixable, !.source = "pattern"]

(* ecosystem: what the pattern or its description says of the package manager. *)
DependencySigns ==
  << [sign |-> "peer_dep",       ecosystem |-> "npm",    conflict |-> TRUE],
     [sign |-> "eresolve",       ecosystem |-> "npm",    conflict |-> TRUE],
     [sign |-> "pip_version",    ecosystem |-> "pip",    conflict |-> TRUE],
     [sign |-> "python_module",  ecosystem |-> "pip",    conflict |-> FALSE],
     [sign |-> "node_module",    ecosystem |-> "npm",    conflict |-> FALSE],
     [sign |-> "package",        ecosystem |-> "none",   conflict |-> FALSE],
     [sign |-> "image_source",   ecosystem |-> "docker", conflict |-> FALSE],
     [sign |-> "image_manifest", ecosystem |-> "docker", conflict |-> FALSE],
     [sign |-> "image_pull",     ecosystem |-> "docker", conflict |-> FALSE] >>

(***************************************************************************)
(* Any "npm" or "bun" in the text makes it npm ("npm_word" stands for an   *)
(* incidental one, which "bundle" and "ubuntu" contain too).               *)
(***************************************************************************)
PackageManager(row, text) ==
  IF row.ecosystem = "npm" \/ text \cap {"peer_dep", "eresolve", "npm_word"} # {} THEN "npm"
  ELSE IF row.ecosystem = "pip" \/ "python_module" \in text THEN "pip"
  ELSE IF row.ecosystem = "docker" THEN "docker" ELSE "generic"

ResolutionKind(row, manager, text) ==
  CASE row.conflict -> "version_conflict"
    [] ~row.conflict /\ manager = "docker" ->
         IF "image_pull" \in text THEN "image_pull" ELSE "registry_access"
    [] OTHER -> "missing"

NamesPackage(text) == text \cap {"python_module", "node_module", "package", "package_word"} # {}

(* Slip: a version conflict does not count as fixable. *)
DependencyDiagnosisMissing(log) ==
  LET row     == FirstOf(DependencySigns, log.text)
      manager == PackageManager(row, log.text)
      kind    == ResolutionKind(row, manager, log.text)
  IN  [Found("dependency", 85, manager \in {"npm", "pip"} /\ kind = "missing")
         EXCEPT !.manager = manager, !.named = NamesPackage(log.text), !.kind = kind]

DependencyDiagnosis(log) ==
  LET row     == FirstOf(DependencySigns, log.text)
      manager == PackageManager(row, log.text)
      kind    == ResolutionKind(row, manager, log.text)
  IN  [Found("dependency", 85, manager \in {"npm", "pip"} /\ kind \in {"missing", "version_conflict"})
         EXCEPT !.manager = manager, !.named = NamesPackage(log.text), !.kind = kind]

(* lint_autofix_command. *)
Autofixers == {"eslint", "prettier", "black", "ruff", "isort"}

LintSigns ==
  << [sign |-> "eslint",        linter |-> "eslint",   config |-> "none"],
     [sign |-> "eslint_config", linter |-> "eslint",   config |-> "missing"],
     [sign |-> "prettier",      linter |-> "prettier", config |-> "none"],
     [sign |-> "black",         linter |-> "black",    config |-> "none"],
     [sign |-> "ruff",          linter |-> "ruff",     config |-> "none"],
     [sign |-> "flake8",        linter |-> "flake8",   config |-> "none"],
     [sign |-> "mypy",          linter |-> "mypy",     config |-> "none"] >>

LintDiagnosis(log) ==
  LET row == FirstOf(LintSigns, log.text)
  IN  [Found("lint", 90, row.config = "missing" \/ row.linter \in Autofixers)
         EXCEPT !.linter = row.linter, !.config = row.config]

FlakyDiagnosis(log) == [Found("test", 78, FALSE) EXCEPT !.flaky = TRUE]

(* "3 failing" alone says nothing: it takes another sign of tests. *)
HasTestFailure(text) ==
  "test_failure" \in text \/ {"count_failing", "test_word"} \subseteq text

TestDiagnosis(log) ==
  [Found("test", 85, FALSE) EXCEPT !.flaky = "timing_word" \in log.text]

TimeoutSigns ==
  << [sign |-> "timed_out", limit |-> FALSE], [sign |-> "time_limit", limit |-> TRUE],
     [sign |-> "killed", limit |-> FALSE],    [sign |-> "no_space", limit |-> FALSE],
     [sign |-> "deadline", limit |-> TRUE] >>

ResourceSignal(text) ==
  CASE text \cap {"no_space", "disk_space"} # {} -> "disk"
    [] "disk_space" \notin text /\ "no_space" \notin text /\ "memory_word" \in text -> "memory"
    [] OTHER -> "unknown"

SuggestedTimeout(minutes) == IF minutes > 0 THEN Max({minutes * 2, minutes + 5}) ELSE 0

TimeoutDiagnosis(log) ==
  LET resource == ResourceSignal(log.text)
  IN  [Found("timeout", 80, FALSE) EXCEPT
         !.minutes = log.minutes, !.suggested = SuggestedTimeout(log.minutes), !.resource = resource,
         !.kind = CASE resource # "unknown" -> "runner_capacity"
                    [] resource = "unknown" /\ FirstOf(TimeoutSigns, log.text).limit -> "increase_timeout"
                    [] OTHER -> "optimize_step"]

PermissionDiagnosis(log) ==
  [Found("build_config", 90, TRUE) EXCEPT !.permissions = TRUE, !.kind = "workflow_permission"]

ConfigSigns ==
  << [sign |-> "env_unset",         kind |-> "env_var"],
     [sign |-> "secret_missing",    kind |-> "secret"],
     [sign |-> "permission_denied", kind |-> "runner_env"],
     [sign |-> "file_missing",      kind |-> "file_path"],
     [sign |-> "rate_limit",        kind |-> "rate_limit"],
     [sign |-> "runner",            kind |-> "runner_env"],
     [sign |-> "disk_space",        kind |-> "runner_env"],
     [sign |-> "unavailable",       kind |-> "env_var"] >>

(* Variables named anywhere in the text make it a matter of variables. *)
ConfigDiagnosis(log) ==
  LET kind == FirstOf(ConfigSigns, log.text).kind
  IN  [Found("build_config", 75, FALSE) EXCEPT
         !.vars = log.vars, !.kind = IF kind # "secret" /\ log.vars # {} THEN "env_var" ELSE kind]

(* The diagnoses a text can match, each family only if none before it does. *)
PatternDiagnoses(log) ==
  LET found == << Has(DependencySigns, log.text), Has(LintSigns, log.text), "flaky" \in log.text,
                  HasTestFailure(log.text), Has(TimeoutSigns, log.text),
                  "token_permission" \in log.text, Has(ConfigSigns, log.text) >>
      first == {i \in DOMAIN found : found[i] /\ \A j \in 1..(i - 1) : ~found[j]}
      made(i) == CASE i = 1 -> DependencyDiagnosis(log) [] i = 2 -> LintDiagnosis(log)
                   [] i = 3 -> FlakyDiagnosis(log)      [] i = 4 -> TestDiagnosis(log)
                   [] i = 5 -> TimeoutDiagnosis(log)    [] i = 6 -> PermissionDiagnosis(log)
                   [] i = 7 -> ConfigDiagnosis(log)
  IN  {made(i) : i \in first}

-----------------------------------------------------------------------------
(* What moves a confidence. *)

Raised(diagnosis, by) == [diagnosis EXCEPT !.confidence = Min({Ceiling, @ + by})]

(* _apply_changed_file_correlation. *)
Correlated(diagnosis, overlap) == IF overlap THEN Raised(diagnosis, 6) ELSE diagnosis

(* _apply_historical_issue_signal, for the words of the issue that match. *)
WithHistory(diagnosis, matches) ==
  IF matches = 0 THEN diagnosis ELSE Raised(diagnosis, 5 + 2 * Min({matches, 3}))

(***************************************************************************)
(* _apply_external_diagnostics_signal: delta is the sum over the sources   *)
(* that were available.  Note the ceiling: it lowers a confidence above it.*)
(***************************************************************************)
WithSignal(diagnosis, delta) ==
  IF delta = 0 THEN diagnosis ELSE [diagnosis EXCEPT !.confidence = Max({0, Min({Ceiling, @ + delta})})]

(* _diagnosis_from_external_diagnostics: no hosted runner could be acquired. *)
NoRunnerDiagnosis == Found("build_config", 88, FALSE)

-----------------------------------------------------------------------------
(* _parse_diagnosis_response. *)

(***************************************************************************)
(* A candidate is a JSON object of the response that has a failure_type:   *)
(* what it lacks of the contract, and the diagnosis it gives otherwise.    *)
(***************************************************************************)
Valid(candidate) == candidate.lacks = {} /\ candidate.diagnosis.confidence \in 0..100

Unknown(confidence) == [Blank EXCEPT !.confidence = confidence, !.source = "llm"]

(* The longest candidate that is valid; otherwise the fallback, if any. *)
Parsed(candidates, fallback) ==
  LET valid == {i \in DOMAIN candidates : Valid(candidates[i])}
  IN  CASE valid # {} -> [candidates[Min(valid)].diagnosis EXCEPT !.source = "llm"]
        [] valid = {} /\ fallback # {} -> CHOOSE diagnosis \in fallback : TRUE
        [] OTHER -> Unknown(30)
=============================================================================
