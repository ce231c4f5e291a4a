---------------------------- MODULE PolicyProofs ----------------------------
(***************************************************************************)
(* Proofs about the policies that stand between a failure and a change of  *)
(* the repository: DecisionRules, for any texts, evidence, answers and     *)
(* settings, and AutoMerge, for any callers, contexts and policies, any    *)
(* number of pushes and rounds, and any trouble.                           *)
(***************************************************************************)
EXTENDS AutoMerge, DecisionRules, WellFoundedInduction, TLAPS

-----------------------------------------------------------------------------
(* The least of a set of numbers is in it, so is what is first in a table. *)
LEMMA MinIsIn == ASSUME NEW S \in SUBSET Nat, S # {} PROVE Min(S) \in S
<1> DEFINE R == OpToRel(<, Nat)
<1>1. IsWellFoundedOn(R, Nat)
  BY NatLessThanWellFounded
<1>2. \A x, y \in Nat : x < y => <<x, y>> \in R
  BY DEF OpToRel
<1> HIDE DEF R
<1>3. PICK x \in S : \A y \in S : ~(<<y, x>> \in R)
  BY <1>1, WFMin
<1>4. ASSUME NEW y \in S PROVE x <= y
  <2>1. x \in Nat /\ y \in Nat
    OBVIOUS
  <2>2. ~(y < x)
    BY <1>2, <1>3, <2>1
  <2> QED BY <2>1, <2>2
<1> QED BY <1>4 DEF Min

LEMMA MinOfTwo ==
  ASSUME NEW a \in Int, NEW b \in Int PROVE Min({a, b}) = IF a <= b THEN a ELSE b
BY DEF Min

LEMMA MaxOfTwo ==
  ASSUME NEW a \in Int, NEW b \in Int PROVE Max({a, b}) = IF a >= b THEN a ELSE b
BY DEF Max

LEMMA FirstIsInTable ==
  ASSUME NEW table, NEW text, DOMAIN table \in SUBSET Nat, Has(table, text)
  PROVE  \E i \in DOMAIN table : FirstOf(table, text) = table[i]
<1> DEFINE hits == {i \in DOMAIN table : table[i].sign \in text}
<1>1. hits \in SUBSET Nat /\ hits # {}
  BY DEF Has
<1>2. Min(hits) \in hits
  BY <1>1, MinIsIn
<1> QED BY <1>2 DEF FirstOf

(* What the rows have, of the tables whose rows decide something.          *)
LEMMA DependencyRow ==
  ASSUME NEW text, Has(DependencySigns, text)
  PROVE  FirstOf(DependencySigns, text).conflict \in BOOLEAN
<1>1. DOMAIN DependencySigns = 1..9
  BY DEF DependencySigns
<1>2. PICK i \in 1..9 : FirstOf(DependencySigns, text) = DependencySigns[i]
  BY <1>1, FirstIsInTable
<1>3. \A j \in 1..9 : DependencySigns[j].conflict \in BOOLEAN
  <2>1. /\ DependencySigns[1].conflict \in BOOLEAN
        /\ DependencySigns[2].conflict \in BOOLEAN
        /\ DependencySigns[3].conflict \in BOOLEAN
        /\ DependencySigns[4].conflict \in BOOLEAN
        /\ DependencySigns[5].conflict \in BOOLEAN
        /\ DependencySigns[6].conflict \in BOOLEAN
        /\ DependencySigns[7].conflict \in BOOLEAN
        /\ DependencySigns[8].conflict \in BOOLEAN
        /\ DependencySigns[9].conflict \in BOOLEAN
    BY DEF DependencySigns
  <2>2. \A j \in 1..9 : j \in {1, 2, 3, 4, 5, 6, 7, 8, 9}
    OBVIOUS
  <2> QED BY <2>1, <2>2
<1> QED BY <1>2, <1>3

(* A row of the linters. *)
LinterRow(row) ==
  /\ row.linter \in {"eslint", "prettier", "black", "ruff", "flake8", "mypy"}
  /\ row.config \in {"none", "missing"}
  /\ row.config = "missing" => row.linter = "eslint"

LEMMA LintRow ==
  ASSUME NEW text, Has(LintSigns, text)
  PROVE  LinterRow(FirstOf(LintSigns, text))
<1>1. DOMAIN LintSigns = 1..7
  BY DEF LintSigns
<1>2. PICK i \in 1..7 : FirstOf(LintSigns, text) = LintSigns[i]
  BY <1>1, FirstIsInTable
<1>3. \A j \in 1..7 : LinterRow(LintSigns[j])
  <2>1. /\ LinterRow(LintSigns[1]) /\ LinterRow(LintSigns[2]) /\ LinterRow(LintSigns[3])
        /\ LinterRow(LintSigns[4]) /\ LinterRow(LintSigns[5]) /\ LinterRow(LintSigns[6])
        /\ LinterRow(LintSigns[7])
    BY DEF LintSigns, LinterRow
  <2>2. \A j \in 1..7 : j \in {1, 2, 3, 4, 5, 6, 7}
    OBVIOUS
  <2> QED BY <2>1, <2>2
<1> QED BY <1>2, <1>3

LEMMA TimeoutRow ==
  ASSUME NEW text, Has(TimeoutSigns, text)
  PROVE  FirstOf(TimeoutSigns, text).limit \in BOOLEAN
<1>1. DOMAIN TimeoutSigns = 1..5
  BY DEF TimeoutSigns
<1>2. PICK i \in 1..5 : FirstOf(TimeoutSigns, text) = TimeoutSigns[i]
  BY <1>1, FirstIsInTable
<1>3. \A j \in 1..5 : TimeoutSigns[j].limit \in BOOLEAN
  <2>1. /\ TimeoutSigns[1].limit \in BOOLEAN
        /\ TimeoutSigns[2].limit \in BOOLEAN
        /\ TimeoutSigns[3].limit \in BOOLEAN
        /\ TimeoutSigns[4].limit \in BOOLEAN
        /\ TimeoutSigns[5].limit \in BOOLEAN
    BY DEF TimeoutSigns
  <2>2. \A j \in 1..5 : j \in {1, 2, 3, 4, 5}
    OBVIOUS
  <2> QED BY <2>1, <2>2
<1> QED BY <1>2, <1>3

ConfigKinds == {"env_var", "secret", "runner_env", "file_path", "rate_limit"}

LEMMA ConfigRow ==
  ASSUME NEW text, Has(ConfigSigns, text)
  PROVE  FirstOf(ConfigSigns, text).kind \in ConfigKinds
<1>1. DOMAIN ConfigSigns = 1..8
  BY DEF ConfigSigns
<1>2. PICK i \in 1..8 : FirstOf(ConfigSigns, text) = ConfigSigns[i]
  BY <1>1, FirstIsInTable
<1>3. \A j \in 1..8 : ConfigSigns[j].kind \in ConfigKinds
  <2>1. /\ ConfigSigns[1].kind \in ConfigKinds
        /\ ConfigSigns[2].kind \in ConfigKinds
        /\ ConfigSigns[3].kind \in ConfigKinds
        /\ ConfigSigns[4].kind \in ConfigKinds
        /\ ConfigSigns[5].kind \in ConfigKinds
        /\ ConfigSigns[6].kind \in ConfigKinds
        /\ ConfigSigns[7].kind \in ConfigKinds
        /\ ConfigSigns[8].kind \in ConfigKinds
    BY DEF ConfigSigns, ConfigKinds
  <2>2. \A j \in 1..8 : j \in {1, 2, 3, 4, 5, 6, 7, 8}
    OBVIOUS
  <2> QED BY <2>1, <2>2
<1> QED BY <1>2, <1>3

-----------------------------------------------------------------------------
(* A diagnosis of a pattern is auto-fixable by a rule on what it has found. *)
PatternRule(d) ==
  /\ d.type = "dependency" => (d.fixable <=> d.manager \in {"npm", "pip"})
  /\ d.type = "lint" => /\ d.fixable <=> d.config = "missing" \/ d.linter \in Autofixers
                        /\ d.config = "missing" => d.linter = "eslint"
                        /\ d.linter # "unknown"
  /\ d.type = "build_config" => (d.fixable <=> d.permissions)
  /\ d.type \in {"test", "timeout", "unknown"} => ~d.fixable

SoundPattern(d) ==
  d \in Diagnoses /\ d.source = "pattern" /\ d.confidence \in 50..Ceiling /\ PatternRule(d)

(* What a pattern's diagnosis has before its details are filled in.        *)
Fresh(d, type, confidence, fixable) ==
  /\ d \in Diagnoses
  /\ d.type = type /\ d.confidence = confidence /\ (d.fixable <=> fixable)
  /\ d.source = "pattern" /\ ~d.permissions

LEMMA BlankIsOne == Blank \in Diagnoses
<1>1. {"none", "npm", "unknown"} \subseteq Names
  BY KnownAssumption DEF Known
<1> QED BY <1>1 DEF Blank, Diagnoses, Types, Configs

LEMMA FoundIs ==
  ASSUME NEW type \in Types, NEW confidence \in Int, NEW fixable \in BOOLEAN
  PROVE  Fresh(Found(type, confidence, fixable), type, confidence, fixable)
<1>1. ~Blank.permissions
  BY DEF Blank
<1> QED BY <1>1, BlankIsOne DEF Found, Fresh, Diagnoses

LEMMA DependencyIsSound ==
  ASSUME NEW l \in ErrorTexts, Has(DependencySigns, l.text)
  PROVE  SoundPattern(DependencyDiagnosis(l))
<1> DEFINE row     == FirstOf(DependencySigns, l.text)
           manager == PackageManager(row, l.text)
           kind    == ResolutionKind(row, manager, l.text)
           named   == NamesPackage(l.text)
<1>1. row.conflict \in BOOLEAN
  BY DependencyRow
<1>2. manager \in {"npm", "pip", "docker", "generic"}
  BY DEF PackageManager
<1>3. kind \in {"version_conflict", "image_pull", "registry_access", "missing"}
  BY <1>1 DEF ResolutionKind
<1>4. manager \in {"npm", "pip"} => kind \in {"missing", "version_conflict"}
  BY <1>1 DEF ResolutionKind
<1>5. named \in BOOLEAN
  BY DEF NamesPackage
<1>6. manager \in Names /\ kind \in Names
  BY <1>2, <1>3, KnownAssumption DEF Known
<1> DEFINE fixable == manager \in {"npm", "pip"} /\ kind \in {"missing", "version_conflict"}
           base    == Found("dependency", 85, fixable)
<1>7. DependencyDiagnosis(l) = [base EXCEPT !.manager = manager, !.named = named, !.kind = kind]
  BY DEF DependencyDiagnosis
<1>8. fixable \in BOOLEAN /\ (fixable <=> manager \in {"npm", "pip"})
  BY <1>4
<1> HIDE DEF row, manager, kind, named, fixable
<1>9. Fresh(base, "dependency", 85, fixable)
  <2>1. "dependency" \in Types /\ 85 \in Int
    BY DEF Types
  <2> QED BY <2>1, <1>8, FoundIs, Zenon
<1> HIDE DEF base
<1>10. DependencyDiagnosis(l) \in Diagnoses
  <2>1. base \in Diagnoses
    BY <1>9 DEF Fresh
  <2>2. [base EXCEPT !.manager = manager, !.named = named, !.kind = kind] \in Diagnoses
    BY <1>5, <1>6, <2>1 DEF Diagnoses
  <2> QED BY <1>7, <2>2
<1>11. LET d == DependencyDiagnosis(l)
       IN  /\ d.source = "pattern" /\ d.type = "dependency" /\ d.confidence = 85
           /\ d.manager = manager /\ (d.fixable <=> fixable)
  BY <1>7, <1>9 DEF Fresh, Diagnoses
<1> QED BY <1>8, <1>10, <1>11 DEF SoundPattern, PatternRule, Ceiling

LEMMA LintIsSound ==
  ASSUME NEW l \in ErrorTexts, Has(LintSigns, l.text)
  PROVE  SoundPattern(LintDiagnosis(l))
<1> DEFINE row == FirstOf(LintSigns, l.text)
<1>1. LinterRow(row)
  BY LintRow
<1> DEFINE fixable == row.config = "missing" \/ row.linter \in Autofixers
           base    == Found("lint", 90, fixable)
<1>2. LintDiagnosis(l) = [base EXCEPT !.linter = row.linter, !.config = row.config]
  BY DEF LintDiagnosis
<1>3. row.linter \in Names
  BY <1>1, KnownAssumption DEF LinterRow, Known
<1>4. fixable \in BOOLEAN
  BY <1>1 DEF LinterRow
<1>5. Fresh(base, "lint", 90, fixable)
  <2>1. "lint" \in Types /\ 90 \in Int
    BY DEF Types
  <2> HIDE DEF fixable
  <2> QED BY <2>1, <1>4, FoundIs, Zenon
<1> HIDE DEF row, base
<1>6. LintDiagnosis(l) \in Diagnoses
  <2>1. base \in Diagnoses /\ row.config \in Configs
    BY <1>1, <1>5 DEF Fresh, LinterRow, Configs
  <2>2. [base EXCEPT !.linter = row.linter, !.config = row.config] \in Diagnoses
    BY <1>3, <2>1 DEF Diagnoses
  <2> QED BY <1>2, <2>2
<1>7. LET d == LintDiagnosis(l)
      IN  /\ d.source = "pattern" /\ d.type = "lint" /\ d.confidence = 90
          /\ d.linter = row.linter /\ d.config = row.config /\ (d.fixable <=> fixable)
  BY <1>2, <1>5 DEF Fresh, Diagnoses
<1> QED BY <1>1, <1>6, <1>7 DEF LinterRow, SoundPattern, PatternRule, Ceiling

LEMMA TestsAreSound ==
  ASSUME NEW l \in ErrorTexts
  PROVE  SoundPattern(FlakyDiagnosis(l)) /\ SoundPattern(TestDiagnosis(l))
<1>1. "test" \in Types /\ 78 \in Int /\ 85 \in Int /\ FALSE \in BOOLEAN
  BY DEF Types
<1> DEFINE flaky == Found("test", 78, FALSE)
           test  == Found("test", 85, FALSE)
           timing == "timing_word" \in l.text
<1>2. Fresh(flaky, "test", 78, FALSE) /\ Fresh(test, "test", 85, FALSE)
  BY <1>1, FoundIs, Zenon
<1>3. /\ FlakyDiagnosis(l) = [flaky EXCEPT !.flaky = TRUE]
      /\ TestDiagnosis(l) = [test EXCEPT !.flaky = timing]
  BY DEF FlakyDiagnosis, TestDiagnosis
<1>4. timing \in BOOLEAN
  OBVIOUS
<1> HIDE DEF flaky, test, timing
<1>5. FlakyDiagnosis(l) \in Diagnoses /\ TestDiagnosis(l) \in Diagnoses
  <2>1. flaky \in Diagnoses /\ test \in Diagnoses
    BY <1>2 DEF Fresh
  <2>2. [flaky EXCEPT !.flaky = TRUE] \in Diagnoses
    BY <2>1 DEF Diagnoses
  <2>3. [test EXCEPT !.flaky = timing] \in Diagnoses
    BY <1>4, <2>1 DEF Diagnoses
  <2> QED BY <1>3, <2>2, <2>3
<1>6. LET d == FlakyDiagnosis(l)
      IN  d.source = "pattern" /\ d.type = "test" /\ d.confidence = 78 /\ ~d.fixable
  BY <1>2, <1>3 DEF Fresh, Diagnoses
<1>7. LET d == TestDiagnosis(l)
      IN  d.source = "pattern" /\ d.type = "test" /\ d.confidence = 85 /\ ~d.fixable
  BY <1>2, <1>3 DEF Fresh, Diagnoses
<1> QED BY <1>5, <1>6, <1>7 DEF SoundPattern, PatternRule, Ceiling

LEMMA TimeoutIsSound ==
  ASSUME NEW l \in ErrorTexts, Has(TimeoutSigns, l.text)
  PROVE  SoundPattern(TimeoutDiagnosis(l))
<1> DEFINE resource == ResourceSignal(l.text)
           limit    == FirstOf(TimeoutSigns, l.text).limit
           given    == l.minutes
           doubled  == SuggestedTimeout(l.minutes)
           kind == CASE resource # "unknown" -> "runner_capacity"
                     [] resource = "unknown" /\ limit -> "increase_timeout"
                     [] OTHER -> "optimize_step"
<1>1. resource \in {"disk", "memory", "unknown"}
  BY DEF ResourceSignal
<1>2. limit \in BOOLEAN
  BY TimeoutRow
<1>3. given \in Int /\ doubled \in Int
  BY MaxOfTwo DEF ErrorTexts, SuggestedTimeout
<1>4. kind \in {"runner_capacity", "increase_timeout", "optimize_step"}
  BY <1>1, <1>2
<1>5. resource \in Names /\ kind \in Names
  BY <1>1, <1>4, KnownAssumption DEF Known
<1> DEFINE base == Found("timeout", 80, FALSE)
<1>6. TimeoutDiagnosis(l) = [base EXCEPT !.minutes = given, !.suggested = doubled,
                                         !.resource = resource, !.kind = kind]
  BY DEF TimeoutDiagnosis
<1>7. Fresh(base, "timeout", 80, FALSE)
  <2>1. "timeout" \in Types /\ 80 \in Int /\ FALSE \in BOOLEAN
    BY DEF Types
  <2> QED BY <2>1, FoundIs, Zenon
<1> HIDE DEF resource, limit, given, doubled, kind, base
<1>8. TimeoutDiagnosis(l) \in Diagnoses
  <2>1. base \in Diagnoses
    BY <1>7 DEF Fresh
  <2>2. [base EXCEPT !.minutes = given, !.suggested = doubled,
                     !.resource = resource, !.kind = kind] \in Diagnoses
    BY <1>3, <1>5, <2>1 DEF Diagnoses
  <2> QED BY <1>6, <2>2
<1>9. LET d == TimeoutDiagnosis(l)
      IN  d.source = "pattern" /\ d.type = "timeout" /\ d.confidence = 80 /\ ~d.fixable
  BY <1>6, <1>7 DEF Fresh, Diagnoses
<1> QED BY <1>8, <1>9 DEF SoundPattern, PatternRule, Ceiling

LEMMA ConfigsAreSound ==
  ASSUME NEW l \in ErrorTexts
  PROVE  /\ SoundPattern(PermissionDiagnosis(l))
         /\ Has(ConfigSigns, l.text) => SoundPattern(ConfigDiagnosis(l))
<1>1. "build_config" \in Types /\ 90 \in Int /\ 75 \in Int /\ {TRUE, FALSE} \subseteq BOOLEAN
  BY DEF Types
<1> DEFINE permission == Found("build_config", 90, TRUE)
           config     == Found("build_config", 75, FALSE)
<1>2. Fresh(permission, "build_config", 90, TRUE) /\ Fresh(config, "build_config", 75, FALSE)
  BY <1>1, FoundIs, Zenon
<1>3. PermissionDiagnosis(l) = [permission EXCEPT !.permissions = TRUE, !.kind = "workflow_permission"]
  BY DEF PermissionDiagnosis
<1> DEFINE first == FirstOf(ConfigSigns, l.text).kind
           kind  == IF first # "secret" /\ l.vars # {} THEN "env_var" ELSE first
<1>4. ConfigDiagnosis(l) = [config EXCEPT !.vars = l.vars, !.kind = kind]
  BY DEF ConfigDiagnosis
<1>5. Has(ConfigSigns, l.text) => kind \in Names
  BY ConfigRow, KnownAssumption DEF ConfigKinds, Known
<1>6. l.vars \in SUBSET STRING /\ "workflow_permission" \in Names
  BY KnownAssumption DEF ErrorTexts, Known
<1> HIDE DEF permission, config, first, kind
<1>7. SoundPattern(PermissionDiagnosis(l))
  <2>1. permission \in Diagnoses
    BY <1>2 DEF Fresh
  <2>2. [permission EXCEPT !.permissions = TRUE, !.kind = "workflow_permission"] \in Diagnoses
    BY <1>6, <2>1 DEF Diagnoses
  <2>3. LET d == PermissionDiagnosis(l)
        IN  /\ d.source = "pattern" /\ d.type = "build_config" /\ d.confidence = 90
            /\ d.fixable /\ d.permissions
    BY <1>2, <1>3 DEF Fresh, Diagnoses
  <2> QED BY <1>3, <2>2, <2>3 DEF SoundPattern, PatternRule, Ceiling
<1>8. ASSUME Has(ConfigSigns, l.text) PROVE SoundPattern(ConfigDiagnosis(l))
  <2>1. config \in Diagnoses
    BY <1>2 DEF Fresh
  <2> DEFINE named == l.vars
  <2>2. named \in SUBSET STRING
    BY <1>6
  <2> HIDE DEF named
  <2>3. [config EXCEPT !.vars = named, !.kind = kind] \in Diagnoses
    BY <1>5, <1>8, <2>1, <2>2 DEF Diagnoses
  <2>4. ConfigDiagnosis(l) = [config EXCEPT !.vars = named, !.kind = kind]
    BY <1>4 DEF named
  <2>5. LET d == ConfigDiagnosis(l)
        IN  /\ d.source = "pattern" /\ d.type = "build_config" /\ d.confidence = 75
            /\ ~d.fixable /\ ~d.permissions
    BY <1>2, <2>4 DEF Fresh, Diagnoses
  <2> QED BY <2>3, <2>4, <2>5 DEF SoundPattern, PatternRule, Ceiling
<1> QED BY <1>7, <1>8

(* So is every diagnosis the patterns make of a text, and they make one at most. *)
LEMMA PatternsAreSound ==
  ASSUME NEW l \in ErrorTexts
  PROVE  /\ \A d \in PatternDiagnoses(l) : SoundPattern(d)
         /\ \A d, e \in PatternDiagnoses(l) : d = e
<1> DEFINE found == << Has(DependencySigns, l.text), Has(LintSigns, l.text), "flaky" \in l.text,
                  HasTestFailure(l.text), Has(TimeoutSigns, l.text),
                  "token_permission" \in l.text, Has(ConfigSigns, l.text) >>
           first == {i \in DOMAIN found : found[i] /\ \A j \in 1..(i - 1) : ~found[j]}
           made(i) == CASE i = 1 -> DependencyDiagnosis(l) [] i = 2 -> LintDiagnosis(l)
                        [] i = 3 -> FlakyDiagnosis(l)      [] i = 4 -> TestDiagnosis(l)
                        [] i = 5 -> TimeoutDiagnosis(l)    [] i = 6 -> PermissionDiagnosis(l)
                        [] i = 7 -> ConfigDiagnosis(l)
<1>1. PatternDiagnoses(l) = {made(i) : i \in first}
  BY DEF PatternDiagnoses
<1>2. DOMAIN found = 1..7
  OBVIOUS
<1>3. /\ found[1] => Has(DependencySigns, l.text)
      /\ found[2] => Has(LintSigns, l.text)
      /\ found[5] => Has(TimeoutSigns, l.text)
      /\ found[7] => Has(ConfigSigns, l.text)
  OBVIOUS
<1>4. /\ made(1) = DependencyDiagnosis(l) /\ made(2) = LintDiagnosis(l)
      /\ made(3) = FlakyDiagnosis(l) /\ made(4) = TestDiagnosis(l)
      /\ made(5) = TimeoutDiagnosis(l) /\ made(6) = PermissionDiagnosis(l)
      /\ made(7) = ConfigDiagnosis(l)
  OBVIOUS
<1> HIDE DEF found, made
<1>5. \A i \in first : i \in 1..7 /\ found[i]
  BY <1>2
<1>6. \A i, k \in first : i = k
  <2> SUFFICES ASSUME NEW i \in first, NEW k \in first, i < k PROVE FALSE
    BY <1>5
  <2> QED BY <1>5
<1>7. ASSUME NEW i \in first PROVE SoundPattern(made(i))
  <2>1. i \in {1, 2, 3, 4, 5, 6, 7} /\ found[i]
    BY <1>5
  <2> QED BY <2>1, <1>3, <1>4, DependencyIsSound, LintIsSound, TestsAreSound, TimeoutIsSound,
             ConfigsAreSound
<1> QED BY <1>1, <1>6, <1>7

-----------------------------------------------------------------------------
(* What moves a confidence leaves the rest as it is.                       *)
LEMMA ConfidenceOnly ==
  ASSUME NEW d \in Diagnoses, NEW c \in Int
  PROVE  LET e == [d EXCEPT !.confidence = c]
         IN  /\ e \in Diagnoses /\ e.confidence = c /\ e.source = d.source
             /\ SoundPattern(d) /\ c \in 50..Ceiling => SoundPattern(e)
<1> DEFINE e == [d EXCEPT !.confidence = c]
<1>1. e \in Diagnoses
  BY DEF Diagnoses
<1>2. /\ e.confidence = c /\ e.source = d.source /\ e.type = d.type
      /\ e.manager = d.manager /\ e.linter = d.linter
  BY DEF Diagnoses
<1>3. e.fixable = d.fixable /\ e.config = d.config /\ e.permissions = d.permissions
  BY DEF Diagnoses
<1> HIDE DEF e
<1>4. SoundPattern(d) /\ c \in 50..Ceiling => SoundPattern(e)
  BY <1>1, <1>2, <1>3 DEF SoundPattern, PatternRule
<1> QED BY <1>1, <1>2, <1>4 DEF e

Rated(d) == d.confidence \in 0..100

LEMMA RaisedIs ==
  ASSUME NEW d \in Diagnoses, NEW by \in Nat
  PROVE  /\ Raised(d, by) \in Diagnoses
         /\ Rated(d) => Rated(Raised(d, by))
         /\ SoundPattern(d) => SoundPattern(Raised(d, by))
<1> DEFINE c == Min({Ceiling, d.confidence + by})
<1>1. d.confidence \in Int
  BY DEF Diagnoses
<1>2. c = IF Ceiling <= d.confidence + by THEN Ceiling ELSE d.confidence + by
  BY <1>1, MinOfTwo DEF Ceiling
<1>3. c \in Int /\ (SoundPattern(d) => c \in 50..Ceiling) /\ (Rated(d) => c \in 0..100)
  BY <1>1, <1>2 DEF SoundPattern, Rated, Ceiling
<1>4. Raised(d, by) = [d EXCEPT !.confidence = c]
  BY DEF Raised
<1> HIDE DEF c
<1> QED BY <1>3, <1>4, ConfidenceOnly DEF Rated

LEMMA MovedAre ==
  ASSUME NEW d \in Diagnoses, NEW overlap \in BOOLEAN, NEW matches \in 0..6
  PROVE  /\ Correlated(d, overlap) \in Diagnoses
         /\ WithHistory(d, matches) \in Diagnoses
         /\ Rated(d) => Rated(Correlated(d, overlap)) /\ Rated(WithHistory(d, matches))
         /\ SoundPattern(d) => /\ SoundPattern(Correlated(d, overlap))
                               /\ SoundPattern(WithHistory(d, matches))
<1>1. 5 + 2 * Min({matches, 3}) \in Nat
  BY MinOfTwo
<1> QED BY <1>1, RaisedIs DEF Correlated, WithHistory

(* A confidence with the external evidence weighed in.                     *)
Weighed(confidence, delta) == Max({0, Min({Ceiling, confidence + delta})})

LEMMA WeighedIs ==
  ASSUME NEW c \in Int, NEW delta \in 0..100
  PROVE  Weighed(c, delta) \in 0..Ceiling /\ (c \in 50..Ceiling => Weighed(c, delta) \in 50..Ceiling)
<1> DEFINE m == Min({Ceiling, c + delta})
<1>1. delta \in Int /\ delta >= 0 /\ Ceiling = 95
  BY DEF Ceiling
<1>2. m = IF Ceiling <= c + delta THEN Ceiling ELSE c + delta
  BY <1>1, MinOfTwo
<1>3. m \in Int /\ m <= 95 /\ (c \in 50..Ceiling => m \in 50..Ceiling)
  BY <1>1, <1>2
<1>4. Weighed(c, delta) = Max({0, m})
  BY DEF Weighed
<1> HIDE DEF m
<1>5. Weighed(c, delta) = IF 0 >= m THEN 0 ELSE m
  BY <1>3, <1>4, MaxOfTwo
<1> QED BY <1>1, <1>3, <1>5

LEMMA SignalIs ==
  ASSUME NEW d \in Diagnoses, NEW delta \in 0..100
  PROVE  LET e == WithSignal(d, delta)
         IN  /\ e \in Diagnoses /\ e.source = d.source
             /\ e.confidence \in {d.confidence, Weighed(d.confidence, delta)}
             /\ Rated(d) => Rated(e)
             /\ SoundPattern(d) => SoundPattern(e)
<1> DEFINE c == Weighed(d.confidence, delta)
<1>1. d.confidence \in Int
  BY DEF Diagnoses
<1>2. c \in Int /\ c \in 0..100 /\ (SoundPattern(d) => c \in 50..Ceiling)
  <2>1. c \in 0..Ceiling /\ (SoundPattern(d) => c \in 50..Ceiling)
    BY <1>1, WeighedIs DEF SoundPattern
  <2> HIDE DEF c
  <2> QED BY <2>1 DEF Ceiling
<1>3. WithSignal(d, delta) = IF delta = 0 THEN d ELSE [d EXCEPT !.confidence = c]
  BY DEF WithSignal, Weighed
<1> HIDE DEF c
<1>4. CASE delta = 0
  BY <1>3, <1>4
<1>5. CASE delta # 0
  BY <1>2, <1>3, <1>5, ConfidenceOnly DEF c, Rated
<1> QED BY <1>4, <1>5

-----------------------------------------------------------------------------
(* A response gives a diagnosis of the model's, or leaves the pattern's.   *)
LEMMA UnknownIs ==
  ASSUME NEW c \in Int
  PROVE  Unknown(c) \in Diagnoses /\ Unknown(c).source = "llm" /\ Unknown(c).confidence = c
BY BlankIsOne DEF Unknown, Diagnoses

LEMMA ParsedIs ==
  ASSUME NEW candidates \in Seq(Candidates), NEW fallback \in SUBSET Diagnoses
  PROVE  LET d     == Parsed(candidates, fallback)
             valid == \E i \in DOMAIN candidates : Valid(candidates[i])
         IN  /\ d \in Diagnoses
             /\ (\A e \in fallback : Rated(e)) => Rated(d)
             /\ d.source = "pattern" => d \in fallback
             /\ ~valid /\ fallback # {} => d \in fallback
<1> DEFINE valid == {i \in DOMAIN candidates : Valid(candidates[i])}
           d     == Parsed(candidates, fallback)
<1>1. CASE valid # {}
  <2> DEFINE i == Min(valid)
  <2>1. valid \in SUBSET Nat
    OBVIOUS
  <2>2. i \in valid
    BY <1>1, <2>1, MinIsIn
  <2>3. candidates[i].diagnosis \in Diagnoses /\ Rated(candidates[i].diagnosis)
    <3>1. candidates[i] \in Candidates /\ Valid(candidates[i])
      BY <2>2
    <3> HIDE DEF i
    <3> QED BY <3>1 DEF Candidates, Valid, Rated
  <2>4. d = [candidates[i].diagnosis EXCEPT !.source = "llm"]
    BY <1>1 DEF Parsed
  <2> HIDE DEF i, d
  <2>5. d \in Diagnoses /\ d.source = "llm" /\ Rated(d)
    BY <2>3, <2>4 DEF Diagnoses, Rated
  <2> QED BY <1>1, <2>5 DEF d
<1>2. CASE valid = {} /\ fallback # {}
  <2>1. d = CHOOSE e \in fallback : TRUE
    BY <1>2 DEF Parsed
  <2> QED BY <1>2, <2>1
<1>3. CASE valid = {} /\ fallback = {}
  <2>1. d = Unknown(30)
    BY <1>3 DEF Parsed
  <2> QED BY <2>1, <1>3, UnknownIs DEF Rated
<1> QED BY <1>1, <1>2, <1>3

-----------------------------------------------------------------------------
(* What a plan may have: what only a demo may do, and never a secret.      *)
PlanFits(p, demo) ==
  /\ p \in RemediationPlans
  /\ p.action = "retry" \/ p.vars # {} \/ p.minutes > 0 => demo
  /\ p.vars \cap Secretive = {}

LEMMA IssueFits == ASSUME NEW demo PROVE PlanFits(IssueOnly, demo) /\ IssueOnly.action = "issue"
BY DEF PlanFits, IssueOnly, Plan, RemediationPlans

LEMMA PRFits ==
  ASSUME NEW demo, NEW edits \in SUBSET Edits
  PROVE  PlanFits(PR(edits), demo) /\ PR(edits).action = "pr"
BY DEF PlanFits, PR, Plan, RemediationPlans

LEMMA GeneratedFits ==
  ASSUME NEW d \in Diagnoses, NEW demo \in BOOLEAN
  PROVE  PlanFits(GeneratedPlan(d, demo), demo)
<1>1. PlanFits(DependencyPlan(d), demo)
  BY IssueFits, PRFits DEF DependencyPlan, Edits
<1>2. PlanFits(LintPlan(d), demo)
  BY IssueFits, PRFits DEF LintPlan, Edits
<1>3. PlanFits(TestPlan(d, demo), demo)
  <2>1. demo => PlanFits(Plan("retry", {}), demo)
    BY DEF PlanFits, Plan, RemediationPlans
  <2> QED BY <2>1, IssueFits DEF TestPlan
<1>4. PlanFits(BuildConfigPlan(d, demo), demo)
  <2> DEFINE safe == d.vars \ Secretive
             p    == [PR({"workflow variables"}) EXCEPT !.vars = safe]
  <2>1. safe \in SUBSET STRING /\ safe \cap Secretive = {}
    BY DEF Diagnoses
  <2> HIDE DEF safe
  <2>2. demo => PlanFits(p, demo)
    <3> DEFINE q == PR({"workflow variables"})
    <3>1. q \in RemediationPlans
      BY PRFits DEF PlanFits, Edits
    <3>2. p = [q EXCEPT !.vars = safe]
      OBVIOUS
    <3> HIDE DEF q, p
    <3> QED BY <2>1, <3>1, <3>2 DEF PlanFits, RemediationPlans
  <2>3. VariablesPlan(d, demo) \in {p, IssueOnly} /\ (~demo => VariablesPlan(d, demo) = IssueOnly)
    BY DEF VariablesPlan, safe
  <2>4. PlanFits(PermissionsPlan, demo)
    BY PRFits DEF PermissionsPlan, Edits
  <2> HIDE DEF p
  <2> QED BY <2>2, <2>3, <2>4, IssueFits DEF BuildConfigPlan
<1>5. PlanFits(TimeoutPlan(d, demo), demo)
  <2> DEFINE minutes == Max({5, d.suggested})
             p       == [PR({"workflow timeout"}) EXCEPT !.minutes = minutes]
  <2>1. minutes \in Int
    BY MaxOfTwo DEF Diagnoses
  <2>2. demo => PlanFits(p, demo)
    <3> HIDE DEF minutes
    <3> QED BY <2>1 DEF PlanFits, PR, Plan, RemediationPlans, Edits
  <2>3. TimeoutPlan(d, demo) \in {p, IssueOnly} /\ (~demo => TimeoutPlan(d, demo) = IssueOnly)
    BY DEF TimeoutPlan
  <2> HIDE DEF p
  <2> QED BY <2>2, <2>3, IssueFits
<1> QED BY <1>1, <1>2, <1>3, <1>4, <1>5, IssueFits DEF GeneratedPlan

(* Out of demo modes a sound pattern diagnosis gets a pull request exactly *)
(* when it is auto-fixable and, a dependency, named.                       *)
LEMMA RuleMeansPlan ==
  ASSUME NEW d, SoundPattern(d)
  PROVE  GeneratedPlan(d, FALSE).action = "pr" <=> d.fixable /\ (d.type = "dependency" => d.named)
<1>1. IssueOnly.action = "issue" /\ \A edits : PR(edits).action = "pr"
  BY DEF IssueOnly, PR, Plan
<1>2. d \in Diagnoses /\ PatternRule(d)
  BY DEF SoundPattern
<1>3. CASE d.type = "dependency"
  BY <1>1, <1>2, <1>3 DEF GeneratedPlan, DependencyPlan, PatternRule, Diagnoses
<1>4. CASE d.type = "lint"
  BY <1>1, <1>2, <1>4 DEF GeneratedPlan, LintPlan, PatternRule, Diagnoses
<1>5. CASE d.type = "test"
  BY <1>1, <1>2, <1>5 DEF GeneratedPlan, TestPlan, PatternRule, Diagnoses
<1>6. CASE d.type = "timeout"
  BY <1>1, <1>2, <1>6 DEF GeneratedPlan, TimeoutPlan, PatternRule, Diagnoses
<1>7. CASE d.type = "build_config"
  BY <1>1, <1>2, <1>7 DEF GeneratedPlan, BuildConfigPlan, VariablesPlan, PermissionsPlan,
                          PatternRule, Diagnoses
<1>8. CASE d.type = "unknown"
  BY <1>1, <1>2, <1>8 DEF GeneratedPlan, PatternRule, Diagnoses
<1> QED BY <1>2, <1>3, <1>4, <1>5, <1>6, <1>7, <1>8 DEF Diagnoses, Types

-----------------------------------------------------------------------------
(* The invariant: what is known of a diagnosis on its way, and of the plan *)
(* once there is one.                                                      *)
PatternsOK == \A d \in diagnosis : d.source = "pattern" => SoundPattern(d)

Decided == step \in {"diagnosed", "remediated"} => diagnosis # {}

(* The confidence is that of before the evidence, or with it weighed in.   *)
WeighedOnce ==
  /\ step = "searched" => \A d \in diagnosis : d.confidence = native
  /\ step \in {"asking", "asking again"} \/ (step \in {"diagnosed", "remediated"} /\ ~rejected)
     => \A d \in diagnosis : d.confidence \in {native, Weighed(native, signal)}

NothingYet == step # "remediated" => done = "none" /\ plan = IssueOnly

Published ==
  step = "remediated" => ActionsStayInBounds /\ JenkinsIsHeard /\ FixableMeansPR

DecisionInv ==
  DecisionTypeOK /\ PatternsOK /\ Decided /\ WeighedOnce /\ NothingYet /\ Published

LEMMA SignalIsDelta == DecisionTypeOK => signal \in 0..100
BY EvidenceAssumption DEF DecisionTypeOK

LEMMA InitDecides == DecisionInit => DecisionInv
<1> SUFFICES ASSUME DecisionInit PROVE DecisionInv
  OBVIOUS
<1>1. log \subseteq Logs /\ \A l, m \in log : l = m
  BY DEF DecisionInit
<1>2. settings \in Settings
  BY DEF DecisionInit, Settings
<1>3. plan \in RemediationPlans
  BY IssueFits DEF DecisionInit, PlanFits
<1>4. step \in Steps /\ done \in {"none", "skip", "dry", "pr", "issue", "retry"}
  BY DEF DecisionInit, Steps
<1>5. /\ jenkins \in BOOLEAN /\ signal \in Signals /\ native \in Int
      /\ rejected = FALSE /\ diagnosis = {}
  BY DEF DecisionInit
<1>6. DecisionTypeOK
  BY <1>1, <1>2, <1>3, <1>4, <1>5 DEF DecisionTypeOK
<1> QED BY <1>6 DEF DecisionInit, DecisionInv, PatternsOK, Decided, WeighedOnce, NothingYet, Published

(* What the steps of diagnose have in common: the settings, the plan and   *)
(* the evidence stay, and what they say of the diagnosis is to be shown.   *)
LEMMA Diagnosing ==
  ASSUME DecisionInv, step # "remediated", UNCHANGED <<evidence, outcome>>,
         step' \in Steps \ {"remediated"}, native' \in Int, rejected' \in BOOLEAN,
         diagnosis' \subseteq Diagnoses, \A d, e \in diagnosis' : d = e,
         \A d \in diagnosis' : Rated(d),
         PatternsOK', Decided', WeighedOnce'
  PROVE  DecisionInv'
BY DEF DecisionInv, DecisionTypeOK, NothingYet, Published, Rated, evidence, outcome

LEMMA TheOne == ASSUME NEW S, S # {}, \A d, e \in S : d = e PROVE The(S) \in S /\ S = {The(S)}
BY DEF The

LEMMA NoRunnerIsSound == SoundPattern(NoRunnerDiagnosis) /\ NoRunnerDiagnosis.confidence = 88
<1>1. "build_config" \in Types /\ 88 \in Int /\ FALSE \in BOOLEAN
  BY DEF Types
<1>2. Fresh(NoRunnerDiagnosis, "build_config", 88, FALSE)
  BY <1>1, FoundIs, Zenon DEF NoRunnerDiagnosis
<1> QED BY <1>2 DEF Fresh, SoundPattern, PatternRule, Ceiling

LEMMA DiagnoseWithoutLogsStep ==
  ASSUME DecisionInv, DiagnoseWithoutLogs PROVE DecisionInv'
<1>1. PICK d \in {NoRunnerDiagnosis, [Blank EXCEPT !.confidence = 0]} : diagnosis' = {d}
  BY DEF DiagnoseWithoutLogs
<1>2. d \in Diagnoses /\ d.confidence \in Int /\ Rated(d)
  <2>1. [Blank EXCEPT !.confidence = 0] \in Diagnoses
    BY BlankIsOne DEF Diagnoses
  <2>2. d \in Diagnoses
    BY <1>1, <2>1, NoRunnerIsSound DEF SoundPattern
  <2>3. [Blank EXCEPT !.confidence = 0].confidence = 0
    BY DEF Blank
  <2> QED BY <1>1, <2>2, <2>3, NoRunnerIsSound DEF Diagnoses, Rated
<1>3. d.source = "pattern" => SoundPattern(d)
  <2>1. [Blank EXCEPT !.confidence = 0].source = "none"
    BY DEF Blank
  <2> QED BY <1>1, <2>1, NoRunnerIsSound
<1>4. native' = d.confidence
  BY <1>1 DEF DiagnoseWithoutLogs, The
<1>5. step # "remediated" /\ step' = "diagnosed" /\ UNCHANGED <<evidence, rejected, outcome>>
  BY DEF DiagnoseWithoutLogs
<1>6. rejected' \in BOOLEAN
  BY <1>5 DEF DecisionInv, DecisionTypeOK
<1>7. PatternsOK' /\ Decided' /\ WeighedOnce'
  BY <1>1, <1>3, <1>4, <1>5 DEF PatternsOK, Decided, WeighedOnce
<1> QED BY <1>1, <1>2, <1>4, <1>5, <1>6, <1>7, Diagnosing DEF Steps

LEMMA MatchStep == ASSUME DecisionInv, Match PROVE DecisionInv'
<1> DEFINE l == The(log)
<1>1. l \in ErrorTexts
  BY TheOne, LogAssumption DEF Match, DecisionInv, DecisionTypeOK
<1>2. diagnosis' = PatternDiagnoses(l)
  BY DEF Match
<1> HIDE DEF l
<1>3. /\ \A d \in diagnosis' : SoundPattern(d)
      /\ \A d, e \in diagnosis' : d = e
  BY <1>1, <1>2, PatternsAreSound
<1>4. diagnosis' \subseteq Diagnoses /\ \A d \in diagnosis' : Rated(d)
  BY <1>3 DEF SoundPattern, Rated, Ceiling
<1>5. step # "remediated" /\ step' = "matched" /\ UNCHANGED <<evidence, native, rejected, outcome>>
  BY DEF Match
<1>6. native' \in Int /\ rejected' \in BOOLEAN
  BY <1>5 DEF DecisionInv, DecisionTypeOK
<1>7. PatternsOK' /\ Decided' /\ WeighedOnce'
  BY <1>3, <1>5 DEF PatternsOK, Decided, WeighedOnce
<1> QED BY <1>3, <1>4, <1>5, <1>6, <1>7, Diagnosing DEF Steps

LEMMA CorrelateStep == ASSUME DecisionInv, Correlate PROVE DecisionInv'
<1>1. PICK overlap \in BOOLEAN : diagnosis' = {Correlated(d, overlap) : d \in diagnosis}
  BY DEF Correlate, Each
<1>2. /\ diagnosis \subseteq Diagnoses /\ PatternsOK /\ \A d, e \in diagnosis : d = e
      /\ \A d \in diagnosis : Rated(d)
  BY DEF DecisionInv, DecisionTypeOK, Rated
<1>3. \A d \in diagnosis : /\ Correlated(d, overlap) \in Diagnoses
                           /\ Rated(Correlated(d, overlap))
                           /\ SoundPattern(d) => SoundPattern(Correlated(d, overlap))
  <2>1. 0 \in 0..6
    OBVIOUS
  <2> QED BY <1>2, <2>1, MovedAre, Zenon
<1>4. \A d \in diagnosis : Correlated(d, overlap).source = d.source
  BY <1>2 DEF Correlated, Raised, Diagnoses
<1>5. step # "remediated" /\ step' = "correlated" /\ UNCHANGED <<evidence, native, rejected, outcome>>
  BY DEF Correlate
<1>6. native' \in Int /\ rejected' \in BOOLEAN
  BY <1>5 DEF DecisionInv, DecisionTypeOK
<1>7. PatternsOK' /\ Decided' /\ WeighedOnce'
  BY <1>1, <1>2, <1>3, <1>4, <1>5 DEF PatternsOK, Decided, WeighedOnce
<1>8. /\ diagnosis' \subseteq Diagnoses /\ \A d, e \in diagnosis' : d = e
      /\ \A d \in diagnosis' : Rated(d)
  BY <1>1, <1>2, <1>3
<1> QED BY <1>5, <1>6, <1>7, <1>8, Diagnosing DEF Steps

LEMMA SearchHistoryStep == ASSUME DecisionInv, SearchHistory PROVE DecisionInv'
<1>1. PICK matches \in Matches : diagnosis' = {WithHistory(d, matches) : d \in diagnosis}
  BY DEF SearchHistory, Each
<1>2. /\ diagnosis \subseteq Diagnoses /\ PatternsOK /\ \A d, e \in diagnosis : d = e
      /\ \A d \in diagnosis : Rated(d)
  BY DEF DecisionInv, DecisionTypeOK, Rated
<1>3. \A d \in diagnosis : /\ WithHistory(d, matches) \in Diagnoses
                           /\ Rated(WithHistory(d, matches))
                           /\ SoundPattern(d) => SoundPattern(WithHistory(d, matches))
  <2>1. matches \in 0..6
    BY EvidenceAssumption
  <2> QED BY <1>2, <2>1, MovedAre
<1>4. \A d \in diagnosis : WithHistory(d, matches).source = d.source
  BY <1>2 DEF WithHistory, Raised, Diagnoses
<1>5. step # "remediated" /\ step' = "searched" /\ UNCHANGED <<evidence, rejected, outcome>>
  BY DEF SearchHistory
<1>6. /\ diagnosis' \subseteq Diagnoses /\ \A d, e \in diagnosis' : d = e
      /\ \A d \in diagnosis' : Rated(d)
  BY <1>1, <1>2, <1>3
<1>7. \A d \in diagnosis' : d.confidence = native' /\ d.confidence \in Int
  <2>1. ASSUME NEW d \in diagnosis' PROVE d.confidence = native' /\ d.confidence \in Int
    <3>1. diagnosis' # {} /\ d = The(diagnosis')
      BY <1>6, TheOne
    <3>2. native' = d.confidence
      BY <3>1 DEF SearchHistory
    <3> QED BY <1>6, <3>2 DEF Diagnoses
  <2> QED BY <2>1
<1>8. native' \in Int /\ rejected' \in BOOLEAN
  <2>1. diagnosis' = {} => native' = 0
    BY DEF SearchHistory
  <2> QED BY <2>1, <1>5, <1>7 DEF DecisionInv, DecisionTypeOK
<1>9. PatternsOK' /\ Decided' /\ WeighedOnce'
  BY <1>1, <1>2, <1>3, <1>4, <1>5, <1>7 DEF PatternsOK, Decided, WeighedOnce
<1> QED BY <1>5, <1>6, <1>8, <1>9, Diagnosing DEF Steps

LEMMA WeighSignalStep == ASSUME DecisionInv, WeighSignal PROVE DecisionInv'
<1>1. diagnosis' = {WithSignal(d, signal) : d \in diagnosis}
  BY DEF WeighSignal, Each
<1>2. /\ diagnosis \subseteq Diagnoses /\ PatternsOK /\ \A d, e \in diagnosis : d = e
      /\ \A d \in diagnosis : Rated(d)
      /\ signal \in 0..100 /\ native \in Int /\ rejected \in BOOLEAN
  BY SignalIsDelta DEF DecisionInv, DecisionTypeOK, Rated
<1>3. \A d \in diagnosis :
        LET e == WithSignal(d, signal)
        IN  /\ e \in Diagnoses /\ e.source = d.source /\ Rated(e)
            /\ e.confidence \in {d.confidence, Weighed(d.confidence, signal)}
            /\ SoundPattern(d) => SoundPattern(e)
  BY <1>2, SignalIs
<1>4. \A d \in diagnosis : d.confidence = native
  BY DEF WeighSignal, DecisionInv, WeighedOnce
<1>5. /\ step # "remediated" /\ UNCHANGED <<evidence, native, rejected, outcome>>
      /\ step' = IF \E d \in diagnosis' : d.confidence >= 80 THEN "diagnosed" ELSE "asking"
  BY DEF WeighSignal
<1>6. signal' = signal
  BY <1>5 DEF evidence
<1>7. /\ diagnosis' \subseteq Diagnoses /\ \A d, e \in diagnosis' : d = e
      /\ \A d \in diagnosis' : Rated(d)
  BY <1>1, <1>2, <1>3
<1>8. \A d \in diagnosis' : d.confidence \in {native', Weighed(native', signal')}
  BY <1>1, <1>3, <1>4, <1>5, <1>6
<1>9. PatternsOK' /\ Decided' /\ WeighedOnce'
  BY <1>1, <1>2, <1>3, <1>5, <1>8 DEF PatternsOK, Decided, WeighedOnce
<1> QED BY <1>2, <1>5, <1>7, <1>9, Diagnosing DEF Steps

LEMMA WaitingStep == ASSUME DecisionInv, NoAgent \/ Filtered PROVE DecisionInv'
<1>1. /\ step = "asking" /\ step' \in {"error", "asking again"}
      /\ UNCHANGED <<evidence, diagnosis, native, rejected, outcome>>
  BY DEF NoAgent, Filtered
<1>2. PatternsOK' /\ Decided' /\ WeighedOnce'
  BY <1>1 DEF DecisionInv, PatternsOK, Decided, WeighedOnce, evidence
<1>3. /\ native' \in Int /\ rejected' \in BOOLEAN
      /\ diagnosis' \subseteq Diagnoses /\ \A d, e \in diagnosis' : d = e
      /\ \A d \in diagnosis' : Rated(d)
  BY <1>1 DEF DecisionInv, DecisionTypeOK, Rated
<1> QED BY <1>1, <1>2, <1>3, Diagnosing DEF Steps

LEMMA AnswerStep == ASSUME DecisionInv, Answer PROVE DecisionInv'
<1>1. PICK response \in Responses :
        LET parsed == Parsed(response, diagnosis)
            valid  == \E i \in DOMAIN response : Valid(response[i])
        IN  /\ diagnosis' = {WithSignal(parsed, signal)}
            /\ rejected' = ~valid
            /\ native' = IF valid \/ diagnosis = {} THEN parsed.confidence ELSE native
  BY DEF Answer
<1> DEFINE parsed == Parsed(response, diagnosis)
           valid  == \E i \in DOMAIN response : Valid(response[i])
           e      == WithSignal(parsed, signal)
<1>2. /\ diagnosis \subseteq Diagnoses /\ PatternsOK
      /\ \A d \in diagnosis : Rated(d)
      /\ signal \in 0..100 /\ native \in Int
  BY SignalIsDelta DEF DecisionInv, DecisionTypeOK, Rated
<1>3. parsed \in Diagnoses /\ Rated(parsed) /\ (parsed.source = "pattern" => parsed \in diagnosis)
  BY <1>2, ParsedIs, ResponseAssumption
<1>4. diagnosis' = {e} /\ rejected' = ~valid
      /\ native' = IF valid \/ diagnosis = {} THEN parsed.confidence ELSE native
  BY <1>1
<1> HIDE DEF parsed, valid
<1>5. /\ e \in Diagnoses /\ e.source = parsed.source /\ Rated(e)
      /\ e.confidence \in {parsed.confidence, Weighed(parsed.confidence, signal)}
      /\ SoundPattern(parsed) => SoundPattern(e)
  BY <1>2, <1>3, SignalIs
<1> HIDE DEF e
<1>6. step # "remediated" /\ step' = "diagnosed" /\ UNCHANGED <<evidence, outcome>>
  BY DEF Answer
<1>7. signal' = signal
  BY <1>6 DEF evidence
<1>8. PatternsOK' /\ Decided'
  BY <1>2, <1>3, <1>4, <1>5 DEF PatternsOK, Decided
<1>9. ~rejected' => native' = parsed.confidence
  BY <1>4
<1>10. WeighedOnce'
  BY <1>4, <1>5, <1>6, <1>7, <1>9 DEF WeighedOnce
<1>11. native' \in Int /\ rejected' \in BOOLEAN
  <2>1. parsed.confidence \in Int
    BY <1>3 DEF Diagnoses
  <2>2. valid \in BOOLEAN
    BY DEF valid
  <2> QED BY <1>2, <1>4, <2>1, <2>2
<1> QED BY <1>4, <1>5, <1>6, <1>8, <1>10, <1>11, Diagnosing DEF Steps

(* What is left without the model is the pattern's diagnosis, or unknown.  *)
LEMMA FallbackStep ==
  ASSUME DecisionInv, step \in {"asking", "asking again"}, NEW c \in Int, c \in 0..100, Fallback(c)
  PROVE  DecisionInv'
<1>1. /\ diagnosis' = IF diagnosis = {} THEN {Unknown(c)} ELSE diagnosis
      /\ native' = IF diagnosis = {} THEN c ELSE native
      /\ step' = "diagnosed" /\ UNCHANGED <<evidence, rejected, outcome>>
  BY DEF Fallback
<1>2. /\ diagnosis \subseteq Diagnoses /\ PatternsOK /\ \A d, e \in diagnosis : d = e
      /\ native \in Int /\ rejected \in BOOLEAN /\ \A d \in diagnosis : Rated(d)
      /\ \A d \in diagnosis : d.confidence \in {native, Weighed(native, signal)}
  BY DEF DecisionInv, DecisionTypeOK, WeighedOnce, Rated
<1>3. c \in Int /\ Unknown(c) \in Diagnoses /\ Unknown(c).source = "llm" /\ Unknown(c).confidence = c
  BY UnknownIs
<1>4. signal' = signal
  BY <1>1 DEF evidence
<1>5. PatternsOK' /\ Decided' /\ WeighedOnce'
  BY <1>1, <1>2, <1>3, <1>4 DEF PatternsOK, Decided, WeighedOnce
<1>6. /\ diagnosis' \subseteq Diagnoses /\ \A d, e \in diagnosis' : d = e
      /\ \A d \in diagnosis' : Rated(d)
  BY <1>1, <1>2, <1>3 DEF Rated
<1>7. native' \in Int /\ rejected' \in BOOLEAN
  BY <1>1, <1>2, <1>3
<1> QED BY <1>1, <1>5, <1>6, <1>7, Diagnosing DEF Steps

-----------------------------------------------------------------------------
(* remediate: the diagnosis, what was planned for it and what the settings *)
(* made of the plan.                                                       *)
LEMMA RemediateStep == ASSUME DecisionInv, Remediate PROVE DecisionInv'
<1> DEFINE d == The(diagnosis)
           s == settings'
<1>1. /\ d \in diagnosis /\ diagnosis = {d} /\ d \in Diagnoses
      /\ d.source = "pattern" => SoundPattern(d)
  BY TheOne DEF Remediate, DecisionInv, DecisionTypeOK, Decided, PatternsOK
<1>2. /\ step = "diagnosed" /\ step' = "remediated"
      /\ UNCHANGED <<evidence, diagnosis, native, rejected>>
      /\ s \in Settings
  BY DEF Remediate
<1>3. s.demo \in BOOLEAN /\ s.create_pr \in BOOLEAN /\ s.create_issue \in BOOLEAN
      /\ s.retry \in BOOLEAN /\ s.jenkins_pr \in BOOLEAN /\ s.apply \in BOOLEAN
  BY <1>2 DEF Settings
<1>4. PICK p \in Plans(d, s.demo) : plan' = Restricted(p, s)
  BY DEF Remediate
<1>5. done' = IF ~s.apply THEN "dry" ELSE IF Enabled(plan'.action, s) THEN plan'.action ELSE "skip"
  BY DEF Remediate
<1>6. d' = d /\ jenkins' = jenkins /\ signal' = signal
  BY <1>2 DEF evidence
<1> HIDE DEF d, s
<1>7. PlanFits(p, s.demo) /\ (d.confidence < 50 => p = IssueOnly)
  <2>1. p \in {GeneratedPlan(d, s.demo), IssueOnly} /\ (d.confidence < 50 => p = IssueOnly)
    BY <1>4 DEF Plans, ReviewIssue
  <2> QED BY <1>1, <1>3, <2>1, GeneratedFits, IssueFits
<1>8. /\ plan' \in {p, IssueOnly}
      /\ p.action # "pr" => plan' = p
      /\ plan'.action = "pr" /\ jenkins => s.create_pr /\ s.jenkins_pr
      /\ (jenkins => s.create_pr /\ s.jenkins_pr) => plan' = p
  BY <1>4, IssueFits DEF Restricted, ReviewIssue
<1>9. PlanFits(plan', s.demo) /\ (d.confidence < 50 => plan'.action = "issue")
  BY <1>7, <1>8, IssueFits
<1>10. /\ plan'.action \in {"pr", "issue", "retry"} /\ plan' \in RemediationPlans
  BY <1>9 DEF PlanFits, RemediationPlans
<1>11. /\ done' \in {"skip", "dry", "pr", "issue", "retry"}
       /\ done' \notin {"skip", "dry"} => done' = plan'.action /\ s.apply
       /\ done' = "pr" => s.create_pr
       /\ done' = "skip" /\ plan'.action = "issue" => ~s.create_issue
       /\ done' = "skip" /\ plan'.action = "pr" => ~s.create_pr
  BY <1>5, <1>10 DEF Enabled
<1>12. ActionsStayInBounds'
  <2>1. d.confidence \in Int
    BY <1>1 DEF Diagnoses
  <2>2. done' \in {"pr", "retry"} => d.confidence >= 50
    BY <1>9, <1>11, <2>1
  <2>3. done' = "pr" => s.create_pr /\ (jenkins => s.jenkins_pr)
    BY <1>8, <1>11
  <2>4. done' = "retry" \/ (done' = "pr" /\ (plan'.vars # {} \/ plan'.minutes > 0)) => s.demo
    BY <1>9, <1>11 DEF PlanFits
  <2>5. done' \in {"pr", "issue", "retry"} => s.apply
    BY <1>11
  <2>6. plan'.vars \cap Secretive = {}
    BY <1>9 DEF PlanFits
  <2> QED BY <1>2, <1>6, <2>2, <2>3, <2>4, <2>5, <2>6 DEF ActionsStayInBounds, Result, d, s
<1>13. JenkinsIsHeard'
  BY <1>6, <1>8, <1>10, <1>11 DEF JenkinsIsHeard, s
<1>14. FixableMeansPR'
  <2>1. ASSUME d.source = "pattern", ~s.demo, jenkins => s.create_pr /\ s.jenkins_pr
        PROVE  plan'.action = "pr" <=> d.fixable /\ (d.type = "dependency" => d.named)
    <3>1. SoundPattern(d) /\ d.confidence >= 50
      BY <1>1, <2>1 DEF SoundPattern
    <3>2. p = GeneratedPlan(d, s.demo)
      BY <1>4, <2>1, <3>1 DEF Plans, SoundPattern
    <3>3. s.demo = FALSE
      BY <1>3, <2>1
    <3> QED BY <1>8, <2>1, <3>1, <3>2, <3>3, RuleMeansPlan
  <2> QED BY <1>6, <2>1 DEF FixableMeansPR, Result, d, s
<1>15. DecisionTypeOK'
  BY <1>2, <1>10, <1>11 DEF DecisionInv, DecisionTypeOK, evidence, Steps, s
<1>16. PatternsOK' /\ Decided' /\ WeighedOnce' /\ NothingYet'
  BY <1>1, <1>2, <1>6 DEF DecisionInv, PatternsOK, Decided, WeighedOnce, NothingYet
<1> QED BY <1>12, <1>13, <1>14, <1>15, <1>16 DEF DecisionInv, Published

LEMMA DecisionSteps == DecisionInv /\ [DecisionNext]_decisionVars => DecisionInv'
<1> SUFFICES ASSUME DecisionInv, [DecisionNext]_decisionVars PROVE DecisionInv'
  OBVIOUS
<1>1. CASE DiagnoseWithoutLogs
  BY <1>1, DiagnoseWithoutLogsStep
<1>2. CASE Match
  BY <1>2, MatchStep
<1>3. CASE Correlate
  BY <1>3, CorrelateStep
<1>4. CASE SearchHistory
  BY <1>4, SearchHistoryStep
<1>5. CASE WeighSignal
  BY <1>5, WeighSignalStep
<1>6. CASE NoAgent \/ Filtered
  BY <1>6, WaitingStep
<1>7. CASE Answer
  BY <1>7, AnswerStep
<1>8. CASE CallFails \/ SecondCallFails
  <2>1. PICK c \in {30, 35, 20} : Fallback(c)
    BY <1>8, Zenon DEF CallFails, SecondCallFails
  <2>2. c \in Int /\ c \in 0..100
    OBVIOUS
  <2>3. step \in {"asking", "asking again"}
    BY <1>8, Zenon DEF CallFails, SecondCallFails
  <2> QED BY <2>1, <2>2, <2>3, FallbackStep
<1>9. CASE Remediate
  BY <1>9, RemediateStep
<1>10. CASE UNCHANGED decisionVars
  <2>1. UNCHANGED <<step, jenkins, log, signal, diagnosis, native, rejected, settings, plan, done>>
    BY <1>10 DEF decisionVars, evidence, outcome
  <2>2. DecisionTypeOK' /\ PatternsOK' /\ Decided' /\ WeighedOnce' /\ NothingYet'
    BY <2>1 DEF DecisionInv, DecisionTypeOK, PatternsOK, Decided, WeighedOnce, NothingYet
  <2>3. Published'
    BY <2>1 DEF DecisionInv, Published, ActionsStayInBounds, JenkinsIsHeard, FixableMeansPR, Result
  <2> QED BY <2>2, <2>3 DEF DecisionInv
<1> QED BY <1>1, <1>2, <1>3, <1>4, <1>5, <1>6, <1>7, <1>8, <1>9, <1>10 DEF DecisionNext

LEMMA DecisionInvariant == DecisionSpec => []DecisionInv
BY InitDecides, DecisionSteps, PTL DEF DecisionSpec

(* Every decision keeps every variable in its type, whatever the texts, the *)
(* evidence and what the model answers.                                     *)
THEOREM DecisionTypeCorrect == DecisionSpec => []DecisionTypeOK
<1>1. DecisionInv => DecisionTypeOK
  BY DEF DecisionInv
<1> QED BY <1>1, DecisionInvariant, PTL

LEMMA BeforeIsSafe ==
  DecisionInv => ActionsStayInBounds /\ JenkinsIsHeard /\ FixableMeansPR
<1> SUFFICES ASSUME DecisionInv, step # "remediated"
             PROVE  ActionsStayInBounds /\ JenkinsIsHeard /\ FixableMeansPR
  BY DEF DecisionInv, Published
<1>1. done = "none" /\ plan.vars \cap Secretive = {}
  BY IssueFits DEF DecisionInv, NothingYet, PlanFits
<1> QED BY <1>1 DEF ActionsStayInBounds, JenkinsIsHeard, FixableMeansPR

(* A pull request or a retry is published only for a confidence of 0.5 or   *)
(* more and with the switches it takes; runs are retried, and variables and *)
(* timeouts changed, in demo modes only; no secret is ever set.             *)
THEOREM DecisionsStayInBounds == DecisionSpec => []ActionsStayInBounds
BY DecisionInvariant, BeforeIsSafe, PTL

(* A Jenkins build whose pull request the policy forbids leaves its issue,  *)
(* unless issues are switched off.                                          *)
THEOREM JenkinsLeavesIssue == DecisionSpec => []JenkinsIsHeard
BY DecisionInvariant, BeforeIsSafe, PTL

(* Two agents agree: what one shows as auto-fixable is what the other makes *)
(* a pull request for, but for a dependency nobody could name.              *)
THEOREM FlagAgreesWithPlan == DecisionSpec => []FixableMeansPR
BY DecisionInvariant, BeforeIsSafe, PTL

(* Unless a payload of the model was rejected, external evidence moves the  *)
(* confidence at most once, whatever path the decision takes.               *)
THEOREM EvidenceCountsOnce == DecisionSpec => []SignalCountsOnce
<1>1. DecisionInv => SignalCountsOnce
  <2> SUFFICES ASSUME DecisionInv, step \in {"diagnosed", "remediated"}, ~rejected
               PROVE  Result.confidence \in {native, Weighed(native, signal)}
    BY DEF SignalCountsOnce, Weighed
  <2>1. Result \in diagnosis
    BY TheOne DEF DecisionInv, DecisionTypeOK, Decided, Result
  <2> QED BY <2>1 DEF DecisionInv, WeighedOnce
<1> QED BY <1>1, DecisionInvariant, PTL

-----------------------------------------------------------------------------
(* AutoMerge.                                                               *)

(* A call that has not begun has read nothing. *)
FreshIsUnseen(c) == At(c, "new") => call[c].seen = {}

(* What a call has read as "pass" of its head still is: a context that has *)
(* passed does not report on that head again.                              *)
SeenHasPassed(c) ==
  "pass" \in call[c].seen => \E k \in Contexts : checks[call[c].head][k] = "pass"

(* The request to merge is made for a head of which a pass was read.       *)
MergesWhatPassed(c) == At(c, "merge") /\ policy.clean => "pass" \in call[c].seen

CallInv(c) == FreshIsUnseen(c) /\ SeenHasPassed(c) /\ MergesWhatPassed(c)

IInv == TypeOK /\ (\A c \in Callers : CallInv(c)) /\ MergedHeadHasPassed

-----------------------------------------------------------------------------
(* What is read of the checks, and what GitHub says of them.               *)
LEMMA ReadsAre ==
  ASSUME TypeOK, NEW h \in Heads
  PROVE  /\ StatusesOf(h) \in SUBSET {"pending", "pass", "fail"}
         /\ RunsOf(h) \in SUBSET {"pending", "pass", "fail"}
         /\ MergeStates \in SUBSET {"blocked", "clean", "unstable"}
BY DEF TypeOK, Said, StatusesOf, RunsOf, MergeStates, Contexts

(* A pass that is read was reported by a context.                          *)
LEMMA PassIsReported ==
  ASSUME TypeOK, NEW h \in Heads, "pass" \in StatusesOf(h) \cup RunsOf(h)
  PROVE  \E k \in Contexts : checks[h][k] = "pass"
BY DEF StatusesOf, RunsOf, Contexts

(* Nothing takes a pass back: a context that has one is through with its   *)
(* head, and a push starts a new head.                                     *)
LEMMA PassStays ==
  ASSUME TypeOK, [Next]_vars, NEW h \in Heads, NEW k \in Contexts, checks[h][k] = "pass"
  PROVE  checks'[h][k] = "pass"
<1>1. ASSUME NEW j \in Contexts, Reports(j)
      PROVE  checks'[h][k] = "pass"
  BY <1>1 DEF Reports, TypeOK
<1>2. CASE UNCHANGED checks
  BY <1>2
<1>3. ASSUME NEW c \in Callers, CallStep(c) \/ RequestFails(c) \/ CutOff(c)
      PROVE  UNCHANGED checks
  BY <1>3 DEF CallStep, Begin, Enable, PollPR, PollStatuses, PollRuns, Decide, Merge,
              RequestFails, CutOff
<1>4. GitHubMerges \/ People \/ UNCHANGED vars => UNCHANGED checks
  BY DEF GitHubMerges, People, vars
<1> QED BY <1>1, <1>2, <1>3, <1>4 DEF Next

(* Checks that let a round merge contain a pass.                           *)
LEMMA ReadyHasPass ==
  ASSUME NEW c \in Callers, policy.clean, Ready(c)
  PROVE  "pass" \in call[c].seen
BY DEF Ready, ChecksReady, Worst

-----------------------------------------------------------------------------
(* A step of a call replaces its record.                                   *)
LEMMA CallMoves ==
  ASSUME TypeOK, NEW c \in Callers, NEW q \in Call, call' = [call EXCEPT ![c] = q]
  PROVE  call' \in [Callers -> Call] /\ call'[c] = q
BY DEF TypeOK

(* A call ends as what it was, with another place and result.              *)
LEMMA EndIs ==
  ASSUME TypeOK, NEW c \in Callers, NEW r \in Results, End(c, r)
  PROVE  /\ call' \in [Callers -> Call]
         /\ call'[c].pc = "end" /\ call'[c].seen = call[c].seen /\ call'[c].head = call[c].head
<1> DEFINE q == [call[c] EXCEPT !.pc = "end", !.result = r]
<1>1. call[c] \in Call
  BY DEF TypeOK
<1>2. /\ q \in Call
      /\ q.pc = "end" /\ q.seen = call[c].seen /\ q.head = call[c].head
  BY <1>1 DEF Call, Results
<1>3. call' = [call EXCEPT ![c] = q]
  BY DEF End
<1> HIDE DEF q
<1> QED BY <1>2, <1>3, CallMoves

(* A call that begins has the head of the pull request.                    *)
LEMMA BeginIs ==
  ASSUME TypeOK, NEW c \in Callers, Begin(c)
  PROVE  /\ call' \in [Callers -> Call]
         /\ call'[c].pc \in {"end", "enable", "poll"} /\ call'[c].seen = call[c].seen
<1>1. CASE policy.strategy = "off"
  BY <1>1, EndIs DEF Begin, Results
<1>2. CASE policy.strategy # "off"
  <2> DEFINE at == IF policy.strategy = "native" THEN "enable" ELSE "poll"
             q  == [call[c] EXCEPT !.head = pr.head, !.pc = at]
  <2>1. call[c] \in Call /\ pr.head \in Heads /\ at \in {"enable", "poll"}
    BY DEF TypeOK, PullRequest
  <2>2. call' = [call EXCEPT ![c] = q]
    BY <1>2 DEF Begin
  <2> HIDE DEF at
  <2>3. q \in Call /\ q.pc = at /\ q.seen = call[c].seen
    BY <2>1 DEF Call
  <2> HIDE DEF q
  <2> QED BY <2>1, <2>2, <2>3, CallMoves
<1> QED BY <1>1, <1>2

(* A round begins with nothing read.                                       *)
LEMMA RoundIs ==
  ASSUME TypeOK, NEW c \in Callers, PollPR(c)
  PROVE  /\ call' \in [Callers -> Call]
         /\ call'[c].pc \in {"statuses", "decide"} /\ call'[c].seen = {}
<1> DEFINE at == IF policy.clean THEN "statuses" ELSE "decide"
           ok == pr.state = "open" /\ ~pr.draft /\ pr.mergeable
<1>1. PICK s \in MergeStates :
        call' = [call EXCEPT ![c].polls = @ + 1, ![c].head = pr.head, ![c].state = s,
                   ![c].ok = ok, ![c].seen = {}, ![c].pc = at]
  BY DEF PollPR
<1> DEFINE more == call[c].polls + 1
           q == [call[c] EXCEPT !.polls = more, !.head = pr.head, !.state = s,
                   !.ok = ok, !.seen = {}, !.pc = at]
<1>2. call[c] \in Call /\ pr.head \in Heads /\ pr.draft \in BOOLEAN /\ pr.mergeable \in BOOLEAN
  BY DEF TypeOK, PullRequest
<1>3. ok \in BOOLEAN /\ at \in {"statuses", "decide"} /\ s \in {"blocked", "clean", "unstable"}
  BY <1>2, ReadsAre
<1>4. call' = [call EXCEPT ![c] = q]
  BY <1>1
<1>5. more \in Nat
  BY <1>2 DEF Call
<1> HIDE DEF at, ok, more
<1>6. q \in Call
  BY <1>2, <1>3, <1>5 DEF Call
<1>7. q.pc = at /\ q.seen = {}
  BY <1>2 DEF Call
<1> HIDE DEF q
<1> QED BY <1>3, <1>4, <1>6, <1>7, CallMoves

(* The statuses of the head are read, *)
LEMMA StatusesAre ==
  ASSUME TypeOK, NEW c \in Callers, PollStatuses(c)
  PROVE  /\ call' \in [Callers -> Call]
         /\ call'[c].pc = "runs" /\ call'[c].seen = StatusesOf(call[c].head)
         /\ call'[c].head = call[c].head
<1> DEFINE read == StatusesOf(call[c].head)
           q    == [call[c] EXCEPT !.seen = read, !.pc = "runs"]
<1>1. call[c] \in Call /\ call[c].head \in Heads
  BY DEF TypeOK, Call
<1>2. read \in SUBSET {"pending", "pass", "fail"}
  BY <1>1, ReadsAre
<1>3. call' = [call EXCEPT ![c] = q]
  BY DEF PollStatuses
<1> HIDE DEF read
<1>4. q \in Call /\ q.pc = "runs" /\ q.seen = read /\ q.head = call[c].head
  BY <1>1, <1>2 DEF Call
<1> HIDE DEF q
<1> QED BY <1>3, <1>4, CallMoves DEF read

(* and its check runs, next to them.                                       *)
LEMMA RunsAre ==
  ASSUME TypeOK, NEW c \in Callers, PollRuns(c)
  PROVE  /\ call' \in [Callers -> Call]
         /\ call'[c].pc = "decide" /\ call'[c].seen = call[c].seen \cup RunsOf(call[c].head)
         /\ call'[c].head = call[c].head
<1> DEFINE read == RunsOf(call[c].head)
           q    == [call[c] EXCEPT !.seen = @ \cup read, !.pc = "decide"]
<1>1. call[c] \in Call /\ call[c].head \in Heads
  BY DEF TypeOK, Call
<1>2. read \in SUBSET {"pending", "pass", "fail"}
  BY <1>1, ReadsAre
<1>3. call' = [call EXCEPT ![c] = q]
  BY DEF PollRuns
<1> HIDE DEF read
<1>4. q \in Call /\ q.pc = "decide" /\ q.seen = call[c].seen \cup read /\ q.head = call[c].head
  BY <1>1, <1>2 DEF Call
<1> HIDE DEF q
<1> QED BY <1>3, <1>4, CallMoves DEF read

(* A decision changes the place only, or ends the call.                    *)
LEMMA DecisionIs ==
  ASSUME TypeOK, NEW c \in Callers, Decide(c)
  PROVE  /\ call' \in [Callers -> Call]
         /\ call'[c].pc \in {"merge", "poll", "end"}
         /\ call'[c].pc = "merge" => Ready(c)
         /\ call'[c].seen = call[c].seen /\ call'[c].head = call[c].head
<1>1. ASSUME NEW at \in {"merge", "poll"}, call' = [call EXCEPT ![c].pc = at]
      PROVE  /\ call' \in [Callers -> Call]
             /\ call'[c].pc = at
             /\ call'[c].seen = call[c].seen /\ call'[c].head = call[c].head
  <2>1. call[c] \in Call /\ call \in [Callers -> Call]
    BY DEF TypeOK
  <2>2. [call[c] EXCEPT !.pc = at] \in Call
    BY <1>1, <2>1 DEF Call
  <2>3. call' = [call EXCEPT ![c] = [call[c] EXCEPT !.pc = at]]
    BY <1>1, <2>1
  <2> QED BY <2>1, <2>2, <2>3 DEF Call
<1>2. CASE Ready(c)
  BY <1>1, <1>2 DEF Decide
<1>3. CASE ~Ready(c) /\ call[c].polls < MaxPolls
  BY <1>1, <1>3 DEF Decide
<1>4. CASE ~Ready(c) /\ ~(call[c].polls < MaxPolls)
  BY <1>4, EndIs DEF Decide, Results
<1> QED BY <1>2, <1>3, <1>4

(* A merge leaves a pull request, and a history, of the right shape.       *)
LEMMA MergedByIs ==
  ASSUME TypeOK, NEW x \in SUBSET Callers, MergedBy(x)
  PROVE  /\ pr' \in PullRequest
         /\ merged' \in [by : SUBSET Callers, head : Heads, said : SUBSET Said]
<1>1. pr' \in PullRequest
  BY DEF MergedBy, TypeOK, PullRequest
<1>2. {checks[pr.head][k] : k \in Contexts} \in SUBSET Said
  BY DEF TypeOK, PullRequest
<1>3. pr.head \in Heads
  BY DEF TypeOK, PullRequest
<1> QED BY <1>1, <1>2, <1>3 DEF MergedBy

LEMMA TypeStep == TypeOK /\ [Next]_vars => TypeOK'
<1> SUFFICES ASSUME TypeOK, [Next]_vars PROVE TypeOK'
  OBVIOUS
<1> USE DEF TypeOK
<1>1. ASSUME NEW c \in Callers, Begin(c) PROVE TypeOK'
  BY <1>1, BeginIs DEF Begin
<1>2. ASSUME NEW c \in Callers, Enable(c) PROVE TypeOK'
  <2>1. pr' \in PullRequest
    BY <1>2 DEF Enable, PullRequest
  <2> QED BY <1>2, <2>1, EndIs DEF Enable, Results
<1>3. ASSUME NEW c \in Callers, PollPR(c) PROVE TypeOK'
  BY <1>3, RoundIs DEF PollPR
<1>4. ASSUME NEW c \in Callers, PollStatuses(c) PROVE TypeOK'
  BY <1>4, StatusesAre DEF PollStatuses
<1>5. ASSUME NEW c \in Callers, PollRuns(c) PROVE TypeOK'
  BY <1>5, RunsAre DEF PollRuns
<1>6. ASSUME NEW c \in Callers, Decide(c) PROVE TypeOK'
  BY <1>6, DecisionIs DEF Decide
<1>7. ASSUME NEW c \in Callers, Merge(c) PROVE TypeOK'
  BY <1>7, EndIs, MergedByIs DEF Merge, Results
<1>8. ASSUME NEW c \in Callers, RequestFails(c) PROVE TypeOK'
  BY <1>8, EndIs, MergedByIs DEF RequestFails, Disturb, Results
<1>9. ASSUME NEW c \in Callers, CutOff(c) PROVE TypeOK'
  BY <1>9, EndIs DEF CutOff, Disturb, Results
<1>10. CASE GitHubMerges
  BY <1>10, MergedByIs DEF GitHubMerges
<1>11. ASSUME NEW k \in Contexts, Reports(k) PROVE TypeOK'
  <2>1. checks' \in [Heads -> [Contexts -> Said]]
    <3> DEFINE h == pr.head
    <3>1. PICK v \in {"pending", "pass", "fail"} : checks' = [checks EXCEPT ![h][k] = v]
      BY <1>11 DEF Reports
    <3>2. h \in Heads /\ checks[h] \in [Contexts -> Said] /\ v \in Said
      BY DEF PullRequest, Said
    <3> DEFINE row == [checks[h] EXCEPT ![k] = v]
    <3>3. row \in [Contexts -> Said]
      BY <3>2
    <3>4. checks' = [checks EXCEPT ![h] = row]
      BY <3>1
    <3> HIDE DEF row
    <3> QED BY <3>2, <3>3, <3>4
  <2> QED BY <1>11, <2>1 DEF Reports
<1>12. CASE People
  <2>1. pr' \in PullRequest
    <3>1. pr.head < MaxHead => pr.head + 1 \in Heads
      BY HeadAssumption DEF PullRequest, Heads
    <3> QED BY <1>12, <3>1 DEF People, PullRequest
  <2> QED BY <1>12, <2>1 DEF People, Disturb
<1>13. CASE UNCHANGED vars
  BY <1>13 DEF vars
<1> QED BY <1>1, <1>2, <1>3, <1>4, <1>5, <1>6, <1>7, <1>8, <1>9, <1>10, <1>11, <1>12, <1>13
        DEF Next, CallStep

(* Every variable keeps its shape.                                         *)
THEOREM TypeCorrect == Spec => []TypeOK
<1>1. Init => TypeOK
  BY HeadAssumption DEF Init, TypeOK, Heads, PullRequest, Call, Said, Results
<1> QED BY <1>1, TypeStep, PTL DEF Spec

-----------------------------------------------------------------------------
(* A call that a step leaves alone keeps its part of the invariant.        *)
LEMMA Untouched ==
  ASSUME TypeOK, [Next]_vars, NEW c \in Callers, CallInv(c),
         call'[c] = call[c], policy' = policy
  PROVE  CallInv(c)'
<1>1. SeenHasPassed(c)'
  <2> SUFFICES ASSUME "pass" \in call[c].seen
               PROVE  \E k \in Contexts : checks'[call[c].head][k] = "pass"
    BY DEF SeenHasPassed
  <2>1. PICK k \in Contexts : checks[call[c].head][k] = "pass"
    BY DEF CallInv, SeenHasPassed
  <2>2. call[c].head \in Heads
    BY DEF TypeOK, Call
  <2> QED BY <2>1, <2>2, PassStays
<1> QED BY <1>1 DEF CallInv, FreshIsUnseen, MergesWhatPassed, At

(* A step of the call itself keeps it too.                                 *)
LEMMA CallKeeps ==
  ASSUME TypeOK, NEW c \in Callers, CallInv(c),
         CallStep(c) \/ RequestFails(c) \/ CutOff(c)
  PROVE  CallInv(c)'
<1> USE DEF CallInv, FreshIsUnseen, SeenHasPassed, MergesWhatPassed, At
<1>0. call[c].head \in Heads
  BY DEF TypeOK, Call
<1>1. CASE Begin(c)
  BY <1>1, BeginIs DEF Begin
<1>2. CASE Enable(c)
  BY <1>2, EndIs DEF Enable, Results
<1>3. CASE PollPR(c)
  BY <1>3, RoundIs DEF PollPR
<1>4. CASE PollStatuses(c)
  <2>1. /\ call'[c].pc = "runs" /\ call'[c].head = call[c].head /\ checks' = checks
        /\ call'[c].seen = StatusesOf(call[c].head)
    BY <1>4, StatusesAre DEF PollStatuses
  <2>2. "pass" \in call'[c].seen => \E k \in Contexts : checks[call[c].head][k] = "pass"
    BY <1>0, <2>1, PassIsReported
  <2> QED BY <2>1, <2>2
<1>5. CASE PollRuns(c)
  <2>1. /\ call'[c].pc = "decide" /\ call'[c].head = call[c].head /\ checks' = checks
        /\ call'[c].seen = call[c].seen \cup RunsOf(call[c].head)
    BY <1>5, RunsAre DEF PollRuns
  <2>2. "pass" \in call'[c].seen => \E k \in Contexts : checks[call[c].head][k] = "pass"
    BY <1>0, <2>1, PassIsReported
  <2> QED BY <2>1, <2>2
<1>6. CASE Decide(c)
  <2>1. /\ policy' = policy /\ checks' = checks
        /\ call'[c].pc = "merge" /\ policy.clean => "pass" \in call[c].seen
    BY <1>6, DecisionIs, ReadyHasPass DEF Decide
  <2>2. call'[c].seen = call[c].seen /\ call'[c].head = call[c].head /\ call'[c].pc # "new"
    BY <1>6, DecisionIs
  <2> QED BY <2>1, <2>2
<1>7. CASE Merge(c)
  BY <1>7, EndIs DEF Merge, Results
<1>8. CASE RequestFails(c)
  BY <1>8, EndIs DEF RequestFails, Results
<1>9. CASE CutOff(c)
  BY <1>9, EndIs DEF CutOff, Results
<1> QED BY <1>1, <1>2, <1>3, <1>4, <1>5, <1>6, <1>7, <1>8, <1>9 DEF CallStep

(* Whoever makes the merge request, answered or not, had read the head     *)
(* that GitHub merges.                                                     *)
LEMMA MergeKeeps ==
  ASSUME TypeOK, NEW c \in Callers, CallInv(c), At(c, "merge"), SameHead(c),
         MergedBy({c}), policy' = policy
  PROVE  MergedHeadHasPassed'
<1> SUFFICES ASSUME policy.clean
             PROVE  "pass" \in merged'.said
  BY DEF MergedHeadHasPassed
<1>1. \E k \in Contexts : checks[call[c].head][k] = "pass"
  BY DEF CallInv, MergesWhatPassed, SeenHasPassed
<1> QED BY <1>1 DEF MergedBy, SameHead

LEMMA Step == IInv /\ [Next]_vars => IInv'
<1> SUFFICES ASSUME IInv, [Next]_vars PROVE IInv'
  OBVIOUS
<1> USE DEF IInv
<1>1. TypeOK'
  BY TypeStep
<1>2. policy' = policy
  <2>1. ASSUME NEW c \in Callers, CallStep(c) \/ RequestFails(c) \/ CutOff(c)
        PROVE  policy' = policy
    BY <2>1 DEF CallStep, Begin, Enable, PollPR, PollStatuses, PollRuns, Decide, Merge,
                RequestFails, CutOff
  <2>2. GitHubMerges \/ (\E k \in Contexts : Reports(k)) \/ People \/ UNCHANGED vars
          => policy' = policy
    BY DEF GitHubMerges, Reports, People, vars
  <2> QED BY <2>1, <2>2 DEF Next
<1>3. ASSUME NEW c \in Callers
      PROVE  CallInv(c)'
  <2>1. CASE CallStep(c) \/ RequestFails(c) \/ CutOff(c)
    BY <2>1, CallKeeps
  <2>2. CASE call'[c] = call[c]
    BY <2>2, <1>2, Untouched
  <2>3. ASSUME NEW b \in Callers, b # c, CallStep(b) \/ RequestFails(b) \/ CutOff(b)
        PROVE  call'[c] = call[c]
    BY <2>3 DEF TypeOK, CallStep, Begin, Enable, PollPR, PollStatuses, PollRuns, Decide, Merge,
                RequestFails, CutOff, End
  <2>4. CASE GitHubMerges \/ (\E k \in Contexts : Reports(k)) \/ People \/ UNCHANGED vars
    BY <2>4, <2>2 DEF GitHubMerges, Reports, People, vars
  <2> QED BY <2>1, <2>2, <2>3, <2>4 DEF Next
<1>4. MergedHeadHasPassed'
  <2>1. CASE merged' = merged
    BY <2>1, <1>2 DEF MergedHeadHasPassed
  <2>2. ASSUME NEW c \in Callers, Merge(c) PROVE MergedHeadHasPassed'
    BY <2>1, <2>2, <1>2, MergeKeeps DEF Merge
  <2>3. ASSUME NEW c \in Callers, RequestFails(c) PROVE MergedHeadHasPassed'
    BY <2>1, <2>3, <1>2, MergeKeeps DEF RequestFails
  <2>4. CASE GitHubMerges
    BY <2>4 DEF GitHubMerges, MergedBy, MergedHeadHasPassed
  <2>5. ASSUME NEW c \in Callers, CallStep(c) \/ CutOff(c), ~Merge(c) PROVE merged' = merged
    BY <2>5 DEF CallStep, Begin, Enable, PollPR, PollStatuses, PollRuns, Decide, CutOff
  <2>6. (\E k \in Contexts : Reports(k)) \/ People \/ UNCHANGED vars => merged' = merged
    BY DEF Reports, People, vars
  <2> QED BY <2>1, <2>2, <2>3, <2>4, <2>5, <2>6 DEF Next
<1> QED BY <1>1, <1>3, <1>4

(* However the head moves between the three requests of a round and the    *)
(* merge, and though the answer to it may be lost: with clean checks       *)
(* required a call only merges a head that some context has passed.        *)
THEOREM MergedHeadPassed == Spec => []MergedHeadHasPassed
<1>1. Init => IInv
  <2>1. Init => TypeOK
    BY HeadAssumption DEF Init, TypeOK, Heads, PullRequest, Call, Said, Results
  <2> QED BY <2>1 DEF Init, IInv, CallInv, FreshIsUnseen, SeenHasPassed, MergesWhatPassed, At,
             MergedHeadHasPassed
<1>2. IInv => MergedHeadHasPassed
  BY DEF IInv
<1> QED BY <1>1, <1>2, Step, PTL DEF Spec
=============================================================================
