--------------------------- MODULE MCDecisionRules ---------------------------
(***************************************************************************)
(* A small instance of DecisionRules: texts of two signs, and of one sign  *)
(* with a word that changes what is made of it; a variable and a secret.   *)
(***************************************************************************)
EXTENDS DecisionRules

MCNames == Known \cup {"uv"}

MCVars == {"API_URL", "API_TOKEN"}

Signs == {DependencySigns[i].sign : i \in DOMAIN DependencySigns}
         \cup {LintSigns[i].sign : i \in DOMAIN LintSigns}
         \cup {TimeoutSigns[i].sign : i \in DOMAIN TimeoutSigns}
         \cup {ConfigSigns[i].sign : i \in DOMAIN ConfigSigns}
         \cup {"flaky", "test_failure", "count_failing", "token_permission"}

Words == {"npm_word", "package_word", "timing_word", "test_word", "memory_word"}

MCLogs ==
  [text : {{}} \cup {{s} : s \in Signs} \cup {{s, w} : s \in Signs, w \in Words},
   minutes : {0}, vars : {{}}]
  \cup [text : {{s} : s \in {"time_limit", "deadline", "timed_out"}}, minutes : {2, 30}, vars : {{}}]
  \cup [text : {{s} : s \in {"env_unset", "secret_missing", "file_missing"}}, minutes : {0},
        vars : SUBSET MCVars]
  \cup [text : {{s, t} : s, t \in Signs}, minutes : {0}, vars : {{"API_URL"}}]

Of(type, confidence) == [Blank EXCEPT !.type = type, !.confidence = confidence]

MCDiagnoses ==
  UNION {{[Of("dependency", c) EXCEPT !.named = TRUE, !.manager = m] : m \in {"npm", "uv"}}
         \cup {[Of("lint", c) EXCEPT !.linter = "ruff", !.fixable = f] : f \in BOOLEAN}
         \cup {[Of("lint", c) EXCEPT !.config = w, !.fixable = TRUE] : w \in Configs}
         \cup {[Of("test", c) EXCEPT !.flaky = TRUE],
               [Of("timeout", c) EXCEPT !.minutes = 3, !.suggested = 6],
               [Of("build_config", c) EXCEPT !.permissions = TRUE],
               [Of("build_config", c) EXCEPT !.vars = MCVars], Of("unknown", c)}
         : c \in {45, 50, 79, 100}}

MCResponses ==
  LET good(d) == [lacks |-> {}, diagnosis |-> d]
      bad     == [lacks |-> {"error_details"}, diagnosis |-> Of("test", 90)]
      wild    == [lacks |-> {}, diagnosis |-> Of("lint", 101)]
  IN  {<<>>, <<bad>>, <<wild>>} \cup {<<good(d)>> : d \in MCDiagnoses}
      \cup {<<bad, good(d)>> : d \in {Of("unknown", 45)}}
=============================================================================
