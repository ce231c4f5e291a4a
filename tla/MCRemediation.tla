--------------------------- MODULE MCRemediation ---------------------------
(***************************************************************************)
(* Small instances of Remediation, with three calls.  All runs are of one  *)
(* workflow and branch and fail in the same way.                           *)
(***************************************************************************)
EXTENDS Remediation, TLC

CONSTANTS a, b, c, g

Ask(kind, run) == [kind |-> kind, plan |-> kind, run |-> run, lane |-> "ci-main",
                   linked |-> kind = "issue"]

Old(kind, run) == [kind |-> kind, plan |-> IF kind = "tracking" THEN "pr" ELSE "issue",
                   run |-> run, lane |-> "ci-main", marked |-> FALSE, signed |-> FALSE,
                   titled |-> kind = "tracking", why |-> "open"]

(* A pull request asked for twice, and a review issue of another run; *)
Pulls == [asks |-> (a :> Ask("pr", 1) @@ b :> Ask("pr", 1)
                     @@ c :> [Ask("issue", 2) EXCEPT !.linked = FALSE]),
          issues |-> <<>>, branches |-> {}]

(* a review issue, the same in another run, and a pull request, with two   *)
(* branches left by calls that were cut off, and an issue of that run;     *)
Reviews == [asks |-> (a :> Ask("issue", 2) @@ b :> Ask("pr", 1) @@ c :> Ask("issue", 1)),
            issues |-> <<Old("review", 1)>>, branches |-> {<<1, 1>>, <<1, 2>>}]

(* pull requests of two runs and a review issue, with an older review      *)
(* issue, and a tracking issue that was given its title.                   *)
Known == [asks |-> (a :> Ask("pr", 2) @@ b :> Ask("pr", 1) @@ c :> Ask("issue", 1)),
          issues |-> <<Old("review", 0), Old("tracking", 1)>>, branches |-> {}]

Mixed      == {Pulls, Reviews, Known}
OneLane(x) == "ci-main"

(* The first issue is number 1, the next are 10, 11 and so on. *)
FromTen(i, j) == i = 1 /\ j > 1
=============================================================================
