-------------------------- MODULE MCLearningQueue --------------------------
(***************************************************************************)
(* Small instances of LearningQueue: two patterns that have come twice,     *)
(* one of them may come again.                                             *)
(***************************************************************************)
EXTENDS LearningQueue

CONSTANTS p1, p2, x, y, z

Alternating(n) == IF n \in {1, 2} THEN p2 ELSE p1

(* Nothing in the queue yet; and a playbook that is approved or active and *)
(* has one good verdict, or two.                                           *)
Given(first, second) == [n \in 1..4 |-> CASE n = 3 -> first [] n = 4 -> second [] OTHER -> None]

Empty == [verdict |-> Given(None, None), decided |-> [r \in {} |-> "candidate"]]

Known(status, second) == [verdict |-> Given("pass", second), decided |-> [r \in {p1} |-> status]]

Mixed == {Empty, Known("approved", None), Known("active", "pass")}

Interchangeable == Permutations(Requests)
=============================================================================
