---------------------------- MODULE MCAutoMerge ----------------------------
(***************************************************************************)
(* Small instances of AutoMerge: a status that may be required, a check    *)
(* run that is not, and every policy.                                      *)
(***************************************************************************)
EXTENDS AutoMerge

CONSTANTS a, build, app

AllPolicies ==
  {[strategy |-> s, clean |-> k, required |-> r] :
     s \in {"native", "clean"}, k \in BOOLEAN, r \in {{}, {build}}}
  \cup {[strategy |-> "off", clean |-> TRUE, required |-> {}]}
=============================================================================
