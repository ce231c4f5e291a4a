------------------------- MODULE MCHealingPipeline -------------------------
(***************************************************************************)
(* Small instances of HealingPipeline.  d1 and d2 report the same run, d3  *)
(* reruns it (run_attempt > 1), d4 is a Jenkins build of its own; all of   *)
(* them belong to one workflow.                                            *)
(***************************************************************************)
EXTENDS HealingPipeline

CONSTANTS d1, d2, d3, d4

MCRunOf      == [d \in Deliveries |-> IF d = d4 THEN 2 ELSE 1]
MCRerunOf    == [d \in Deliveries |-> d = d3]
MCWorkflowOf == [d \in Deliveries |-> "ci"]
=============================================================================
