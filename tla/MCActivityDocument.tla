------------------------- MODULE MCActivityDocument -------------------------
(***************************************************************************)
(* Small instances of ActivityDocument: o1 hands the activity to an agent, *)
(* v1 and v2 record a verdict.                                             *)
(***************************************************************************)
EXTENDS ActivityDocument

CONSTANTS o1, v1, v2
=============================================================================
