------------------------- MODULE MCHandoffSession -------------------------
(***************************************************************************)
(* Small instances of HandoffSession: s1 and s2 run on the backend, w1 is  *)
(* handed to a webhook.  The two kinds of work share nothing but the       *)
(* restart, so each behaviour has one of them.                             *)
(***************************************************************************)
EXTENDS HandoffSession

CONSTANTS s1, s2, w1

AllReports == <<"acknowledged", "started_work", "completed">>
MCTogether == {{s1, s2}, {w1}}
=============================================================================
