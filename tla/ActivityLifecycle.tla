------------------------- MODULE ActivityLifecycle -------------------------
(***************************************************************************)
(* What one activity record promises to whoever reads it (the dashboard,   *)
(* the statistics, the handoff workspace): a failure is either skipped     *)
(* outright or walked through the pipeline's stages in order, it can fail  *)
(* at any stage, it reaches "completed" only from the last stage, and a    *)
(* finished record never looks in flight again.  The detailed modules are  *)
(* shown to implement this one.                                            *)
(***************************************************************************)
CONSTANT Activities

VARIABLE status    \* status[a]: the status readers see; "absent" before creation

Transient == {"pending", "analyzing", "diagnosing", "remediating"}
Terminal  == {"completed", "failed", "skipped"}
Statuses  == Transient \cup Terminal

(***************************************************************************)
(* The next stage of an undisturbed run.                                   *)
(***************************************************************************)
StageAfter(s) ==
  CASE s = "pending"    -> "analyzing"
    [] s = "analyzing"  -> "diagnosing"
    [] s = "diagnosing" -> "remediating"
    [] OTHER            -> "completed"

Init == status = [a \in Activities |-> "absent"]

Admit(a) ==
  /\ status[a] = "absent"
  /\ \E s \in {"pending", "skipped"} : status' = [status EXCEPT ![a] = s]

Advance(a) ==
  /\ status[a] \in Transient
  /\ status' = [status EXCEPT ![a] = StageAfter(@)]

Fail(a) ==
  /\ status[a] \in Transient \cup {"completed"}
  /\ status' = [status EXCEPT ![a] = "failed"]

Next == \E a \in Activities : Admit(a) \/ Advance(a) \/ Fail(a)

Spec == Init /\ [][Next]_status
=============================================================================
