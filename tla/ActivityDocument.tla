-------------------------- MODULE ActivityDocument --------------------------
(***************************************************************************)
(* One activity record and everybody who writes it.  There is no partial   *)
(* update and no version check: a writer reads the record, changes its own *)
(* part of the copy, and writes the copy back whole, with awaits between.  *)
(*                                                                         *)
(*   - the pipeline, which holds one copy for the whole run;               *)
(*   - the automatic handoff and the local agent run it schedules, which   *)
(*     add entries to the handoff audit;                                   *)
(*   - operators who hand the activity to an agent (same audit) or record  *)
(*     a verdict on its remediation;                                       *)
(*   - the sweep that attaches diagnostics found after the fact.           *)
(*                                                                         *)
(* The run here is one that reaches a result and a process that does not   *)
(* stop; HealingPipeline has the exceptions and the restarts.  The audit's *)
(* and the history's caps (30 and 20 entries) are out of reach here.       *)
(***************************************************************************)
EXTENDS Naturals, FiniteSets

CONSTANTS
  Handoffs,    \* operators' handoff requests
  Verdicts,    \* operators' feedback requests
  AutoLocal,   \* a failed remediation is handed to the local agent
  Bridge,      \* the activity is a Jenkins one
  NoCopy

ASSUME FlagAssumption == AutoLocal \in BOOLEAN /\ Bridge \in BOOLEAN

VARIABLES
  doc,        \* the stored record
  held,       \* held[w]: the copy writer w has read and not yet written
  stage,      \* the await of the pipeline
  run,        \* the automatic handoff: "none", the entry to write next, "ended"
  answered,   \* requests that were answered
  published   \* ci-doctor has published its findings

vars == <<doc, held, stage, run, answered, published>>

-----------------------------------------------------------------------------
Finished == {"completed", "failed"}
Stages   == {"pending", "analyzing", "diagnosing", "remediating"}
Requests == Handoffs \cup Verdicts
Writers  == Requests \cup {"pipeline", "agent", "sweep"}

(* The entries the automatic handoff makes, in order. *)
AgentEntry(entry) ==
  CASE entry = "queued"  -> "started"
    [] entry = "started" -> "closed"
    [] OTHER             -> "ended"

Doc == [status : Stages \cup Finished, result : BOOLEAN,
        diagnostics : {"none", "exhausted", "found"},
        audit : SUBSET (Handoffs \cup {"queued", "started", "closed"}),
        verdicts : SUBSET Verdicts]

(* Requests are told apart from one another, and from the other writers.    *)
ASSUME RequestAssumption ==
  /\ Handoffs \cap Verdicts = {}
  /\ Requests \cap {"pipeline", "agent", "sweep", "queued", "started", "closed"} = {}

ASSUME CopyAssumption == NoCopy \notin Doc

FirstDoc == [status |-> "pending", result |-> FALSE, diagnostics |-> "none",
             audit |-> {}, verdicts |-> {}]

Read(w)         == held[w] = NoCopy /\ held' = [held EXCEPT ![w] = doc]
WriteBack(w, d) == doc' = d /\ held' = [held EXCEPT ![w] = NoCopy]

-----------------------------------------------------------------------------
(* The pipeline. *)

Load ==
  /\ stage = "load"
  /\ Read("pipeline")
  /\ stage' = "pending"
  /\ UNCHANGED <<doc, run, answered, published>>

(* Slip: a diagnosed run counts as completed. *)
NextStageSkipping(s) ==
  CASE s = "pending"   -> "analyzing"
    [] s = "analyzing" -> "diagnosing"
    [] OTHER           -> "completed"

NextStage(s) ==
  CASE s = "pending"   -> "analyzing"
    [] s = "analyzing" -> "diagnosing"
    [] OTHER           -> "remediating"

(***************************************************************************)
(* The next stage is saved; on the GitHub path, what ci-doctor has to say  *)
(* is collected before the last one, and saved with it at the latest.      *)
(***************************************************************************)
Collected == {"none"} \cup IF Bridge THEN {} ELSE {IF published THEN "found" ELSE "exhausted"}

Advance ==
  /\ stage \in Stages \ {"remediating"}
  /\ \E diagnostics \in Collected :
       doc' = [held["pipeline"] EXCEPT !.status = NextStage(stage),
                 !.diagnostics = IF stage = "diagnosing" THEN diagnostics ELSE @]
  /\ held' = [held EXCEPT !["pipeline"] = doc']
  /\ stage' = NextStage(stage)
  /\ UNCHANGED <<run, answered, published>>

Finish ==
  /\ stage = "remediating"
  /\ \E status \in Finished :
       /\ doc' = [held["pipeline"] EXCEPT !.status = status, !.result = TRUE]
       /\ stage' = IF status = "failed" /\ AutoLocal THEN "handoff" ELSE "finally"
       /\ run' = IF status = "failed" /\ AutoLocal THEN "queued" ELSE run
  /\ held' = [held EXCEPT !["pipeline"] = doc']
  /\ UNCHANGED <<answered, published>>

(***************************************************************************)
(* create_auto_local_handoff has made its audit entry and its task.        *)
(***************************************************************************)
HandedOff ==
  /\ stage = "handoff"
  /\ run # "queued"
  /\ stage' = "finally"
  /\ UNCHANGED <<doc, held, run, answered, published>>

(***************************************************************************)
(* The finally clause of the GitHub path saves the copy once more when the *)
(* run called a model.                                                     *)
(***************************************************************************)
Finally ==
  /\ stage = "finally"
  /\ \/ ~Bridge /\ WriteBack("pipeline", held["pipeline"])
     \/ WriteBack("pipeline", doc)
  /\ stage' = "ended"
  /\ UNCHANGED <<run, answered, published>>

-----------------------------------------------------------------------------
(* The automatic handoff and its local run: one audit entry after another. *)

AgentRead ==
  /\ run \in {"queued", "started", "closed"}
  /\ Read("agent")
  /\ UNCHANGED <<doc, stage, run, answered, published>>

(* Slip: the entry replaces the ones there are. *)
AgentWriteOnly ==
  /\ held["agent"] # NoCopy
  /\ WriteBack("agent", [held["agent"] EXCEPT !.audit = {run}])
  /\ run' = AgentEntry(run)
  /\ UNCHANGED <<stage, answered, published>>

AgentWrite ==
  /\ held["agent"] # NoCopy
  /\ WriteBack("agent", [held["agent"] EXCEPT !.audit = @ \cup {run}])
  /\ run' = AgentEntry(run)
  /\ UNCHANGED <<stage, answered, published>>

-----------------------------------------------------------------------------
(* assign_activity_to_agent, create_handoff_session and the callbacks: any *)
(* activity will do, in flight or not.                                     *)

HandoffRead(o) ==
  /\ o \notin answered
  /\ Read(o)
  /\ UNCHANGED <<doc, stage, run, answered, published>>

HandoffWrite(o) ==
  /\ held[o] # NoCopy
  /\ WriteBack(o, [held[o] EXCEPT !.audit = @ \cup {o}])
  /\ answered' = answered \cup {o}
  /\ UNCHANGED <<stage, run, published>>

(* Slip: feedback is taken for an activity without a remediation result. *)
VerdictReadEarly(v) ==
  /\ v \notin answered
  /\ Read(v)
  /\ UNCHANGED <<doc, stage, run, answered, published>>

(* record_learning_feedback: 409 without a remediation result. *)
VerdictRead(v) ==
  /\ v \notin answered
  /\ doc.result
  /\ Read(v)
  /\ UNCHANGED <<doc, stage, run, answered, published>>

VerdictWrite(v) ==
  /\ held[v] # NoCopy
  /\ WriteBack(v, [held[v] EXCEPT !.verdicts = @ \cup {v}])
  /\ answered' = answered \cup {v}
  /\ UNCHANGED <<stage, run, published>>

-----------------------------------------------------------------------------
(***************************************************************************)
(* The sweep: every ten minutes, over the activities of the last 24 hours; *)
(* this one stays among them.                                              *)
(***************************************************************************)

(* Slip: only completed activities are candidates. *)
SweepReadCompleted ==
  /\ doc.status = "completed"
  /\ doc.diagnostics = "exhausted"
  /\ Read("sweep")
  /\ UNCHANGED <<doc, stage, run, answered, published>>

(* get_backfill_candidates. *)
SweepRead ==
  /\ doc.status \in Finished
  /\ doc.diagnostics = "exhausted"
  /\ Read("sweep")
  /\ UNCHANGED <<doc, stage, run, answered, published>>

(***************************************************************************)
(* backfill_activity_diagnostics: without findings nothing is written.     *)
(***************************************************************************)
SweepWrite ==
  /\ held["sweep"] # NoCopy
  /\ \/ published  /\ WriteBack("sweep", [held["sweep"] EXCEPT !.diagnostics = "found"])
     \/ ~published /\ WriteBack("sweep", doc)
  /\ UNCHANGED <<stage, run, answered, published>>

(* External: ci-doctor's workflow run ends. *)
Publish ==
  /\ ~published
  /\ published' = TRUE
  /\ UNCHANGED <<doc, held, stage, run, answered>>

Init ==
  /\ doc = FirstDoc
  /\ held = [w \in Writers |-> NoCopy]
  /\ stage = "load"
  /\ run = "none"
  /\ answered = {}
  /\ published = FALSE

Pipeline   == Load \/ Advance \/ Finish \/ HandedOff \/ Finally
Agent      == AgentRead \/ AgentWrite
Handoff(o) == HandoffRead(o) \/ HandoffWrite(o)
Verdict(v) == VerdictRead(v) \/ VerdictWrite(v)
Sweep      == SweepRead \/ SweepWrite

Next ==
  \/ Pipeline \/ Agent \/ Sweep \/ Publish
  \/ \E o \in Handoffs : Handoff(o)
  \/ \E v \in Verdicts : Verdict(v)

Spec == Init /\ [][Next]_vars

(***************************************************************************)
(* The event loop runs what is ready, a request that was read is answered, *)
(* and the sweep comes round again and again.                              *)
(***************************************************************************)
FairSpec ==
  /\ Spec
  /\ WF_vars(Pipeline) /\ WF_vars(Agent) /\ WF_vars(Sweep)
  /\ \A o \in Handoffs : WF_vars(HandoffWrite(o))
  /\ \A v \in Verdicts : WF_vars(VerdictWrite(v))

-----------------------------------------------------------------------------
(* Properties. *)

TypeOK ==
  /\ doc \in Doc
  /\ held \in [Writers -> Doc \cup {NoCopy}]
  /\ stage \in Stages \cup {"load", "handoff", "finally", "ended"}
  /\ run \in {"none", "queued", "started", "closed", "ended"}
  /\ answered \subseteq Requests
  /\ published \in BOOLEAN

(* A record that shows a result keeps it: no writer puts back a copy that    *)
(* was read before the pipeline was through.  Does not hold: the handoff of  *)
(* an activity in flight, read before the pipeline ended, is written after.  *)
FinishedStays ==
  [][doc.status \in Finished => doc'.status = doc.status /\ doc'.result]_doc

(* Only operators' handoffs, which take activities in flight, break that:    *)
(* until one was written, no verdict, agent run or sweep ever does.          *)
ReopenedByHandoffOnly ==
  [][doc.status \in Finished /\ Handoffs \cap answered' = {} =>
       doc'.status = doc.status /\ doc'.result]_<<doc, answered>>

(* An entry or a verdict is only ever lost to a writer that had read the     *)
(* record before it was made: each writer puts back what it has read.        *)
LossNeedsOverlap ==
  [][/\ \A e \in doc.audit \ doc'.audit :
          \E w \in Writers : held[w] # NoCopy /\ e \notin held[w].audit
     /\ \A v \in doc.verdicts \ doc'.verdicts :
          \E w \in Writers : held[w] # NoCopy /\ v \notin held[w].verdicts]_<<doc, held>>

(* Every handoff the backend made or acknowledged is in the audit.  Does not *)
(* hold: the pipeline's last save puts back its copy from before.            *)
AuditKept ==
  /\ {o \in Handoffs : o \in answered} \subseteq doc.audit
  /\ run \in {"started", "closed", "ended"} => "queued" \in doc.audit
  /\ run \in {"closed", "ended"} => "started" \in doc.audit
  /\ run = "ended" => "closed" \in doc.audit

(* Findings that appear after the poll window was exhausted are attached for *)
(* good in the end, even when another writer undoes that once or twice; but  *)
(* the sweep passes over an activity that a handoff has put back in flight.  *)
BackfillAttaches ==
  (published /\ doc.status \in Finished /\ doc.diagnostics = "exhausted")
    ~> [](doc.diagnostics = "found" \/ Handoffs \cap answered # {})
=============================================================================
