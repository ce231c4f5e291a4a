----------------------- MODULE ActivityDocumentProofs -----------------------
(***************************************************************************)
(* Proofs about ActivityDocument, for any number of operators' requests,   *)
(* on either path, with or without the automatic handoff.                  *)
(***************************************************************************)
EXTENDS ActivityDocument, TLAPS

(* The pipeline holds its copy from the first read to the last save.       *)
PipelineHolds == stage \notin {"load", "ended"} <=> held["pipeline"] # NoCopy

(* The record shows how far the pipeline is, and has a result when it is   *)
(* through.                                                                *)
Through == stage \in {"handoff", "finally", "ended"}

DocFollowsStage ==
  /\ stage = "load" => doc.status = "pending"
  /\ stage \in Stages => doc.status = stage
  /\ Through => doc.status \in Finished /\ doc.result
  /\ ~Through => ~doc.result

(* Who writes after the pipeline is through has read the record after it.  *)
Late == Verdicts \cup {"agent", "sweep"}

CopyIsThrough(w) ==
  held[w] # NoCopy => Through /\ held[w].status = doc.status /\ held[w].result

(* The pipeline's own copy has no result before it has saved one.          *)
CopyFollowsStage ==
  /\ stage \in Stages => ~held["pipeline"].result
  /\ stage \in {"handoff", "finally"} =>
       held["pipeline"].status = doc.status /\ held["pipeline"].result

HandedOffWhenThrough == run # "none" => Through

(* The agent has read the record for an entry it is yet to make.           *)
AgentHolds == held["agent"] # NoCopy => run \in {"queued", "started", "closed"}

Basic == TypeOK /\ PipelineHolds /\ HandedOffWhenThrough /\ AgentHolds

Undisturbed ==
  DocFollowsStage /\ CopyFollowsStage /\ \A w \in Late : CopyIsThrough(w)

(* The rest is so until a handoff of an operator is written.               *)
IInv == Basic /\ (Handoffs \cap answered = {} => Undisturbed)

-----------------------------------------------------------------------------
(* Reading and writing back. *)

LEMMA CopyIs ==
  ASSUME TypeOK, NEW w \in Writers, held[w] # NoCopy
  PROVE  held[w] \in Doc
BY DEF TypeOK

(* A writer that reads has the record as it is.                            *)
LEMMA ReadIs ==
  ASSUME TypeOK, NEW w \in Writers, Read(w)
  PROVE  /\ held' \in [Writers -> Doc \cup {NoCopy}]
         /\ held'[w] = doc /\ held'[w] # NoCopy
         /\ \A x \in Writers \ {w} : held'[x] = held[x]
BY CopyAssumption DEF TypeOK, Read

(* One that writes back replaces the record and lets go of its copy.       *)
LEMMA WriteIs ==
  ASSUME TypeOK, NEW w \in Writers, NEW d \in Doc, WriteBack(w, d)
  PROVE  /\ doc' \in Doc /\ doc' = d
         /\ held' \in [Writers -> Doc \cup {NoCopy}]
         /\ held'[w] = NoCopy
         /\ \A x \in Writers \ {w} : held'[x] = held[x]
BY DEF TypeOK, WriteBack

(* An audit entry changes the audit only, *)
LEMMA EntryIs ==
  ASSUME NEW d \in Doc, NEW e \in Handoffs \cup {"queued", "started", "closed"}
  PROVE  /\ [d EXCEPT !.audit = @ \cup {e}] \in Doc
         /\ [d EXCEPT !.audit = @ \cup {e}].status = d.status
         /\ [d EXCEPT !.audit = @ \cup {e}].result = d.result
         /\ [d EXCEPT !.audit = @ \cup {e}].audit = d.audit \cup {e}
         /\ [d EXCEPT !.audit = @ \cup {e}].verdicts = d.verdicts
BY DEF Doc

(* a verdict the verdicts, *)
LEMMA VerdictIs ==
  ASSUME NEW d \in Doc, NEW v \in Verdicts
  PROVE  /\ [d EXCEPT !.verdicts = @ \cup {v}] \in Doc
         /\ [d EXCEPT !.verdicts = @ \cup {v}].status = d.status
         /\ [d EXCEPT !.verdicts = @ \cup {v}].result = d.result
         /\ [d EXCEPT !.verdicts = @ \cup {v}].audit = d.audit
         /\ [d EXCEPT !.verdicts = @ \cup {v}].verdicts = d.verdicts \cup {v}
BY DEF Doc

(* and the sweep the diagnostics.                                          *)
LEMMA FoundIs ==
  ASSUME NEW d \in Doc
  PROVE  /\ [d EXCEPT !.diagnostics = "found"] \in Doc
         /\ [d EXCEPT !.diagnostics = "found"].status = d.status
         /\ [d EXCEPT !.diagnostics = "found"].result = d.result
         /\ [d EXCEPT !.diagnostics = "found"].audit = d.audit
         /\ [d EXCEPT !.diagnostics = "found"].verdicts = d.verdicts
BY DEF Doc

(* The pipeline saves the next stage in its own copy and in the record.    *)
LEMMA AdvanceIs ==
  ASSUME TypeOK, PipelineHolds, Advance
  PROVE  /\ doc' \in Doc /\ held["pipeline"] # NoCopy
         /\ doc'.status = stage' /\ stage' \in Stages
         /\ doc'.result = held["pipeline"].result
         /\ doc'.audit = held["pipeline"].audit /\ doc'.verdicts = held["pipeline"].verdicts
         /\ held' \in [Writers -> Doc \cup {NoCopy}]
         /\ held'["pipeline"] = doc'
         /\ \A x \in Writers \ {"pipeline"} : held'[x] = held[x]
<1> DEFINE mine == held["pipeline"]
<1>1. mine \in Doc /\ "pipeline" \in Writers /\ mine # NoCopy
  BY CopyIs DEF PipelineHolds, Advance, Stages, Writers
<1>2. stage' \in Stages /\ stage' = NextStage(stage)
  BY DEF Advance, NextStage, Stages
<1>3. PICK x \in Collected :
        doc' = [mine EXCEPT !.status = NextStage(stage),
                  !.diagnostics = IF stage = "diagnosing" THEN x ELSE @]
  BY DEF Advance
<1> DEFINE said == IF stage = "diagnosing" THEN x ELSE mine.diagnostics
<1>4. said \in {"none", "exhausted", "found"}
  BY <1>1 DEF Collected, Doc
<1>5. doc' = [mine EXCEPT !.status = stage', !.diagnostics = said]
  BY <1>2, <1>3
<1>6. held' = [held EXCEPT !["pipeline"] = doc']
  BY DEF Advance
<1> HIDE DEF mine, said
<1>7. /\ doc' \in Doc /\ doc'.status = stage' /\ doc'.result = mine.result
      /\ doc'.audit = mine.audit /\ doc'.verdicts = mine.verdicts
  BY <1>1, <1>2, <1>4, <1>5 DEF Doc
<1> QED BY <1>1, <1>2, <1>6, <1>7 DEF mine, TypeOK

(* At the end it saves the result in both.                                 *)
LEMMA FinishIs ==
  ASSUME TypeOK, PipelineHolds, Finish
  PROVE  /\ doc' \in Doc /\ held["pipeline"] # NoCopy
         /\ doc'.status \in Finished /\ doc'.result
         /\ doc'.audit = held["pipeline"].audit /\ doc'.verdicts = held["pipeline"].verdicts
         /\ held' \in [Writers -> Doc \cup {NoCopy}]
         /\ held'["pipeline"] = doc'
         /\ \A x \in Writers \ {"pipeline"} : held'[x] = held[x]
         /\ stage' \in {"handoff", "finally"}
         /\ run' = run \/ run' = "queued"
<1> DEFINE mine == held["pipeline"]
<1>1. mine \in Doc /\ "pipeline" \in Writers /\ mine # NoCopy
  BY CopyIs DEF PipelineHolds, Finish, Writers
<1>2. PICK s \in Finished : doc' = [mine EXCEPT !.status = s, !.result = TRUE]
  BY DEF Finish
<1>3. held' = [held EXCEPT !["pipeline"] = doc']
  BY DEF Finish
<1> HIDE DEF mine
<1>4. /\ doc' \in Doc /\ doc'.status = s /\ doc'.result
      /\ doc'.audit = mine.audit /\ doc'.verdicts = mine.verdicts
  BY <1>1, <1>2 DEF Doc
<1>5. stage' \in {"handoff", "finally"} /\ (run' = run \/ run' = "queued")
  BY DEF Finish
<1> QED BY <1>1, <1>2, <1>3, <1>4, <1>5 DEF mine, TypeOK

(* The last save writes its copy, or nothing.                              *)
LEMMA FinallyIs ==
  ASSUME TypeOK, PipelineHolds, Finally
  PROVE  /\ doc' \in Doc /\ held["pipeline"] # NoCopy
         /\ doc' = held["pipeline"] \/ doc' = doc
         /\ held' \in [Writers -> Doc \cup {NoCopy}]
         /\ held'["pipeline"] = NoCopy
         /\ \A x \in Writers \ {"pipeline"} : held'[x] = held[x]
         /\ stage' = "ended"
<1>1. held["pipeline"] \in Doc /\ "pipeline" \in Writers /\ held["pipeline"] # NoCopy
  BY CopyIs DEF PipelineHolds, Finally, Writers
<1> QED BY <1>1, WriteIs DEF Finally, TypeOK

(* Whoever else writes puts back what it has read, with status and result  *)
(* as they were, and an entry or verdict more.                             *)
PutsBack(w) ==
  /\ held[w] # NoCopy
  /\ doc' \in Doc /\ doc'.status = held[w].status /\ doc'.result = held[w].result
  /\ held[w].audit \subseteq doc'.audit /\ held[w].verdicts \subseteq doc'.verdicts
  /\ held' \in [Writers -> Doc \cup {NoCopy}]
  /\ held'[w] = NoCopy
  /\ \A x \in Writers \ {w} : held'[x] = held[x]

LEMMA AgentWriteIs ==
  ASSUME TypeOK, AgentHolds, AgentWrite
  PROVE  PutsBack("agent")
<1>1. "agent" \in Writers /\ held["agent"] # NoCopy /\ run \in {"queued", "started", "closed"}
  BY DEF AgentHolds, AgentWrite, Writers
<1>2. held["agent"] \in Doc
  BY <1>1, CopyIs
<1> DEFINE d == [held["agent"] EXCEPT !.audit = @ \cup {run}]
<1>3. /\ d \in Doc /\ d.status = held["agent"].status /\ d.result = held["agent"].result
      /\ held["agent"].audit \subseteq d.audit /\ held["agent"].verdicts \subseteq d.verdicts
  BY <1>1, <1>2, EntryIs
<1>4. WriteBack("agent", d)
  BY DEF AgentWrite
<1> HIDE DEF d
<1> QED BY <1>1, <1>3, <1>4, WriteIs DEF PutsBack

LEMMA HandoffWriteIs ==
  ASSUME TypeOK, NEW o \in Handoffs, HandoffWrite(o)
  PROVE  PutsBack(o)
<1>1. o \in Writers /\ held[o] # NoCopy
  BY DEF HandoffWrite, Writers, Requests
<1>2. held[o] \in Doc
  BY <1>1, CopyIs
<1> DEFINE d == [held[o] EXCEPT !.audit = @ \cup {o}]
<1>3. /\ d \in Doc /\ d.status = held[o].status /\ d.result = held[o].result
      /\ held[o].audit \subseteq d.audit /\ held[o].verdicts \subseteq d.verdicts
  BY <1>1, <1>2, EntryIs
<1>4. WriteBack(o, d)
  BY DEF HandoffWrite
<1> HIDE DEF d
<1> QED BY <1>1, <1>3, <1>4, WriteIs DEF PutsBack

LEMMA VerdictWriteIs ==
  ASSUME TypeOK, NEW v \in Verdicts, VerdictWrite(v)
  PROVE  PutsBack(v)
<1>1. v \in Writers /\ held[v] # NoCopy
  BY DEF VerdictWrite, Writers, Requests
<1>2. held[v] \in Doc
  BY <1>1, CopyIs
<1> DEFINE d == [held[v] EXCEPT !.verdicts = @ \cup {v}]
<1>3. /\ d \in Doc /\ d.status = held[v].status /\ d.result = held[v].result
      /\ held[v].audit \subseteq d.audit /\ held[v].verdicts \subseteq d.verdicts
  BY <1>1, <1>2, VerdictIs
<1>4. WriteBack(v, d)
  BY DEF VerdictWrite
<1> HIDE DEF d
<1> QED BY <1>1, <1>3, <1>4, WriteIs DEF PutsBack

(* The sweep that finds nothing writes nothing.                            *)
LEMMA SweepWriteIs ==
  ASSUME TypeOK, SweepWrite
  PROVE  \/ PutsBack("sweep")
         \/ /\ doc' = doc /\ held' \in [Writers -> Doc \cup {NoCopy}]
            /\ held'["sweep"] = NoCopy
            /\ \A x \in Writers \ {"sweep"} : held'[x] = held[x]
<1>1. "sweep" \in Writers /\ held["sweep"] # NoCopy
  BY DEF SweepWrite, Writers
<1>2. held["sweep"] \in Doc /\ doc \in Doc
  BY <1>1, CopyIs DEF TypeOK
<1> QED BY <1>1, <1>2, FoundIs, WriteIs, ZenonT(30) DEF SweepWrite, PutsBack

-----------------------------------------------------------------------------
(* The names of the writers are different ones. *)
LEMMA WritersDiffer ==
  /\ {"pipeline", "agent", "sweep"} \subseteq Writers /\ Requests \subseteq Writers
  /\ "pipeline" \notin Late /\ "pipeline" \notin Requests /\ "agent" \notin Requests
  /\ Late \subseteq Writers /\ Handoffs \cap Late = {}
BY RequestAssumption DEF Writers, Late, Requests

LEMMA BasicStep == Basic /\ [Next]_vars => Basic'
<1> SUFFICES ASSUME Basic, [Next]_vars PROVE Basic'
  OBVIOUS
<1>0. TypeOK /\ PipelineHolds /\ HandedOffWhenThrough /\ AgentHolds /\ doc \in Doc
  BY DEF Basic, TypeOK
<1> USE <1>0, WritersDiffer
<1> USE DEF Basic, PipelineHolds, HandedOffWhenThrough, AgentHolds, Through
<1>1. CASE Load
  <2>1. TypeOK'
    BY <1>1, ReadIs DEF Load, TypeOK, Stages
  <2> QED BY <1>1, <2>1, ReadIs DEF Load
<1>2. CASE Advance
  <2>1. TypeOK'
    BY <1>2, AdvanceIs DEF Advance, TypeOK
  <2>2. run = "none" /\ run' = run
    BY <1>2 DEF Advance, Stages
  <2> QED BY <1>2, <2>1, <2>2, AdvanceIs, CopyAssumption DEF Stages
<1>3. CASE Finish
  <2>1. TypeOK'
    BY <1>3, FinishIs DEF Finish, TypeOK
  <2>2. run = "none"
    BY <1>3 DEF Finish
  <2> QED BY <1>3, <2>1, <2>2, FinishIs, CopyAssumption
<1>4. CASE HandedOff
  BY <1>4 DEF HandedOff, TypeOK
<1>5. CASE Finally
  <2>1. TypeOK'
    BY <1>5, FinallyIs DEF Finally, TypeOK
  <2> QED BY <1>5, <2>1, FinallyIs DEF Finally
<1>6. CASE AgentRead
  <2>1. TypeOK'
    BY <1>6, ReadIs DEF AgentRead, TypeOK
  <2> QED BY <1>6, <2>1, ReadIs DEF AgentRead
<1>7. CASE AgentWrite
  <2>1. TypeOK' /\ run # "none"
    BY <1>7, AgentWriteIs DEF AgentWrite, PutsBack, TypeOK, AgentEntry
  <2> QED BY <1>7, <2>1, AgentWriteIs DEF AgentWrite, PutsBack
<1>8. CASE SweepRead
  <2>1. TypeOK'
    BY <1>8, ReadIs DEF SweepRead, TypeOK
  <2> QED BY <1>8, <2>1, ReadIs DEF SweepRead
<1>9. CASE SweepWrite
  <2>1. TypeOK'
    BY <1>9, SweepWriteIs DEF SweepWrite, PutsBack, TypeOK
  <2> QED BY <1>9, <2>1, SweepWriteIs DEF SweepWrite, PutsBack
<1>10. CASE Publish
  BY <1>10 DEF Publish, TypeOK
<1>11. ASSUME NEW o \in Handoffs, HandoffRead(o) PROVE Basic'
  <2>1. TypeOK' /\ o \in Requests
    BY <1>11, ReadIs DEF HandoffRead, TypeOK, Requests
  <2> QED BY <1>11, <2>1, ReadIs DEF HandoffRead
<1>12. ASSUME NEW o \in Handoffs, HandoffWrite(o) PROVE Basic'
  <2>1. TypeOK' /\ o \in Requests
    BY <1>12, HandoffWriteIs DEF HandoffWrite, PutsBack, TypeOK, Requests
  <2> QED BY <1>12, <2>1, HandoffWriteIs DEF HandoffWrite, PutsBack
<1>13. ASSUME NEW v \in Verdicts, VerdictRead(v) PROVE Basic'
  <2>1. TypeOK' /\ v \in Requests
    BY <1>13, ReadIs DEF VerdictRead, TypeOK, Requests
  <2> QED BY <1>13, <2>1, ReadIs DEF VerdictRead
<1>14. ASSUME NEW v \in Verdicts, VerdictWrite(v) PROVE Basic'
  <2>1. TypeOK' /\ v \in Requests
    BY <1>14, VerdictWriteIs DEF VerdictWrite, PutsBack, TypeOK, Requests
  <2> QED BY <1>14, <2>1, VerdictWriteIs DEF VerdictWrite, PutsBack
<1>15. CASE UNCHANGED vars
  BY <1>15 DEF vars, TypeOK
<1> QED BY <1>1, <1>2, <1>3, <1>4, <1>5, <1>6, <1>7, <1>8, <1>9, <1>10, <1>11, <1>12, <1>13,
           <1>14, <1>15 DEF Next, Pipeline, Agent, Sweep, Handoff, Verdict

LEMMA BasicInit == Init => Basic
<1>1. Init => TypeOK
  <2>1. FirstDoc \in Doc
    BY DEF FirstDoc, Doc, Stages
  <2> QED BY <2>1 DEF Init, TypeOK
<1> QED BY <1>1 DEF Init, Basic, PipelineHolds, HandedOffWhenThrough, AgentHolds, Writers

(* Every variable keeps its shape.                                         *)
THEOREM TypeCorrect == Spec => []TypeOK
<1>1. Basic => TypeOK
  BY DEF Basic
<1> QED BY <1>1, BasicInit, BasicStep, PTL DEF Spec

-----------------------------------------------------------------------------
(* Losses. *)

LEMMA LossStep ==
  ASSUME Basic, [Next]_vars
  PROVE  /\ \A e \in doc.audit \ doc'.audit :
              \E w \in Writers : held[w] # NoCopy /\ e \notin held[w].audit
         /\ \A v \in doc.verdicts \ doc'.verdicts :
              \E w \in Writers : held[w] # NoCopy /\ v \notin held[w].verdicts
<1> DEFINE Kept(w) == /\ w \in Writers /\ held[w] # NoCopy
                      /\ held[w].audit \subseteq doc'.audit
                      /\ held[w].verdicts \subseteq doc'.verdicts
<1>0. TypeOK /\ PipelineHolds /\ AgentHolds
  BY DEF Basic
<1> USE <1>0, WritersDiffer
<1>1. CASE doc' = doc
  BY <1>1
<1>2. ASSUME NEW w, Kept(w)
      PROVE  /\ \A e \in doc.audit \ doc'.audit :
                  \E x \in Writers : held[x] # NoCopy /\ e \notin held[x].audit
             /\ \A v \in doc.verdicts \ doc'.verdicts :
                  \E x \in Writers : held[x] # NoCopy /\ v \notin held[x].verdicts
  BY <1>2
<1>3. CASE Advance \/ Finish
  <2>1. Kept("pipeline")
    BY <1>3, AdvanceIs, FinishIs
  <2> QED BY <1>2, <2>1
<1>4. CASE Finally
  <2>1. Kept("pipeline") \/ doc' = doc
    BY <1>4, FinallyIs
  <2> HIDE DEF Kept
  <2> QED BY <1>1, <1>2, <2>1
<1>5. CASE AgentWrite
  <2>1. Kept("agent")
    BY <1>5, AgentWriteIs DEF PutsBack
  <2> QED BY <1>2, <2>1
<1>6. CASE SweepWrite
  <2>1. Kept("sweep") \/ doc' = doc
    BY <1>6, SweepWriteIs DEF PutsBack
  <2> HIDE DEF Kept
  <2> QED BY <1>1, <1>2, <2>1
<1>7. ASSUME NEW o \in Handoffs, HandoffWrite(o)
      PROVE  Kept(o)
  BY <1>7, HandoffWriteIs DEF PutsBack, Requests
<1>8. ASSUME NEW v \in Verdicts, VerdictWrite(v)
      PROVE  Kept(v)
  BY <1>8, VerdictWriteIs DEF PutsBack, Requests
<1>9. CASE doc' # doc
  <2> HIDE DEF Kept
  <2>1. \/ Advance \/ Finish \/ Finally \/ AgentWrite \/ SweepWrite
        \/ \E o \in Handoffs : HandoffWrite(o)
        \/ \E v \in Verdicts : VerdictWrite(v)
    BY <1>9 DEF Next, Pipeline, Agent, Sweep, Handoff, Verdict, Load, HandedOff, AgentRead,
               SweepRead, Publish, HandoffRead, VerdictRead, vars
  <2> QED BY <1>2, <1>3, <1>4, <1>5, <1>6, <1>7, <1>8, <2>1
<1> QED BY <1>1, <1>9

(* Whatever is lost from the record was not in the copy of somebody who    *)
(* held one: a writer whose read and write nobody else writes in between   *)
(* loses nothing.                                                          *)
THEOREM LossTakesOverlap == Spec => LossNeedsOverlap
<1>1. Basic /\ [Next]_vars =>
        [/\ \A e \in doc.audit \ doc'.audit :
              \E w \in Writers : held[w] # NoCopy /\ e \notin held[w].audit
         /\ \A v \in doc.verdicts \ doc'.verdicts :
              \E w \in Writers : held[w] # NoCopy /\ v \notin held[w].verdicts]_<<doc, held>>
  BY LossStep
<1> QED BY <1>1, BasicInit, BasicStep, PTL DEF Spec, LossNeedsOverlap
-----------------------------------------------------------------------------
(* The record after the pipeline is through. *)

(* A late writer that writes what it has read changes neither status nor   *)
(* result, and leaves the other copies as good as they were.               *)
LEMMA LateWrite ==
  ASSUME Basic, Undisturbed, NEW w \in Late, PutsBack(w), stage' = stage
  PROVE  Undisturbed' /\ doc'.status = doc.status /\ doc'.result
<1>1. Through /\ held[w].status = doc.status /\ held[w].result
  BY DEF Undisturbed, CopyIsThrough, PutsBack
<1>2. doc'.status = doc.status /\ doc'.result /\ Through'
  BY <1>1 DEF PutsBack, Through
<1>3. DocFollowsStage' /\ doc.result
  BY <1>1, <1>2 DEF Undisturbed, DocFollowsStage, Through, Stages
<1>4. held'["pipeline"] = held["pipeline"]
  BY WritersDiffer DEF PutsBack
<1>5. CopyFollowsStage'
  BY <1>2, <1>4 DEF Undisturbed, CopyFollowsStage
<1>6. ASSUME NEW x \in Late PROVE CopyIsThrough(x)'
  BY <1>2, WritersDiffer DEF Undisturbed, CopyIsThrough, PutsBack
<1> QED BY <1>2, <1>3, <1>5, <1>6 DEF Undisturbed

(* One that reads has the record as it is, when the pipeline is through.   *)
LEMMA LateRead ==
  ASSUME Basic, Undisturbed, NEW w \in Late, Read(w), doc.result, UNCHANGED <<doc, stage>>
  PROVE  Undisturbed'
<1>1. Through /\ doc.status \in Finished
  BY DEF Undisturbed, DocFollowsStage
<1>2. /\ held'[w] = doc
      /\ \A x \in Writers \ {w} : held'[x] = held[x]
  BY ReadIs, WritersDiffer DEF Basic
<1>3. DocFollowsStage' /\ Through'
  BY <1>1 DEF Undisturbed, DocFollowsStage, Through
<1>4. CopyFollowsStage'
  BY <1>2, WritersDiffer DEF Undisturbed, CopyFollowsStage
<1>5. ASSUME NEW x \in Late PROVE CopyIsThrough(x)'
  BY <1>2, <1>3, WritersDiffer DEF Undisturbed, CopyIsThrough
<1> QED BY <1>3, <1>4, <1>5 DEF Undisturbed

(* Until a handoff is written, every step keeps what is said above, and a  *)
(* record that is finished.                                                *)
LEMMA UndisturbedStep ==
  ASSUME Basic, Undisturbed, [Next]_vars, Handoffs \cap answered' = {}
  PROVE  /\ Undisturbed'
         /\ doc.status \in Finished => doc'.status = doc.status /\ doc'.result
<1> DEFINE Goal == /\ Undisturbed'
                   /\ doc.status \in Finished => doc'.status = doc.status /\ doc'.result
<1>0. /\ TypeOK /\ PipelineHolds /\ HandedOffWhenThrough /\ AgentHolds
      /\ DocFollowsStage /\ CopyFollowsStage
      /\ \A w \in Late : CopyIsThrough(w)
      /\ doc.status \in Finished => doc.result
      /\ doc.result <=> Through
      /\ "agent" \in Late /\ "sweep" \in Late /\ Verdicts \subseteq Late
  BY DEF Basic, Undisturbed, DocFollowsStage, Through, Finished, Stages, TypeOK, Late
<1> USE <1>0, WritersDiffer
<1>1. CASE Load
  <2>1. ~Through /\ ~Through' /\ doc' = doc /\ \A w \in Late : held'[w] = held[w]
    BY <1>1, ReadIs DEF Load, Through
  <2>2. DocFollowsStage'
    BY <1>1, <2>1 DEF Load, DocFollowsStage, Stages
  <2>3. CopyFollowsStage'
    BY <1>1, <2>1, ReadIs DEF Load, CopyFollowsStage
  <2> QED BY <2>1, <2>2, <2>3 DEF Undisturbed, CopyIsThrough, DocFollowsStage, Through, Finished, Stages
<1>2. CASE Advance
  <2>1. stage \in Stages /\ stage' \in Stages /\ ~Through /\ ~Through' /\ ~doc.result
    BY <1>2, AdvanceIs DEF Advance, Through, Stages
  <2>2. DocFollowsStage' /\ ~doc'.result
    BY <1>2, <2>1, AdvanceIs DEF DocFollowsStage, CopyFollowsStage, Through, Stages
  <2>3. ~(doc.status \in Finished)
    BY <2>1 DEF DocFollowsStage, Finished, Stages
  <2>4. \A w \in Late : held'[w] = NoCopy
    BY <1>2, <2>1, AdvanceIs DEF CopyIsThrough
  <2>5. CopyFollowsStage'
    BY <1>2, <2>1, <2>2, AdvanceIs DEF CopyFollowsStage, Through
  <2> QED BY <2>2, <2>3, <2>4, <2>5 DEF Undisturbed, CopyIsThrough
<1>3. CASE Finish
  <2>1. ~Through /\ Through' /\ ~doc.result /\ ~(doc.status \in Finished)
    BY <1>3, FinishIs DEF Finish, Through, Stages, Finished
  <2>2. DocFollowsStage' /\ CopyFollowsStage'
    BY <1>3, <2>1, FinishIs DEF DocFollowsStage, CopyFollowsStage, Stages, Through
  <2>3. \A w \in Late : held'[w] = NoCopy
    BY <1>3, <2>1, FinishIs DEF CopyIsThrough
  <2> QED BY <2>1, <2>2, <2>3 DEF Undisturbed, CopyIsThrough
<1>4. CASE HandedOff
  <2>1. Through /\ Through' /\ doc' = doc /\ held' = held /\ stage \notin Stages /\ stage' \notin Stages
    BY <1>4 DEF HandedOff, Through, Stages
  <2> QED BY <1>4, <2>1 DEF HandedOff, Undisturbed, DocFollowsStage, CopyFollowsStage, CopyIsThrough
<1>5. CASE Finally
  <2>1. Through /\ Through' /\ doc'.status = doc.status /\ doc'.result
    BY <1>5, FinallyIs DEF Finally, Through, CopyFollowsStage
  <2>2. DocFollowsStage' /\ CopyFollowsStage'
    BY <1>5, <2>1, FinallyIs DEF DocFollowsStage, CopyFollowsStage, Stages
  <2>3. ASSUME NEW w \in Late PROVE CopyIsThrough(w)'
    BY <1>5, <2>1, FinallyIs DEF CopyIsThrough
  <2> QED BY <2>1, <2>2, <2>3 DEF Undisturbed
<1>6. CASE AgentRead
  BY <1>6, LateRead DEF AgentRead, HandedOffWhenThrough
<1>7. CASE AgentWrite
  BY <1>7, LateWrite, AgentWriteIs DEF AgentWrite
<1>8. CASE SweepRead
  BY <1>8, LateRead DEF SweepRead
<1>9. CASE SweepWrite
  <2>1. CASE PutsBack("sweep")
    BY <1>9, <2>1, LateWrite DEF SweepWrite
  <2>2. CASE ~PutsBack("sweep")
    <3>1. /\ doc' = doc /\ stage' = stage /\ Through' = Through
          /\ \A x \in Writers \ {"sweep"} : held'[x] = held[x]
          /\ held'["sweep"] = NoCopy
      BY <1>9, <2>2, SweepWriteIs DEF SweepWrite, Through
    <3> QED BY <3>1 DEF Undisturbed, DocFollowsStage, CopyFollowsStage, CopyIsThrough
  <2> QED BY <2>1, <2>2
<1>10. CASE UNCHANGED <<doc, held, stage>>
  BY <1>10 DEF Undisturbed, DocFollowsStage, CopyFollowsStage, CopyIsThrough, Through
<1>11. ASSUME NEW o \in Handoffs, HandoffRead(o) PROVE Goal
  <2>1. /\ doc' = doc /\ stage' = stage /\ Through' = Through
        /\ \A x \in Late \cup {"pipeline"} : held'[x] = held[x]
    BY <1>11, ReadIs DEF HandoffRead, Through, Requests
  <2> QED BY <2>1 DEF Undisturbed, DocFollowsStage, CopyFollowsStage, CopyIsThrough
<1>12. ASSUME NEW o \in Handoffs, HandoffWrite(o) PROVE Goal
  BY <1>12 DEF HandoffWrite
<1>13. ASSUME NEW v \in Verdicts, VerdictRead(v) PROVE Goal
  BY <1>13, LateRead DEF VerdictRead
<1>14. ASSUME NEW v \in Verdicts, VerdictWrite(v) PROVE Goal
  BY <1>14, LateWrite, VerdictWriteIs DEF VerdictWrite
<1> QED BY <1>1, <1>2, <1>3, <1>4, <1>5, <1>6, <1>7, <1>8, <1>9, <1>10, <1>11, <1>12, <1>13,
           <1>14 DEF Next, Pipeline, Agent, Sweep, Handoff, Verdict, Publish, vars

(* A request that was answered stays so. *)
LEMMA AnsweredGrows == [Next]_vars => answered \subseteq answered'
BY DEF Next, Pipeline, Agent, Sweep, Handoff, Verdict, Load, Advance, Finish, HandedOff, Finally,
       AgentRead, AgentWrite, SweepRead, SweepWrite, Publish, HandoffRead, HandoffWrite,
       VerdictRead, VerdictWrite, vars

LEMMA Step == IInv /\ [Next]_vars => IInv'
BY BasicStep, UndisturbedStep, AnsweredGrows DEF IInv

(* Until a handoff of an operator is written, nobody takes a finished      *)
(* record back: neither verdicts, however many cross, nor the local agent, *)
(* the sweep or the pipeline's own last save.                              *)
THEOREM OnlyHandoffsReopen == Spec => ReopenedByHandoffOnly
<1>1. Init => IInv
  <2>1. Init => Undisturbed
    BY WritersDiffer DEF Init, FirstDoc, Undisturbed, DocFollowsStage, CopyFollowsStage, CopyIsThrough,
       Through, Stages, Finished
  <2> QED BY <2>1, BasicInit DEF IInv
<1>2. IInv /\ [Next]_vars =>
        [doc.status \in Finished /\ Handoffs \cap answered' = {} =>
           doc'.status = doc.status /\ doc'.result]_<<doc, answered>>
  BY UndisturbedStep, AnsweredGrows DEF IInv
<1> QED BY <1>1, <1>2, Step, PTL DEF Spec, ReopenedByHandoffOnly
=============================================================================
