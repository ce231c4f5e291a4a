----------------------- MODULE HealingPipelineProofs -----------------------
(***************************************************************************)
(* Proofs about HealingPipeline, for every set of deliveries, every event, *)
(* every limit and every number of faults and restarts.                    *)
(***************************************************************************)
EXTENDS HealingPipeline, FiniteSetTheorems, TLAPS

-----------------------------------------------------------------------------
(* The records the code builds. *)

(* Failed keeps the shape and the remediation result, and sets the rest.     *)
LEMMA FailedIs ==
  ASSUME NEW doc \in Doc, NEW e \in Errors
  PROVE  /\ Failed(doc, e) \in Doc
         /\ Failed(doc, e).status = "failed" /\ Failed(doc, e).error = e
         /\ Failed(doc, e).result = doc.result
BY DEF Failed, Doc, Terminal

(* Entering a stage changes the status only.                                 *)
LEMMA EnterIs ==
  ASSUME NEW doc \in Doc, NEW s \in Transient \cup Terminal
  PROVE  /\ Enter(doc, s) \in Doc
         /\ Enter(doc, s).status = s /\ Enter(doc, s).error = doc.error
         /\ Enter(doc, s).result = doc.result
BY DEF Enter, Doc

(* A completed run keeps whatever error the record carried.                  *)
LEMMA CompletedIs ==
  ASSUME NEW doc \in Doc
  PROVE  /\ Completed(doc) \in Doc
         /\ Completed(doc).status = "completed" /\ Completed(doc).error = doc.error
         /\ Completed(doc).result = "succeeded"
BY DEF Completed, Doc, Terminal, Results

(* A run whose remediation did not succeed.                                  *)
LEMMA UnresolvedIs ==
  ASSUME NEW doc \in Doc
  PROVE  /\ Unresolved(doc) \in Doc
         /\ Unresolved(doc).status = "failed" /\ Unresolved(doc).error = "remediation"
         /\ Unresolved(doc).result = "failed"
BY DEF Unresolved, Doc, Terminal, Results, Errors

(* The records and batches the code starts from.                             *)
LEMMA ConstantDocs ==
  /\ NoDoc \in Doc
  /\ NoBatch \in [Deliveries -> Doc]
  /\ NoSweep \in [next : 1 .. 5, batch : [Deliveries -> Doc]]
<1>1. NoDoc \in Doc
  BY DEF NoDoc, Record, Doc, Errors, Results
<1> QED BY <1>1 DEF NoBatch, NoSweep

(* So is the one the GitHub wrapper falls back to.                           *)
LEMMA FreshFailureIs ==
  ASSUME clock \in Nat
  PROVE  /\ FreshFailure \in Doc /\ FreshFailure.status = "failed"
         /\ FreshFailure.error = "exception"
BY DEF FreshFailure, Record, Doc, Errors, Results, Terminal

(* What the request handler stores first is a record.                        *)
LEMMA FirstRecordIs ==
  ASSUME clock \in Nat, NEW d \in Deliveries,
         handler[d] \in {"admitting", "duplicate", "max_attempts"}
  PROVE  /\ FirstRecord(d) \in Doc /\ FirstRecord(d) # NoDoc
         /\ FirstRecord(d).status = IF handler[d] = "admitting" THEN "pending" ELSE "skipped"
BY DEF FirstRecord, Record, NoDoc, Doc, Errors, Results, Transient, Terminal

(* A save is followed by another await of the task, or by its end.           *)
LEMMA AfterSaveIs ==
  ASSUME NEW d \in Deliveries, TypeOK, task[d] \in Saves
  PROVE  /\ AfterSave(d) \in {"save_diagnosing", "analyze", "context", "diagnose", "learning",
                              "remediate", "handoff", "finally", "ended"}
         /\ task[d] = "save_analyzing" => AfterSave(d) = IF d \in Bridge THEN "save_diagnosing"
                                                                         ELSE "analyze"
         /\ task[d] = "save_diagnosing" => AfterSave(d) = "context"
         /\ task[d] = "save_context" => AfterSave(d) = "diagnose"
         /\ task[d] = "save_remediating" => AfterSave(d) = "learning"
         /\ task[d] = "save_learning" => AfterSave(d) = "remediate"
         /\ task[d] \in {"save_no_logs", "save_exception"} => AfterSave(d) = Exit(d)
         /\ task[d] = "save_result" => AfterSave(d) = IF copy[d].status = "failed" THEN "handoff"
                                                                                   ELSE Exit(d)
         /\ task[d] = "fallback" => AfterSave(d) = "ended"
<1>1. Exit(d) \in {"finally", "ended"}
  BY DEF Exit
<1>2. CASE task[d] = "save_analyzing"
  BY <1>2 DEF AfterSave
<1>3. CASE task[d] = "save_diagnosing"
  BY <1>3 DEF AfterSave
<1>4. CASE task[d] = "save_context"
  BY <1>4 DEF AfterSave
<1>5. CASE task[d] = "save_remediating"
  BY <1>5 DEF AfterSave
<1>6. CASE task[d] = "save_learning"
  BY <1>6 DEF AfterSave
<1>7. CASE task[d] \in {"save_no_logs", "save_exception"}
  BY <1>1, <1>7 DEF AfterSave
<1>8. CASE task[d] = "save_result"
  BY <1>1, <1>8 DEF AfterSave
<1>9. CASE task[d] = "fallback"
  BY <1>9 DEF AfterSave
<1> QED BY <1>2, <1>3, <1>4, <1>5, <1>6, <1>7, <1>8, <1>9 DEF Saves, TrySaves

-----------------------------------------------------------------------------
(* The steps of the background task. *)

(* A step of the background task of d moves d's program counter and copy,    *)
(* saves the copy or leaves the store alone, and touches nothing else.       *)
LEMMA TaskMoves ==
  ASSUME TypeOK, NEW d \in Deliveries, Task(d)
  PROVE  /\ task[d] \in Running
         /\ \E pc \in TaskPc \ {"none"}, doc \in Doc : Goto(d, pc, doc)
         /\ \/ store' = store
            \/ store' = [store EXCEPT ![d] = copy[d]]
         /\ UNCHANGED <<faults, handler, owner, up, sweep, restarts>>
<1> USE DEF Running, TrySaves, TrySteps, Finallys, requestVars, replicaVars
<1>1. /\ copy[d] \in Doc /\ store[d] \in Doc /\ FreshFailure \in Doc
      /\ clock \in Nat
      /\ Exit(d) \in {"finally", "ended"}
      /\ "exception" \in Errors /\ "no_logs" \in Errors
      /\ {"analyzing", "diagnosing", "remediating"} \subseteq Transient
  BY FreshFailureIs DEF TypeOK, Exit, Errors, Transient
<1>2. /\ Failed(copy[d], "exception") \in Doc /\ Failed(copy[d], "no_logs") \in Doc
      /\ Failed(store[d], "exception") \in Doc
  BY <1>1, FailedIs
<1>3. /\ Enter(store[d], "analyzing") \in Doc /\ Enter(copy[d], "diagnosing") \in Doc
      /\ Enter(copy[d], "remediating") \in Doc
      /\ Completed(copy[d]) \in Doc /\ Unresolved(copy[d]) \in Doc
  BY <1>1, EnterIs, CompletedIs, UnresolvedIs
<1> DEFINE Moves == \E pc \in TaskPc \ {"none"}, doc \in Doc : Goto(d, pc, doc)
<1>4. ASSUME NEW pc \in TaskPc \ {"none"}, NEW doc \in Doc, Goto(d, pc, doc) PROVE Moves
  BY <1>4
<1>5. /\ Running \subseteq TaskPc \ {"none"} /\ "ended" \in TaskPc \ {"none"}
      /\ Exit(d) \in TaskPc \ {"none"}
  BY <1>1 DEF TaskPc
<1> HIDE DEF Moves
<1>6. Raise(d) => Moves
  BY <1>2, <1>4, <1>5 DEF Raise
<1>7. Escape(d) => Moves
  BY <1>1, <1>4, <1>5 DEF Escape
<1>8. CASE Load(d)
  BY <1>3, <1>4, <1>5, <1>8 DEF Load, Moves
<1>9. CASE FallbackLoad(d)
  BY <1>2, <1>4, <1>5, <1>9 DEF FallbackLoad, Moves
<1>10. CASE Save(d)
  <2>1. AfterSave(d) \in TaskPc \ {"none"}
    BY <1>10, AfterSaveIs DEF Save, TaskPc
  <2> QED BY <1>1, <1>3, <1>4, <1>10, <2>1 DEF Save, Saves, Moves
<1>11. CASE Finally(d)
  <2>1. Goto(d, "ended", copy[d]) => Moves
    BY <1>1, <1>4, <1>5
  <2> QED BY <1>7, <1>11, <2>1 DEF Finally, Moves
<1>12. CASE AutoHandoff(d)
  BY <1>1, <1>4, <1>5, <1>12 DEF AutoHandoff, Moves
<1>13. CASE Analyze(d)
  BY <1>2, <1>3, <1>4, <1>5, <1>6, <1>13 DEF Analyze, Moves
<1>14. CASE GatherContext(d)
  BY <1>1, <1>4, <1>5, <1>6, <1>14 DEF GatherContext, Moves
<1>15. CASE Diagnose(d)
  BY <1>3, <1>4, <1>5, <1>6, <1>15 DEF Diagnose, Moves
<1>16. CASE Remediate(d)
  BY <1>3, <1>4, <1>5, <1>6, <1>16 DEF Remediate, Moves
<1> QED
  BY <1>8, <1>9, <1>10, <1>11, <1>12, <1>13, <1>14, <1>15, <1>16 DEF Task

(* The clock stays a number.                                                 *)
LEMMA TaskClock == ASSUME clock \in Nat, NEW d \in Deliveries, Task(d) PROVE clock' \in Nat
<1>1. Load(d) \/ FallbackLoad(d) \/ Save(d) \/ AutoHandoff(d) => clock' = clock
  BY DEF Load, FallbackLoad, Save, AutoHandoff, requestVars
<1>2. Analyze(d) \/ GatherContext(d) \/ Diagnose(d) \/ Remediate(d) => clock' = clock
  BY DEF Analyze, GatherContext, Diagnose, Remediate, requestVars
<1>3. Finally(d) => clock' \in {clock, clock + 1}
  BY DEF Finally, Escape
<1> QED BY <1>1, <1>2, <1>3 DEF Task

-----------------------------------------------------------------------------
(* Type correctness. *)

(* Every step keeps every variable's shape.                                  *)
LEMMA TypeStep == TypeOK /\ [Next]_vars => TypeOK'
<1> SUFFICES ASSUME TypeOK, [Next]_vars PROVE TypeOK'
  OBVIOUS
<1> USE DEF TypeOK, requestVars, replicaVars
<1>1. ASSUME NEW d \in Deliveries, NEW r \in Replicas, Receive(d, r)
      PROVE  TypeOK'
  BY <1>1 DEF Receive, HandlerPc, InRequest
<1>2. ASSUME NEW d \in Deliveries, Request(d)
      PROVE  TypeOK'
  <2>1. CASE Check(d)
    BY <2>1 DEF Check, ShouldProcess, HandlerPc, InRequest
  <2>2. CASE CreateActivity(d)
    BY <2>2, FirstRecordIs DEF CreateActivity, Persist, HandlerPc, InRequest
  <2>3. CASE SpawnTask(d)
    BY <2>3 DEF SpawnTask, HandlerPc, TaskPc, Running
  <2> QED BY <1>2, <2>1, <2>2, <2>3 DEF Request
<1>3. ASSUME NEW d \in Deliveries, Task(d)
      PROVE  TypeOK'
  <2>1. store' \in [Deliveries -> Doc]
    BY <1>3, TaskMoves
  <2>2. task' \in [Deliveries -> TaskPc] /\ copy' \in [Deliveries -> Doc]
    BY <1>3, TaskMoves, SMTT(30) DEF Goto
  <2> QED BY <1>3, <2>1, <2>2, TaskMoves, TaskClock
<1>4. ASSUME NEW d \in Deliveries, Cancel(d)
      PROVE  TypeOK'
  BY <1>4 DEF Cancel, Goto, TaskPc, Running, Finallys
<1>5. ASSUME NEW r \in Replicas, Startup(r) \/ BeginClose(r) \/ FinishClose(r)
      PROVE  TypeOK'
  <2>1. CASE Boot(r) \/ FinishClose(r)
    BY <2>1 DEF Boot, FinishClose
  <2>2. CASE ReadPage(r)
    <3> DEFINE page == Newest({d \in Deliveries : store[d].status = TransientOrder[sweep[r].next]})
               batch == [d \in Deliveries |-> IF d \in page THEN store[d] ELSE NoDoc]
    <3>1. sweep[r].next + 1 \in 1 .. 5
      BY <2>2 DEF ReadPage, TransientOrder
    <3>2. batch \in [Deliveries -> Doc]
      BY ConstantDocs
    <3>3. sweep' = [sweep EXCEPT ![r] = [next |-> sweep[r].next + 1, batch |-> batch]]
      BY <2>2 DEF ReadPage
    <3> HIDE DEF batch
    <3> QED BY <2>2, <3>1, <3>2, <3>3 DEF ReadPage
  <2>3. CASE FinishRecovery(r)
    BY <2>3, ConstantDocs DEF FinishRecovery
  <2>4. CASE \E d \in Deliveries : RecoverActivity(r, d)
    <3>1. PICK d \in Deliveries : RecoverActivity(r, d)
      BY <2>4
    <3>2. sweep[r] \in [next : 1 .. 5, batch : [Deliveries -> Doc]] /\ "interrupted" \in Errors
      BY DEF Errors
    <3>3. Failed(sweep[r].batch[d], "interrupted") \in Doc
      BY <3>2, FailedIs
    <3>4. store' \in [Deliveries -> Doc]
      BY <3>1, <3>3 DEF RecoverActivity
    <3>5. sweep' \in [Replicas -> [next : 1 .. 5, batch : [Deliveries -> Doc]]]
      <4>1. [sweep[r].batch EXCEPT ![d] = NoDoc] \in [Deliveries -> Doc]
        BY <3>2, ConstantDocs
      <4> DEFINE swept == [sweep[r] EXCEPT !.batch = [@ EXCEPT ![d] = NoDoc]]
      <4>2. sweep' = [sweep EXCEPT ![r] = swept]
        BY <3>1 DEF RecoverActivity
      <4>3. swept \in [next : 1 .. 5, batch : [Deliveries -> Doc]]
        BY <3>2, <4>1
      <4> HIDE DEF swept
      <4> QED BY <4>2, <4>3
    <3> QED BY <3>1, <3>4, <3>5 DEF RecoverActivity
  <2>5. CASE BeginClose(r)
    BY <2>5, BoundsAssumption DEF BeginClose
  <2> QED BY <1>5, <2>1, <2>2, <2>3, <2>4, <2>5 DEF Startup
<1>6. CASE Fault
  <2>1. ASSUME NEW d \in Deliveries, RequestFails(d)
        PROVE  TypeOK'
    <3>1. faults' \in 0 .. MaxFaults
      BY <2>1, BoundsAssumption DEF RequestFails
    <3>2. store' \in [Deliveries -> Doc] /\ clock' \in Nat
      <4>1. CASE UNCHANGED <<store, clock>>
        BY <4>1
      <4>2. CASE Persist(d) /\ handler[d] \in {"admitting", "duplicate", "max_attempts"}
        BY <4>2, FirstRecordIs DEF Persist
      <4> QED BY <2>1, <4>1, <4>2 DEF RequestFails, InRequest
    <3>3. handler' \in [Deliveries -> HandlerPc]
      BY <2>1 DEF RequestFails, HandlerPc
    <3> QED BY <2>1, <3>1, <3>2, <3>3 DEF RequestFails
  <2>2. ASSUME NEW d \in Deliveries, LoadFails(d)
        PROVE  TypeOK'
    <3>1. faults' \in 0 .. MaxFaults
      BY <2>2, BoundsAssumption DEF LoadFails
    <3>2. PICK pc \in TaskPc, doc \in Doc : Goto(d, pc, doc)
      BY <2>2, FreshFailureIs DEF LoadFails, Escape, TaskPc, Running
    <3>3. task' \in [Deliveries -> TaskPc] /\ copy' \in [Deliveries -> Doc]
      BY <3>2 DEF Goto
    <3>4. clock' \in Nat
      BY <2>2 DEF LoadFails, Escape
    <3> QED BY <2>2, <3>1, <3>3, <3>4 DEF LoadFails
  <2>3. ASSUME NEW d \in Deliveries, SaveFails(d)
        PROVE  TypeOK'
    <3>1. copy[d] \in Doc /\ FreshFailure \in Doc /\ Failed(copy[d], "exception") \in Doc
      BY FreshFailureIs, FailedIs DEF Errors
    <3>2. store' \in [Deliveries -> Doc]
      BY <2>3, <3>1 DEF SaveFails
    <3>3. PICK pc \in TaskPc, doc \in Doc : Goto(d, pc, doc)
      BY <2>3, <3>1 DEF SaveFails, Escape, Raise, TaskPc, Running, Finallys
    <3>4. task' \in [Deliveries -> TaskPc] /\ copy' \in [Deliveries -> Doc]
      BY <3>3 DEF Goto
    <3>5. faults' \in 0 .. MaxFaults
      BY <2>3, BoundsAssumption DEF SaveFails
    <3>6. clock' \in Nat
      BY <2>3 DEF SaveFails, Escape
    <3> QED BY <2>3, <3>2, <3>4, <3>5, <3>6 DEF SaveFails
  <2>4. ASSUME NEW r \in Replicas, Crash(r) \/ RecoveryFails(r)
        PROVE  TypeOK'
    <3>1. Die(r)
      BY <2>4 DEF Crash, RecoveryFails
    <3>2. faults' \in 0 .. MaxFaults /\ restarts' \in 0 .. MaxRestarts
      BY <2>4, BoundsAssumption DEF Crash, RecoveryFails
    <3>3. up' \in [Replicas -> {"down", "recovering", "serving", "closing"}]
      BY <3>1 DEF Die
    <3>4. sweep' \in [Replicas -> [next : 1 .. 5, batch : [Deliveries -> Doc]]]
      BY <3>1, ConstantDocs DEF Die
    <3>5. handler' \in [Deliveries -> HandlerPc]
      BY <3>1 DEF Die, HandlerPc
    <3>6. task' \in [Deliveries -> TaskPc]
      BY <3>1 DEF Die, TaskPc
    <3> QED BY <3>1, <3>2, <3>3, <3>4, <3>5, <3>6 DEF Die
  <2> QED BY <1>6, <2>1, <2>2, <2>3, <2>4 DEF Fault
<1>7. CASE UNCHANGED vars
  BY <1>7 DEF vars
<1> QED BY <1>1, <1>2, <1>3, <1>4, <1>5, <1>6, <1>7 DEF Next

(* Every variable keeps its shape, for any number of replicas.               *)
THEOREM TypeCorrect == Spec => []TypeOK
<1>1. Init => TypeOK
  BY ConstantDocs, BoundsAssumption DEF Init, TypeOK, HandlerPc, TaskPc
<1> QED BY <1>1, TypeStep, PTL DEF Spec
(* The inductive invariant of a single replica. *)

(* The stage that follows each status.                                       *)
LEMMA StageAfterIs ==
  /\ Lifecycle!StageAfter("pending") = "analyzing"
  /\ Lifecycle!StageAfter("analyzing") = "diagnosing"
  /\ Lifecycle!StageAfter("diagnosing") = "remediating"
  /\ Lifecycle!StageAfter("remediating") = "completed"
BY DEF Lifecycle!StageAfter

(* A delivery a step does not touch keeps its part of the invariant, as long *)
(* as whoever works on it is still there.                                    *)
LEMMA Untouched ==
  ASSUME NEW e \in Deliveries, DeliveryInv(e),
         store'[e] = store[e], task'[e] = task[e], copy'[e] = copy[e],
         handler'[e] = handler[e], WorkerIsUp(e)'
  PROVE  DeliveryInv(e)'
<1> USE DEF DeliveryInv
<1>1. StoredBeforeTask(e)'
  BY DEF StoredBeforeTask, NoDoc, Record
<1>2. StoreFollowsCopy(e)'
  BY DEF StoreFollowsCopy
<1>3. CleanRecords(e)'
  BY DEF CleanRecords
<1> QED BY <1>1, <1>2, <1>3

(* Nobody's worker goes away while the replicas keep their phases.           *)
LEMMA SameWorker ==
  ASSUME NEW e \in Deliveries, WorkerIsUp(e), up' = up,
         task'[e] = task[e], handler'[e] = handler[e], owner'[e] = owner[e]
  PROVE  WorkerIsUp(e)'
BY DEF WorkerIsUp

(* What an await of the task has to show for the invariant to hold there.    *)
LEMMA Arrives ==
  ASSUME TypeOK, NEW d \in Deliveries, DeliveryInv(d), task[d] \in Running,
         NEW pc \in (Running \ {"load"}) \cup {"ended"}, NEW doc \in Doc, Goto(d, pc, doc),
         handler'[d] = handler[d], owner'[d] = owner[d], up' = up,
         Clean(store'[d]), Clean(doc),
         store'[d].error # "interrupted", doc.error # "interrupted",
         pc \in Running => StagesAt(pc, store'[d].status, doc.status)
  PROVE  DeliveryInv(d)'
<1>1. task'[d] = pc /\ copy'[d] = doc
  BY DEF TypeOK, Goto
<1>2. handler[d] = "answered" /\ "answered" \notin InRequest
  BY DEF DeliveryInv, WorkerIsUp, InRequest
<1>3. pc \notin {"load", "none"}
  BY DEF Running, TrySaves, TrySteps, Finallys
<1>4. WorkerIsUp(d)'
  BY <1>2 DEF DeliveryInv, WorkerIsUp
<1>5. StoredBeforeTask(d)'
  BY <1>1, <1>2, <1>3 DEF StoredBeforeTask, InRequest
<1>6. StoreFollowsCopy(d)'
  BY <1>1 DEF StoreFollowsCopy
<1>7. CleanRecords(d)'
  BY <1>1 DEF CleanRecords
<1> QED BY <1>4, <1>5, <1>6, <1>7 DEF DeliveryInv

(* Whatever is stored of a task in flight, the task may go on to fail it.    *)
LEMMA MayFail ==
  ASSUME NEW s \in Transient \cup {"completed", "failed"}, NEW pc \in {"save_exception", "fallback", "finally_raise", "fallback_load"}
  PROVE  /\ StagesAt(pc, s, "failed")
         /\ pc = "fallback_load" => \A t : StagesAt(pc, s, t)
BY DEF StagesAt, MayBecome, TrySteps

(* A step of the background task of d keeps d's part of the invariant.       *)
LEMMA TaskKeeps ==
  ASSUME TypeOK, NEW d \in Deliveries, DeliveryInv(d), Task(d)
  PROVE  DeliveryInv(d)'
<1>1. /\ task[d] \in Running /\ store[d] \in Doc /\ copy[d] \in Doc
      /\ handler'[d] = handler[d] /\ owner'[d] = owner[d] /\ up' = up
      /\ store'[d] = store[d] \/ store'[d] = copy[d]
  BY TaskMoves DEF TypeOK
<1>2. /\ Clean(store[d]) /\ Clean(copy[d])
      /\ store[d].error # "interrupted" /\ copy[d].error # "interrupted"
      /\ Clean(store'[d]) /\ store'[d].error # "interrupted"
  BY <1>1 DEF DeliveryInv, CleanRecords
<1>3. StagesAt(task[d], store[d].status, copy[d].status)
  BY <1>1 DEF DeliveryInv, StoreFollowsCopy
<1>4. store[d].status \in Transient \cup {"completed", "failed"}
  BY <1>3 DEF StagesAt
<1>5. ASSUME NEW doc \in Doc, NEW e \in {"exception", "no_logs"}
      PROVE  /\ Failed(doc, e) \in Doc /\ Failed(doc, e).status = "failed"
             /\ Failed(doc, e).error # "interrupted" /\ Clean(Failed(doc, e))
  BY FailedIs DEF Errors, Clean, Transient
<1>6. ASSUME NEW doc \in Doc, Clean(doc), doc.status \in Transient,
             NEW s \in {"analyzing", "diagnosing", "remediating"}
      PROVE  /\ Enter(doc, s) \in Doc /\ Enter(doc, s).status = s
             /\ Enter(doc, s).error # "interrupted" /\ Clean(Enter(doc, s))
  <2>1. s \in Transient \cup Terminal /\ s # "completed"
    BY DEF Transient
  <2>2. doc.error = "none"
    BY <1>6 DEF Clean
  <2> QED BY <2>1, <2>2, EnterIs DEF Clean
<1> DEFINE Pcs == (Running \ {"load"}) \cup {"ended"}
<1>7. ASSUME store' = store, task[d] \in TrySteps, Raise(d) PROVE DeliveryInv(d)'
  <2>1. "save_exception" \in Pcs
    BY DEF Running
  <2>2. StagesAt("save_exception", store'[d].status, Failed(copy[d], "exception").status)
    BY <1>1, <1>4, <1>5, <1>7, MayFail
  <2> QED BY <1>1, <1>2, <1>5, <1>7, <2>1, <2>2, Arrives DEF Raise
<1>8. CASE Load(d)
  <2>1. store[d].status = "pending" /\ store[d].status \in Transient
    BY <1>8 DEF Load, DeliveryInv, StoredBeforeTask, Record, Transient
  <2>2. "save_analyzing" \in Pcs
    BY DEF Running, TrySaves
  <2>3. store' = store /\ Goto(d, "save_analyzing", Enter(store[d], "analyzing"))
    BY <1>8 DEF Load
  <2>4. StagesAt("save_analyzing", "pending", "analyzing")
    BY StageAfterIs DEF StagesAt, MayBecome, TrySteps, Transient
  <2> QED BY <1>1, <1>2, <1>6, <2>1, <2>2, <2>3, <2>4, Arrives
<1>9. CASE FallbackLoad(d)
  <2>1. "fallback" \in Pcs
    BY DEF Running
  <2>2. store' = store /\ Goto(d, "fallback", Failed(store[d], "exception"))
    BY <1>9 DEF FallbackLoad
  <2>3. StagesAt("fallback", store[d].status, "failed")
    BY <1>4, MayFail
  <2> QED BY <1>1, <1>2, <1>5, <2>1, <2>2, <2>3, Arrives
<1>10. CASE Save(d)
  <2>1. store'[d] = copy[d] /\ task[d] \in Saves
    BY <1>1, <1>10 DEF Save, TypeOK
  <2>2. CASE AfterSave(d) = "save_diagnosing"
    <3>1. task[d] = "save_analyzing"
      BY <2>1, <2>2, AfterSaveIs DEF Saves, TrySaves, Exit
    <3>2. copy[d].status = "analyzing" /\ "analyzing" \in Transient
      BY <1>3, <3>1 DEF StagesAt, Transient
    <3>3. "save_diagnosing" \in Pcs
      BY DEF Running, TrySaves
    <3>4. Goto(d, "save_diagnosing", Enter(copy[d], "diagnosing"))
      BY <1>10, <2>2 DEF Save
    <3>5. StagesAt("save_diagnosing", "analyzing", "diagnosing")
      BY StageAfterIs DEF StagesAt, MayBecome, TrySteps, Transient
    <3> QED BY <1>1, <1>2, <1>6, <2>1, <3>2, <3>3, <3>4, <3>5, Arrives
  <2>3. CASE AfterSave(d) # "save_diagnosing"
    <3>1. AfterSave(d) \in Pcs
      BY <2>1, AfterSaveIs DEF Running, TrySaves, TrySteps, Finallys
    <3>2. Goto(d, AfterSave(d), copy[d])
      BY <1>10, <2>3 DEF Save
    <3>3. copy[d].status \in Transient \cup {"completed", "failed"}
      BY <1>3, <2>1 DEF StagesAt, Saves, TrySaves, Transient
    <3>4. ASSUME AfterSave(d) \in Running
          PROVE  StagesAt(AfterSave(d), copy[d].status, copy[d].status)
      BY <1>3, <2>1, <2>3, <3>3, <3>4, AfterSaveIs
      DEF StagesAt, MayBecome, Saves, TrySaves, TrySteps, Exit
    <3> QED BY <1>1, <1>2, <2>1, <3>1, <3>2, <3>4, Arrives
  <2> QED BY <2>2, <2>3
<1>11. CASE Finally(d)
  <2>1. CASE task[d] # "finally_raise"
    <3>1. "ended" \in Pcs /\ "ended" \notin Running
      BY DEF Running, TrySaves, TrySteps, Finallys
    <3>2. Goto(d, "ended", copy[d])
      BY <1>11, <2>1 DEF Finally
    <3> QED BY <1>1, <1>2, <3>1, <3>2, Arrives
  <2>2. CASE task[d] = "finally_raise"
    <3>1. copy[d].status = "failed"
      BY <1>3, <2>2 DEF StagesAt
    <3>2. store'[d].status \in Transient \cup {"completed", "failed"}
      BY <1>1, <1>4, <3>1
    <3>3. "fallback" \in Pcs /\ "fallback_load" \in Pcs
      BY DEF Running
    <3>4. /\ FreshFailure \in Doc /\ FreshFailure.status = "failed"
          /\ FreshFailure.error # "interrupted" /\ Clean(FreshFailure)
      BY FreshFailureIs DEF TypeOK, Clean, Transient
    <3>5. StagesAt("fallback", store'[d].status, "failed")
      BY <3>2, MayFail
    <3>6. StagesAt("fallback_load", store'[d].status, copy[d].status)
      BY <3>1, <3>2, MayFail
    <3>7. CASE d \in Bridge
      <4>1. Goto(d, "fallback_load", copy[d])
        BY <1>11, <2>2, <3>7 DEF Finally, Escape
      <4> QED BY <1>1, <1>2, <3>3, <3>6, <4>1, Arrives
    <3>8. CASE d \notin Bridge
      <4>1. Goto(d, "fallback", FreshFailure)
        BY <1>11, <2>2, <3>8 DEF Finally, Escape
      <4> QED BY <1>1, <1>2, <3>3, <3>4, <3>5, <4>1, Arrives
    <3> QED BY <3>7, <3>8
  <2> QED BY <2>1, <2>2
<1>12. CASE AutoHandoff(d)
  <2>1. Exit(d) \in Pcs /\ Goto(d, Exit(d), copy[d]) /\ store' = store
    BY <1>12 DEF AutoHandoff, Exit, Running, Finallys
  <2>2. StagesAt(Exit(d), store[d].status, copy[d].status) \/ Exit(d) \notin Running
    BY <1>3, <1>12 DEF AutoHandoff, Exit, Running, TrySaves, TrySteps, Finallys, StagesAt, MayBecome
  <2> QED BY <1>1, <1>2, <2>1, <2>2, Arrives
<1>13. CASE Analyze(d)
  <2>1. store' = store /\ task[d] = "analyze" /\ task[d] \in TrySteps
    BY <1>13 DEF Analyze, TrySteps
  <2>2. store[d].status = "analyzing" /\ copy[d].status = "analyzing" /\ "analyzing" \in Transient
    BY <1>3, <2>1 DEF StagesAt, Transient
  <2>3. CASE Goto(d, "save_diagnosing", Enter(copy[d], "diagnosing"))
    <3>1. "save_diagnosing" \in Pcs
      BY DEF Running, TrySaves
    <3>2. StagesAt("save_diagnosing", "analyzing", "diagnosing")
      BY StageAfterIs DEF StagesAt, MayBecome, TrySteps, Transient
    <3> QED BY <1>1, <1>2, <1>6, <2>1, <2>2, <2>3, <3>1, <3>2, Arrives
  <2>4. CASE Goto(d, "save_no_logs", Failed(copy[d], "no_logs"))
    <3>1. "save_no_logs" \in Pcs
      BY DEF Running, TrySaves
    <3>2. StagesAt("save_no_logs", "analyzing", "failed")
      BY DEF StagesAt, MayBecome, TrySteps, Transient
    <3> QED BY <1>1, <1>2, <1>5, <2>1, <2>2, <2>4, <3>1, <3>2, Arrives
  <2> QED BY <1>7, <1>13, <2>1, <2>3, <2>4 DEF Analyze
<1>14. CASE GatherContext(d)
  <2>1. store' = store /\ task[d] \in {"context", "learning"} /\ task[d] \in TrySteps
    BY <1>14 DEF GatherContext, TrySteps
  <2>2. CASE Raise(d)
    BY <1>7, <2>1, <2>2
  <2>3. ASSUME NEW pc \in IF task[d] = "context" THEN {"save_context", "diagnose"}
                                                ELSE {"save_learning", "remediate"},
               Goto(d, pc, copy[d])
        PROVE  DeliveryInv(d)'
    <3>1. pc \in Pcs
      BY <2>3 DEF Running, TrySaves, TrySteps
    <3>2. StagesAt(pc, store[d].status, copy[d].status)
      BY <1>3, <2>1, <2>3 DEF StagesAt, MayBecome, TrySteps
    <3> QED BY <1>1, <1>2, <2>1, <2>3, <3>1, <3>2, Arrives
  <2> QED BY <1>14, <2>2, <2>3 DEF GatherContext
<1>15. CASE Diagnose(d)
  <2>1. store' = store /\ task[d] = "diagnose" /\ task[d] \in TrySteps
    BY <1>15 DEF Diagnose, TrySteps
  <2>2. store[d].status = "diagnosing" /\ copy[d].status = "diagnosing" /\ "diagnosing" \in Transient
    BY <1>3, <2>1 DEF StagesAt, Transient
  <2>3. CASE Goto(d, "save_remediating", Enter(copy[d], "remediating"))
    <3>1. "save_remediating" \in Pcs
      BY DEF Running, TrySaves
    <3>2. StagesAt("save_remediating", "diagnosing", "remediating")
      BY StageAfterIs DEF StagesAt, MayBecome, TrySteps, Transient
    <3> QED BY <1>1, <1>2, <1>6, <2>1, <2>2, <2>3, <3>1, <3>2, Arrives
  <2> QED BY <1>7, <1>15, <2>1, <2>3 DEF Diagnose
<1>16. CASE Remediate(d)
  <2>1. store' = store /\ task[d] = "remediate" /\ task[d] \in TrySteps
    BY <1>16 DEF Remediate, TrySteps
  <2>2. /\ store[d].status = "remediating" /\ copy[d].status = "remediating"
        /\ copy[d].error = "none"
    BY <1>2, <1>3, <2>1 DEF StagesAt, Transient, Clean
  <2>3. "save_result" \in Pcs
    BY DEF Running, TrySaves
  <2>4. CASE Goto(d, "save_result", Completed(copy[d]))
    <3>1. /\ Completed(copy[d]) \in Doc /\ Completed(copy[d]).status = "completed"
          /\ Completed(copy[d]).error # "interrupted" /\ Clean(Completed(copy[d]))
      BY <1>1, <2>2, CompletedIs DEF Clean
    <3>2. StagesAt("save_result", "remediating", "completed")
      BY StageAfterIs DEF StagesAt, MayBecome, TrySteps, Transient
    <3> QED BY <1>1, <1>2, <2>1, <2>2, <2>3, <2>4, <3>1, <3>2, Arrives
  <2>5. CASE Goto(d, "save_result", Unresolved(copy[d]))
    <3>1. /\ Unresolved(copy[d]) \in Doc /\ Unresolved(copy[d]).status = "failed"
          /\ Unresolved(copy[d]).error # "interrupted" /\ Clean(Unresolved(copy[d]))
      BY <1>1, UnresolvedIs DEF Clean, Transient
    <3>2. StagesAt("save_result", "remediating", "failed")
      BY DEF StagesAt, MayBecome, TrySteps, Transient
    <3> QED BY <1>1, <1>2, <2>1, <2>2, <2>3, <2>5, <3>1, <3>2, Arrives
  <2> QED BY <1>7, <1>16, <2>1, <2>4, <2>5 DEF Remediate
<1> QED
  BY <1>8, <1>9, <1>10, <1>11, <1>12, <1>13, <1>14, <1>15, <1>16 DEF Task

-----------------------------------------------------------------------------
(* One replica: what the theorems below assume of the deployment. *)

Solo == \A r, s \in Replicas : r = s

(* While a task or a request is at work, no recovery is.                     *)
LEMMA NoSweepWhileWorking ==
  ASSUME Solo, SoloInv, NEW d \in Deliveries, task[d] \in Running \/ handler[d] \in InRequest,
         NEW r \in Replicas
  PROVE  /\ up[r] \in {"serving", "closing"} /\ sweep[r] = NoSweep
         /\ \A e \in Deliveries : sweep[r].batch[e] = NoDoc
<1>1. up[r] \in {"serving", "closing"}
  BY DEF Solo, SoloInv, DeliveryInv, WorkerIsUp
<1>2. sweep[r] = NoSweep
  BY <1>1 DEF SoloInv, SweepIsCurrent
<1> QED BY <1>1, <1>2 DEF NoSweep, NoBatch

(* While a replica is not serving, no task and no request is at work.        *)
LEMMA IdleReplica ==
  ASSUME Solo, SoloInv, NEW r \in Replicas, up[r] \notin {"serving", "closing"},
         NEW d \in Deliveries
  PROVE  task[d] \notin Running /\ handler[d] \notin InRequest
BY DEF Solo, SoloInv, DeliveryInv, WorkerIsUp

(* A sweep whose unwritten records a step leaves alone stays current.        *)
LEMMA SweepUntouched ==
  ASSUME NEW r \in Replicas, SweepIsCurrent(r), sweep'[r] = sweep[r], up'[r] = up[r],
         \A d \in Deliveries : sweep[r].batch[d] # NoDoc => store'[d] = store[d]
  PROVE  SweepIsCurrent(r)'
BY DEF SweepIsCurrent, NoSweep, NoBatch, NoDoc, Record

(* A step of one task or request keeps the whole invariant if it keeps the   *)
(* part of its delivery.                                                     *)
LEMMA OneDelivery ==
  ASSUME Solo, SoloInv, TypeOK', NEW d \in Deliveries,
         task[d] \in Running \/ handler[d] \in InRequest \/ store' = store,
         DeliveryInv(d)', UNCHANGED <<up, sweep>>,
         \A e \in Deliveries \ {d} : /\ store'[e] = store[e] /\ task'[e] = task[e]
                                     /\ copy'[e] = copy[e] /\ handler'[e] = handler[e]
                                     /\ owner'[e] = owner[e]
  PROVE  SoloInv'
<1>1. ASSUME NEW e \in Deliveries PROVE DeliveryInv(e)'
  <2>1. CASE e = d
    BY <2>1
  <2>2. CASE e # d
    <3>1. WorkerIsUp(e) /\ DeliveryInv(e)
      BY <1>1 DEF SoloInv, DeliveryInv
    <3>2. WorkerIsUp(e)'
      BY <2>2, <3>1, SameWorker
    <3> QED BY <2>2, <3>1, <3>2, Untouched
  <2> QED BY <2>1, <2>2
<1>2. ASSUME NEW r \in Replicas PROVE SweepIsCurrent(r)'
  <2>1. \A e \in Deliveries : sweep[r].batch[e] # NoDoc => store'[e] = store[e]
    BY NoSweepWhileWorking
  <2> QED BY <2>1, SweepUntouched DEF SoloInv
<1> QED BY <1>1, <1>2 DEF SoloInv

(* A step that moves no delivery keeps the invariant if the workers remain   *)
(* and each sweep stays current.                                             *)
LEMMA NoDelivery ==
  ASSUME SoloInv, TypeOK', UNCHANGED <<store, task, copy, handler>>,
         \A d \in Deliveries : WorkerIsUp(d)', \A r \in Replicas : SweepIsCurrent(r)'
  PROVE  SoloInv'
BY Untouched DEF SoloInv

(* The steps of a request.                                                   *)
LEMMA RequestKeeps ==
  ASSUME Solo, SoloInv, TypeOK', NEW d \in Deliveries,
         Request(d) \/ \E r \in Replicas : Receive(d, r)
  PROVE  SoloInv'
<1> USE DEF requestVars, replicaVars
<1>1. /\ DeliveryInv(d) /\ TypeOK
      /\ WorkerIsUp(d) /\ StoredBeforeTask(d) /\ StoreFollowsCopy(d) /\ CleanRecords(d)
  BY DEF SoloInv, DeliveryInv
<1>2. ASSUME NEW r \in Replicas, Receive(d, r) PROVE SoloInv'
  <2>1. /\ handler[d] = "idle" /\ handler'[d] \in {"admitting", "checking"}
        /\ owner'[d] = r /\ up[r] = "serving" /\ up' = up /\ sweep' = sweep
        /\ store' = store /\ task' = task /\ copy' = copy
    BY <1>1, <1>2 DEF Receive, TypeOK
  <2>2. \A e \in Deliveries \ {d} : handler'[e] = handler[e] /\ owner'[e] = owner[e]
    BY <1>1, <1>2 DEF Receive, TypeOK
  <2>3. task[d] = "none" /\ store[d] = NoDoc
    BY <1>1, <2>1 DEF StoredBeforeTask
  <2>4. task[d] \notin Running
    BY <2>3 DEF Running, TrySaves, TrySteps, Finallys
  <2>5. WorkerIsUp(d)'
    BY <2>1, <2>4 DEF WorkerIsUp, InRequest
  <2>6. StoredBeforeTask(d)'
    BY <1>1, <2>1, <2>3 DEF StoredBeforeTask, InRequest
  <2>7. StoreFollowsCopy(d)' /\ CleanRecords(d)'
    BY <1>1, <2>1, <2>4 DEF StoreFollowsCopy, CleanRecords
  <2>8. DeliveryInv(d)'
    BY <2>5, <2>6, <2>7 DEF DeliveryInv
  <2> QED BY <2>1, <2>2, <2>8, OneDelivery
<1>3. ASSUME handler[d] \in InRequest, owner' = owner, UNCHANGED <<up, sweep>>,
             NEW pc \in HandlerPc \ {"idle"}, handler' = [handler EXCEPT ![d] = pc],
             \A e \in Deliveries \ {d} : /\ store'[e] = store[e] /\ task'[e] = task[e]
                                         /\ copy'[e] = copy[e],
             StoredBeforeTask(d)', CleanRecords(d)', task'[d] \in {"none", "load"},
             task'[d] = "load" => pc = "answered"
      PROVE  SoloInv'
  <2>1. /\ handler'[d] = pc
        /\ \A e \in Deliveries \ {d} : handler'[e] = handler[e]
    BY <1>1, <1>3 DEF TypeOK
  <2>2. WorkerIsUp(d)'
    BY <1>1, <1>3, <2>1 DEF WorkerIsUp, Running, TrySaves, TrySteps, Finallys
  <2>3. task'[d] = "load" => StagesAt("load", "pending", copy'[d].status)
    BY DEF StagesAt, TrySteps, Transient
  <2>4. StoreFollowsCopy(d)'
    BY <1>3, <2>3
    DEF StoreFollowsCopy, StoredBeforeTask, Record, Running, TrySaves, TrySteps, Finallys
  <2>5. DeliveryInv(d)'
    BY <1>3, <2>2, <2>4 DEF DeliveryInv
  <2> QED BY <1>3, <2>1, <2>5, OneDelivery
<1>4. ASSUME handler[d] \in InRequest
      PROVE  task[d] = "none" /\ task[d] \notin Running /\ copy[d] = NoDoc
  BY <1>1, <1>4 DEF StoredBeforeTask, Running, TrySaves, TrySteps, Finallys
<1>5. CASE Check(d)
  <2>1. ShouldProcess(d) \in {"admitting", "duplicate", "max_attempts"}
    BY DEF ShouldProcess
  <2>2. handler[d] = "checking" /\ handler[d] \in InRequest
    BY <1>5 DEF Check, InRequest
  <2>3. handler' = [handler EXCEPT ![d] = ShouldProcess(d)]
    BY <1>5 DEF Check
  <2>4. UNCHANGED <<store, task, copy, owner, up, sweep>>
    BY <1>5 DEF Check
  <2>5. ShouldProcess(d) \in HandlerPc \ {"idle"}
    BY <2>1 DEF HandlerPc, InRequest
  <2>6. handler'[d] = ShouldProcess(d)
    BY <1>1, <2>3 DEF TypeOK
  <2>7. StoredBeforeTask(d)'
    BY <1>1, <1>4, <2>1, <2>2, <2>4, <2>6 DEF StoredBeforeTask, InRequest
  <2>8. CleanRecords(d)'
    BY <1>1, <2>4 DEF CleanRecords
  <2> QED BY <1>3, <1>4, <2>2, <2>3, <2>4, <2>5, <2>7, <2>8
<1>6. CASE CreateActivity(d)
  <2>1. handler[d] \in {"admitting", "duplicate", "max_attempts"} /\ handler[d] \in InRequest
    BY <1>6 DEF CreateActivity, InRequest
  <2> DEFINE pc == IF handler[d] = "admitting" THEN "spawning" ELSE "answered"
  <2>2. /\ handler' = [handler EXCEPT ![d] = pc] /\ pc \in HandlerPc \ {"idle"}
        /\ UNCHANGED <<task, copy, owner, up, sweep>>
    BY <1>6 DEF CreateActivity, HandlerPc, InRequest
  <2>3. store'[d] = FirstRecord(d) /\ \A e \in Deliveries \ {d} : store'[e] = store[e]
    BY <1>1, <1>6 DEF CreateActivity, Persist, TypeOK
  <2>4. handler'[d] = pc
    BY <1>1, <2>2 DEF TypeOK
  <2>5. StoredBeforeTask(d)'
    <3>1. handler[d] = "admitting" => FirstRecord(d).status = "pending" /\ FirstRecord(d).error = "none"
      BY DEF FirstRecord, Record
    <3> QED BY <1>1, <1>4, <2>1, <2>2, <2>3, <2>4, <3>1 DEF StoredBeforeTask, InRequest
  <2>6. Clean(FirstRecord(d))
    BY <2>1 DEF Clean, FirstRecord, Record, Transient
  <2>7. CleanRecords(d)'
    BY <1>1, <1>4, <2>1, <2>2, <2>3, <2>6 DEF CleanRecords
  <2> QED BY <1>3, <1>4, <2>1, <2>2, <2>3, <2>5, <2>7
<1>7. CASE SpawnTask(d)
  <2>1. handler[d] = "spawning" /\ handler[d] \in InRequest
    BY <1>7 DEF SpawnTask, InRequest
  <2>2. /\ handler' = [handler EXCEPT ![d] = "answered"] /\ "answered" \in HandlerPc \ {"idle"}
        /\ UNCHANGED <<store, copy, owner, up, sweep>>
    BY <1>7 DEF SpawnTask, HandlerPc, InRequest
  <2>3. task'[d] = "load" /\ \A e \in Deliveries \ {d} : task'[e] = task[e]
    BY <1>1, <1>7 DEF SpawnTask, TypeOK
  <2>4. handler'[d] = "answered"
    BY <1>1, <2>2 DEF TypeOK
  <2>5. StoredBeforeTask(d)'
    BY <1>1, <2>1, <2>2, <2>3, <2>4 DEF StoredBeforeTask, InRequest
  <2>6. store[d].status = "pending" /\ store[d].error = "none" /\ copy[d] = NoDoc
    BY <1>1, <1>4, <2>1 DEF StoredBeforeTask
  <2>7. CleanRecords(d)'
    BY <1>1, <2>2, <2>6 DEF CleanRecords, NoDoc, Record
  <2> QED BY <1>3, <2>1, <2>2, <2>3, <2>4, <2>5, <2>7
<1> QED BY <1>2, <1>5, <1>6, <1>7 DEF Request

(* The steps of a background task, its failing storage calls included.       *)
LEMMA TaskStepKeeps ==
  ASSUME Solo, SoloInv, TypeOK', NEW d \in Deliveries,
         Task(d) \/ LoadFails(d) \/ SaveFails(d) \/ Cancel(d)
  PROVE  SoloInv'
<1> USE DEF requestVars, replicaVars
<1>1. /\ DeliveryInv(d) /\ TypeOK /\ store[d] \in Doc /\ copy[d] \in Doc
      /\ WorkerIsUp(d) /\ StoredBeforeTask(d) /\ StoreFollowsCopy(d) /\ CleanRecords(d)
  BY DEF SoloInv, DeliveryInv, TypeOK
<1>2. task[d] \in Running
  BY <1>1, TaskMoves DEF LoadFails, SaveFails, Cancel, Running, Saves
<1>3. /\ UNCHANGED <<up, sweep, handler, owner>>
      /\ \E pc, doc : Goto(d, pc, doc)
      /\ store' = store \/ store' = [store EXCEPT ![d] = copy[d]]
  <2>1. CASE Task(d)
    BY <1>1, <2>1, TaskMoves
  <2>2. CASE LoadFails(d)
    BY <2>2 DEF LoadFails, Escape
  <2>3. CASE SaveFails(d)
    BY <2>3 DEF SaveFails, Escape, Raise
  <2>4. CASE Cancel(d)
    BY <2>4 DEF Cancel
  <2> QED BY <2>1, <2>2, <2>3, <2>4
<1>4. \A e \in Deliveries \ {d} : /\ store'[e] = store[e] /\ task'[e] = task[e]
                                  /\ copy'[e] = copy[e]
  BY <1>1, <1>3 DEF Goto, TypeOK
<1>5. store'[d] = store[d] \/ store'[d] = copy[d]
  BY <1>1, <1>3 DEF TypeOK
<1>6. /\ Clean(store[d]) /\ Clean(copy[d])
      /\ store[d].error # "interrupted" /\ copy[d].error # "interrupted"
      /\ StagesAt(task[d], store[d].status, copy[d].status)
  BY <1>1, <1>2 DEF CleanRecords, StoreFollowsCopy
<1>7. store[d].status \in Transient \cup {"completed", "failed"}
  BY <1>6 DEF StagesAt
<1>8. /\ FreshFailure \in Doc /\ FreshFailure.status = "failed"
      /\ FreshFailure.error # "interrupted" /\ Clean(FreshFailure)
  BY <1>1, FreshFailureIs DEF TypeOK, Clean, Transient
<1> DEFINE Pcs == (Running \ {"load"}) \cup {"ended"}
<1>9. /\ "fallback" \in Pcs /\ "fallback_load" \in Pcs /\ "save_exception" \in Pcs
      /\ "finally_raise" \in Pcs /\ "unwind" \in Pcs
      /\ "ended" \in Pcs /\ "ended" \notin Running
  BY DEF Running, TrySaves, TrySteps, Finallys
<1>10. /\ handler'[d] = handler[d] /\ owner'[d] = owner[d] /\ up' = up
  BY <1>3
<1> SUFFICES DeliveryInv(d)'
  BY <1>2, <1>3, <1>4, OneDelivery
<1>11. ASSUME NEW s \in Transient \cup {"completed", "failed"}, store'[d].status = s,
              Clean(store'[d]), store'[d].error # "interrupted", Escape(d)
       PROVE  DeliveryInv(d)'
  <2>1. StagesAt("fallback", s, "failed") /\ StagesAt("fallback_load", s, copy[d].status)
    BY <1>11, MayFail
  <2>2. CASE d \in Bridge
    <3>1. Goto(d, "fallback_load", copy[d])
      BY <1>11, <2>2 DEF Escape
    <3> QED BY <1>1, <1>2, <1>6, <1>9, <1>10, <1>11, <2>1, <3>1, Arrives
  <2>3. CASE d \notin Bridge
    <3>1. Goto(d, "fallback", FreshFailure)
      BY <1>11, <2>3 DEF Escape
    <3> QED BY <1>1, <1>2, <1>8, <1>9, <1>10, <1>11, <2>1, <3>1, Arrives
  <2> QED BY <2>2, <2>3
<1>12. ASSUME Goto(d, "ended", copy[d]), Clean(store'[d]), store'[d].error # "interrupted"
       PROVE  DeliveryInv(d)'
  BY <1>1, <1>2, <1>6, <1>9, <1>10, <1>12, Arrives
<1>13. Clean(store'[d]) /\ store'[d].error # "interrupted"
  BY <1>5, <1>6
<1>14. CASE Task(d)
  BY <1>1, <1>14, TaskKeeps
<1>15. CASE LoadFails(d)
  <2>1. store' = store
    BY <1>15 DEF LoadFails
  <2> QED BY <1>7, <1>11, <1>12, <1>13, <1>15, <2>1 DEF LoadFails
<1>16. CASE SaveFails(d)
  <2>1. copy[d].status \in Transient \cup {"completed", "failed"}
    BY <1>6, <1>16 DEF SaveFails, StagesAt, Saves, TrySaves, Transient
  <2>2. store'[d].status \in Transient \cup {"completed", "failed"}
    BY <1>5, <1>7, <2>1
  <2>3. CASE Raise(d)
    <3>1. /\ Failed(copy[d], "exception") \in Doc
          /\ Failed(copy[d], "exception").status = "failed"
          /\ Failed(copy[d], "exception").error = "exception"
      BY <1>1, FailedIs DEF Errors
    <3>2. Clean(Failed(copy[d], "exception"))
      BY <3>1 DEF Clean, Transient
    <3>3. StagesAt("save_exception", store'[d].status, "failed")
      BY <2>2, MayFail
    <3> QED BY <1>1, <1>2, <1>9, <1>10, <1>13, <2>3, <3>1, <3>2, <3>3, Arrives DEF Raise
  <2>4. CASE Escape(d)
    BY <1>11, <1>13, <2>2, <2>4
  <2>5. CASE task[d] = "save_exception" /\ Goto(d, "finally_raise", copy[d])
    <3>1. copy[d].status = "failed"
      BY <1>6, <2>5 DEF StagesAt
    <3>2. StagesAt("finally_raise", store'[d].status, "failed")
      BY <2>2, MayFail
    <3> QED BY <1>1, <1>2, <1>6, <1>9, <1>10, <1>13, <2>5, <3>1, <3>2, Arrives
  <2> QED BY <1>12, <1>13, <1>16, <2>3, <2>4, <2>5 DEF SaveFails
<1>17. CASE Cancel(d)
  <2>1. store' = store
    BY <1>17 DEF Cancel
  <2>2. CASE Goto(d, "unwind", copy[d]) /\ task[d] \in TrySaves \cup TrySteps \cup {"save_exception"}
    <3>1. StagesAt("unwind", store[d].status, copy[d].status)
      BY <1>6, <2>2 DEF StagesAt, TrySaves, TrySteps
    <3> QED BY <1>1, <1>2, <1>6, <1>9, <1>10, <1>13, <2>1, <2>2, <3>1, Arrives
  <2> QED BY <1>12, <1>13, <1>17, <2>2 DEF Cancel
<1> QED BY <1>14, <1>15, <1>16, <1>17

(* A failing storage call of a request.                                      *)
LEMMA RequestFailsKeeps ==
  ASSUME Solo, SoloInv, TypeOK', NEW d \in Deliveries, RequestFails(d)
  PROVE  SoloInv'
<1> USE DEF requestVars, replicaVars
<1>1. /\ DeliveryInv(d) /\ TypeOK
      /\ WorkerIsUp(d) /\ StoredBeforeTask(d) /\ StoreFollowsCopy(d) /\ CleanRecords(d)
  BY DEF SoloInv, DeliveryInv
<1>2. /\ handler[d] \in InRequest /\ UNCHANGED <<task, copy, owner, up, sweep>>
      /\ handler'[d] = "error" /\ \A e \in Deliveries \ {d} : handler'[e] = handler[e]
  BY <1>1 DEF RequestFails, TypeOK
<1>3. task[d] = "none" /\ task[d] \notin Running
  BY <1>1, <1>2 DEF StoredBeforeTask, Running, TrySaves, TrySteps, Finallys
<1>4. /\ \A e \in Deliveries \ {d} : store'[e] = store[e]
      /\ Clean(store'[d])
  <2>1. CASE store' = store
    BY <1>1, <2>1 DEF CleanRecords
  <2>2. CASE handler[d] \in {"admitting", "duplicate", "max_attempts"} /\ Persist(d)
    <3>1. store'[d] = FirstRecord(d) /\ \A e \in Deliveries \ {d} : store'[e] = store[e]
      BY <1>1, <2>2 DEF Persist, TypeOK
    <3> QED BY <2>2, <3>1 DEF Clean, FirstRecord, Record, Transient
  <2> QED BY <2>1, <2>2 DEF RequestFails, InRequest
<1>5. WorkerIsUp(d)' /\ StoredBeforeTask(d)' /\ StoreFollowsCopy(d)' /\ CleanRecords(d)'
  BY <1>1, <1>2, <1>3, <1>4
  DEF WorkerIsUp, StoredBeforeTask, StoreFollowsCopy, CleanRecords, InRequest
<1> QED BY <1>2, <1>4, <1>5, OneDelivery DEF DeliveryInv

(* A replica stops working: its requests and tasks are gone.                 *)
LEMMA DieKeeps ==
  ASSUME Solo, SoloInv, TypeOK', NEW r \in Replicas, Die(r)
  PROVE  SoloInv'
<1>1. ASSUME NEW d \in Deliveries PROVE DeliveryInv(d)'
  <2>1. /\ TypeOK /\ store' = store /\ copy' = copy
        /\ task'[d] = IF owner[d] = r /\ task[d] \in Running THEN "ended" ELSE task[d]
        /\ handler'[d] = IF owner[d] = r /\ handler[d] \in InRequest THEN "error" ELSE handler[d]
        /\ StoredBeforeTask(d) /\ CleanRecords(d)
        /\ task[d] \in Running => owner[d] = r
        /\ handler[d] \in InRequest => owner[d] = r
    BY DEF Die, SoloInv, DeliveryInv, WorkerIsUp, Solo
  <2>2. task'[d] \notin Running /\ handler'[d] \notin InRequest
    BY <2>1 DEF Running, TrySaves, TrySteps, Finallys, InRequest
  <2>3. WorkerIsUp(d)' /\ StoreFollowsCopy(d)' /\ CleanRecords(d)'
    BY <2>1, <2>2 DEF WorkerIsUp, StoreFollowsCopy, CleanRecords
  <2>4. /\ handler'[d] = "idle" => handler[d] = "idle"
        /\ task'[d] = "none" => task[d] = "none"
        /\ "none" \notin Running /\ "load" \in Running
    BY <2>1 DEF Running, TrySaves, TrySteps, Finallys
  <2>5. StoredBeforeTask(d)'
    BY <2>1, <2>2, <2>4 DEF StoredBeforeTask, InRequest
  <2> QED BY <2>3, <2>5 DEF DeliveryInv
<1>2. ASSUME NEW s \in Replicas PROVE SweepIsCurrent(s)'
  <2>1. up'[s] = "down" /\ sweep'[s] = NoSweep
    BY DEF Die, Solo, SoloInv, TypeOK
  <2> QED BY <2>1 DEF SweepIsCurrent, NoSweep, NoBatch
<1> QED BY <1>1, <1>2 DEF SoloInv

(* The steps of the replica's life.                                          *)
LEMMA ReplicaKeeps ==
  ASSUME Solo, SoloInv, TypeOK', NEW r \in Replicas,
         Startup(r) \/ BeginClose(r) \/ FinishClose(r)
  PROVE  SoloInv'
<1> USE DEF requestVars, replicaVars
<1>1. TypeOK /\ SweepIsCurrent(r) /\ \A s \in Replicas : s = r
  BY DEF SoloInv, Solo
<1>2. ASSUME UNCHANGED <<store, task, copy, handler, owner>>, SweepIsCurrent(r)',
             \/ up' = up
             \/ \A d \in Deliveries : task[d] \notin Running /\ handler[d] \notin InRequest
      PROVE  SoloInv'
  <2>1. ASSUME NEW d \in Deliveries PROVE WorkerIsUp(d)'
    BY <1>2 DEF WorkerIsUp, SoloInv, DeliveryInv
  <2> QED BY <1>1, <1>2, <2>1, NoDelivery
<1>3. CASE Boot(r)
  <2>1. /\ UNCHANGED <<store, task, copy, handler, owner, sweep>>
        /\ up[r] = "down" /\ up'[r] = "recovering" /\ sweep[r] = NoSweep
    BY <1>1, <1>3 DEF Boot, TypeOK, SweepIsCurrent
  <2>2. SweepIsCurrent(r)'
    BY <2>1 DEF SweepIsCurrent, NoSweep, NoBatch
  <2> QED BY <1>2, <2>1, <2>2, IdleReplica
<1>4. CASE ReadPage(r)
  <2> DEFINE page == Newest({d \in Deliveries : store[d].status = TransientOrder[sweep[r].next]})
             batch == [d \in Deliveries |-> IF d \in page THEN store[d] ELSE NoDoc]
  <2>1. /\ UNCHANGED <<store, task, copy, handler, owner, up>> /\ up[r] = "recovering"
        /\ sweep[r].next \in DOMAIN TransientOrder
        /\ sweep' = [sweep EXCEPT ![r] = [next |-> sweep[r].next + 1, batch |-> batch]]
    BY <1>4 DEF ReadPage
  <2>2. sweep'[r].batch = batch
    BY <1>1, <2>1 DEF TypeOK
  <2>3. TransientOrder[sweep[r].next] \in Transient
    BY <2>1 DEF TransientOrder, Transient
  <2>4. ASSUME NEW d \in Deliveries, batch[d] # NoDoc
        PROVE  batch[d] = store[d] /\ store[d].status \in Transient
    <3>1. d \in page
      BY <2>4
    <3> QED BY <2>3, <3>1 DEF Newest
  <2>5. SweepIsCurrent(r)'
    BY <2>1, <2>2, <2>4 DEF SweepIsCurrent, NoDoc, Record
  <2> QED BY <1>2, <2>1, <2>5
<1>5. CASE \E d \in Deliveries : RecoverActivity(r, d)
  <2>1. PICK d \in Deliveries : RecoverActivity(r, d)
    BY <1>5
  <2>2. /\ UNCHANGED <<task, copy, handler, owner, up>> /\ up[r] = "recovering"
        /\ sweep[r].batch[d] # NoDoc
    BY <2>1 DEF RecoverActivity
  <2>3. sweep[r].batch[d] = store[d] /\ store[d].status \in Transient
    BY <1>1, <2>2 DEF SweepIsCurrent
  <2>4. /\ store'[d] = Failed(store[d], "interrupted")
        /\ \A e \in Deliveries \ {d} : store'[e] = store[e]
    BY <1>1, <2>1, <2>3 DEF RecoverActivity, TypeOK
  <2>5. \A e \in Deliveries : task[e] \notin Running /\ handler[e] \notin InRequest
    BY <2>2, IdleReplica
  <2>6. ASSUME NEW e \in Deliveries PROVE DeliveryInv(e)'
    <3>1. DeliveryInv(e) /\ WorkerIsUp(e)'
      BY <2>2, <2>5 DEF SoloInv, WorkerIsUp
    <3>2. CASE e # d
      BY <2>2, <2>4, <3>1, <3>2, Untouched
    <3>3. CASE e = d
      <4>1. store'[d].status = "failed" /\ store[d] \in Doc
        BY <1>1, <2>4, FailedIs DEF TypeOK, Errors
      <4>2. store[d] # NoDoc
        BY <2>3 DEF NoDoc, Record, Transient
      <4>3. task[d] # "load"
        BY <2>5 DEF Running
      <4>4. StoredBeforeTask(d)'
        BY <2>2, <2>5, <3>1, <3>3, <4>2, <4>3 DEF DeliveryInv, StoredBeforeTask, InRequest
      <4>5. StoreFollowsCopy(d)'
        BY <2>2, <2>5 DEF StoreFollowsCopy
      <4>6. CleanRecords(d)'
        BY <2>2, <2>5, <3>1, <3>3, <4>1 DEF DeliveryInv, CleanRecords, Clean, Transient
      <4> QED BY <3>1, <3>3, <4>4, <4>5, <4>6 DEF DeliveryInv
    <3> QED BY <3>2, <3>3
  <2>7. SweepIsCurrent(r)'
    <3> DEFINE batch == sweep[r].batch
    <3>1. /\ sweep[r] \in [next : 1 .. 5, batch : [Deliveries -> Doc]]
          /\ sweep' = [sweep EXCEPT ![r] = [sweep[r] EXCEPT !.batch = [batch EXCEPT ![d] = NoDoc]]]
      BY <1>1, <2>1 DEF TypeOK, RecoverActivity
    <3>2. sweep'[r] = [sweep[r] EXCEPT !.batch = [batch EXCEPT ![d] = NoDoc]]
      BY <1>1, <3>1 DEF TypeOK
    <3>3. sweep'[r].batch = [batch EXCEPT ![d] = NoDoc]
      BY <3>1, <3>2
    <3>4. /\ sweep'[r].batch[d] = NoDoc
          /\ \A e \in Deliveries \ {d} : sweep'[r].batch[e] = sweep[r].batch[e]
      BY <3>1, <3>3
    <3> QED BY <1>1, <2>2, <2>4, <3>4 DEF SweepIsCurrent, NoDoc, Record
  <2> QED BY <1>1, <2>6, <2>7 DEF SoloInv
<1>6. CASE FinishRecovery(r)
  <2>1. /\ UNCHANGED <<store, task, copy, handler, owner>>
        /\ up[r] = "recovering" /\ sweep'[r] = NoSweep
    BY <1>1, <1>6 DEF FinishRecovery, TypeOK
  <2>2. SweepIsCurrent(r)'
    BY <2>1 DEF SweepIsCurrent, NoSweep, NoBatch
  <2> QED BY <1>2, <2>1, <2>2, IdleReplica
<1>7. CASE BeginClose(r)
  <2>1. /\ UNCHANGED <<store, task, copy, handler, owner, sweep>>
        /\ up[r] = "serving" /\ up'[r] = "closing" /\ sweep[r] = NoSweep
        /\ \A d \in Deliveries : owner[d] = r => handler[d] \notin InRequest
    BY <1>1, <1>7 DEF BeginClose, TypeOK, SweepIsCurrent
  <2>2. SweepIsCurrent(r)'
    BY <2>1 DEF SweepIsCurrent, NoSweep, NoBatch
  <2>3. ASSUME NEW d \in Deliveries PROVE WorkerIsUp(d)'
    BY <1>1, <2>1 DEF SoloInv, DeliveryInv, WorkerIsUp
  <2> QED BY <1>1, <2>1, <2>2, <2>3, NoDelivery
<1>8. CASE FinishClose(r)
  <2>1. /\ UNCHANGED <<store, task, copy, handler, owner, sweep>>
        /\ up[r] = "closing" /\ up'[r] = "down" /\ sweep[r] = NoSweep
        /\ \A d \in Deliveries : owner[d] = r => task[d] \notin Running
    BY <1>1, <1>8 DEF FinishClose, TypeOK, SweepIsCurrent
  <2>2. SweepIsCurrent(r)'
    BY <2>1 DEF SweepIsCurrent, NoSweep, NoBatch
  <2>3. ASSUME NEW d \in Deliveries
        PROVE  task[d] \notin Running /\ handler[d] \notin InRequest
    BY <1>1, <2>1 DEF SoloInv, DeliveryInv, WorkerIsUp
  <2> QED BY <1>2, <2>1, <2>2, <2>3
<1> QED BY <1>3, <1>4, <1>5, <1>6, <1>7, <1>8 DEF Startup

(* Every step of a single replica keeps the invariant.                       *)
LEMMA SoloStep == ASSUME Solo PROVE SoloInv /\ [Next]_vars => SoloInv'
<1> SUFFICES ASSUME SoloInv, [Next]_vars PROVE SoloInv'
  OBVIOUS
<1>1. TypeOK'
  BY TypeStep DEF SoloInv
<1>2. ASSUME NEW d \in Deliveries, Request(d) \/ \E r \in Replicas : Receive(d, r)
      PROVE  SoloInv'
  BY <1>1, <1>2, RequestKeeps
<1>3. ASSUME NEW d \in Deliveries, Task(d) \/ LoadFails(d) \/ SaveFails(d) \/ Cancel(d)
      PROVE  SoloInv'
  BY <1>1, <1>3, TaskStepKeeps
<1>4. ASSUME NEW d \in Deliveries, RequestFails(d) PROVE SoloInv'
  BY <1>1, <1>4, RequestFailsKeeps
<1>5. ASSUME NEW r \in Replicas, Startup(r) \/ BeginClose(r) \/ FinishClose(r) PROVE SoloInv'
  BY <1>1, <1>5, ReplicaKeeps
<1>6. ASSUME NEW r \in Replicas, Crash(r) \/ RecoveryFails(r) PROVE SoloInv'
  BY <1>1, <1>6, DieKeeps DEF Crash, RecoveryFails
<1>7. CASE UNCHANGED vars
  <2>1. /\ UNCHANGED <<store, task, copy, handler, owner, up, sweep>>
    BY <1>7 DEF vars
  <2>2. \A d \in Deliveries : WorkerIsUp(d)'
    BY <2>1, SameWorker DEF SoloInv, DeliveryInv
  <2>3. \A r \in Replicas : SweepIsCurrent(r)'
    BY <2>1, SweepUntouched DEF SoloInv
  <2> QED BY <1>1, <2>1, <2>2, <2>3, NoDelivery
<1> QED BY <1>2, <1>3, <1>4, <1>5, <1>6, <1>7 DEF Next, Fault

(* A single replica keeps the invariant from the initial state on.           *)
THEOREM SoloInvariant == ASSUME Solo PROVE Spec => []SoloInv
<1>1. Init => SoloInv
  <2> SUFFICES ASSUME Init PROVE SoloInv
    OBVIOUS
  <2>1. TypeOK
    BY ConstantDocs, BoundsAssumption DEF Init, TypeOK, HandlerPc, TaskPc
  <2>2. ASSUME NEW d \in Deliveries PROVE DeliveryInv(d)
    <3>1. /\ store[d] = NoDoc /\ copy[d] = NoDoc /\ handler[d] = "idle" /\ task[d] = "none"
          /\ task[d] \notin Running /\ handler[d] \notin InRequest
      BY DEF Init, Running, TrySaves, TrySteps, Finallys, InRequest
    <3>2. Clean(NoDoc)
      BY DEF Clean, NoDoc, Record, Transient
    <3> QED BY <3>1, <3>2 DEF DeliveryInv, WorkerIsUp, StoredBeforeTask, StoreFollowsCopy, CleanRecords, InRequest
  <2>3. ASSUME NEW r \in Replicas PROVE SweepIsCurrent(r)
    BY DEF Init, SweepIsCurrent, NoSweep, NoBatch
  <2> QED BY <2>1, <2>2, <2>3 DEF SoloInv
<1>2. SoloInv /\ [Next]_vars => SoloInv'
  BY SoloStep
<1> QED BY <1>1, <1>2, PTL DEF Spec

-----------------------------------------------------------------------------
(* What a single replica guarantees. *)

(* The store changes in three ways only: a request stores the first record,  *)
(* a task saves its copy, the recovery gives up on a record nobody works on. *)
LEMMA StoreMoves ==
  ASSUME Solo, SoloInv, [Next]_vars
  PROVE  \/ store' = store
         \/ \E d \in Deliveries :
              /\ \A e \in Deliveries \ {d} : store'[e] = store[e]
              /\ \/ /\ store[d].status = "absent" /\ store'[d].status \in {"pending", "skipped"}
                    /\ store'[d].error # "interrupted"
                 \/ /\ MayBecome(store[d].status, store'[d].status)
                    /\ store'[d].error # "interrupted"
                 \/ /\ task[d] \notin Running
                    /\ store[d].status \in Transient /\ store'[d].status = "failed"
<1> USE DEF requestVars, replicaVars
<1> DEFINE Only(d) == \A e \in Deliveries \ {d} : store'[e] = store[e]
<1>0. TypeOK
  BY DEF SoloInv
<1>1. ASSUME NEW d \in Deliveries, Persist(d), handler[d] \in {"admitting", "duplicate", "max_attempts"}
      PROVE  /\ Only(d) /\ store[d].status = "absent" /\ store'[d].status \in {"pending", "skipped"}
             /\ store'[d].error # "interrupted"
  <2>1. store'[d] = FirstRecord(d) /\ Only(d)
    BY <1>0, <1>1 DEF Persist, TypeOK
  <2>2. store[d] = NoDoc
    BY <1>1 DEF SoloInv, DeliveryInv, StoredBeforeTask, InRequest
  <2> QED BY <1>1, <2>1, <2>2 DEF FirstRecord, NoDoc, Record
<1>2. ASSUME NEW d \in Deliveries, task[d] \in Saves \cup Finallys, store' = [store EXCEPT ![d] = copy[d]]
      PROVE  /\ Only(d) /\ MayBecome(store[d].status, store'[d].status)
             /\ store'[d].error # "interrupted"
  <2>1. store'[d] = copy[d] /\ Only(d)
    BY <1>0, <1>2 DEF TypeOK
  <2>2. task[d] \in Running /\ task[d] \notin {"load", "fallback_load"}
    BY <1>2 DEF Running, Saves, TrySaves, Finallys
  <2>3. StoreFollowsCopy(d) /\ CleanRecords(d)
    BY DEF SoloInv, DeliveryInv
  <2> QED BY <2>1, <2>2, <2>3 DEF StoreFollowsCopy, StagesAt, CleanRecords
<1>3. ASSUME NEW d \in Deliveries, Request(d) \/ RequestFails(d)
      PROVE  store' = store \/ (Persist(d) /\ handler[d] \in {"admitting", "duplicate", "max_attempts"})
  BY <1>3 DEF Request, Check, CreateActivity, SpawnTask, RequestFails, InRequest
<1>4. ASSUME NEW d \in Deliveries, Task(d) \/ SaveFails(d)
      PROVE  \/ store' = store
             \/ task[d] \in Saves \cup Finallys /\ store' = [store EXCEPT ![d] = copy[d]]
  BY <1>4 DEF Task, SaveFails, Load, FallbackLoad, Save, Finally, AutoHandoff, Analyze,
              GatherContext, Diagnose, Remediate
<1>5. ASSUME NEW r \in Replicas, NEW d \in Deliveries, RecoverActivity(r, d)
      PROVE  /\ Only(d) /\ task[d] \notin Running
             /\ store[d].status \in Transient /\ store'[d].status = "failed"
  <2>1. /\ up[r] = "recovering" /\ sweep[r].batch[d] = store[d] /\ store[d].status \in Transient
    BY <1>5 DEF RecoverActivity, SoloInv, SweepIsCurrent
  <2>2. store'[d] = Failed(store[d], "interrupted") /\ Only(d)
    BY <1>0, <1>5, <2>1 DEF RecoverActivity, TypeOK
  <2>3. store[d] \in Doc /\ "interrupted" \in Errors
    BY <1>0 DEF TypeOK, Errors
  <2> QED BY <2>1, <2>2, <2>3, FailedIs, IdleReplica
<1>6. ASSUME NEW d \in Deliveries, Cancel(d) \/ LoadFails(d) \/ \E r \in Replicas : Receive(d, r)
      PROVE  store' = store
  BY <1>6 DEF Cancel, LoadFails, Receive
<1>7. ASSUME NEW r \in Replicas, BeginClose(r) \/ FinishClose(r) \/ Crash(r) \/ RecoveryFails(r)
      PROVE  store' = store
  BY <1>7 DEF BeginClose, FinishClose, Crash, RecoveryFails, Die
<1>8. ASSUME NEW r \in Replicas, Startup(r)
      PROVE  store' = store \/ \E d \in Deliveries : RecoverActivity(r, d)
  BY <1>8 DEF Startup, Boot, ReadPage, FinishRecovery
<1>9. CASE UNCHANGED vars
  BY <1>9 DEF vars
<1> QED
  BY <1>1, <1>2, <1>3, <1>4, <1>5, <1>6, <1>7, <1>8, <1>9 DEF Next, Fault

(* A finished record of a single replica never looks in flight again.        *)
THEOREM SoloTerminalIsFinal == ASSUME Solo PROVE Spec => TerminalIsFinal
<1>1. SoloInv /\ [Next]_vars => [\A d \in Deliveries : store[d].status \in Terminal
                                                        => store'[d].status \in Terminal]_store
  <2> SUFFICES ASSUME SoloInv, [Next]_vars, NEW d \in Deliveries, store[d].status \in Terminal,
                      store' # store
               PROVE  store'[d].status \in Terminal
    OBVIOUS
  <2>1. store[d].status \notin Transient \cup {"absent"}
    BY DEF Terminal, Transient
  <2>2. store'[d] = store[d] \/ MayBecome(store[d].status, store'[d].status)
    BY <2>1, StoreMoves
  <2> QED BY <2>1, <2>2 DEF MayBecome, Terminal
<1> QED BY <1>1, SoloInvariant, PTL DEF Spec, TerminalIsFinal

(* The startup recovery of a single replica only gives up on activities      *)
(* nobody is working on.                                                     *)
THEOREM SoloRecoverySparesLiveRuns == ASSUME Solo PROVE Spec => RecoverySparesLiveRuns
<1>1. SoloInv /\ [Next]_vars =>
        [\A d \in Deliveries : store[d] # store'[d] /\ store'[d].error = "interrupted"
                               => ~Alive(d)]_store
  BY StoreMoves DEF Alive
<1> QED BY <1>1, SoloInvariant, PTL DEF Spec, RecoverySparesLiveRuns

(* A single replica never shows "completed" with an error or without a       *)
(* remediation that succeeded.                                               *)
THEOREM SoloCompletedMeansRemediated == ASSUME Solo PROVE Spec => []CompletedMeansRemediated
<1>1. SoloInv => CompletedMeansRemediated
  BY DEF SoloInv, DeliveryInv, CleanRecords, Clean, CompletedMeansRemediated
<1> QED BY <1>1, SoloInvariant, PTL

(* The records of a single replica implement ActivityLifecycle: they walk    *)
(* through the stages one by one, and everything else is a failure.          *)
THEOREM SoloImplementsLifecycle == ASSUME Solo PROVE Spec => LifecycleSpec
<1> DEFINE status == [d \in Deliveries |-> store[d].status]
<1>1. Init => Lifecycle!Init
  BY DEF Init, Lifecycle!Init, NoDoc, Record
<1>2. SoloInv /\ [Next]_vars => [Lifecycle!Next]_status
  <2> SUFFICES ASSUME SoloInv, [Next]_vars, status' # status
               PROVE  Lifecycle!Next
    BY DEF Lifecycle!Next
  <2>1. store' # store
    OBVIOUS
  <2>2. PICK d \in Deliveries :
          /\ \A e \in Deliveries \ {d} : store'[e] = store[e]
          /\ \/ store[d].status = "absent" /\ store'[d].status \in {"pending", "skipped"}
             \/ MayBecome(store[d].status, store'[d].status)
             \/ store[d].status \in Transient /\ store'[d].status = "failed"
    BY <2>1, StoreMoves
  <2>3. status' = [status EXCEPT ![d] = store'[d].status]
    BY <2>2
  <2>4. store'[d].status # store[d].status
    BY <2>2
  <2>5. CASE store[d].status = "absent" /\ store'[d].status \in {"pending", "skipped"}
    BY <2>3, <2>5 DEF Lifecycle!Next, Lifecycle!Admit
  <2>6. CASE store[d].status \in Transient \cup {"completed"} /\ store'[d].status = "failed"
    BY <2>3, <2>6 DEF Lifecycle!Next, Lifecycle!Fail, Lifecycle!Transient, Transient
  <2>7. CASE /\ store[d].status \in Transient
             /\ store'[d].status = Lifecycle!StageAfter(store[d].status)
    BY <2>3, <2>7 DEF Lifecycle!Next, Lifecycle!Advance, Lifecycle!Transient, Transient
  <2> QED BY <2>2, <2>4, <2>5, <2>6, <2>7 DEF MayBecome
<1> QED BY <1>1, <1>2, SoloInvariant, PTL DEF Spec, LifecycleSpec, Lifecycle!Spec

-----------------------------------------------------------------------------
(* Skipped runs, for any number of replicas. *)

(* A step that makes no record disappear, spreads no record before it is     *)
(* stored and calls no other delivery a duplicate keeps the invariant.       *)
LEMMA SkipKept ==
  ASSUME SkipInv, TypeOK',
         \A e \in Deliveries : store'[e] = store[e] \/ store'[e].status # "absent",
         \A e \in Deliveries : UnknownBeforeStored(e)' /\ HoldsRecord(e)',
         \A e \in Deliveries : CalledDuplicate(e)' => CalledDuplicate(e) \/ Another(e)
  PROVE  SkipInv'
<1>1. \A e \in Deliveries : store[e] # NoDoc => store'[e] # NoDoc
  BY DEF NoDoc, Record
<1>2. \A e \in Deliveries : Another(e) => Another(e)'
  BY <1>1 DEF Another
<1>3. \A e \in Deliveries : DuplicateHasAnother(e)'
  BY <1>2 DEF SkipInv, DuplicateHasAnother
<1> QED BY <1>3 DEF SkipInv

(* A task that moves on with a record of its activity in hand keeps it.      *)
LEMMA TaskSkips ==
  ASSUME SkipInv, TypeOK', NEW d \in Deliveries, NEW pc \in TaskPc \ {"none"}, NEW doc,
         task[d] \in Running, Goto(d, pc, doc), handler' = handler, sweep' = sweep,
         \/ store' = store
         \/ copy[d].status # "absent" /\ store' = [store EXCEPT ![d] = copy[d]],
         pc \in Running \ {"load", "fallback_load"} => doc.status # "absent",
         doc.error = "duplicate" => "duplicate" \in {store[d].error, copy[d].error}
  PROVE  SkipInv'
<1>1. /\ task'[d] = pc /\ copy'[d] = doc
      /\ store'[d] = store[d] \/ (store'[d] = copy[d] /\ copy[d].status # "absent")
      /\ \A e \in Deliveries \ {d} : task'[e] = task[e] /\ copy'[e] = copy[e] /\ store'[e] = store[e]
  BY DEF SkipInv, TypeOK, Goto
<1>2. task[d] # "none"
  BY DEF Running, TrySaves, TrySteps, Finallys
<1>3. ASSUME NEW e \in Deliveries PROVE UnknownBeforeStored(e)' /\ HoldsRecord(e)'
  <2>1. UnknownBeforeStored(e) /\ HoldsRecord(e)
    BY DEF SkipInv
  <2>2. CASE e = d
    BY <1>1, <1>2, <2>1, <2>2 DEF UnknownBeforeStored, HoldsRecord
  <2>3. CASE e # d
    BY <1>1, <2>1, <2>3 DEF UnknownBeforeStored, HoldsRecord
  <2> QED BY <2>2, <2>3
<1>4. ASSUME NEW e \in Deliveries, CalledDuplicate(e)' PROVE CalledDuplicate(e)
  BY <1>1, <1>4 DEF CalledDuplicate
<1> QED BY <1>1, <1>3, <1>4, SkipKept

(* What a task writes or holds after a failure is a record, and no duplicate.*)
LEMMA FailureIsReal ==
  ASSUME NEW doc \in Doc, NEW e \in {"exception", "no_logs", "interrupted"}
  PROVE  Failed(doc, e).status # "absent" /\ Failed(doc, e).error # "duplicate"
BY FailedIs DEF Errors

(* Raise, and Escape, keep the invariant.                                    *)
LEMMA RaiseSkips ==
  ASSUME SkipInv, TypeOK', NEW d \in Deliveries, task[d] \in Running,
         handler' = handler, sweep' = sweep,
         \/ store' = store
         \/ copy[d].status # "absent" /\ store' = [store EXCEPT ![d] = copy[d]],
         Raise(d) \/ Escape(d)
  PROVE  SkipInv'
<1>1. copy[d] \in Doc /\ clock \in Nat
  BY DEF SkipInv, TypeOK
<1>2. {"save_exception", "fallback_load", "fallback"} \subseteq TaskPc \ {"none"}
  BY DEF TaskPc, Running
<1>3. CASE Raise(d)
  BY <1>1, <1>2, <1>3, FailureIsReal, TaskSkips DEF Raise
<1>4. CASE Escape(d)
  <2>1. FreshFailure.status # "absent" /\ FreshFailure.error # "duplicate"
    BY <1>1, FreshFailureIs
  <2>2. CASE Goto(d, "fallback_load", copy[d])
    BY <1>2, <2>2, TaskSkips
  <2>3. CASE Goto(d, "fallback", FreshFailure)
    BY <1>2, <2>1, <2>3, TaskSkips
  <2> QED BY <1>4, <2>2, <2>3 DEF Escape
<1> QED BY <1>3, <1>4

(* The background task keeps it.                                             *)
LEMMA TaskStepSkips ==
  ASSUME SkipInv, TypeOK', NEW d \in Deliveries,
         Task(d) \/ LoadFails(d) \/ SaveFails(d) \/ Cancel(d)
  PROVE  SkipInv'
<1> USE DEF requestVars, replicaVars
<1>1. /\ copy[d] \in Doc /\ store[d] \in Doc /\ TypeOK
      /\ task[d] \in Running \ {"load", "fallback_load"} => copy[d].status # "absent"
  BY DEF SkipInv, TypeOK, HoldsRecord
<1>2. task[d] \in Running
  BY DEF Task, LoadFails, SaveFails, Cancel, Load, FallbackLoad, Save, Finally, AutoHandoff, Analyze,
         GatherContext, Diagnose, Remediate, Running, Saves, TrySaves, TrySteps, Finallys
<1>3. Running \subseteq TaskPc \ {"none"} /\ "ended" \in TaskPc \ {"none"}
  BY DEF TaskPc, Running, TrySaves, TrySteps, Finallys
<1>4. /\ TrySteps \subseteq Running \ {"load", "fallback_load"}
      /\ Saves \cup Finallys \subseteq Running \ {"load", "fallback_load"}
  BY DEF Running, Saves, TrySaves, TrySteps, Finallys
<1>5. Exit(d) \in {"finally", "ended"} /\ Exit(d) \in TaskPc \ {"none"}
  BY DEF Exit, TaskPc, Running, Finallys
<1>6. ASSUME NEW doc \in Doc, NEW s \in {"analyzing", "diagnosing", "remediating"}
      PROVE  Enter(doc, s).status # "absent" /\ Enter(doc, s).error = doc.error
  BY EnterIs DEF Transient
<1>7. CASE Load(d)
  <2>1. "save_analyzing" \in TaskPc \ {"none"}
    BY DEF TaskPc, Running, TrySaves
  <2> QED BY <1>1, <1>2, <1>6, <1>7, <2>1, TaskSkips DEF Load
<1>8. CASE FallbackLoad(d)
  <2>1. "fallback" \in TaskPc \ {"none"}
    BY DEF TaskPc, Running
  <2> QED BY <1>1, <1>2, <1>8, <2>1, FailureIsReal, TaskSkips DEF FallbackLoad
<1>9. CASE Save(d)
  <2>1. AfterSave(d) \in TaskPc \ {"none"}
    BY <1>1, <1>9, AfterSaveIs DEF Save, TaskPc, Running, TrySaves, TrySteps, Finallys
  <2>2. copy[d].status # "absent" /\ store' = [store EXCEPT ![d] = copy[d]]
    BY <1>1, <1>4, <1>9 DEF Save
  <2>3. CASE AfterSave(d) = "save_diagnosing"
    BY <1>1, <1>2, <1>6, <1>9, <2>1, <2>2, <2>3, TaskSkips DEF Save
  <2>4. CASE AfterSave(d) # "save_diagnosing"
    BY <1>1, <1>2, <1>9, <2>1, <2>2, <2>4, TaskSkips DEF Save
  <2> QED BY <2>3, <2>4
<1>10. CASE Finally(d)
  <2>1. /\ handler' = handler /\ sweep' = sweep /\ copy[d].status # "absent"
        /\ store' = store \/ store' = [store EXCEPT ![d] = copy[d]]
        /\ Escape(d) \/ Goto(d, "ended", copy[d])
    BY <1>1, <1>4, <1>10 DEF Finally
  <2>2. CASE Escape(d)
    BY <1>2, <2>1, <2>2, RaiseSkips
  <2>3. CASE Goto(d, "ended", copy[d])
    BY <1>2, <1>3, <2>1, <2>3, TaskSkips
  <2> QED BY <2>1, <2>2, <2>3
<1>11. CASE AutoHandoff(d) \/ Analyze(d) \/ GatherContext(d) \/ Diagnose(d) \/ Remediate(d)
  <2>1. /\ handler' = handler /\ sweep' = sweep /\ store' = store /\ copy[d].status # "absent"
    BY <1>1, <1>4, <1>11 DEF AutoHandoff, Analyze, GatherContext, Diagnose, Remediate, TrySteps
  <2>2. CASE Raise(d)
    BY <1>2, <2>1, <2>2, RaiseSkips
  <2>3. CASE \E pc \in TaskPc \ {"none"} : Goto(d, pc, copy[d])
    BY <1>2, <2>1, <2>3, TaskSkips
  <2>4. CASE \E pc \in TaskPc \ {"none"}, s \in {"diagnosing", "remediating"} : Goto(d, pc, Enter(copy[d], s))
    BY <1>1, <1>2, <1>6, <2>1, <2>4, TaskSkips
  <2>5. CASE \E pc \in TaskPc \ {"none"} : Goto(d, pc, Failed(copy[d], "no_logs"))
    BY <1>1, <1>2, <2>1, <2>5, FailureIsReal, TaskSkips
  <2>6. CASE \E pc \in TaskPc \ {"none"} : Goto(d, pc, Completed(copy[d]))
    BY <1>1, <1>2, <2>1, <2>6, CompletedIs, TaskSkips
  <2>7. CASE \E pc \in TaskPc \ {"none"} : Goto(d, pc, Unresolved(copy[d]))
    BY <1>1, <1>2, <2>1, <2>7, UnresolvedIs, TaskSkips
  <2>8. /\ {"save_diagnosing", "save_no_logs", "save_context", "diagnose", "save_learning"} \subseteq TaskPc \ {"none"}
        /\ {"remediate", "save_remediating", "save_result"} \subseteq TaskPc \ {"none"}
    BY <1>3 DEF Running, TrySaves, TrySteps
  <2>9. CASE AutoHandoff(d)
    BY <1>5, <2>3, <2>9 DEF AutoHandoff
  <2>10. CASE Analyze(d)
    BY <2>2, <2>4, <2>5, <2>8, <2>10 DEF Analyze
  <2>11. CASE GatherContext(d)
    BY <2>2, <2>3, <2>8, <2>11 DEF GatherContext
  <2>12. CASE Diagnose(d)
    BY <2>2, <2>4, <2>8, <2>12 DEF Diagnose
  <2>13. CASE Remediate(d)
    BY <2>2, <2>6, <2>7, <2>8, <2>13 DEF Remediate
  <2> QED BY <1>11, <2>9, <2>10, <2>11, <2>12, <2>13
<1>12. CASE LoadFails(d)
  <2>1. handler' = handler /\ sweep' = sweep /\ store' = store /\ (Escape(d) \/ Goto(d, "ended", copy[d]))
    BY <1>12 DEF LoadFails
  <2>2. CASE Escape(d)
    BY <1>2, <2>1, <2>2, RaiseSkips
  <2>3. CASE Goto(d, "ended", copy[d])
    <3>1. "ended" \notin Running
      BY DEF Running, TrySaves, TrySteps, Finallys
    <3> QED BY <1>2, <1>3, <2>1, <2>3, <3>1, TaskSkips
  <2> QED BY <2>1, <2>2, <2>3
<1>13. CASE SaveFails(d)
  <2>1. /\ handler' = handler /\ sweep' = sweep /\ copy[d].status # "absent"
        /\ store' = store \/ store' = [store EXCEPT ![d] = copy[d]]
        /\ Raise(d) \/ Escape(d) \/ \E pc \in {"ended", "finally_raise"} : Goto(d, pc, copy[d])
    BY <1>1, <1>4, <1>13 DEF SaveFails
  <2>2. CASE Raise(d) \/ Escape(d)
    BY <1>2, <2>1, <2>2, RaiseSkips
  <2>3. CASE \E pc \in {"ended", "finally_raise"} : Goto(d, pc, copy[d])
    <3>1. {"ended", "finally_raise"} \subseteq TaskPc \ {"none"}
      BY DEF TaskPc, Running, Finallys
    <3> QED BY <1>2, <2>1, <2>3, <3>1, TaskSkips
  <2> QED BY <2>1, <2>2, <2>3
<1>14. CASE Cancel(d)
  <2>1. handler' = handler /\ sweep' = sweep /\ store' = store
    BY <1>14 DEF Cancel
  <2>2. CASE Goto(d, "unwind", copy[d]) /\ task[d] \in TrySaves \cup TrySteps \cup {"save_exception"}
    <3>1. "unwind" \in TaskPc \ {"none"} /\ copy[d].status # "absent"
      BY <1>1, <1>4, <2>2 DEF TaskPc, Running, Finallys, Saves
    <3> QED BY <1>2, <2>1, <2>2, <3>1, TaskSkips
  <2>3. CASE Goto(d, "ended", copy[d])
    <3>1. "ended" \notin Running
      BY DEF Running, TrySaves, TrySteps, Finallys
    <3> QED BY <1>2, <1>3, <2>1, <2>3, <3>1, TaskSkips
  <2> QED BY <1>14, <2>2, <2>3 DEF Cancel
<1> QED BY <1>7, <1>8, <1>9, <1>10, <1>11, <1>12, <1>13, <1>14 DEF Task

(* A request keeps it: the verdict comes from a record of the same run that  *)
(* cannot be the request's own, which is not stored yet.                     *)
LEMMA RequestSkips ==
  ASSUME SkipInv, TypeOK', NEW d \in Deliveries,
         Request(d) \/ RequestFails(d) \/ \E r \in Replicas : Receive(d, r)
  PROVE  SkipInv'
<1> USE DEF requestVars, replicaVars
<1>1. /\ TypeOK
      /\ \A e \in Deliveries \ {d} : handler'[e] = handler[e]
  BY DEF SkipInv, TypeOK, Request, Check, CreateActivity, SpawnTask, RequestFails, Receive
<1>2. ASSUME NEW e \in Deliveries
      PROVE  UnknownBeforeStored(e) /\ HoldsRecord(e) /\ (CalledDuplicate(e) => Another(e))
  BY DEF SkipInv, DuplicateHasAnother
<1>3. CASE SpawnTask(d)
  <2>1. /\ store' = store /\ copy' = copy /\ sweep' = sweep
        /\ handler'[d] = "answered" /\ task'[d] = "load"
        /\ \A e \in Deliveries \ {d} : handler'[e] = handler[e] /\ task'[e] = task[e]
    BY <1>1, <1>3 DEF SpawnTask, TypeOK
  <2>2. ASSUME NEW e \in Deliveries PROVE UnknownBeforeStored(e)' /\ HoldsRecord(e)'
    BY <1>2, <2>1 DEF UnknownBeforeStored, HoldsRecord, InRequest
  <2>3. ASSUME NEW e \in Deliveries, CalledDuplicate(e)' PROVE CalledDuplicate(e)
    BY <2>1, <2>3 DEF CalledDuplicate
  <2> QED BY <2>1, <2>2, <2>3, SkipKept
<1>4. CASE Check(d) \/ \E r \in Replicas : Receive(d, r)
  <2>1. /\ store' = store /\ task' = task /\ copy' = copy /\ sweep' = sweep
        /\ handler[d] \in {"idle", "checking"}
    BY <1>4 DEF Check, Receive
  <2>2. ASSUME handler'[d] = "duplicate" PROVE Another(d)
    <3>1. handler[d] = "checking" /\ ShouldProcess(d) = "duplicate"
      BY <1>1, <1>4, <2>2 DEF Check, Receive, TypeOK
    <3>2. PICK a \in Newest(Created) : RunOf[a] = RunOf[d]
      BY <3>1 DEF ShouldProcess
    <3>3. a \in Deliveries /\ store[a] # NoDoc
      BY DEF Newest, Created
    <3>4. a # d
      BY <1>2, <3>1, <3>3 DEF UnknownBeforeStored, InRequest
    <3> QED BY <3>2, <3>3, <3>4 DEF Another
  <2>3. ASSUME NEW e \in Deliveries PROVE UnknownBeforeStored(e)' /\ HoldsRecord(e)'
    <3>1. handler[d] \in {"idle"} \cup (InRequest \ {"spawning"})
      BY <2>1 DEF InRequest
    <3> QED BY <1>1, <1>2, <2>1, <3>1 DEF UnknownBeforeStored, HoldsRecord
  <2>4. ASSUME NEW e \in Deliveries, CalledDuplicate(e)' PROVE CalledDuplicate(e) \/ Another(e)
    BY <1>1, <2>1, <2>2, <2>4 DEF CalledDuplicate
  <2> QED BY <2>1, <2>3, <2>4, SkipKept
<1>5. CASE CreateActivity(d) \/ RequestFails(d)
  <2>1. /\ task' = task /\ copy' = copy /\ sweep' = sweep
        /\ handler[d] \in InRequest \ {"spawning"} /\ handler'[d] \in {"spawning", "answered", "error"}
    BY <1>1, <1>5 DEF CreateActivity, RequestFails, InRequest, TypeOK
  <2>2. \/ store' = store
        \/ handler[d] \in {"admitting", "duplicate", "max_attempts"} /\ Persist(d)
    BY <1>5 DEF CreateActivity, RequestFails, InRequest
  <2>3. /\ \A e \in Deliveries \ {d} : store'[e] = store[e]
        /\ \/ store'[d] = store[d]
           \/ /\ store'[d].status # "absent"
              /\ store'[d].error = "duplicate" => handler[d] = "duplicate"
    <3>1. CASE store' = store
      BY <3>1
    <3>2. CASE handler[d] \in {"admitting", "duplicate", "max_attempts"} /\ Persist(d)
      <4>1. store'[d] = FirstRecord(d) /\ \A e \in Deliveries \ {d} : store'[e] = store[e]
        BY <1>1, <3>2 DEF Persist, TypeOK
      <4> QED BY <3>2, <4>1 DEF FirstRecord, Record
    <3> QED BY <2>2, <3>1, <3>2
  <2>4. ASSUME NEW e \in Deliveries PROVE UnknownBeforeStored(e)' /\ HoldsRecord(e)'
    <3>1. handler'[d] \notin {"idle"} \cup (InRequest \ {"spawning"})
      BY <2>1 DEF InRequest
    <3> QED BY <1>1, <1>2, <2>1, <2>3, <3>1 DEF UnknownBeforeStored, HoldsRecord
  <2>5. ASSUME NEW e \in Deliveries, CalledDuplicate(e)' PROVE CalledDuplicate(e)
    BY <1>1, <2>1, <2>3, <2>5 DEF CalledDuplicate
  <2> QED BY <2>3, <2>4, <2>5, SkipKept
<1> QED BY <1>3, <1>4, <1>5 DEF Request

(* A replica that starts, recovers, closes or dies keeps it: a recovery      *)
(* writes back copies of stored records only.                                *)
LEMMA ReplicaSkips ==
  ASSUME SkipInv, TypeOK', NEW r \in Replicas,
         Startup(r) \/ BeginClose(r) \/ FinishClose(r) \/ Crash(r) \/ RecoveryFails(r)
  PROVE  SkipInv'
<1> USE DEF requestVars, replicaVars
<1>1. TypeOK
  BY DEF SkipInv
<1>2. ASSUME NEW e \in Deliveries
      PROVE  UnknownBeforeStored(e) /\ HoldsRecord(e)
  BY DEF SkipInv
<1>3. NoDoc.error # "duplicate"
  BY DEF NoDoc, Record
<1>4. ASSUME UNCHANGED <<store, handler, task, copy>>,
             \A s \in Replicas, e \in Deliveries : sweep'[s].batch[e] \in {sweep[s].batch[e], NoDoc}
                                                   \/ (sweep'[s].batch[e] = store[e] /\ store[e] # NoDoc)
      PROVE  SkipInv'
  <2>1. ASSUME NEW e \in Deliveries PROVE UnknownBeforeStored(e)' /\ HoldsRecord(e)'
    BY <1>2, <1>4 DEF UnknownBeforeStored, HoldsRecord
  <2>2. ASSUME NEW e \in Deliveries, CalledDuplicate(e)' PROVE CalledDuplicate(e)
    BY <1>3, <1>4, <2>2 DEF CalledDuplicate
  <2> QED BY <1>4, <2>1, <2>2, SkipKept
<1>5. \A e \in Deliveries : NoSweep.batch[e] = NoDoc
  BY DEF NoSweep, NoBatch
<1>6. CASE Boot(r) \/ BeginClose(r) \/ FinishClose(r)
  BY <1>4, <1>6 DEF Boot, BeginClose, FinishClose
<1>7. CASE ReadPage(r)
  <2> DEFINE page == Newest({d \in Deliveries : store[d].status = TransientOrder[sweep[r].next]})
             batch == [d \in Deliveries |-> IF d \in page THEN store[d] ELSE NoDoc]
  <2>1. /\ UNCHANGED <<store, task, copy, handler>>
        /\ sweep[r].next \in DOMAIN TransientOrder
        /\ sweep' = [sweep EXCEPT ![r] = [next |-> sweep[r].next + 1, batch |-> batch]]
    BY <1>7 DEF ReadPage
  <2>2. sweep'[r].batch = batch /\ \A s \in Replicas \ {r} : sweep'[s] = sweep[s]
    BY <1>1, <2>1 DEF TypeOK
  <2>3. TransientOrder[sweep[r].next] \in Transient
    BY <2>1 DEF TransientOrder, Transient
  <2>4. ASSUME NEW e \in Deliveries PROVE batch[e] = NoDoc \/ (batch[e] = store[e] /\ store[e] # NoDoc)
    BY <2>3 DEF Newest, NoDoc, Record, Transient
  <2> HIDE DEF batch
  <2>5. \A s \in Replicas, e \in Deliveries : sweep'[s].batch[e] \in {sweep[s].batch[e], NoDoc}
                                              \/ (sweep'[s].batch[e] = store[e] /\ store[e] # NoDoc)
    BY <2>2, <2>4
  <2> QED BY <1>4, <2>1, <2>5
<1>8. CASE FinishRecovery(r)
  <2>1. sweep'[r] = NoSweep /\ \A s \in Replicas \ {r} : sweep'[s] = sweep[s]
    BY <1>1, <1>8 DEF FinishRecovery, TypeOK
  <2> QED BY <1>4, <1>5, <1>8, <2>1 DEF FinishRecovery
<1>9. ASSUME NEW d \in Deliveries, RecoverActivity(r, d) PROVE SkipInv'
  <2> DEFINE found == sweep[r].batch[d]
  <2>1. /\ found \in Doc /\ found # NoDoc
        /\ store' = [store EXCEPT ![d] = Failed(found, "interrupted")]
        /\ sweep' = [sweep EXCEPT ![r].batch[d] = NoDoc]
        /\ UNCHANGED <<task, copy, handler>>
    BY <1>1, <1>9 DEF RecoverActivity, TypeOK
  <2> HIDE DEF found
  <2>2. /\ store'[d].status # "absent" /\ store'[d].error # "duplicate"
        /\ \A e \in Deliveries \ {d} : store'[e] = store[e]
    <3>1. store'[d] = Failed(found, "interrupted")
      BY <1>1, <2>1 DEF TypeOK
    <3>2. \A e \in Deliveries \ {d} : store'[e] = store[e]
      BY <1>1, <2>1 DEF TypeOK
    <3> QED BY <2>1, <3>1, <3>2, FailureIsReal
  <2>3. \A s \in Replicas, e \in Deliveries : sweep'[s].batch[e] \in {sweep[s].batch[e], NoDoc}
    <3>1. /\ sweep[r] \in [next : 1 .. 5, batch : [Deliveries -> Doc]]
          /\ sweep' = [sweep EXCEPT ![r] = [sweep[r] EXCEPT !.batch = [sweep[r].batch EXCEPT ![d] = NoDoc]]]
      BY <1>1, <2>1 DEF TypeOK
    <3>2. sweep'[r] = [sweep[r] EXCEPT !.batch = [sweep[r].batch EXCEPT ![d] = NoDoc]]
      BY <1>1, <3>1 DEF TypeOK
    <3>3. sweep'[r].batch = [sweep[r].batch EXCEPT ![d] = NoDoc]
      BY <3>1, <3>2
    <3>4. \A e \in Deliveries : sweep'[r].batch[e] \in {sweep[r].batch[e], NoDoc}
      BY <3>1, <3>3
    <3>5. \A s \in Replicas \ {r} : sweep'[s] = sweep[s]
      BY <1>1, <2>1 DEF TypeOK
    <3> QED BY <3>4, <3>5
  <2>4. ASSUME NEW e \in Deliveries PROVE UnknownBeforeStored(e)' /\ HoldsRecord(e)'
    <3>1. handler[d] \notin {"idle"} \cup (InRequest \ {"spawning"})
      BY <1>2, <2>1 DEF UnknownBeforeStored, found
    <3> QED BY <1>2, <2>1, <2>2, <2>3, <3>1 DEF UnknownBeforeStored, HoldsRecord
  <2>5. ASSUME NEW e \in Deliveries, CalledDuplicate(e)' PROVE CalledDuplicate(e)
    BY <1>3, <2>1, <2>2, <2>3, <2>5 DEF CalledDuplicate
  <2> QED BY <2>2, <2>4, <2>5, SkipKept
<1>10. CASE Crash(r) \/ RecoveryFails(r)
  <2>1. Die(r)
    BY <1>10 DEF Crash, RecoveryFails
  <2>2. /\ store' = store /\ copy' = copy
        /\ sweep'[r] = NoSweep /\ \A s \in Replicas \ {r} : sweep'[s] = sweep[s]
        /\ \A e \in Deliveries : /\ handler'[e] \in {handler[e], "error"}
                                 /\ task'[e] = task[e] \/ (task[e] \in Running /\ task'[e] = "ended")
    BY <1>1, <2>1 DEF Die, TypeOK
  <2>3. ASSUME NEW e \in Deliveries PROVE UnknownBeforeStored(e)' /\ HoldsRecord(e)'
    <3>1. "error" \notin {"idle"} \cup InRequest /\ {"none", "ended"} \cap Running = {}
      BY DEF InRequest, Running, TrySaves, TrySteps, Finallys
    <3> QED BY <1>2, <1>5, <2>2, <3>1 DEF UnknownBeforeStored, HoldsRecord
  <2>4. ASSUME NEW e \in Deliveries, CalledDuplicate(e)' PROVE CalledDuplicate(e)
    BY <1>3, <1>5, <2>2, <2>4 DEF CalledDuplicate
  <2> QED BY <2>2, <2>3, <2>4, SkipKept
<1> QED BY <1>6, <1>7, <1>8, <1>9, <1>10 DEF Startup

(* Every step keeps it.                                                      *)
LEMMA SkipStep == SkipInv /\ [Next]_vars => SkipInv'
<1> SUFFICES ASSUME SkipInv, [Next]_vars PROVE SkipInv'
  OBVIOUS
<1>1. TypeOK'
  BY TypeStep DEF SkipInv
<1>2. ASSUME NEW d \in Deliveries,
             Request(d) \/ RequestFails(d) \/ \E r \in Replicas : Receive(d, r)
      PROVE  SkipInv'
  BY <1>1, <1>2, RequestSkips
<1>3. ASSUME NEW d \in Deliveries, Task(d) \/ LoadFails(d) \/ SaveFails(d) \/ Cancel(d)
      PROVE  SkipInv'
  BY <1>1, <1>3, TaskStepSkips
<1>4. ASSUME NEW r \in Replicas,
             Startup(r) \/ BeginClose(r) \/ FinishClose(r) \/ Crash(r) \/ RecoveryFails(r)
      PROVE  SkipInv'
  BY <1>1, <1>4, ReplicaSkips
<1>5. CASE UNCHANGED vars
  BY <1>5 DEF vars, SkipInv, TypeOK, UnknownBeforeStored, HoldsRecord, DuplicateHasAnother,
              CalledDuplicate, Another
<1> QED BY <1>2, <1>3, <1>4, <1>5 DEF Next, Fault

(* A run is skipped as already processed only if another record of it is     *)
(* stored, with any number of replicas, faults, crashes and shutdowns.       *)
THEOREM SkippedRunsHaveAnother == Spec => []SkippedRunHasAnother
<1>1. Init => SkipInv
  <2> SUFFICES ASSUME Init PROVE SkipInv
    OBVIOUS
  <2>1. TypeOK
    BY ConstantDocs, BoundsAssumption DEF Init, TypeOK, HandlerPc, TaskPc
  <2>2. NoDoc.error # "duplicate" /\ "none" \notin Running
    BY DEF NoDoc, Record, Running, TrySaves, TrySteps, Finallys
  <2>3. ASSUME NEW d \in Deliveries
        PROVE  /\ store[d] = NoDoc /\ copy[d] = NoDoc /\ handler[d] = "idle" /\ task[d] = "none"
               /\ \A r \in Replicas : sweep[r].batch[d] = NoDoc
    BY DEF Init, NoSweep, NoBatch
  <2> QED
    BY <2>1, <2>2, <2>3 DEF SkipInv, UnknownBeforeStored, HoldsRecord, DuplicateHasAnother, CalledDuplicate
<1>2. SkipInv => SkippedRunHasAnother
  BY DEF SkipInv, DuplicateHasAnother, CalledDuplicate, Another, SkippedRunHasAnother
<1> QED BY <1>1, <1>2, SkipStep, PTL DEF Spec

-----------------------------------------------------------------------------
(* Nothing is orphaned while a single replica serves. *)

(* No storage call raises, and a page holds every record there can be.       *)
Dependable == MaxFaults = 0 /\ Cardinality(Deliveries) <= QueryLimit

(* Then no query leaves a matching record out.                               *)
LEMMA PageIsComplete ==
  ASSUME TypeOK, Dependable, NEW S \in SUBSET Deliveries
  PROVE  Newest(S) = S
<1> SUFFICES ASSUME NEW d \in S
             PROVE  Cardinality({e \in S : store[e].born > store[d].born}) < QueryLimit
  BY DEF Newest
<1> DEFINE newer == {e \in S : store[e].born > store[d].born}
           others == Deliveries \ {d}
<1>1. IsFiniteSet(Deliveries) /\ d \in Deliveries
  BY DeliveryAssumption
<1>2. IsFiniteSet(others) /\ Cardinality(others) = Cardinality(Deliveries) - 1
  BY <1>1, FS_RemoveElement
<1>3. newer \subseteq others
  <2>1. store[d].born \in Nat
    BY <1>1 DEF TypeOK, Doc
  <2> QED BY <2>1
<1>4. Cardinality(newer) <= Cardinality(others)
  BY <1>2, <1>3, FS_Subset
<1>5. Cardinality(newer) \in Nat /\ Cardinality(Deliveries) \in Nat
  BY <1>1, <1>2, <1>3, FS_Subset, FS_CardinalityType
<1> QED BY <1>2, <1>4, <1>5, BoundsAssumption DEF Dependable

(* A task that ends by itself leaves a finished record behind.               *)
LEMMA TaskEnds ==
  ASSUME TypeOK, NEW d \in Deliveries, DeliveryInv(d), Task(d), task[d] # "unwind"
  PROVE  /\ task'[d] # "unwind"
         /\ task'[d] \in Running \/ store'[d].status \notin Transient
<1> USE DEF requestVars, replicaVars
<1>1. task[d] \in Running
  BY TaskMoves
<1>2. StagesAt(task[d], store[d].status, copy[d].status)
  BY <1>1 DEF DeliveryInv, StoreFollowsCopy
<1>3. /\ {"completed", "failed"} \cap Transient = {}
      /\ Exit(d) = IF d \in Bridge THEN "ended" ELSE "finally"
      /\ "unwind" \notin TrySaves \cup TrySteps
      /\ TrySaves \cup TrySteps \cup {"save_exception", "fallback_load", "fallback", "finally"} \subseteq Running
  BY DEF Transient, Exit, Running, TrySaves, TrySteps, Finallys
<1>4. \A pc \in TaskPc : \A doc : Goto(d, pc, doc) => task'[d] = pc
  BY DEF Goto, TypeOK
<1>5. Running \cup {"ended"} \subseteq TaskPc
  BY DEF TaskPc
<1> DEFINE Done == /\ task'[d] # "unwind"
                   /\ task'[d] \in Running \/ store'[d].status \notin Transient
<1>6. ASSUME NEW pc \in Running \ {"unwind"}, NEW doc, Goto(d, pc, doc) PROVE Done
  BY <1>4, <1>5, <1>6
<1>7. Raise(d) \/ Escape(d) => Done
  BY <1>3, <1>6 DEF Raise, Escape
<1>8. CASE Load(d) \/ FallbackLoad(d)
  BY <1>3, <1>6, <1>8 DEF Load, FallbackLoad, TrySaves
<1>9. CASE Save(d)
  <2>1. store'[d] = copy[d] /\ task[d] \in Saves
    BY <1>9 DEF Save, TypeOK
  <2>2. task'[d] = AfterSave(d)
    BY <1>9, <2>1, AfterSaveIs DEF Save, Goto, TypeOK
  <2>3. CASE AfterSave(d) \in Running \ {"unwind"}
    BY <2>2, <2>3
  <2>4. CASE AfterSave(d) \notin Running \ {"unwind"}
    <3>1. AfterSave(d) = "ended"
      BY <1>3, <2>1, <2>4, AfterSaveIs DEF TrySaves, TrySteps
    <3>2. copy[d].status \in {"completed", "failed"}
      BY <1>2, <2>1, <3>1, AfterSaveIs DEF StagesAt, Saves, TrySaves
    <3>3. "ended" # "unwind"
      OBVIOUS
    <3> QED BY <1>3, <2>1, <2>2, <3>1, <3>2
  <2> QED BY <2>3, <2>4
<1>10. CASE Finally(d)
  <2>1. CASE task[d] = "finally_raise"
    BY <1>7, <1>10, <2>1 DEF Finally
  <2>2. CASE task[d] = "finally"
    <3>1. task'[d] = "ended"
      BY <1>4, <1>5, <1>10, <2>2 DEF Finally
    <3>2. store'[d].status \in {"completed", "failed"}
      BY <1>2, <1>10, <2>2 DEF Finally, StagesAt, TypeOK
    <3> QED BY <1>3, <3>1, <3>2
  <2> QED BY <1>10, <2>1, <2>2 DEF Finally, Finallys
<1>11. CASE AutoHandoff(d)
  <2>1. task'[d] = Exit(d) /\ store' = store
    BY <1>3, <1>4, <1>5, <1>11 DEF AutoHandoff
  <2>2. store[d].status = "failed"
    BY <1>2, <1>11 DEF AutoHandoff, StagesAt, TrySteps
  <2> QED BY <1>3, <2>1, <2>2
<1>12. CASE Analyze(d) \/ GatherContext(d) \/ Diagnose(d) \/ Remediate(d)
  BY <1>3, <1>6, <1>7, <1>12 DEF Analyze, GatherContext, Diagnose, Remediate, TrySaves, TrySteps
<1> QED BY <1>8, <1>9, <1>10, <1>11, <1>12 DEF Task

(* A request that stores a transient record is about to start its task.      *)
LEMMA RequestServes ==
  ASSUME TypeOK, NEW d \in Deliveries, DeliveryInv(d),
         Request(d) \/ \E r \in Replicas : Receive(d, r),
         store[d].status \in Transient => Alive(d) \/ handler[d] = "spawning"
  PROVE  /\ store'[d].status \in Transient => Alive(d)' \/ handler'[d] = "spawning"
         /\ task'[d] \in {task[d], "load"}
<1> USE DEF requestVars, replicaVars
<1>1. CASE SpawnTask(d)
  BY <1>1 DEF SpawnTask, TypeOK, Alive, Running
<1>2. CASE CreateActivity(d)
  BY <1>2 DEF CreateActivity, Persist, FirstRecord, Record, TypeOK, Transient
<1>3. CASE Check(d) \/ \E r \in Replicas : Receive(d, r)
  <2>1. /\ store' = store /\ task' = task /\ handler[d] \in {"idle", "checking"}
    BY <1>3 DEF Check, Receive
  <2>2. store[d].status \notin Transient
    BY <2>1 DEF DeliveryInv, StoredBeforeTask, InRequest, NoDoc, Record, Transient
  <2> QED BY <2>1, <2>2
<1> QED BY <1>1, <1>2, <1>3 DEF Request

(* A page read, a record rewritten: the recovery never forgets one.          *)
LEMMA RecoveryCovers ==
  ASSUME Solo, Dependable, OrphanInv, NEW r \in Replicas, TypeOK',
         ReadPage(r) \/ \E d \in Deliveries : RecoverActivity(r, d),
         NEW e \in Deliveries, store'[e].status \in Transient
  PROVE  StillToRecover(r, e)'
<1>1. TypeOK /\ SweepIsCurrent(r) /\ up[r] = "recovering"
  BY DEF OrphanInv, SoloInv, ReadPage, RecoverActivity
<1>2. store[e].status \in Transient => StillToRecover(r, e)
  BY <1>1 DEF OrphanInv
<1>3. CASE ReadPage(r)
  <2> DEFINE status == TransientOrder[sweep[r].next]
             page == Newest({d \in Deliveries : store[d].status = status})
             batch == [d \in Deliveries |-> IF d \in page THEN store[d] ELSE NoDoc]
  <2>1. /\ store' = store /\ sweep[r].next \in DOMAIN TransientOrder /\ sweep[r].batch = NoBatch
        /\ sweep' = [sweep EXCEPT ![r] = [next |-> sweep[r].next + 1, batch |-> batch]]
    BY <1>3 DEF ReadPage
  <2>2. sweep'[r].batch = batch /\ sweep'[r].next = sweep[r].next + 1
    BY <1>1, <2>1 DEF TypeOK
  <2>3. page = {d \in Deliveries : store[d].status = status}
    BY <1>1, PageIsComplete
  <2>4. CASE store[e].status = status
    <3>1. batch[e] = store[e] /\ store[e] # NoDoc
      BY <2>1, <2>3, <2>4 DEF NoDoc, Record, Transient
    <3> QED BY <2>2, <3>1 DEF StillToRecover
  <2>5. CASE store[e].status # status
    <3>1. PICK i \in DOMAIN TransientOrder : i >= sweep[r].next /\ TransientOrder[i] = store[e].status
      BY <1>2, <2>1 DEF StillToRecover, NoBatch
    <3>2. i # sweep[r].next /\ i \in 1 .. 4 /\ sweep[r].next \in 1 .. 5
      BY <1>1, <2>5, <3>1 DEF TransientOrder, TypeOK
    <3>3. i >= sweep'[r].next
      BY <2>2, <3>1, <3>2
    <3> QED BY <2>1, <3>1, <3>3 DEF StillToRecover
  <2> QED BY <2>4, <2>5
<1>4. ASSUME NEW d \in Deliveries, RecoverActivity(r, d) PROVE StillToRecover(r, e)'
  <2>1. /\ sweep[r] \in [next : 1 .. 5, batch : [Deliveries -> Doc]]
        /\ sweep' = [sweep EXCEPT ![r] = [sweep[r] EXCEPT !.batch = [sweep[r].batch EXCEPT ![d] = NoDoc]]]
    BY <1>1, <1>4 DEF TypeOK, RecoverActivity
  <2>2. sweep'[r] = [sweep[r] EXCEPT !.batch = [sweep[r].batch EXCEPT ![d] = NoDoc]]
    BY <1>1, <2>1 DEF TypeOK
  <2>3. sweep'[r].batch = [sweep[r].batch EXCEPT ![d] = NoDoc] /\ sweep'[r].next = sweep[r].next
    BY <2>1, <2>2
  <2>4. \A a \in Deliveries \ {d} : sweep'[r].batch[a] = sweep[r].batch[a]
    BY <2>1, <2>3
  <2>5. /\ store'[d] = Failed(sweep[r].batch[d], "interrupted")
        /\ \A a \in Deliveries \ {d} : store'[a] = store[a]
    BY <1>1, <1>4 DEF RecoverActivity, TypeOK
  <2>6. store'[d].status = "failed"
    <3>1. sweep[r].batch[d] \in Doc
      BY <2>1
    <3> QED BY <2>5, <3>1, FailedIs DEF Errors
  <2>7. e # d
    BY <2>6 DEF Transient
  <2>8. sweep'[r].batch[e] = sweep[r].batch[e] /\ store'[e] = store[e]
    BY <2>4, <2>5, <2>7
  <2> QED BY <1>2, <2>3, <2>8 DEF StillToRecover
<1> QED BY <1>3, <1>4

(* Every step of a single replica overlooks nothing.                         *)
LEMMA OrphanStep == ASSUME Solo, Dependable PROVE OrphanInv /\ [Next]_vars => OrphanInv'
<1> SUFFICES ASSUME OrphanInv, [Next]_vars PROVE OrphanInv'
  OBVIOUS
<1> USE DEF requestVars, replicaVars
<1>1. SoloInv' /\ TypeOK /\ TypeOK'
  BY SoloStep DEF OrphanInv, SoloInv
<1> DEFINE Worked(d) == Alive(d) \/ handler[d] = "spawning"
           Overlooks(r, d) == /\ up[r] = "recovering" /\ store[d].status \in Transient => StillToRecover(r, d)
                              /\ up[r] = "serving" => task[d] # "unwind"
           Orphans(r, d) == up[r] = "serving" /\ store[d].status \in Transient => Worked(d)
<1>2. ASSUME NEW r \in Replicas, NEW d \in Deliveries
      PROVE  Overlooks(r, d) /\ Orphans(r, d) /\ DeliveryInv(d)
  BY DEF OrphanInv, SoloInv, NoOrphanWhileServing
<1>3. ASSUME \A r \in Replicas, d \in Deliveries : Overlooks(r, d)' /\ Orphans(r, d)'
      PROVE  OrphanInv'
  BY <1>1, <1>3 DEF OrphanInv, NoOrphanWhileServing
<1>4. ASSUME NEW r \in Replicas, up'[r] \in {"down", "closing"} PROVE OrphanInv'
  <2>1. ASSUME NEW s \in Replicas, NEW d \in Deliveries PROVE Overlooks(s, d)' /\ Orphans(s, d)'
    BY <1>4 DEF Solo
  <2> QED BY <1>3, <2>1
<1>5. faults = 0 /\ MaxFaults = 0
  BY <1>1 DEF TypeOK, Dependable
<1>6. ASSUME NEW d \in Deliveries, up' = up, handler[d] \in InRequest \/ task[d] \in Running
                                            \/ \E r \in Replicas : up[r] = "serving",
             \A e \in Deliveries \ {d} : /\ store'[e] = store[e] /\ task'[e] = task[e]
                                         /\ handler'[e] = handler[e],
             \A r \in Replicas : up[r] = "serving" =>
               /\ task'[d] # "unwind"
               /\ store'[d].status \in Transient => Worked(d)'
      PROVE  OrphanInv'
  <2>1. \A r \in Replicas : up[r] \in {"serving", "closing"}
    BY <1>6, NoSweepWhileWorking DEF OrphanInv, Solo
  <2>2. ASSUME NEW r \in Replicas, NEW e \in Deliveries PROVE Overlooks(r, e)' /\ Orphans(r, e)'
    <3>1. CASE e = d
      BY <1>6, <2>1, <3>1
    <3>2. CASE e # d
      BY <1>2, <1>6, <2>1, <3>2 DEF Alive
    <3> QED BY <3>1, <3>2
  <2> QED BY <1>3, <2>2
<1>7. ASSUME NEW d \in Deliveries, Request(d) \/ \E r \in Replicas : Receive(d, r)
      PROVE  OrphanInv'
  <2>1. /\ up' = up
        /\ handler[d] \in InRequest \/ \E r \in Replicas : up[r] = "serving"
    BY <1>7 DEF Request, Check, CreateActivity, SpawnTask, Receive, InRequest
  <2>2. \A e \in Deliveries \ {d} : /\ store'[e] = store[e] /\ task'[e] = task[e]
                                    /\ handler'[e] = handler[e]
    BY <1>1, <1>7 DEF Request, Check, CreateActivity, SpawnTask, Receive, Persist, TypeOK
  <2>3. ASSUME NEW r \in Replicas, up[r] = "serving"
        PROVE  task'[d] # "unwind" /\ (store'[d].status \in Transient => Worked(d)')
    BY <1>1, <1>2, <1>7, <2>3, RequestServes
  <2> QED BY <1>6, <2>1, <2>2, <2>3
<1>8. ASSUME NEW d \in Deliveries, Task(d) PROVE OrphanInv'
  <2>1. /\ up' = up /\ handler' = handler /\ task[d] \in Running
        /\ \A e \in Deliveries \ {d} : store'[e] = store[e] /\ task'[e] = task[e]
    BY <1>1, <1>8, TaskMoves DEF Goto, TypeOK
  <2>2. ASSUME NEW r \in Replicas, up[r] = "serving"
        PROVE  task'[d] # "unwind" /\ (store'[d].status \in Transient => Worked(d)')
    BY <1>1, <1>2, <1>8, <2>2, TaskEnds DEF Alive
  <2> QED BY <1>6, <2>1, <2>2
<1>9. ASSUME NEW d \in Deliveries, Cancel(d) PROVE OrphanInv'
  BY <1>4, <1>9 DEF Cancel
<1>10. ASSUME NEW r \in Replicas, Startup(r) PROVE OrphanInv'
  <2>1. CASE Boot(r)
    <3>1. store' = store /\ sweep' = sweep /\ sweep[r].next = 1 /\ up'[r] = "recovering"
      BY <1>1, <2>1 DEF Boot, OrphanInv, SoloInv, SweepIsCurrent, NoSweep, TypeOK
    <3>2. ASSUME NEW d \in Deliveries, store[d].status \in Transient PROVE StillToRecover(r, d)'
      <4>1. \E i \in DOMAIN TransientOrder : TransientOrder[i] = store[d].status /\ i >= 1
        BY <3>2 DEF Transient, TransientOrder
      <4> QED BY <3>1, <4>1 DEF StillToRecover
    <3>3. ASSUME NEW s \in Replicas, NEW d \in Deliveries PROVE Overlooks(s, d)' /\ Orphans(s, d)'
      BY <3>1, <3>2 DEF Solo
    <3> QED BY <1>3, <3>3
  <2>2. CASE ReadPage(r) \/ \E d \in Deliveries : RecoverActivity(r, d)
    <3>1. up'[r] = "recovering"
      BY <2>2 DEF ReadPage, RecoverActivity
    <3>2. \A d \in Deliveries : store'[d].status \in Transient => StillToRecover(r, d)'
      BY <1>1, <2>2, RecoveryCovers
    <3>3. ASSUME NEW s \in Replicas, NEW d \in Deliveries PROVE Overlooks(s, d)' /\ Orphans(s, d)'
      BY <3>1, <3>2 DEF Solo
    <3> QED BY <1>3, <3>3
  <2>3. CASE FinishRecovery(r)
    <3>1. /\ store' = store /\ task' = task /\ up[r] = "recovering" /\ up'[r] = "serving"
          /\ sweep[r].batch = NoBatch /\ sweep[r].next \notin DOMAIN TransientOrder
      BY <1>1, <2>3 DEF FinishRecovery, TypeOK
    <3>2. sweep[r].next = 5
      BY <1>1, <3>1 DEF TypeOK, TransientOrder
    <3>3. ASSUME NEW d \in Deliveries PROVE store[d].status \notin Transient
      <4>1. ~StillToRecover(r, d)
        BY <3>1, <3>2 DEF StillToRecover, NoBatch, TransientOrder
      <4> QED BY <1>2, <3>1, <4>1
    <3>4. ASSUME NEW d \in Deliveries PROVE task[d] # "unwind"
      BY <3>1, IdleReplica DEF OrphanInv, Running, Finallys
    <3>5. ASSUME NEW s \in Replicas, NEW d \in Deliveries PROVE Overlooks(s, d)' /\ Orphans(s, d)'
      BY <3>1, <3>3, <3>4 DEF Solo
    <3> QED BY <1>3, <3>5
  <2> QED BY <1>10, <2>1, <2>2, <2>3 DEF Startup
<1>11. ASSUME NEW r \in Replicas, BeginClose(r) \/ FinishClose(r) PROVE OrphanInv'
  BY <1>1, <1>4, <1>11 DEF BeginClose, FinishClose, TypeOK
<1>12. CASE Fault
  <2>1. PICK r \in Replicas : Crash(r)
    BY <1>5, <1>12 DEF Fault, RequestFails, LoadFails, SaveFails, RecoveryFails
  <2> QED BY <1>1, <1>4, <2>1 DEF Crash, Die, TypeOK
<1>13. CASE UNCHANGED vars
  <2>1. UNCHANGED <<store, handler, task, up, sweep>>
    BY <1>13 DEF vars
  <2>2. ASSUME NEW s \in Replicas, NEW d \in Deliveries PROVE Overlooks(s, d)' /\ Orphans(s, d)'
    BY <1>2, <2>1 DEF StillToRecover, Alive
  <2> QED BY <1>3, <2>2
<1> QED BY <1>7, <1>8, <1>9, <1>10, <1>11, <1>12, <1>13 DEF Next

(* While a single replica serves and no storage call raises, every activity  *)
(* in flight has its task or is about to get it, whatever crashed before.    *)
THEOREM SoloNoOrphanWhileServing ==
  ASSUME Solo, Dependable PROVE Spec => []NoOrphanWhileServing
<1>1. Init /\ SoloInv => OrphanInv
  BY DEF Init, OrphanInv, NoOrphanWhileServing
<1>2. OrphanInv /\ [Next]_vars => OrphanInv'
  BY OrphanStep
<1>3. OrphanInv => NoOrphanWhileServing
  BY DEF OrphanInv
<1> QED BY <1>1, <1>2, <1>3, SoloInvariant, PTL DEF Spec

=============================================================================
