-------------------------- MODULE HealingPipeline --------------------------
(***************************************************************************)
(* The life of every failure the backend is told about, from the webhook   *)
(* to the finished activity record.                                        *)
(*                                                                         *)
(* A replica runs one asyncio event loop, so the code between two awaits   *)
(* is atomic and every await is a point where any other coroutine, another *)
(* replica, a cancellation or the death of the process can intervene.  A   *)
(* program counter value below is the await a coroutine is suspended at,   *)
(* and an action is what happens when that await returns: its effect on    *)
(* the database, then the synchronous code up to the next await.           *)
(*                                                                         *)
(* The deliveries are those of one repository.  The activity created for a *)
(* delivery is named by the delivery: the code draws a fresh uuid for      *)
(* each.  Records are never deleted.  The storage is a durable one (Cosmos *)
(* or Postgres): a read returns a copy and a write replaces the whole      *)
(* record.                                                                 *)
(***************************************************************************)
EXTENDS Naturals, FiniteSets

CONSTANTS
  Deliveries,    \* failure deliveries (GitHub webhook or Jenkins bridge)
  Bridge,        \* the ones that come from the Jenkins bridge
  RunOf,         \* RunOf[d]: the workflow run id (the build number for Jenkins)
  RerunOf,       \* RerunOf[d]: TRUE when run_attempt > 1
  WorkflowOf,    \* WorkflowOf[d]: the workflow name
  Replicas,      \* backend processes sharing the storage
  NoReplica,
  MaxAttempts,   \* settings.max_remediation_attempts
  QueryLimit,    \* the limit=100 of the two get_activities queries
  MaxFaults,     \* bound: storage calls that raise
  MaxRestarts    \* bound: crashes and graceful shutdowns together

ASSUME DeliveryAssumption == IsFiniteSet(Deliveries)
ASSUME BridgeAssumption   == Bridge \subseteq Deliveries
ASSUME EventAssumption    == /\ DOMAIN RunOf = Deliveries
                             /\ DOMAIN WorkflowOf = Deliveries
                             /\ RerunOf \in [Deliveries -> BOOLEAN]
ASSUME ReplicaAssumption  == NoReplica \notin Replicas
ASSUME BoundsAssumption   == /\ MaxAttempts \in Nat \ {0}
                             /\ QueryLimit \in Nat \ {0}
                             /\ MaxFaults \in Nat
                             /\ MaxRestarts \in Nat

VARIABLES
  store,     \* store[d]: the persisted record of d's activity
  clock,     \* the latest created_at
  handler,   \* handler[d]: the await of the request that carries d
  owner,     \* owner[d]: the replica that took d in
  task,      \* task[d]: the await of the background task
  copy,      \* copy[d]: the record as the task holds it in memory
  up,        \* up[r]: the phase of replica r's lifespan
  sweep,     \* sweep[r]: where r's startup recovery is
  faults, restarts

vars == <<store, clock, handler, owner, task, copy, up, sweep, faults, restarts>>
requestVars == <<clock, handler, owner>>
replicaVars == <<up, sweep, restarts>>

-----------------------------------------------------------------------------
(* Records and program counters. *)

Transient == {"pending", "analyzing", "diagnosing", "remediating"}
Terminal  == {"completed", "failed", "skipped"}

Errors  == {"none", "duplicate", "max_attempts", "no_logs", "remediation",
            "exception", "interrupted"}
Results == {"none", "succeeded", "failed"}
Doc     == [status : Transient \cup Terminal \cup {"absent"},
            error : Errors, result : Results, born : Nat]

Record(s, e, t) == [status |-> s, error |-> e, result |-> "none", born |-> t]
NoDoc           == Record("absent", "none", 0)
FreshFailure    == Record("failed", "exception", clock + 1)

\* Slip: the error is noted and the status forgotten.
FailedErrorOnly(doc, e) == [doc EXCEPT !.error = e]

Failed(doc, e)  == [doc EXCEPT !.status = "failed", !.error = e]
Enter(doc, s)   == [doc EXCEPT !.status = s]
Completed(doc)  == [doc EXCEPT !.status = "completed", !.result = "succeeded"]
Unresolved(doc) == [doc EXCEPT !.status = "failed", !.error = "remediation", !.result = "failed"]

InRequest == {"checking", "admitting", "duplicate", "max_attempts", "spawning"}
HandlerPc == InRequest \cup {"idle", "answered", "error"}

(***************************************************************************)
(* The awaits inside the orchestrator's try block: TrySaves are its calls  *)
(* of update_activity, TrySteps the other ones.                            *)
(***************************************************************************)
TrySaves == {"save_analyzing", "save_no_logs", "save_diagnosing", "save_context",
             "save_remediating", "save_learning", "save_result"}
TrySteps == {"analyze", "context", "diagnose", "learning", "remediate", "handoff"}
Saves    == TrySaves \cup {"save_exception", "fallback"}
Finallys == {"finally", "finally_raise", "unwind"}
Running  == TrySaves \cup TrySteps \cup Finallys
              \cup {"save_exception", "load", "fallback_load", "fallback"}
TaskPc   == Running \cup {"none", "ended"}

\* Slip: the list of transient statuses misses one.
TransientOrderShort == <<"pending", "analyzing", "diagnosing">>

TransientOrder == <<"pending", "analyzing", "diagnosing", "remediating">>

NoBatch  == [d \in Deliveries |-> NoDoc]
NoSweep  == [next |-> 1, batch |-> NoBatch]

(***************************************************************************)
(* get_activities(limit): the most recently created of the matching ones.  *)
(***************************************************************************)
Created   == {d \in Deliveries : store[d] # NoDoc}
Newest(S) == {d \in S : Cardinality({e \in S : store[e].born > store[d].born}) < QueryLimit}

-----------------------------------------------------------------------------
(* The request: webhook handler, should_process and start. *)

\* Slip: requests are answered while the startup recovery is still running.
ReceiveEarly(d, r) ==
  /\ handler[d] = "idle"
  /\ up[r] \in {"recovering", "serving"}
  /\ owner' = [owner EXCEPT ![d] = r]
  /\ handler' = [handler EXCEPT ![d] = IF d \in Bridge THEN "admitting" ELSE "checking"]
  /\ UNCHANGED <<store, clock, task, copy, faults, replicaVars>>

(***************************************************************************)
(* A replica answers requests once its startup recovery is over.  The      *)
(* GitHub route forwards completed failed or timed out runs only; the      *)
(* bridge does not ask should_process.                                     *)
(***************************************************************************)
Receive(d, r) ==
  /\ handler[d] = "idle"
  /\ up[r] = "serving"
  /\ owner' = [owner EXCEPT ![d] = r]
  /\ handler' = [handler EXCEPT ![d] = IF d \in Bridge THEN "admitting" ELSE "checking"]
  /\ UNCHANGED <<store, clock, task, copy, faults, replicaVars>>

\* Slip: a run counts as processed when its workflow was seen before.
ShouldProcessByWorkflow(d) ==
  IF \E a \in Newest(Created) : WorkflowOf[a] = WorkflowOf[d] THEN "duplicate" ELSE "admitting"

ShouldProcess(d) ==
  LET existing == Newest(Created)
      seen     == \E a \in existing : RunOf[a] = RunOf[d]
      failures == {a \in existing : /\ store[a].status = "failed"
                                    /\ WorkflowOf[a] = WorkflowOf[d]}
  IN  IF seen THEN IF RerunOf[d] THEN "admitting" ELSE "duplicate"
      ELSE IF Cardinality(failures) >= MaxAttempts THEN "max_attempts"
      ELSE "admitting"

Check(d) ==
  /\ handler[d] = "checking"
  /\ handler' = [handler EXCEPT ![d] = ShouldProcess(d)]
  /\ UNCHANGED <<store, clock, owner, task, copy, faults, replicaVars>>

\* Slip: the reason is stored as the status.
FirstRecordSwapped(d) ==
  IF handler[d] = "admitting" THEN Record("pending", "none", clock + 1)
                              ELSE Record(handler[d], "skipped", clock + 1)

(***************************************************************************)
(* The record the handler persists, PENDING or SKIPPED with the reason.    *)
(***************************************************************************)
FirstRecord(d) ==
  IF handler[d] = "admitting" THEN Record("pending", "none", clock + 1)
                              ELSE Record("skipped", handler[d], clock + 1)

Persist(d) ==
  /\ store' = [store EXCEPT ![d] = FirstRecord(d)]
  /\ clock' = clock + 1

CreateActivity(d) ==
  /\ handler[d] \in {"admitting", "duplicate", "max_attempts"}
  /\ Persist(d)
  /\ handler' = [handler EXCEPT ![d] = IF @ = "admitting" THEN "spawning" ELSE "answered"]
  /\ UNCHANGED <<owner, task, copy, faults, replicaVars>>

(***************************************************************************)
(* A storage call of the request raises: the sender gets a 500.  A create  *)
(* that timed out on our side may still have been applied.                 *)
(***************************************************************************)
RequestFails(d) ==
  /\ handler[d] \in InRequest \ {"spawning"}
  /\ faults < MaxFaults
  /\ faults' = faults + 1
  /\ \/ UNCHANGED <<store, clock>>
     \/ handler[d] # "checking" /\ Persist(d)
  /\ handler' = [handler EXCEPT ![d] = "error"]
  /\ UNCHANGED <<owner, task, copy, replicaVars>>

SpawnTask(d) ==
  /\ handler[d] = "spawning"
  /\ handler' = [handler EXCEPT ![d] = "answered"]
  /\ task' = [task EXCEPT ![d] = "load"]
  /\ UNCHANGED <<store, clock, owner, copy, faults, replicaVars>>

-----------------------------------------------------------------------------
(* The background task: process_workflow_failure / process_bridge_failure. *)

Goto(d, pc, doc) ==
  /\ task' = [task EXCEPT ![d] = pc]
  /\ copy' = [copy EXCEPT ![d] = doc]

(***************************************************************************)
(* Where the try block leaves to: only the GitHub path has a finally.      *)
(***************************************************************************)
Exit(d) == IF d \in Bridge THEN "ended" ELSE "finally"

\* Slip: a failed step sends the run back to its start.
RaiseRetry(d) == Goto(d, "load", copy[d])

(***************************************************************************)
(* An exception inside the try block, a step timeout included: the except  *)
(* clause marks the record failed and waits for it to be saved.            *)
(***************************************************************************)
Raise(d) == Goto(d, "save_exception", Failed(copy[d], "exception"))

(***************************************************************************)
(* An exception that escapes the orchestrator reaches the wrapper: the     *)
(* GitHub one builds a new record from the event, created_at included, the *)
(* bridge one reads the stored record first.                               *)
(***************************************************************************)
Escape(d) ==
  \/ d \in Bridge    /\ Goto(d, "fallback_load", copy[d]) /\ UNCHANGED clock
  \/ d \notin Bridge /\ Goto(d, "fallback", FreshFailure)  /\ clock' = clock + 1

Load(d) ==
  /\ task[d] = "load"
  /\ Goto(d, "save_analyzing", Enter(store[d], "analyzing"))
  /\ UNCHANGED <<store, faults, requestVars, replicaVars>>

FallbackLoad(d) ==
  /\ task[d] = "fallback_load"
  /\ Goto(d, "fallback", Failed(store[d], "exception"))
  /\ UNCHANGED <<store, faults, requestVars, replicaVars>>

LoadFails(d) ==
  /\ task[d] \in {"load", "fallback_load"}
  /\ faults < MaxFaults
  /\ faults' = faults + 1
  /\ \/ task[d] = "load" /\ Escape(d)
     \/ task[d] = "fallback_load" /\ Goto(d, "ended", copy[d]) /\ UNCHANGED clock
  /\ UNCHANGED <<store, handler, owner, replicaVars>>

\* Slip: the bridge path does not save its second stage.
AfterSaveSkipping(d) ==
  CASE task[d] = "save_analyzing"   -> IF d \in Bridge THEN "context" ELSE "analyze"
    [] task[d] = "save_diagnosing"  -> "context"
    [] task[d] = "save_context"     -> "diagnose"
    [] task[d] = "save_remediating" -> "learning"
    [] task[d] = "save_learning"    -> "remediate"
    [] task[d] = "save_result" /\ copy[d].status = "failed" -> "handoff"
    [] task[d] = "fallback"         -> "ended"
    [] OTHER                        -> Exit(d)

(***************************************************************************)
(* update_activity returned.  The bridge path has nothing to wait for      *)
(* between its first two stages.                                           *)
(***************************************************************************)
AfterSave(d) ==
  CASE task[d] = "save_analyzing"   -> IF d \in Bridge THEN "save_diagnosing" ELSE "analyze"
    [] task[d] = "save_diagnosing"  -> "context"
    [] task[d] = "save_context"     -> "diagnose"
    [] task[d] = "save_remediating" -> "learning"
    [] task[d] = "save_learning"    -> "remediate"
    [] task[d] = "save_result" /\ copy[d].status = "failed" -> "handoff"
    [] task[d] = "fallback"         -> "ended"
    [] OTHER                        -> Exit(d)

Save(d) ==
  /\ task[d] \in Saves
  /\ store' = [store EXCEPT ![d] = copy[d]]
  /\ Goto(d, AfterSave(d), IF AfterSave(d) = "save_diagnosing"
                           THEN Enter(copy[d], "diagnosing")
                           ELSE copy[d])
  /\ UNCHANGED <<faults, requestVars, replicaVars>>

(***************************************************************************)
(* update_activity raised, whether or not the write was applied.           *)
(***************************************************************************)
SaveFails(d) ==
  /\ task[d] \in Saves
  /\ faults < MaxFaults
  /\ faults' = faults + 1
  /\ \/ UNCHANGED store
     \/ store' = [store EXCEPT ![d] = copy[d]]
  /\ \/ task[d] \in TrySaves /\ Raise(d) /\ UNCHANGED clock
     \/ task[d] = "save_exception" /\ d \in Bridge /\ Escape(d)
     \/ task[d] = "save_exception" /\ d \notin Bridge /\ Goto(d, "finally_raise", copy[d])
          /\ UNCHANGED clock
     \/ task[d] = "fallback" /\ Goto(d, "ended", copy[d]) /\ UNCHANGED clock
  /\ UNCHANGED <<handler, owner, replicaVars>>

-----------------------------------------------------------------------------
(* The steps of the try block: each may also raise or time out. *)

Analyze(d) ==
  /\ task[d] = "analyze"
  /\ \/ Goto(d, "save_diagnosing", Enter(copy[d], "diagnosing"))
     \/ Goto(d, "save_no_logs", Failed(copy[d], "no_logs"))
     \/ Raise(d)
  /\ UNCHANGED <<store, faults, requestVars, replicaVars>>

(***************************************************************************)
(* Workflow context, external diagnostics and learning matches; the record *)
(* is saved again when there is a learning trace to show.                  *)
(***************************************************************************)
GatherContext(d) ==
  /\ task[d] \in {"context", "learning"}
  /\ \/ task[d] = "context"  /\ \E pc \in {"save_context", "diagnose"}   : Goto(d, pc, copy[d])
     \/ task[d] = "learning" /\ \E pc \in {"save_learning", "remediate"} : Goto(d, pc, copy[d])
     \/ Raise(d)
  /\ UNCHANGED <<store, faults, requestVars, replicaVars>>

Diagnose(d) ==
  /\ task[d] = "diagnose"
  /\ \/ Goto(d, "save_remediating", Enter(copy[d], "remediating"))
     \/ Raise(d)
  /\ UNCHANGED <<store, faults, requestVars, replicaVars>>

Remediate(d) ==
  /\ task[d] = "remediate"
  /\ \/ Goto(d, "save_result", Completed(copy[d]))
     \/ Goto(d, "save_result", Unresolved(copy[d]))
     \/ Raise(d)
  /\ UNCHANGED <<store, faults, requestVars, replicaVars>>

(***************************************************************************)
(* _maybe_schedule_auto_handoff swallows every exception; what it writes   *)
(* is the subject of module ActivityDocument.                              *)
(***************************************************************************)
AutoHandoff(d) ==
  /\ task[d] = "handoff"
  /\ Goto(d, Exit(d), copy[d])
  /\ UNCHANGED <<store, faults, requestVars, replicaVars>>

(***************************************************************************)
(* The finally clause saves the in-memory record once more when the run    *)
(* called a model, on return, on an escaping exception and on              *)
(* cancellation alike; an error of that save is swallowed.                 *)
(***************************************************************************)
Finally(d) ==
  /\ task[d] \in Finallys
  /\ \/ UNCHANGED store
     \/ store' = [store EXCEPT ![d] = copy[d]]
  /\ \/ task[d] = "finally_raise" /\ Escape(d)
     \/ task[d] # "finally_raise" /\ Goto(d, "ended", copy[d]) /\ UNCHANGED clock
  /\ UNCHANGED <<faults, handler, owner, replicaVars>>

-----------------------------------------------------------------------------
(* The replica: startup recovery, graceful shutdown, crash. *)

Boot(r) ==
  /\ up[r] = "down"
  /\ up' = [up EXCEPT ![r] = "recovering"]
  /\ UNCHANGED <<store, task, copy, faults, requestVars, sweep, restarts>>

(***************************************************************************)
(* recover_stale_activities reads one page of each transient status and    *)
(* rewrites the copies it read.                                            *)
(***************************************************************************)
ReadPage(r) ==
  LET s    == TransientOrder[sweep[r].next]
      page == Newest({d \in Deliveries : store[d].status = s})
  IN  /\ up[r] = "recovering"
      /\ sweep[r].batch = NoBatch
      /\ sweep[r].next \in DOMAIN TransientOrder
      /\ sweep' = [sweep EXCEPT ![r] =
                     [next  |-> @.next + 1,
                      batch |-> [d \in Deliveries |-> IF d \in page THEN store[d] ELSE NoDoc]]]
      /\ UNCHANGED <<store, task, copy, faults, requestVars, up, restarts>>

\* Slip: the recovered record is counted but not saved.
RecoverActivityUnsaved(r, d) ==
  /\ up[r] = "recovering"
  /\ sweep[r].batch[d] # NoDoc
  /\ sweep' = [sweep EXCEPT ![r].batch[d] = NoDoc]
  /\ UNCHANGED <<store, task, copy, faults, requestVars, up, restarts>>

RecoverActivity(r, d) ==
  /\ up[r] = "recovering"
  /\ sweep[r].batch[d] # NoDoc
  /\ store' = [store EXCEPT ![d] = Failed(sweep[r].batch[d], "interrupted")]
  /\ sweep' = [sweep EXCEPT ![r].batch[d] = NoDoc]
  /\ UNCHANGED <<task, copy, faults, requestVars, up, restarts>>

FinishRecovery(r) ==
  /\ up[r] = "recovering"
  /\ sweep[r].batch = NoBatch
  /\ sweep[r].next \notin DOMAIN TransientOrder
  /\ up' = [up EXCEPT ![r] = "serving"]
  /\ sweep' = [sweep EXCEPT ![r] = NoSweep]
  /\ UNCHANGED <<store, task, copy, faults, requestVars, restarts>>

(***************************************************************************)
(* Graceful shutdown: the server lets open requests finish, then close()   *)
(* cancels the running tasks.  CancelledError is not an Exception: the     *)
(* except clauses do not see it, only the finally clause runs.  A save     *)
(* cancelled after it was applied is a Save followed by Cancel.            *)
(***************************************************************************)
BeginClose(r) ==
  /\ up[r] = "serving"
  /\ \A d \in Deliveries : owner[d] = r => handler[d] \notin InRequest
  /\ restarts < MaxRestarts
  /\ restarts' = restarts + 1
  /\ up' = [up EXCEPT ![r] = "closing"]
  /\ UNCHANGED <<store, task, copy, faults, requestVars, sweep>>

Cancel(d) ==
  /\ owner[d] \in Replicas
  /\ up[owner[d]] = "closing"
  /\ task[d] \in Running \ {"unwind"}
  /\ Goto(d, IF d \notin Bridge /\ task[d] \in TrySaves \cup TrySteps \cup {"save_exception"}
             THEN "unwind" ELSE "ended", copy[d])
  /\ UNCHANGED <<store, faults, requestVars, replicaVars>>

FinishClose(r) ==
  /\ up[r] = "closing"
  /\ \A d \in Deliveries : owner[d] = r => task[d] \notin Running
  /\ up' = [up EXCEPT ![r] = "down"]
  /\ UNCHANGED <<store, task, copy, faults, requestVars, sweep, restarts>>

(***************************************************************************)
(* The process dies with everything it held in memory.                     *)
(***************************************************************************)
Die(r) ==
  /\ up' = [up EXCEPT ![r] = "down"]
  /\ sweep' = [sweep EXCEPT ![r] = NoSweep]
  /\ handler' = [d \in Deliveries |-> IF owner[d] = r /\ handler[d] \in InRequest
                                      THEN "error" ELSE handler[d]]
  /\ task' = [d \in Deliveries |-> IF owner[d] = r /\ task[d] \in Running
                                   THEN "ended" ELSE task[d]]
  /\ UNCHANGED <<store, clock, owner, copy>>

Crash(r) ==
  /\ up[r] # "down"
  /\ restarts < MaxRestarts
  /\ restarts' = restarts + 1
  /\ Die(r)
  /\ UNCHANGED faults

(***************************************************************************)
(* A storage error during startup recovery is not caught: startup fails.   *)
(***************************************************************************)
RecoveryFails(r) ==
  /\ up[r] = "recovering"
  /\ faults < MaxFaults
  /\ faults' = faults + 1
  /\ Die(r)
  /\ UNCHANGED restarts

-----------------------------------------------------------------------------
Init ==
  /\ store = [d \in Deliveries |-> NoDoc]
  /\ clock = 0
  /\ handler = [d \in Deliveries |-> "idle"]
  /\ owner = [d \in Deliveries |-> NoReplica]
  /\ task = [d \in Deliveries |-> "none"]
  /\ copy = [d \in Deliveries |-> NoDoc]
  /\ up = [r \in Replicas |-> "down"]
  /\ sweep = [r \in Replicas |-> NoSweep]
  /\ faults = 0
  /\ restarts = 0

Request(d) == Check(d) \/ CreateActivity(d) \/ SpawnTask(d)
Task(d)    == \/ Load(d) \/ FallbackLoad(d) \/ Save(d) \/ Finally(d) \/ AutoHandoff(d)
              \/ Analyze(d) \/ GatherContext(d) \/ Diagnose(d) \/ Remediate(d)
Startup(r) == \/ Boot(r) \/ ReadPage(r) \/ FinishRecovery(r)
              \/ \E d \in Deliveries : RecoverActivity(r, d)
Fault      == \/ \E d \in Deliveries : RequestFails(d) \/ LoadFails(d) \/ SaveFails(d)
              \/ \E r \in Replicas : Crash(r) \/ RecoveryFails(r)

Next ==
  \/ \E d \in Deliveries, r \in Replicas : Receive(d, r)
  \/ \E d \in Deliveries : Request(d) \/ Task(d) \/ Cancel(d)
  \/ \E r \in Replicas : Startup(r) \/ BeginClose(r) \/ FinishClose(r)
  \/ Fault

Spec == Init /\ [][Next]_vars

(***************************************************************************)
(* The event loop runs every ready coroutine, each step of the try block   *)
(* ends or times out, the platform restarts a replica that is down, and    *)
(* close() goes through all its tasks.  Nothing obliges a delivery to      *)
(* arrive, a fault to happen or a replica to stop.                         *)
(***************************************************************************)
Fairness ==
  /\ \A d \in Deliveries : WF_vars(Request(d)) /\ WF_vars(Task(d)) /\ WF_vars(Cancel(d))
  /\ \A r \in Replicas : WF_vars(Startup(r)) /\ WF_vars(FinishClose(r))

FairSpec == Spec /\ Fairness

-----------------------------------------------------------------------------
(* Properties. *)

(* Every variable keeps its shape: records, program counters, counters. *)
TypeOK ==
  /\ store \in [Deliveries -> Doc]
  /\ clock \in Nat
  /\ handler \in [Deliveries -> HandlerPc]
  /\ owner \in [Deliveries -> Replicas \cup {NoReplica}]
  /\ task \in [Deliveries -> TaskPc]
  /\ copy \in [Deliveries -> Doc]
  /\ up \in [Replicas -> {"down", "recovering", "serving", "closing"}]
  /\ sweep \in [Replicas -> [next : 1 .. 5, batch : [Deliveries -> Doc]]]
  /\ faults \in 0 .. MaxFaults
  /\ restarts \in 0 .. MaxRestarts

Alive(d) == task[d] \in Running

(* An activity shown in flight by a serving replica is being worked on: its  *)
(* task exists or is about to.  It is what recover_stale_activities is for,  *)
(* and what a record lost between two awaits would break.                    *)
NoOrphanWhileServing ==
  \A r \in Replicas, d \in Deliveries :
    up[r] = "serving" /\ store[d].status \in Transient => Alive(d) \/ handler[d] = "spawning"

(* "completed" is only ever shown for a remediation that succeeded, and      *)
(* never together with an error text: neither the wrapper, the recovery nor  *)
(* the final re-save of a stale copy leaves a mixed record behind.           *)
CompletedMeansRemediated ==
  \A d \in Deliveries : store[d].status = "completed" =>
    store[d].result = "succeeded" /\ store[d].error = "none"

(* A run is only skipped as already processed when another record of the     *)
(* same run is stored, so no first report of a run is ever dropped.          *)
SkippedRunHasAnother ==
  \A d \in Deliveries : store[d].error = "duplicate" =>
    \E e \in Deliveries \ {d} : RunOf[e] = RunOf[d] /\ store[e] # NoDoc

(* A finished record never looks in flight again: no late save, re-save on   *)
(* cancellation, or recovery write puts a transient status back.             *)
TerminalIsFinal ==
  [][\A d \in Deliveries : store[d].status \in Terminal => store'[d].status \in Terminal]_store

(* Startup recovery only gives up on activities nobody is working on.        *)
RecoverySparesLiveRuns ==
  [][\A d \in Deliveries : store[d] # store'[d] /\ store'[d].error = "interrupted"
       => ~Alive(d)]_store

(* One run of a workflow, delivered any number of times as a first attempt,  *)
(* is processed at most once (what should_process's lookup is for).  Does    *)
(* not hold: two deliveries may both look before either has created a record.*)
RunProcessedOnce ==
  \A d, e \in Deliveries \ Bridge :
    /\ d # e /\ RunOf[d] = RunOf[e] /\ ~RerunOf[d] /\ ~RerunOf[e]
    /\ store[d] # NoDoc /\ store[e] # NoDoc
    => "skipped" \in {store[d].status, store[e].status}

(* Every activity that is in flight is eventually finished, across crashes   *)
(* and shutdowns, once they stop.                                            *)
EverySettles ==
  \A d \in Deliveries : store[d].status \in Transient ~> store[d].status \in Terminal

(* The records read as ActivityLifecycle says.                               *)
Lifecycle == INSTANCE ActivityLifecycle
               WITH Activities <- Deliveries, status <- [d \in Deliveries |-> store[d].status]

LifecycleSpec == Lifecycle!Spec

-----------------------------------------------------------------------------
(* Why a single replica is safe: the inductive invariant.  Its parts say who *)
(* may be working on what, and what a task holds in memory compared to what  *)
(* is stored.                                                                *)

(* Tasks and open requests live in a replica that is up and has recovered.   *)
WorkerIsUp(d) ==
  /\ task[d] \in Running =>
       handler[d] = "answered" /\ \E r \in Replicas : owner[d] = r /\ up[r] \in {"serving", "closing"}
  /\ handler[d] \in InRequest =>
       \E r \in Replicas : owner[d] = r /\ up[r] = "serving"

(* The record is stored at the end of the handler, before the task starts.   *)
StoredBeforeTask(d) ==
  /\ handler[d] \in {"idle"} \cup (InRequest \ {"spawning"}) => store[d] = NoDoc
  /\ handler[d] \in {"idle"} \cup InRequest => task[d] = "none"
  /\ handler[d] = "spawning" \/ task[d] = "load" => store[d].status = "pending" /\ store[d].error = "none"
  /\ task[d] = "none" => copy[d] = NoDoc

(* The stored status is the one in memory, or one legal step behind it.      *)
MayBecome(s, t) ==
  \/ s = t
  \/ s \in Transient /\ t \in {Lifecycle!StageAfter(s), "failed"}
  \/ s = "completed" /\ t = "failed"

(* The status stored and the one held in memory, by the await of the task.   *)
StagesAt(pc, stored, held) ==
  /\ stored \in Transient \cup {"completed", "failed"}
  /\ pc \in {"load", "fallback_load"} \/ MayBecome(stored, held)
  /\ pc \in TrySteps \cup {"finally"} => stored = held
  /\ pc \in {"save_analyzing", "analyze"} => held = "analyzing"
  /\ pc \in {"save_diagnosing", "context", "save_context", "diagnose"} => held = "diagnosing"
  /\ pc \in {"save_remediating", "learning", "save_learning", "remediate"} => held = "remediating"
  /\ pc \in {"save_no_logs", "handoff", "save_exception", "finally_raise", "fallback"} => held = "failed"
  /\ pc \in {"save_result", "finally"} => held \in {"completed", "failed"}
  /\ pc = "unwind" => held \in {"analyzing", "diagnosing", "remediating", "completed", "failed"}

StoreFollowsCopy(d) ==
  task[d] \in Running => StagesAt(task[d], store[d].status, copy[d].status)

(* A record carries an error only once it failed or was skipped, and is      *)
(* completed only with a success; a task never holds an interrupted one.     *)
Clean(doc) ==
  /\ doc.status \in Transient \cup {"completed"} => doc.error = "none"
  /\ doc.status = "completed" => doc.result = "succeeded"

CleanRecords(d) ==
  /\ Clean(store[d]) /\ Clean(copy[d])
  /\ task[d] \in Running => store[d].error # "interrupted" /\ copy[d].error # "interrupted"

DeliveryInv(d) == /\ WorkerIsUp(d) /\ StoredBeforeTask(d)
                  /\ StoreFollowsCopy(d) /\ CleanRecords(d)

(* What a recovering replica has read and not yet written is still what is   *)
(* stored.                                                                   *)
SweepIsCurrent(r) ==
  /\ up[r] # "recovering" => sweep[r] = NoSweep
  /\ \A d \in Deliveries : sweep[r].batch[d] # NoDoc =>
       sweep[r].batch[d] = store[d] /\ store[d].status \in Transient

(* The inductive invariant of a single replica.                              *)
SoloInv == /\ TypeOK
           /\ \A d \in Deliveries : DeliveryInv(d)
           /\ \A r \in Replicas : SweepIsCurrent(r)

-----------------------------------------------------------------------------
(* Why a skipped run has another record, for any number of replicas.         *)

(* Another delivery of d's run has a record.                                 *)
Another(d) == \E e \in Deliveries \ {d} : RunOf[e] = RunOf[d] /\ store[e] # NoDoc

(* Before the handler stores d's record nobody else knows it.                *)
UnknownBeforeStored(d) ==
  handler[d] \in {"idle"} \cup (InRequest \ {"spawning"}) =>
    /\ store[d] = NoDoc /\ task[d] = "none"
    /\ \A r \in Replicas : sweep[r].batch[d] = NoDoc

(* A task past its first read holds the record of an activity.               *)
HoldsRecord(d) ==
  task[d] \in Running \ {"load", "fallback_load"} => copy[d].status # "absent"

(* Somebody calls d a duplicate: the verdict of its request, its record, or  *)
(* a copy of it that its task or a recovery may write back.                  *)
CalledDuplicate(d) ==
  \/ handler[d] = "duplicate" \/ "duplicate" \in {store[d].error, copy[d].error}
  \/ \E r \in Replicas : sweep[r].batch[d].error = "duplicate"

DuplicateHasAnother(d) == CalledDuplicate(d) => Another(d)

SkipInv == /\ TypeOK
           /\ \A d \in Deliveries : UnknownBeforeStored(d) /\ HoldsRecord(d) /\ DuplicateHasAnother(d)

-----------------------------------------------------------------------------
(* Why nothing is orphaned while a single replica serves and storage answers.*)

(* What a recovery has still to rewrite: it has read the record, or its      *)
(* status is one of those whose page it has not asked for.                   *)
StillToRecover(r, d) ==
  \/ sweep[r].batch[d] # NoDoc
  \/ \E i \in DOMAIN TransientOrder : i >= sweep[r].next /\ TransientOrder[i] = store[d].status

(* Nothing in flight is overlooked, and a task unwinds only in a shutdown.   *)
OrphanInv ==
  /\ SoloInv
  /\ NoOrphanWhileServing
  /\ \A r \in Replicas, d \in Deliveries :
       /\ up[r] = "recovering" /\ store[d].status \in Transient => StillToRecover(r, d)
       /\ up[r] = "serving" => task[d] # "unwind"

=============================================================================
