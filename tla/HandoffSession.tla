--------------------------- MODULE HandoffSession ---------------------------
(***************************************************************************)
(* Work delegated to an agent: the stored session, the messages of its     *)
(* event stream, and who writes them.  A remote session is handed to the   *)
(* target's webhook, and the agent reports through callbacks.  A local one *)
(* is run by a background task of the backend, at most so many at a time.  *)
(*                                                                         *)
(* Every storage call is an await.  Sessions are written whole; a message  *)
(* is appended.  The agent behind a webhook is external: it is taken to    *)
(* send its events in order, each once the previous one was answered, and  *)
(* to start nothing new for a delivery_id it has seen.                     *)
(***************************************************************************)
EXTENDS Naturals, FiniteSets, Sequences

CONSTANTS
  Sessions,
  Local,        \* those that run on the backend itself
  OpenPR,       \* settings.agent_handoff_local_codex_open_pr
  MaxTries,     \* agent_handoff_max_retries + 1
  Limits,       \* values agent_handoff_local_max_concurrent is set to
  AgentEvents,  \* the events an agent reports, in order
  Together,     \* bound: the sets of sessions asked for in one behaviour
  MaxChanges,   \* bound: changes of the limit
  MaxFaults,    \* bound: storage calls of a local run that raise
  MaxRestarts   \* bound: deaths of the backend

ASSUME SessionAssumption == /\ Local \subseteq Sessions /\ IsFiniteSet(Sessions)
                            /\ OpenPR \in BOOLEAN
ASSUME TogetherAssumption == Together \subseteq SUBSET Sessions
ASSUME BoundAssumption   == /\ MaxTries \in Nat \ {0} /\ Limits \subseteq Nat \ {0} /\ Limits # {}
                            /\ MaxChanges \in Nat /\ MaxFaults \in Nat /\ MaxRestarts \in Nat
Events == {"acknowledged", "started_work", "needs_more_info", "pr_opened", "issue_commented",
           "label_applied", "workflow_rerun", "completed", "failed"}
ASSUME EventAssumption   == AgentEvents \in Seq(Events)

VARIABLES
  asked,      \* the sessions somebody asks for
  session,    \* session[s]: the stored status, or "absent"
  log,        \* log[s]: the event types of the stored messages, in order
  create,     \* create[s]: the await of the request that creates s
  draft,      \* draft[s]: the status its creator or local run holds in memory
  tries,      \* tries[s]: deliveries attempted
  received,   \* received[s]: the target has the delivery
  sent,       \* sent[s]: how many events the agent has sent
  callback,   \* callback[s]: the await of the request carrying the latest one
  run,        \* run[s]: the await of the local run and the event it records
  slot,       \* slot[s]: the semaphore the local run waits for or holds
  pool,       \* _semaphore: its number and its size
  limit,      \* the current setting
  faults, changes, restarts

createVars == <<create, tries, received>>
agentVars  == <<sent, callback>>
localVars  == <<run, slot, pool, limit, changes>>
vars == <<asked, session, log, draft, createVars, agentVars, localVars, faults, restarts>>

-----------------------------------------------------------------------------
(* HANDOFF_EVENT_STATUS; other events leave the status as it is. *)
StatusAfter(event, status) ==
  CASE event = "acknowledged"    -> "acknowledged"
    [] event = "needs_more_info" -> "waiting"
    [] event \in {"started_work", "issue_commented", "label_applied", "workflow_rerun"} -> "in_progress"
    [] event \in {"pr_opened", "completed", "failed"} -> event
    [] OTHER -> status

Remote  == Sessions \ Local
Settled == {"completed", "failed"}
AtWork  == {"working", "publishing", "upsert", "append", "audit"}
Idle    == [at |-> "none", event |-> "none"]
Writing == {"upsert", "append", "audit"}

Statuses == {"absent", "created", "queued", "acknowledged", "waiting", "in_progress",
             "pr_opened", "completed", "failed"}
Runs     == [at : {"none", "scheduled", "waiting", "ended", "lost"} \cup AtWork,
             event : Events \cup {"none"}]

TypeOK ==
  /\ asked \in SUBSET Sessions
  /\ session \in [Sessions -> Statuses] /\ draft \in [Sessions -> Statuses]
  /\ log \in [Sessions -> Seq(Events \cup {"delegated"})]
  /\ create \in [Sessions -> {"idle", "delivering", "upsert", "append", "audit", "done"}]
  /\ tries \in [Sessions -> Nat] /\ received \in [Sessions -> BOOLEAN]
  /\ sent \in [Sessions -> 0..Len(AgentEvents)]
  /\ callback \in [Sessions -> {"none", "reading", "upsert", "append"}]
  /\ run \in [Sessions -> Runs]
  /\ pool \in [number : Nat, size : Nat] /\ slot \in [Sessions -> [number : Nat, size : Nat]]
  /\ limit \in Limits
  /\ faults \in Nat /\ changes \in Nat /\ restarts \in Nat

Goto(s, await, event) == run' = [run EXCEPT ![s] = [at |-> await, event |-> event]]
Holders(sem) == {s \in Local : run[s].at \in AtWork /\ slot[s] = sem}

-----------------------------------------------------------------------------
(* create_handoff_session and create_auto_local_handoff. *)

(***************************************************************************)
(* A remote session is delivered, or fails for want of a URL, or is only   *)
(* recorded (copy-only mode, or nothing to send).                          *)
(***************************************************************************)
Request(s) ==
  /\ create[s] = "idle" /\ s \in asked
  /\ \/ /\ s \in Local
        /\ create' = [create EXCEPT ![s] = "upsert"]
        /\ draft' = [draft EXCEPT ![s] = "queued"]
     \/ /\ s \in Remote
        /\ create' = [create EXCEPT ![s] = "delivering"]
        /\ UNCHANGED draft
     \/ /\ s \in Remote
        /\ create' = [create EXCEPT ![s] = "upsert"]
        /\ draft' \in {draft, [draft EXCEPT ![s] = "failed"]}
  /\ UNCHANGED <<asked, session, log, tries, received, agentVars, localVars, faults, restarts>>

(* Slip: when the last try fails too, the session counts as delivered. *)
DeliverGivingUp(s) ==
  /\ create[s] = "delivering"
  /\ tries' = [tries EXCEPT ![s] = @ + 1]
  /\ \E got \in BOOLEAN, answer \in {"ok", "refused", "retry"} :
       /\ answer = "ok" => got
       /\ received' = [received EXCEPT ![s] = @ \/ got]
       /\ IF answer = "retry" /\ tries'[s] < MaxTries
          THEN UNCHANGED <<create, draft>>
          ELSE /\ create' = [create EXCEPT ![s] = "upsert"]
               /\ draft' = [draft EXCEPT ![s] = IF answer = "refused" THEN "failed" ELSE "queued"]
  /\ UNCHANGED <<asked, session, log, agentVars, localVars, faults, restarts>>

(***************************************************************************)
(* _deliver_handoff_webhook, one try: a request error or a 5xx answer is   *)
(* retried while tries are left, whether or not the target got the request;*)
(* a 4xx answer is final.                                                  *)
(***************************************************************************)
Deliver(s) ==
  /\ create[s] = "delivering"
  /\ tries' = [tries EXCEPT ![s] = @ + 1]
  /\ \E got \in BOOLEAN, answer \in {"ok", "refused", "retry"} :
       /\ answer = "ok" => got
       /\ received' = [received EXCEPT ![s] = @ \/ got]
       /\ IF answer = "retry" /\ tries'[s] < MaxTries
          THEN UNCHANGED <<create, draft>>
          ELSE /\ create' = [create EXCEPT ![s] = "upsert"]
               /\ draft' = [draft EXCEPT ![s] = IF answer = "ok" THEN "queued" ELSE "failed"]
  /\ UNCHANGED <<asked, session, log, agentVars, localVars, faults, restarts>>

StoreSession(s) ==
  /\ create[s] = "upsert"
  /\ session' = [session EXCEPT ![s] = draft[s]]
  /\ create' = [create EXCEPT ![s] = "append"]
  /\ UNCHANGED <<asked, log, draft, tries, received, agentVars, localVars, faults, restarts>>

StoreDelegated(s) ==
  /\ create[s] = "append"
  /\ log' = [log EXCEPT ![s] = Append(@, "delegated")]
  /\ create' = [create EXCEPT ![s] = "audit"]
  /\ UNCHANGED <<asked, session, draft, tries, received, agentVars, localVars, faults, restarts>>

(***************************************************************************)
(* The audit entry goes to the activity (module ActivityDocument).  Then a *)
(* local session gets its task.                                            *)
(***************************************************************************)
Schedule(s) ==
  /\ create[s] = "audit"
  /\ create' = [create EXCEPT ![s] = "done"]
  /\ IF s \in Local THEN Goto(s, "scheduled", "none") ELSE UNCHANGED run
  /\ UNCHANGED <<asked, session, log, draft, tries, received, agentVars, slot, pool, limit,
                 changes, faults, restarts>>

-----------------------------------------------------------------------------
(* The agent behind the webhook, and record_handoff_session_event. *)

AgentReports(s) ==
  /\ received[s]
  /\ callback[s] = "none"
  /\ sent[s] < Len(AgentEvents)
  /\ sent' = [sent EXCEPT ![s] = @ + 1]
  /\ callback' = [callback EXCEPT ![s] = "reading"]
  /\ UNCHANGED <<asked, session, log, draft, createVars, localVars, faults, restarts>>

(* Slip: a session that is not stored is made up. *)
ReadSessionAlways(s) ==
  /\ callback[s] = "reading"
  /\ callback' = [callback EXCEPT ![s] = "upsert"]
  /\ UNCHANGED <<asked, session, log, sent, draft, createVars, localVars, faults, restarts>>

(* A session that is not stored is answered with 404. *)
ReadSession(s) ==
  /\ callback[s] = "reading"
  /\ callback' = [callback EXCEPT ![s] = IF session[s] = "absent" THEN "none" ELSE "upsert"]
  /\ UNCHANGED <<asked, session, log, sent, draft, createVars, localVars, faults, restarts>>

StoreEvent(s) ==
  /\ callback[s] = "upsert"
  /\ session' = [session EXCEPT ![s] = StatusAfter(AgentEvents[sent[s]], @)]
  /\ callback' = [callback EXCEPT ![s] = "append"]
  /\ UNCHANGED <<asked, log, sent, draft, createVars, localVars, faults, restarts>>

AppendEvent(s) ==
  /\ callback[s] = "append"
  /\ log' = [log EXCEPT ![s] = Append(@, AgentEvents[sent[s]])]
  /\ callback' = [callback EXCEPT ![s] = "none"]
  /\ UNCHANGED <<asked, session, sent, draft, createVars, localVars, faults, restarts>>

-----------------------------------------------------------------------------
(* execute_local_codex_handoff. *)

(* Slip: a changed limit resizes nothing, the task makes its own semaphore. *)
TakeOwnSemaphore(s) ==
  /\ run[s].at = "scheduled"
  /\ pool' = [number |-> pool.number + 1, size |-> limit]
  /\ slot' = [slot EXCEPT ![s] = pool']
  /\ Goto(s, "waiting", "none")
  /\ UNCHANGED <<asked, session, log, draft, createVars, agentVars, limit, changes, faults, restarts>>

(***************************************************************************)
(* The task begins: _get_semaphore makes a new semaphore when the limit is *)
(* no longer the size of the one there is.                                 *)
(***************************************************************************)
TakeSemaphore(s) ==
  /\ run[s].at = "scheduled"
  /\ pool' = IF pool.size = limit THEN pool ELSE [number |-> pool.number + 1, size |-> limit]
  /\ slot' = [slot EXCEPT ![s] = pool']
  /\ Goto(s, "waiting", "none")
  /\ UNCHANGED <<asked, session, log, draft, createVars, agentVars, limit, changes, faults, restarts>>

(***************************************************************************)
(* _record_event sets the status in memory, then stores the session, the   *)
(* message and the audit entry.                                            *)
(***************************************************************************)
Record(s, event) ==
  /\ Goto(s, "upsert", event)
  /\ draft' = [draft EXCEPT ![s] = StatusAfter(event, @)]

(* The work starts, or is refused: the transport is a setting, and may no  *)
(* longer support a local workspace.                                       *)
Acquire(s) ==
  /\ run[s].at = "waiting"
  /\ Cardinality(Holders(slot[s])) < slot[s].size
  /\ Record(s, "started_work") \/ Record(s, "failed")
  /\ UNCHANGED <<asked, session, log, createVars, agentVars, slot, pool, limit, changes, faults, restarts>>

WriteSession(s) ==
  /\ run[s].at = "upsert"
  /\ session' = [session EXCEPT ![s] = draft[s]]
  /\ Goto(s, "append", run[s].event)
  /\ UNCHANGED <<asked, log, draft, createVars, agentVars, slot, pool, limit, changes, faults, restarts>>

WriteMessage(s) ==
  /\ run[s].at = "append"
  /\ log' = [log EXCEPT ![s] = Append(@, run[s].event)]
  /\ Goto(s, "audit", run[s].event)
  /\ UNCHANGED <<asked, session, draft, createVars, agentVars, slot, pool, limit, changes, faults, restarts>>

WriteAudit(s) ==
  /\ run[s].at = "audit"
  /\ \/ run[s].event = "started_work" /\ Goto(s, "working", "none") /\ UNCHANGED draft
     \/ run[s].event = "pr_opened"    /\ Record(s, "completed")
     \/ run[s].event \in Settled     /\ Goto(s, "ended", "none")   /\ UNCHANGED draft
  /\ UNCHANGED <<asked, session, log, createVars, agentVars, slot, pool, limit, changes, faults, restarts>>

(* Slip: an error of any recording is suppressed. *)
WriteFailsQuietly(s) ==
  /\ run[s].at \in Writing
  /\ faults < MaxFaults
  /\ faults' = faults + 1
  /\ Goto(s, "ended", "none")
  /\ UNCHANGED <<asked, session, log, draft, createVars, agentVars, slot, pool, limit, changes, restarts>>

(***************************************************************************)
(* A storage call raises, whether or not the write was applied: the run is *)
(* recorded as failed, and an error of that recording is suppressed.       *)
(***************************************************************************)
WriteFails(s) ==
  /\ run[s].at \in Writing
  /\ faults < MaxFaults
  /\ faults' = faults + 1
  /\ \/ UNCHANGED <<session, log>>
     \/ run[s].at = "upsert" /\ session' = [session EXCEPT ![s] = draft[s]] /\ UNCHANGED log
     \/ run[s].at = "append" /\ log' = [log EXCEPT ![s] = Append(@, run[s].event)] /\ UNCHANGED session
  /\ \/ run[s].event # "failed" /\ Record(s, "failed")
     \/ run[s].event = "failed" /\ Goto(s, "ended", "none") /\ UNCHANGED draft
  /\ UNCHANGED <<asked, createVars, agentVars, slot, pool, limit, changes, restarts>>

(* Slip: a turn that raised leaves the run where it is. *)
WorkStuck(s) ==
  /\ run[s].at = "working"
  /\ \/ OpenPR /\ Goto(s, "publishing", "none") /\ UNCHANGED draft
     \/ Goto(s, "ended", "none") /\ UNCHANGED draft
  /\ UNCHANGED <<asked, session, log, createVars, agentVars, slot, pool, limit, changes, faults, restarts>>

(***************************************************************************)
(* Cloning, the agent's turn and collecting what it changed; each may      *)
(* raise or time out.                                                      *)
(***************************************************************************)
Work(s) ==
  /\ run[s].at = "working"
  /\ \/ OpenPR /\ Goto(s, "publishing", "none") /\ UNCHANGED draft
     \/ Record(s, "completed")
     \/ Record(s, "failed")
  /\ UNCHANGED <<asked, session, log, createVars, agentVars, slot, pool, limit, changes, faults, restarts>>

(* _publish_changes returns the URL of the pull request, or raises. *)
Publish(s) ==
  /\ run[s].at = "publishing"
  /\ Record(s, "pr_opened") \/ Record(s, "failed")
  /\ UNCHANGED <<asked, session, log, createVars, agentVars, slot, pool, limit, changes, faults, restarts>>

-----------------------------------------------------------------------------
(* An operator saves another limit in Settings. *)
ChangeLimit ==
  /\ changes < MaxChanges
  /\ changes' = changes + 1
  /\ limit' \in Limits \ {limit}
  /\ UNCHANGED <<asked, session, log, draft, createVars, agentVars, run, slot, pool, faults, restarts>>

(***************************************************************************)
(* The backend dies or shuts down: requests, callbacks and local runs are  *)
(* gone, and nothing looks for their sessions at startup.                  *)
(***************************************************************************)
Restart ==
  /\ restarts < MaxRestarts
  /\ restarts' = restarts + 1
  /\ create' = [s \in Sessions |-> IF create[s] = "idle" THEN "idle" ELSE "done"]
  /\ callback' = [s \in Sessions |-> "none"]
  /\ run' = [s \in Sessions |-> IF run[s].at \in {"none", "ended"} THEN run[s] ELSE [Idle EXCEPT !.at = "lost"]]
  /\ pool' = [number |-> pool.number + 1, size |-> 0]
  /\ UNCHANGED <<asked, session, log, draft, tries, received, sent, slot, limit, faults, changes>>

Init ==
  /\ asked \in Together
  /\ session = [s \in Sessions |-> "absent"]
  /\ log = [s \in Sessions |-> <<>>]
  /\ create = [s \in Sessions |-> "idle"]
  /\ draft = [s \in Sessions |-> "created"]
  /\ tries = [s \in Sessions |-> 0]
  /\ received = [s \in Sessions |-> FALSE]
  /\ sent = [s \in Sessions |-> 0]
  /\ callback = [s \in Sessions |-> "none"]
  /\ run = [s \in Sessions |-> Idle]
  /\ pool = [number |-> 0, size |-> 0]
  /\ slot = [s \in Sessions |-> pool]
  /\ limit \in Limits
  /\ faults = 0 /\ changes = 0 /\ restarts = 0

Creation(s) == Request(s) \/ Deliver(s) \/ StoreSession(s) \/ StoreDelegated(s) \/ Schedule(s)
Reporting(s) == AgentReports(s) \/ ReadSession(s) \/ StoreEvent(s) \/ AppendEvent(s)
LocalRun(s) == \/ TakeSemaphore(s) \/ Acquire(s) \/ Work(s) \/ Publish(s)
               \/ WriteSession(s) \/ WriteMessage(s) \/ WriteAudit(s)

Next ==
  \/ \E s \in Sessions : Creation(s) \/ Reporting(s) \/ LocalRun(s) \/ WriteFails(s)
  \/ ChangeLimit
  \/ Restart

Spec == Init /\ [][Next]_vars

(***************************************************************************)
(* The event loop runs what is ready, and the agent's turn is bounded by   *)
(* its timeout.                                                            *)
(***************************************************************************)
FairSpec == Spec /\ \A s \in Sessions : WF_vars(LocalRun(s))

-----------------------------------------------------------------------------
(* Properties. *)

Told(s) == {log[s][i] : i \in DOMAIN log[s]}

(* A local run that ended with its session completed has said so in the      *)
(* event stream, though any one of its writes may have failed half way.      *)
CompletedIsLogged ==
  \A s \in Local : faults <= 1 /\ run[s].at = "ended" /\ session[s] = "completed" =>
    "completed" \in Told(s)

(* No more local runs at a time than the setting allows, as long as it is    *)
(* left alone: after a change the holders of the old semaphore do not count. *)
SlotsRespected ==
  changes = 0 => Cardinality({s \in Local : run[s].at \in AtWork}) <= limit

(* A remote session is shown as queued only when its target has it: running  *)
(* out of tries is never taken for a delivery.                               *)
QueuedMeansReceived ==
  \A s \in Remote : session[s] = "queued" => received[s]

(* A session its agent reported as completed stays so: neither the write of  *)
(* the creating request nor an earlier event comes after it.                 *)
CompletedStays ==
  [][\A s \in Remote : session[s] = "completed" => session'[s] = "completed"]_session

(* A local session that was scheduled comes to an end, whatever happens to   *)
(* the limit while it waits, unless a storage call raises (the recording of  *)
(* a failure may itself fail, and is then given up) or the process dies: the *)
(* task dies with it, and nothing looks for its session at startup.          *)
LocalRunSettles ==
  \A s \in Local : run[s].at = "scheduled" ~> session[s] \in Settled \/ faults > 0 \/ restarts > 0
=============================================================================
