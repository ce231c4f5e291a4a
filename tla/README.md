# PipelineHealer in TLA+

PipelineHealer is a backend that is told of failed CI runs (GitHub Actions by webhook, Jenkins
by a signed bridge request), diagnoses them, tries to remediate them, and lets operators watch,
correct and delegate the work. This directory holds its formal model: what the code in
`src/backend/src` does between two awaits, what can come between them, and what still holds then.

Contents: [the system](#the-system) · [modules](#modules-and-code) · [runs](#runs) ·
[bounds](#bounds) · [fairness](#fairness) · [proofs](#proofs) · [findings](#findings) ·
[not modelled](#not-modelled) · [plan](#plan)

## The system

One FastAPI process is one asyncio event loop. Code between two awaits is atomic; at each await
any other coroutine, another replica, a cancellation or the death of the process can intervene.
What outlives a process is the database (Cosmos or Postgres): activities, handoff sessions and
their messages, learning items, settings. The deployment in `infra/main.bicep` runs 0 to 5
replicas over it.

| Component | State | Operations | What makes it right |
|---|---|---|---|
| Webhook ingress (`api/webhook.py`) | none of its own for GitHub; four replay dictionaries for Jenkins | handle a failed run, handle a bridge payload | a failure is taken in once; a failed request can be sent again |
| Pipeline workflow (`workflows/pipeline_healer.py`) | background tasks | `start`, `start_bridge_failure`, wrappers, `close`, `recover_stale_activities`, `run_backfill_sweep` | each stored activity in flight has a task; none is left after a crash |
| Orchestrator (`agents/orchestrator.py`) | the record of a run, in memory | the stages, with a save before each; `except` and `finally`; `should_process`; automatic handoff; backfill | stages in order; no mixed or resurrected record |
| Lifespan (`main.py`) | phase of the process | recovery before serving, sweep loop, close | recovery ends interrupted activities and no others |
| Activity record (`storage.py`) | one document per failure | create, read, replace | no writer undoes another's part |
| Handoff sessions (`api/dashboard.py`) | session, messages | create and deliver, callback events | the session and its stream say what happened |
| Local agent run (`agents/local_handoff.py`) | tasks, one semaphore | execute, record events, publish | at most the limit at a time; every run ends and says how |
| Remediation (`agents/remediation.py`, `tools/`) | pull requests and issues on GitHub | create, reuse, supersede, auto-merge | no duplicates; nothing merged that was not checked |
| Learning queue (`api/dashboard.py`, `tools/learning_context.py`) | queue items with counters | refresh, decide, feedback | a decision is not undone; promotion only past its gates |
| Diagnostics (`tools/gh_aw_adapter.py`, `tools/mcp_provider.py`) | per-run trace | poll ci-doctor, call MCP under a policy | a late answer does not block or get lost |
| Model access (`llm/`, `agents/base.py`) | a JSON-RPC session for Codex | request, retry, fallback | answers go to who asked |
| Settings and secrets (`settings_registry.py`, `secret_store.py`) | stored settings, cached `Settings` | update, persist, roll back | what runs is what is stored |
| Frontend, scripts, deployment | – | – | – |

How they interact: the webhook handler calls `start`, which asks `should_process`, stores a
PENDING (or SKIPPED) record and creates a task; the task walks the record through ANALYZING,
DIAGNOSING and REMEDIATING, and saves its own in-memory copy whole each time. A failed
remediation may schedule a local agent run, which writes to a session, to its messages and to
the audit of the same record. Remediation talks to GitHub request by request: it looks for the
pull request or issue of an earlier call before it makes one, and then applies the merge policy.
A successful run closes the issues its failures left. Operators and agents write to the same
records through the API, and a background loop writes to finished ones. Operators also change
settings while all of that runs, judge remediations, and decide which recurring ones become
playbooks that guide later runs. At startup a process first fails whatever it
finds in flight, then serves.

The hard parts are therefore: reads before an await that are stale after it; whole-record
writes by several writers; a save that raises though it was applied; cancellation (which
`except Exception` does not see, `finally` does); process death at any await; several replicas
with in-memory locks and startup recovery; deliveries that are repeated, and answers that come
before what they answer was stored; a GitHub request that was applied though it raised or was sent
again; several reads of a pull request that changes meanwhile. `PROJECT.json` lists each of these at its line.

## Modules and code

| Module | Models | State and actions |
|---|---|---|
| `ActivityLifecycle` | the promise of one record to its readers | `status`; `Admit`, `Advance`, `Fail`. It is abstract: nothing of how. |
| `HealingPipeline` | webhook request, workflow, orchestrator's control, lifespan | `store` is the database; `handler`, `task` are program counters, named by the await a coroutine waits at; `copy` is the record a task holds; `up`, `sweep` are a replica's lifespan and recovery. An action is what happens when an await returns, up to the next. |
| `HealingPipelineProofs` | its theorems | no state of its own, as all `...Proofs` modules: `PolicyProofs` (of `DecisionRules` and `AutoMerge`), `ActivityDocumentProofs`, `RemediationProofs`, `JenkinsReplayProofs`, `HandoffSessionProofs`, `LearningQueueProofs`, `SettingsStoreProofs` |
| `JenkinsReplay` | `_reserve_replay_keys`, `_commit_replay_keys`, `_release_replay_keys`, cleanup and trim | `notes[r]` has the four dictionaries of a replica, `pc` the request; time is explicit. |
| `HandoffSession` | `create_handoff_session`, `create_auto_local_handoff`, callbacks, the local run | `session` and `log` are stored; `create`, `callback`, `run` are program counters; `pool`, `slot` are the semaphore and who took which; `received` is what the agent behind a webhook got. `Together` says which sessions one behaviour has. |
| `ActivityDocument` | all writers of one record | `doc` is stored; `held[w]` the copy a writer has read and not yet written. A writer is a read and a write with anything between. |
| `Diagnosis` | `DiagnosisAgent`'s rules, pure | a log is the set of signs the patterns look for; a diagnosis a record with a confidence in hundredths. |
| `FixPlan` | `FixGenerators`, pure | from a diagnosis and the demo flag to the action, what it edits, and the variables it sets. |
| `DecisionRules` | `diagnose` and `remediate` up to publishing | `step` is the await; the answers of GitHub and of the model come in between, and `settings`, the dry run among them, are read at once when `remediate` begins (under Python 3.12, the Dockerfile's, `wait_for` starts no task of its own). |
| `Remediation` | publishing: `_create_pull_request`, `_create_issue`, tracking and blocked issues, linking, `close_issues_on_workflow_success`, lane upgrade | `prs`, `issues`, `branches`, `links` are what is on GitHub; `call[c]` is a call between two requests. |
| `AutoMerge` | `_maybe_auto_merge_pull_request`, `_enable_github_native_auto_merge`, `_merge_when_clean` | `pr`, `checks` are GitHub's; `call[c]` has what a round has read so far. |
| `LearningQueue` | refresh, decision and verdict on the learning queue, retrieval of playbooks | `queue`, `order` are stored; `req[o]` has what a request has read and has still to write. |
| `SettingsStore` | PATCH of settings and of secrets, load at start | `stored` and `vault` outlive the process; `live`, `used` are in it; `req` as above. |

`HealingPipeline` refines `ActivityLifecycle` (`LifecycleSpec`). `ActivityDocument` takes over
where `HealingPipeline` has only one writer: it drops exceptions and restarts and adds the other
writers. `HandoffSession` is the automatic handoff that `AutoHandoff` (in `HealingPipeline`)
and `AgentRead`/`AgentWrite` (in `ActivityDocument`) stand for. `JenkinsReplay` comes before
`CreateActivity` of a bridge delivery. `DecisionRules` EXTENDS `FixPlan`, which EXTENDS `Diagnosis`:
the three are what `HealingPipeline` has as the outcome of a diagnosis and of a remediation.
`Remediation` takes over where the plan of `DecisionRules` is published, and `AutoMerge` where
`Remediation` has a pull request; in `Remediation` an open pull request may be merged at any time.
`LearningQueue` has the verdicts that `ActivityDocument` records, and `SettingsStore` where the
settings that `DecisionRules` and `HandoffSession` see change come from.

Definitions commented as a *slip* are not used by a specification. Each is a plausible mistake
in the definition below it, with the same parameters; put in its place it breaks the property
`PROJECT.json` pairs it with, which shows that the property can fail.

Abstractions worth knowing:

* What a step of a run computes (log analysis, diagnosis, remediation) is a choice among its
  outcomes: succeed, fail with a result, raise or time out.
* A storage fault raises with or without the write having been applied. Reads return copies, as
  the databases do; `InMemoryStorage` hands out the stored object, which hides lost updates.
* `QueryLimit` is the page size of both `get_activities` callers (100). `Newest` does not break
  ties; `born` differs for all records except the rewritten one of a failed load.
* A record reduces to status, error (by kind), result and creation order, and in
  `ActivityDocument` to what each writer adds: diagnostics, audit entries, verdicts. The caps of
  30 audit entries and 20 history entries are left out.
* The agent behind a webhook is external. It is taken to report in order, one event at a time,
  and to start nothing new for a `delivery_id` it has seen.
* GitHub is external. It applies a request or does not, answers or does not, and the client
  (`github_tools._request`) sends some requests again. A listing is one answer: it is complete and
  as old as the await it was asked in.
* A body of an issue or pull request is the set of markers the code looks for in it: fingerprint,
  signature, lane and run. `mark` and `signed` say which are there.
* A log is a set of signs, one for each pattern of `diagnosis.py`, with the numbers and names the
  patterns capture; the order in which patterns are tried is kept, their text is not. Confidences
  are hundredths; `similar` activities enter as a number of matching words. The text fields of
  `error_details` hold `Names`: the words that decide something and any others, as the model may
  write what it likes. An empty one is "none".
* A playbook is its key (failure, reason, action, fix). How similar two activities are is `Pattern`.
* Of the settings registry `SettingsStore` has three: the poll interval and the wait, whose values
  depend on one another and which a load repairs when they disagree, and one that depends on nothing.
  Settings with other checks (`log_prompt_*`, and the handoff targets and default target, whose values
  are checked against one another without a repair on load) are not modelled, and nothing here says
  that what is in force satisfies those. A secret is free or fixed by the environment.
* The refresh of `LearningQueue` reads the runs in pages of `Batch` at an offset, an await for each,
  while activities are created. Where it stops, at `since` or `max_scan`, is chosen from `LookBack`.
* History variables (`crossed`, `broken`, `unready`, `met`, `native`, `merged`) record who
  overlapped with whom. No action reads them but to update them.
* GitHub's ci-doctor is external: it publishes its findings once, at any time (in
  `ActivityDocument` within the 24 hours the sweep looks back).

## Runs

The MC modules name the model values; each `.cfg` is one question.

| Run | Asks | Shows |
|---|---|---|
| `pipeline_restarts` | two deliveries of one run and a build, one restart at any await | recovery leaves nothing in flight without a task, touches nothing that has one; only true duplicates are skipped |
| `pipeline_faults` | a GitHub and a Jenkins record, two storage faults, one restart | no record is mixed or back in flight; `ActivityLifecycle` is implemented; `SoloInv`, the invariant of the proofs, holds |
| `pipeline_liveness` | the same with two restarts, no faults | every activity is finished in the end |
| `pipeline_scale_out` | two replicas | *violated:* the recovery of one fails what the other works on |
| `replay_process` | a retry of a build with a new nonce, another build under the same nonce, a third build; room for one note; a restart | one request per delivery is taken in while there is room; a failed one does not turn its retry away; expiry is exact; reservations do not leak |
| `handoff_sessions` | two local runs, or a session handed to a webhook with retries and a quick agent; a change of the limit, one storage call that raises, one restart | session and stream agree; slots are respected; no delivery is claimed without one; completed stays completed; each run gets a slot and ends |
| `document_writers` | pipeline, agent run, a handoff, a verdict, sweep | a loss needs two overlapping writers; only a handoff reopens the record; late findings are attached for good |
| `remediation_calls` | three calls for two runs that fail alike, a successful run, an upgrade and people; one request lost, resent or failing | one open pull request per run and plan, one review issue per workflow, branch and failure, unless two calls overlapped; what a call reports is of its run; issues are superseded or closed only for their reason; a link that was reported is there, but for an overlap or a longer number taken for it |
| `merge_policy` | every strategy and both protections, two pushes, two rounds, three troubles | only a head that has passed a check is merged, though the pull request, statuses and check runs are read one by one; what is well and left alone is merged before the rounds end |
| `learning_requests` | three requests, two at a time, on two playbooks, with a listing too short for both, and a scan of one or two pages with runs created between them; an empty queue, an approved item, an active one | a decision is lost, an unready playbook active, or a count wrong only when two requests crossed on the item or the listing missed it; a run is counted twice only when the pages shifted |
| `settings_requests` | three PATCHes, two at a time, a restart or a storage call that raises, what the environment fixes | what was saved is stored and in force; the poll interval stays within the wait; a cleared secret is gone; every change is told and used, but for requests that crossed or failed |
| `decision_rules` | every log of two signs, every answer of the model (none, malformed, rejected, second try), every evidence and every setting | nothing is done that confidence or settings forbid, and nothing published in a dry run; no secret is set; a Jenkins failure that may not have its pull request gets its issue; the flag shown agrees with the plan; evidence counts once |

Some of the passing properties carry the condition under which the code keeps them, and it is
part of what they say: `EnqueuedOnce` speaks of one life of one process with room for its notes;
`CompletedIsLogged` of at most one storage fault; `VerdictsCounted` of items that keep all their samples and of runs within one listing;
`SlotsRespected` of the time before the limit is changed; `ReopenedByHandoffOnly` of the time
before a handoff was written; `LocalRunSettles` excepts a storage call that raised and a restart;
`OnePRPerFingerprint`, `OneIssuePerSignature`, `ReportedLinkIsThere` and the properties of
`LearningQueue` and `SettingsStore` except requests that overlapped, and say that nothing else
breaks them, but that `ReportedLinkIsThere` also excepts a link to a longer number that was taken for
the issue's, `VerdictsCounted` an activity created between two pages of a scan, and those of
`SettingsStore` a request that ended in an error; `SignalCountsOnce` excepts a rejected payload; `MergedHeadHasPassed` asks for one
context that has passed, not for all.

`CHECK_DEADLOCK FALSE` is in every configuration: all of these systems come to rest when the
deliveries, faults and restarts they are given are used up.

## Bounds

* `MaxFaults`, `MaxRestarts`, `MaxChanges`: how often the environment interferes. Two faults
  reach the error handling of the error handling (a save that raises, whose recording raises
  too). One restart at any await reaches every kind of interrupted state; the liveness run has
  two, so that the recovery is interrupted as well.
* Deliveries: two of one run and a build; every property of the pipeline relates at most two
  records. `QueryLimit` is the code's 100 and never reached. `MaxAttempts` is 1 where the cap
  matters.
* `TTL`, `MaxSkew`, `MaxTime`, `MaxFlight`: the clock runs past the TTL after every request, in
  units of half a TTL. `MaxFlight < TTL` says that a request is shorter than the TTL (300 s and
  more), without which no bookkeeping could work. `MaxEntries = 1` stands for 10 000.
* `MaxTries = 2`: a first try and a retry. `Limits` up to 2 of the code's 4, `AgentEvents`:
  acknowledged, started, completed.
* The replay model's requests are a retry of a build, another build under a used nonce, and a
  third build: two requests that share their delivery, their nonce, or neither.
* `Together`: the two kinds of work of `HandoffSession` share only the restart, so a behaviour of
  `handoff_sessions` has the two local sessions or the remote one.
* `Remediation`: three calls, two in flight (`MaxBusy`), is the least in which two overlap and a
  third comes after; `MaxSuffix = 3` is two names that are taken and a free one, of the code's 4;
  `MaxTrouble` counts lost, resent and failing requests, cut-off calls, and acts of people.
* `AutoMerge`: two heads, two rounds, one status and one check run; more rounds repeat the second.
* `LearningQueue`: five runs of two patterns, as two is what a candidate and its sample size need;
  `Batch = 3` of the code's 100 makes a scan of the five one or two pages, so that one may shift; `LookBack`
  reaches to all runs, to all but one, and to two;
  `Page = 1` of the code's 200 against two playbooks, and `SampleSize = 2` of the code's five, so
  that an item has as many samples as it keeps, and more.
* `DecisionRules`: two signs in a log are enough for one pattern to hide another, `Signals` are no
  evidence, a little and more than the ceiling allows; settings and failures of
  requests are not bounded.

## Fairness

`FairSpec` of `HealingPipeline` is weakly fair to each request, each task, each cancellation and
each replica's startup and close. The event loop runs every ready coroutine, each step of the try
block runs under `_run_with_timeout`, storage calls end, `close` awaits its tasks, and
the platform starts a replica that is down. Nothing obliges a delivery to arrive or a fault or
restart to happen. `HandoffSession` is fair to each local run: its turn has a timeout, and
asyncio's semaphore wakes its waiters in order. `AutoMerge` is fair to each call: its requests have
a timeout and its poll sleeps a fixed time; checks, people and pushes are not made to happen. `ActivityDocument` is fair to the pipeline, the
agent run, requests that have begun, and the sweep, which comes round every ten minutes.

## Proofs

Each component's theorems are in a module of its own that EXTENDS it; `PolicyProofs` has those of
two, which share no variable (for which the specification of `DecisionRules` has names of its
own: `DecisionInit`, `DecisionNext`, `DecisionSpec`). Where TLC checks a property
on a small instance, the theorem states it of every number of requests, replicas, pages, faults and
restarts, from the named assumptions on the constants and nothing else. None of the properties is
inductive by itself; each module states the invariant that is, in named parts, and proves `Init`,
a lemma for each action or part, and the step. TLC checked each invariant before it was proved.

| Module | Theorem | States |
|---|---|---|
| `HealingPipelineProofs` | `TypeCorrect`, `SoloInvariant` | `TypeOK`, for any number of replicas; `SoloInv` |
| | `SoloTerminalIsFinal`, `SoloRecoverySparesLiveRuns`, `SoloCompletedMeansRemediated` | the three properties, for one replica |
| | `SoloImplementsLifecycle` | every step is one of `ActivityLifecycle` or a stutter |
| | `SkippedRunsHaveAnother` | `SkippedRunHasAnother`, for any number of replicas |
| | `SoloNoOrphanWhileServing` | `NoOrphanWhileServing`, for one replica and a storage that answers |
| `JenkinsReplayProofs` | `NoStaleHold`, `TurnedAwayForLiveTwin`, `DeliveryEnqueuedOnce` | `HeldByInFlight`, `IgnoredForLiveTwin`, `EnqueuedOnce` |
| `HandoffSessionProofs` | `DeliveryNotClaimed`, `CompletionIsTold`, `LimitHolds`, `CompletionStays` | `QueuedMeansReceived`, `CompletedIsLogged`, `SlotsRespected`, `CompletedStays` |
| `ActivityDocumentProofs` | `LossTakesOverlap`, `OnlyHandoffsReopen` | `LossNeedsOverlap`, `ReopenedByHandoffOnly` |
| `RemediationProofs` | `OneRequestPerFingerprint`, `OneIssueForSignature`, `LinkReportedIsThere`, `ReportedPROfRun`, `SupersededByPR`, `TrackingClosedByMerge` | the six invariants of `remediation_calls` |
| `PolicyProofs` | `DecisionsStayInBounds`, `JenkinsLeavesIssue`, `FlagAgreesWithPlan`, `EvidenceCountsOnce` | the four invariants of `decision_rules` |
| | `MergedHeadPassed` | `MergedHeadHasPassed` |
| `LearningQueueProofs` | `DecisionIsKept`, `ActiveIsReady`, `VerdictsAreCounted` | `LostDecisionNeedsRace`, `UnreadyNeedsRace`, `VerdictsCounted` |
| `SettingsStoreProofs` | `SavedStaysInForce`, `PollStaysWithinWait`, `ClearedStaysGone`, `ChangesAreTold` | `SavedIsInForce`, `PollWithinWait`, `ClearedIsGone`, `ChangeIsTold` |

Each of them also has `TypeCorrect` (`PolicyProofs` a second one, `DecisionTypeCorrect`). The
arguments, module by module:

* `HealingPipeline`. Under `Solo` (at most one replica, which is what the startup recovery presumes
  and `pipeline_scale_out` shows to be needed). That a save does not put a finished record back
  in flight depends on what the task still holds in memory, and that depends on where it is. So
  `SoloInv` says, for each delivery, `WorkerIsUp` (a running task or open request belongs to a
  replica that is up and has recovered), `StoredBeforeTask` (a task starts only after its record
  is stored, as pending), `StoreFollowsCopy` (the stored status is the one in memory or one legal
  stage behind it, which of the two depends on the await) and `CleanRecords`; and for each replica
  `SweepIsCurrent`: what a recovery has read and not yet written is what is still stored. Where
  `Solo` enters: a replica that recovers is the only one, so by `WorkerIsUp` no task runs and
  nothing changes under the sweep.
  `NoOrphanWhileServing` needs more than `Solo`: that no storage call raises and that a page holds
  every record (`Dependable`), for a fallback save that fails leaves its activity in flight, and
  recovery stops at its page. `OrphanInv` says of a recovery what it has still to do
  (`StillToRecover`: a record in flight has been read, or its status is yet to be asked for), so
  nothing in flight is left when the replica begins to serve; and from then on a task that ends by
  itself leaves a finished record (`TaskEnds`), the others being cancelled by a shutdown only.
  `SkippedRunHasAnother` needs none of these. `SkipInv` follows the word "duplicate" through every copy
  of a record (`DuplicateHasAnother`), and knows that a delivery's own record is nowhere before its
  handler stores it (`UnknownBeforeStored`), so what the check met was another one, and that
  nothing a task or a recovery writes makes a record disappear (`HoldsRecord`).
* `JenkinsReplay`. `Backed` says that every note in a dictionary is somebody's, which is why no hold
  is stale; `RoomMeansNoted` the converse, while there is room: what a request is known by is in
  the dictionaries, dated no earlier than the request. From it a second request with the
  same delivery cannot be taken in before the window is over, which is `TwinsApart`. The
  cleanup and the trim need the dates; `MaxFlight < TTL` keeps a hold from expiring in use.
* `HandoffSession`. A remote session has its creator and then its callbacks as writers
  (`RemoteInv`), a local one its creator and then its run (`LocalInv`), so what a writer is about
  to store can be told from where it is. `ToldInv` is the window between the status and the
  message: who is still to append it. `SlotInv`: all runs share one semaphore of the size
  of the limit, until the limit is changed. `CompletionStays` assumes `CompletedIsLast`: an agent
  reports nothing after completion, for the code stores any status a callback brings.
* `ActivityDocument`. `Undisturbed` ties the stage of the pipeline, the record and each copy
  together: who writes once the pipeline is through has read what it left. It holds until an
  operator's handoff is written, for which the code sets any status back.
* `Remediation`. `Basic` says what a call at each place must have, and that every pull request is on
  a branch of its run all lower numbers of which are taken. `PairsMet` records overlaps. `NoRival`
  is the core: while no call overlapped, an open pull request that a call has not found is on a
  branch the call has yet to try, where it will meet it; the likes of it are `NoTwin` for
  the review issues and `KeepsLinks` for the body that is read and written back: who has found a link
  in it, its own or a longer one, finds it again while no other call overlaps. Tracking issues are told
  by their kind, which no step changes, from the review issues that calls and successful runs list.
* `DecisionRules`. What is published depends on the diagnosis, and that on tables of patterns, so most
  of the proof is about the operators. `FirstIsInTable` (on `MinIsIn`: the least of a set of numbers is
  in it, by well-foundedness) gives the rows a text can select; from them every diagnosis the patterns
  make is a `SoundPattern`: `fixable` follows the rule of its type, and its confidence is 0.5 or more.
  `ConfidenceOnly`: correlation, history and evidence keep that. On the other side `GeneratedFits`
  says what any plan may contain, and `RuleMeansPlan` that a sound diagnosis gets a pull request
  exactly when its flag says so. `DecisionInv` takes this along the awaits: `PatternsOK`, and
  `WeighedOnce`, which says at each await whether the evidence has been weighed in yet.
  `DecisionTypeCorrect` includes that a confidence stays between 0 and 1, which `models.py:345`
  checks when a diagnosis is made and nothing when it is changed. The constants of `DecisionRules`
  are arbitrary here: any set of signs in a text, any sequence of candidates in a response, any
  confidence and words in each.
* `AutoMerge`. `SeenHasPassed`: what a call has read as a pass of its head still is one, as a context
  does not take a pass back and the merge is asked for the head that was read, not the latest.
* `LearningQueue`. `HeldOK` and `ReadOK` say that what a request holds of an item, and what it has
  read of the verdicts, is what is stored, or the item is among those that went stale to it. `PlaceOK`:
  a scan has each run it has read in the place where the run still is, so no later page has it again,
  or an activity was created since the scan began. `CountInv`: an item is counted, or a request on its
  way will count it.
* `SettingsStore`. The properties are about the system at rest, the invariant about what is owed
  until then: whatever of the process is not as it should be, some request is on its way to mend
  (`Loads`, `Mends`, `Sets`, `Brings`, `Tells`, `Uses`; the parts of `IInv` are named after what they are
  about), and what a request has read to do so is as stored or stale to it (`DocOK`, `KeyOK`).
  A restart passes all of it to the load at the start, which is alone (`BootInv`): requests
  are served after it only.

Assumptions on the constants, each what the code has by construction: names that play different
parts differ (`RequestAssumption`, `CopyAssumption`, `NoneAssumption`, `NameAssumption`), there are finitely many
requests, sessions and runs, limits and bounds are numbers above zero (`HeadAssumption`,
`SuffixAssumption`, `PageAssumption`, `BoundAssumption`), a request is shorter than the window
(`TimeAssumption`), and what is there at the start is well formed (`ScenarioAssumption`,
`StartAssumption`, `PolicyAssumption`), as are the bodies of requests and what the environment
fixes (`ChangeAssumption`, `WriteAssumption`, `EnvironmentAssumption`), and the texts, responses and
words of a decision (`LogAssumption`, `ResponseAssumption`, `KnownAssumption`). `EvidenceAssumption`: the
external sources raise a confidence or leave it (`orchestrator.py:836`, `:1006`,
`gh_aw_adapter.py:36-55`), though `models.py:387` would admit a source that lowers it; under one that
lowers it by more than a quarter `FixableMeansPR` does not hold, as a diagnosis shown as
auto-fixable then falls below the gate of 0.5 and gets a review issue. TLC evaluates all of them.

The attempts corrected the models. Two CASE expressions with overlapping guards, one in
`Remediation` and one in `Diagnosis`, leave the choice to the reader where the code takes the
first; they are IF now. Three properties said more than holds beyond the small instances:
`EnqueuedOnce` is of one replica (two do not share notes), `CompletedIsLogged` of at most one
storage fault (the second one may hit the recording of the first), and `VerdictsCounted` of
items with no more occurrences than samples (a refresh counts the verdicts of all occurrences, a
verdict counts those of the five samples).

Only model-checked: the liveness properties, `CleanIsMerged` among them (`FairSpec` and ENABLED are out
of the prover's reach). Every safety invariant and action property a run checks is a theorem. What a
recursive definition computes for all inputs cannot be proved here, as the provers do not
instantiate the induction theorems; the modules have none.

## Findings

`pipeline_scale_out` ends in a violation of what a document of the repository says; `PROJECT.json`
quotes it: the startup recovery of a second replica, which the deployment allows, gives up on
activities the first one is working on.

More properties are stated in the modules, each with the comment "does not hold". TLC shows the
counterexample when the name is added to the INVARIANTS or PROPERTIES of the configuration given.

| Property | Configuration | What the code does |
|---|---|---|
| `RunProcessedOnce` | `pipeline_restarts` | two deliveries of one run both look before either has created its activity, and both are processed |
| `AuditKept` | `document_writers` | the pipeline's last save puts back its copy of the record, without the audit entry of the handoff it has scheduled itself (CHANGELOG.md:25-26 has it on the activity) |
| `FinishedStays` | `document_writers` | a handoff of an activity in flight is written over the result stored meanwhile |
| `TrackingIsReused` | `remediation_calls` | every retry of a pull request makes another tracking issue: the lookup asks for "auto-fix tracking" in the title (`remediation.py:796`), the titles are "[PipelineHealer] Auto-fix: ..." (`:1757`); the docstring at `:786` says that the open one is found |
| `RunsAreCountedOnce` | `learning_requests` | an activity created between two pages of a refresh moves the last of one page into the next, and a run is a sample, an occurrence and a verdict twice; it can then be a candidate, and pass the gate of "at least 2 recurring successful occurrences" (features/03-settings-and-policy-controls.md:132), alone |
| `NoFailureMerged` | `merge_policy` | with clean checks required, a failed check that branch protection does not ask for does not stop the merge of what GitHub calls clean |
| `RetiredGuidesNoRun` | `learning_requests` | a refresh writes back the state of an item it read before the operator retired it |
| `EveryChangeAudited` | `settings_requests` | a PATCH of secrets that fails half way has written some of them without an audit entry |

A local run whose process stops never ends its session: without the clause on restarts
`LocalRunSettles` does not hold (API.md:574 says the executor records the outcome). Others were met
while reading and are in the models as they are:

* External evidence is weighed twice when the payload of the model is rejected:
  `_parse_diagnosis_response` falls back to a pattern diagnosis that has it already (the exception in `SignalCountsOnce`).
* The ceiling of 0.95 on weighed confidences also lowers a confidence of 1.0 that the model gave.
* Whether a pull request has a link already is asked with the substring `Closes #N`
  (`remediation.py:883`): issue 12 is reported as linked when the body closes 123 (the exception in
  `ReportedLinkIsThere`).
* The upgrade of lane markers means to skip tracking issues by the same title that none has
  (`remediation.py:1136`), which API.md:728 promises, so it gives them the markers of their lane; successful runs still leave
  them alone (`TrackingEndsByMerge`).
* A missing Python module is taken for an npm dependency when the text contains `npm` or `bun`
  anywhere, as `ubuntu` and `bundle` do (`diagnosis.py:713-722`): the pull request then edits
  `package.json`.
* A rerun is admitted beyond the cap on attempts; recovery stops at its page of 100; two replicas do
  not share replay notes; an agent quicker than the store is answered 404; a changed limit forgets
  who holds the old semaphore; of two verdicts at once one is dropped; the success of an older run
  may close the issue of a newer failure.

## Not modelled

* Regular expressions, prompts, excerpts of logs, the text of issues, pull requests and fixed files,
  parsing of findings: functions over text. The rules over what they find are in `Diagnosis`.
* The discovery of the capabilities of external diagnostics, and of the heal mode all but whether it is a demo mode.
* MCP policy, retry and circuit (`mcp_provider.py`), the JSON-RPC session of the Codex App Server,
  and retries inside model adapters: what they end in is an outcome in the other modules.
* Signature checks, allowlists, roles: stateless; a request that fails them changes nothing.
* Statistics, list endpoints, frontend: reads and presentation.
* Storage schema and initialisation, and the switch to in-memory storage in development.
* Scripts, infrastructure, charts, the demo repository: only their replica count matters here.

## Plan

Modules, most important first:

1. done: `ActivityLifecycle`, `HealingPipeline` with its proofs, `JenkinsReplay`,
   `HandoffSession`, `ActivityDocument`; `Remediation`, `AutoMerge`, `LearningQueue`,
   `SettingsStore`, `Diagnosis`, `FixPlan`, `DecisionRules`.
2. `ExternalDiagnostics`: MCP policy and retry, poll window and delays of ci-doctor.
3. `CodexSession`: the JSON-RPC stream of the Codex App Server, with a reader that waits for one
   answer among notifications and server requests, timeouts and a dying process.
4. Small ones: `BackfillCandidates` (page before filter, for the three storages),
   `DebugLogLevel` (levels saved and restored by overlapping runs).

Theorems to come: those of the modules above.
