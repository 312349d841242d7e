# Verification of analyze-project-claims

TLA+ specifications of the parts of this repository that keep state while
several agents, people and processes act on it, their TLC models, and TLAPS
proofs. `S/` stands for `src/skills/analyze-project-claims/scripts/`.

## 1. The system

A *goal* is a set of actions (work, validation, repair) with dependencies, and
a set of claims about a project that rest on one another and on evidence files.
Language-model agents carry the actions out and review the claims; the program
never runs an agent itself. It keeps a journal, decides what may be dispatched,
refuses results that no longer describe the evidence, and declares the goal
complete. Around it, the skill keeps files of its own (a map of the project's
components, records of scans, outcome receipts, policies), and talks to two
services of the owner and to GitHub.

| Component | State it keeps | Operations | Interacts through |
|---|---|---|---|
| Agent pool scheduler `S/agent_pool.py` | requests in flight, bindings, starts, finished outcomes (units), clearances, claim generations, the global-review barrier, the last file snapshot | `next`, `bind_agent`, `start_agent`, `check`, `finish`, `migrate` | one journal event per operation, under the controller's file lock |
| Controller `S/long_running_controller.py` | journal, control (active, paused, stopped), revision, plan, action states, holds, findings, repair attempts, spawn attempts | `init`, `next`, `finish`, `control`, `revise`, `authorize_plan`, `revise_plan`, `reconcile`, `spawn_attempt`, `spawn_result`, `run` | delegates the operations of a pool goal to the pool; serial mode is its own state machine |
| Claim state `S/subagent_mode.py` | dirty and supported claims | `invalidate`, `apply_review`, request construction | called by both |
| Native coordinator `S/native_agent_coordinator.py`, cleanup plan `S/agent_cleanup.py` | assignments, deliveries, harvested results, close intents | `tick` = harvest, inventory and close, assign | calls the host between journal events; replies can be lost |
| Skill quality loop `S/skill_quality_loop.py`, `S/_internal/skill_quality/` | receipts, proposals, tombstones, turns; drafts and submissions of contributions | `receive`, `claim`, `consume`, `dismiss`, Stop hook; `prepare`, `submit` | a locked JSON file and exclusive files, several sessions; GitHub |
| Update policy `S/update_policy.py` | mode, binding, suspension, next check | `prompt`, `enable`, `disable`, `maintain`, `check-now` | a non-blocking lock, the native updater |
| Managed fleet `S/managed_fleet.py`, `.github/actions/managed-skill-core/managed_skill_core.py`, maintainer intake `maintainer_service/` | a policy and a caller workflow on the default branch; the artifacts of a run | authorize, verify, guard, collect, validate, publish | jobs of a GitHub workflow, each with what earlier ones left |
| Analytics `S/installation_analytics.py`, `analytics_service/server.py` | consent and pending event; installations and events | `prompt`, `enable`, `disable`, `check_in`, `erase`; `submit`, `erase`, `purge` | HTTP |
| Problem reports `S/problem_report.py`, `reporting_service/server.py` | reporting policy, prepared reports, receipts; reports | `configure`, `prepare`, `submit`, `remote_delete`; `submit`, `update`, `delete`, `purge` | HTTP or GitHub issues |
| Component map `S/reconcile_component_map.py`, bound scan `S/_internal/evidence_bound_scan.py` | the accepted map and its archive, candidates, deltas, history, scan records and reports | `reconcile`, `accept`; `init`, `append`, `render`, `verify` | files of the project, no lock |
| Lifecycle receipt, evidence nomination | none between calls | validation and ranking of documents | files |
| Hooks, process helper, evaluation harness | none | command start, benchmarks | - |

What is hard here, and what must be right:

- **Pool.** Requests run concurrently and results return in any order. Files
  and reviewer sources change outside any lock. Correct means: requests in
  flight never overlap; nobody reviews their own work; an action starts on
  reviewed dependencies and keeps them; no dirty claim is forgotten; repairs
  stay in their budget; done work is not redone; completion is earned.
- **Coordinator.** A call to the host may be lost before or after it took
  effect. Correct means: a turn is delivered at most once, an agent being
  closed is never reused, a lost spawn is recovered and not repeated.
- **Serial controller.** A crash anywhere between dispatch, start, end and
  result; edits of the evidence and revisions of the plan meanwhile. Correct
  means: no side effect twice without the owner's word, work only on what was
  reviewed, repairs that converge, a plan that does not rewrite its past.
- **Quality loop.** Several sessions over one bounded store, picks and leases
  that go stale; a submission whose answer is lost. Correct means: no accepted
  receipt vanishes, a turn is asked once, a contribution is one issue.
- **Services.** Commands that load a policy, send, and write back what they
  loaded, with no lock; requests that are lost or arrive late. Correct means:
  consent is honoured by what is sent, an erasure stays, receipts are true.
- **Updater.** Checks of several sessions, a native update that outlives its
  process, owner commands in between. Correct means: one replacement at a time,
  under the policy on disk, and a suspension only the owner lifts.
- **Repair workflow.** Jobs run again, runners lost between effects, the issue,
  the branch and the policy changing while a run waits. Correct means: what is
  announced was validated, what is stale publishes nothing.
- **Map and records.** Unlocked commands that overlap and die between two
  writes; records read by later versions. Correct means: no accepted map is
  lost, guarded work is about the map it names, a record stays readable, a
  verification is exact.

`PROJECT.json` lists every component with its status and the hazards at the
lines where they bite.

## 2. Modules

| Module | What it is |
|---|---|
| `GoalConfig` | the validated configuration of a pool goal: constants, their assumptions, and the functions of the configuration alone (`Closure`, `Ancestors`, `Upstream`, the scopes of an action, dispatch order) |
| `AgentPool` | the scheduler: one action per operation, with the parts of the controller and of the claim state it calls |
| `ScopeLeases` | abstract specification of what in-flight requests promise: shared and exclusive leases, granted only when compatible |
| `AgentPoolHost` | `AgentPool` under a diligent and fair host, for liveness |
| `NativeCoordinator` | the coordinator: `tick` step by step, over a host and with crashes between the steps |
| `TurnLedger` | abstract specification of what it promises about turns: intended, begun once, recorded |
| `Registry` | putting into and dropping from a JSON object or a table by key |
| `SerialController` | the controller of a goal without a pool: dispatch, review, work, the `run` loop and its crashes, plan revisions |
| `QualityStore` | the bounded local store of the quality loop |
| `Contribution` | owner contributions: submitters, the exclusive submission file, the issue |
| `ReportServer`, `ProblemReports` | the report service, and (extending it) the reporter of one installation with GitHub as the other transport |
| `InstallationAnalytics` | the analytics client and its service |
| `UpdatePolicy` | the updater |
| `RepairPipeline` | the managed repair workflow and this repository's own agent maintainer |
| `ScanDraft` | what a scan draft may claim: pure definitions |
| `ComponentMap`, `ScanRecords` | (both extending `ScanDraft`) the accepted map and the commands around it; the record log, reports and verification |
| `MCAgentPool`, `MCAgentPoolHost`, `MCNativeCoordinator`, `MCSkillLoops`, `MCSkillServices` | the small instances TLC checks |
| `AgentPoolProofs`, `AgentPoolReviewProofs`, `NativeCoordinatorProofs`, `SerialControllerProofs`, `QualityLoopProofs`, `InstallationProofs`, `RepairPipelineProofs`, `MapProofs` | the TLAPS proofs |

### How AgentPool follows the code

Every operation of the pool takes the controller's lock, loads the last event
of the journal, computes and saves one new event. So each is one atomic action;
a crash between operations loses nothing, and a crash inside one leaves the old
event. What interleaves with operations is the world: `disk` and `contract`
(files and reviewer sources) change in `WorkerWrite`, `ExternalEdit` and
`ContractEdit`.

| Variable | Journal field |
|---|---|
| `pending`, `delegations`, `starts`, `units` | `pool_pending`, `delegations`, `pool_starts`, `pool_units` |
| `dirty`, `generations` | `claim_dirty`, `pool_claim_generations` |
| `supported`, `cited` | `working_claims`: those with status supported, those whose last review linked evidence |
| `clearances`, `globalReview`, `failures` | `pool_clearances`, `pool_global_review`, `review_failures` |
| `reviewedActions`, `reconciliations` | `pool_reviewed_actions`, `pool_reconciliations` |
| `status`, `holds`, `findings`, `attempts` | `actions`, `holds`, `findings`, `attempts` |
| `snapshot`, `reviewerContract` | `snapshot`, the reviewer part of the contract digest |
| `control`, `complete`, `revision`, `dispatches` | the same |

| Action | Code |
|---|---|
| `NextReview`, `NextWork`, `NextWaiting`, `NextRefused` | `next_request` with a new intent: a review, a worker request, only the observation kept, nothing kept |
| `BindAgent`, `StartAgent` | `bind_agent`, `start_agent` |
| `StaleReview`, `FailedReview`, `FinishReview`, `FinishWork` | the branches of `finish`, with `Controller._review` and `apply_review` inside |
| `Control`, `Reconcile`, `Revise` | `Controller.control`, `reconcile`, `revise` with the pool's `invalidate_external` |
| `Observe` and the `Observed...` operators | `observe`, which `next` and `finish` run first |

Abstractions. A token is the number of its dispatch. Repeating a dispatch intent
or a recorded result only reads, so it is no step. Digests are the values they
stand for. A review's answer is any answer `_review` and `apply_review` accept
(`Verdicts`, `Acceptable`), within the sets the instance offers (`Contestable`
claims it may not support, with or without evidence against them, `Holdable`
actions, `Findings`); an unacceptable
answer raises and leaves the event as it was. Request text, coverage notes,
skill receipts and the objective are left out. A revision changes the number
only: nothing in the pool depends on what the objective says.

### How NativeCoordinator follows the code

`tick` is a sequence of journal events with host calls between them, and any of
them may be the last: the process dies, or a call raises where nothing catches
it. So the model keeps the position of the tick (`pc`) and its locals (`job`,
`agent`, `todo`, `goOn`), which `Crash` loses, apart from the journal, which
stays. The guard lock admits one tick at a time; a second coordinator would
wait or fail, and is not modelled. The pool appears by what the coordinator
sees of it: which tokens are in flight, their role, whether `check` finds them
ready (`control`, `stale`). That pool is `AgentPool`, whose own properties do
not depend on who calls it.

| Variable | Where |
|---|---|
| `delegations`, `starts`, `receipts` | the journal's `delegations`, `pool_starts`, `receipts` |
| `spawns` | `spawn_attempts` of a token: none, reserved, uncertain |
| `assignments`, `deliveries`, `results`, `closes` | the sections of `native_lifecycle` |
| `status`, `bornFor`, `turns`, `produced` | the host: state of each identity, the token it was spawned for, turns begun and ended |

| Actions | Code |
|---|---|
| `Tick`, `Harvest`, `Finish` | `_harvest`: raw envelope saved, then `finish`; a rejected result ends the tick |
| `Inventory`, `CloseIntent`, `HostClose` | `_inventory` with `agent_cleanup.plan`, and `_close` |
| `StayPut`, `Resume`, `Dispatch`, `Wait` | the end of `tick` |
| `Assign`, `Recover`, `Reuse`, `Reserve`, `CheckSpawn`, `HostSpawn`, `SpawnUncertain`, `Spawned`, `Bind`, `NoIdentity` | `_assign` up to the binding, with `spawn_attempt`, `spawn_result` and `bind_agent` |
| `Release`, `Intend`, `Recheck`, `Withdraw`, `HostStart`, `Started`, `Acknowledge` | the rest of `_assign`, with `start_agent` |

A host call takes effect and is answered ("done"), takes effect and is not
answered ("lost"), or does nothing ("void"). An observation is honest but may
miss identities, and `find` may miss the identity a lost spawn created. A goal
may have been taken over from the tool-driven protocol with a turn under way
(`TakenOver`). The status of a finished agent is `completed`; `failed` and
`cancelled`, which the code treats alike, are the same value. `Retire` is the
owner finishing a bound token that never started; the model assumes it is not
done while a tick is running, as the owner cannot know what a tick is about to
start. The `thread_limit` retry of `spawn_attempt` needs evidence the
coordinator never supplies and is left out. `delegations` here are kept after a
result, as in the journal; in `AgentPool` a finished unit keeps its agent
instead.

### How SerialController follows the code

`goal` is the journal's state; every operation of the controller loads it and
saves it under the lock, so each is one step. `runner` is where the `run` loop
stands and what it holds in memory: `Crash` loses it and nothing else. The
other variables are the evidence on disk and history for the properties.

| Action | Code |
|---|---|
| `Dispatch`, `Waiting` | `next`: the evidence is observed (`Observed`, `Reopened`, `Invalidated`), a review or the first eligible action is requested, or nothing can be |
| `FinishReview`, `FailReview`, `FinishWork` | `finish` with `_review`, attempts, holds and findings (`Reviewing`), or with a work result (`Working`) |
| `RunCheck`, `RunCommand`, `RunEnded` | the steps of `run` between two journal events: `check`, the side effect, its end |
| `AgentWorks` | an agent that carries out a request by itself, outside `run` |
| `OwnerControl`, `OwnerReconcile`, `OwnerRevise` | `control`, `reconcile`, `revise` |
| `AuthorizePlan`, `RevisePlan` | `authorize_plan`, `revise_plan` with `_plan_candidate` |

The evidence is one value (what it holds, or `Missing`); a review judges that
value. The wording of requests, receipts and `status` are left out. The hash
chain of the journal is not modelled: a saved event is read back as saved.

### How QualityStore and Contribution follow the code

A receipt stands for its digest. Each operation prunes first, under the file
lock, so `Pruned` is part of every action. `consume_next` is two steps
(`PickNext`, `ConsumePicked`), as it picks under the lock and consumes under a
second acquisition of it: other sessions, and the clock, act in between.
`owed` and `asked` are history: receipts accepted and not answered, and how
often the hook asked a turn since it was last evicted.

`Contribution` has one step per effect of `submit_contribution`: look up the
submission file, claim it exclusively, write ATTEMPTING, create the issue,
finish or note the unknown outcome, register it. GitHub may create the issue
and lose the answer, a write may fail, and a submitter may stop anywhere.

### How the services follow the code

`ProblemReports`, `InstallationAnalytics`: every command is a process that
loads the policy file, perhaps sends, and writes back the copy it loaded. A
request in flight may be lost, be handled after its sender gave up, or be
handled and its answer lost. A service handler is one step, as each of its
table accesses is one transaction. Retention is a flag of a row (`old`), set by
time and acted on by `purge`. A policy an older version wrote is a possible
initial state (`LegacyPolicy`).

Two properties speak of a command that writes back what it loaded, and so need
to know what it loaded it before. Reports: `outdated` holds the processes that
have not loaded the policy since the last configure, `overwritten` becomes true
when one of them writes another mode than the chosen one, and at no other time.
Analytics: `behind` holds the clients under way as an erase ended, `sealed` the
events built before it; `revived` the erased installations that one of those
brought back (`WriteBack`, `HandleEvent`), or whose eraser
died before it wrote the policy (`ClientDies`).

`UpdatePolicy`: a check goes through `StartCheck` (the policy read without the
lock), `TakeLock` (read again), `Inspect`, `StartNative`, `NativeEnds`,
`CheckReplacement`. `Die` frees the lock as the operating system does, and
leaves a native update behind that ends by itself (`OrphanEnds`). The installed
copy is reduced to what is asked of it: whether it is listed, its source, its
eligibility, and whether files and manifest verify. `EnableUpdates`,
`DisableUpdates` take the same lock.

### How RepairPipeline follows the code

A run is a chain of jobs (prepare, with its authorization or intake, candidate,
agent, validate, publish) and a job is a chain of steps; the order is that of the two workflow
files, the guards those of `managed_skill_core.py`, `intake.py` and
`patch_guard.py`. What a job leaves for the next is in `running[r]`: the event,
the manifest, the patch. `Lost` is a runner that dies before any step, `Rerun`
GitHub's re-run of a failed run from a job on; the manifest of the earlier
attempt is then still there. Versions of the issue (`updated`) and of the
branch (`base`) are numbers. A patch is a set of kinds of paths. The repairing
agent may leave any patch. The concurrency groups let one managed run and one
maintainer run work on the issue at a time (`GroupFree`); one that has not begun
its prepare job waits. A run keeps the commit of its event (`commit`): the caller
of the managed workflow is read there, also when a job is run again, and the
maintainer checks it out, where the managed workflow takes the default branch as
it is (`Base`). Abstracted: `updated_at` counts changes of the issue, GitHub's
has a granularity of one second. Body, labels and state are compared as well
(`managed_skill_core.py:312`), so what one second can hide is a comment, or an
edit that is taken back.

### How ComponentMap and ScanRecords follow the code

A command is a process with its position, its copy of what it read, and whether
it is guarded (the `--expected-map` options). `Recheck` comes before each thing
a guarded command writes, and other commands run between it and the write. An
accept archives and then replaces in two steps. A file that holds a map is
known by the number of the command that made it, as each accepted file carries
its own time. History: `promoted`, the maps that were in force; `overrun`, the
maps that an accept replaced after it had archived another one.

In `ScanRecords` a draft is a record of claims, evidence, bindings, limitations
and a summary; `ScanDraft` says what `_normalize_input` and
`_validate_binding_invariants` ask of it. `Built` is what `append` derives,
`Persisted` what every reader derives again, by code of its own;
`RecorderCodes`, `MapCodes`, `EvidenceCodes` are the findings of `verify`, which
reads one thing after another while files, map, skill, recorder and engine may
change. A file is one value (`Selected`): its digest and what a locator selects
from it change together, so an edit outside the locator is an edit of it.
Formats, locators and the text of reports are abstracted; a report is
equal to its record's rendering or not.

## 3. Runs

| Run | What it asks |
|---|---|
| `pool_overlap` | three actions over two files and three related claims, three agents, two workers, a worker reporting an undeclared claim: types, `NoOverlap`, `LeasesKept`, `ReviewIndependence`, `DirtIsOwed` |
| `pool_drift` | producer and consumer, two outside changes of files or reviewer sources, files that vanish, contested claims, pauses: `RunningIsAssigned`, `DependenciesReviewed`, `CurrentWorkRestsOnSupport`, `CompletionIsEarned` |
| `pool_repair` | two repairs on one attempt with holds, findings, reconciliation and a revision: `RepairBudget`, `DoneIsFinal` |
| `pool_join` | two branches and their join under the fair host: `GoalCompletes` |
| `coord_crash` | three tokens and three identities, one worker: calls that do nothing, observations and `find` that miss an identity, a crash anywhere, one pause, drift or rejected result, a goal taken over: `WithinCeiling`, `OneSpawnPerToken`, `ClosedIsHarvested`, `OneTurnPerIdentity`, and `TurnsKept`, that the coordinator implements `TurnLedger` |
| `coord_calm` | the same without crashes, with lost replies and without close: `EveryTokenIsRecorded` |
| `skill_loops` | the serial controller (`NeverReplayed`, `WorkFollowsReview`, `SerialCompletion`, `RepairsConverge`, `ExecutedIsNotRewired`), the quality store (`ReceiptsAnswered`, `AskedOncePerMemory`, `ActiveProposalsSurvive`), the contributions (`IssuesAccounted`) and the repair workflow (`AnnouncedIsValidated`, `NothingStaleIsPublished`) |
| `skill_services` | problem reports (`ReceiptsNameReports`, `UnapprovedOnlyIfChosen`, `ChoiceStandsUnlessOverwritten`), analytics (`SentVersionRecorded`, `ErasedStaysErased`), the updater (`ReplacesAsChosen`, `SuspensionSticks`), the map (`MapsAreKept`, `GuardedWorkIsAboutItsMap`) and the records (`RecordsReadable`, `VerdictIsExact`) |
| `pool_stale`, `pool_barrier`, `pool_shared`, `coord_rejected` | disagreements between documents and code, below |

All runs that are expected to pass terminate with the full state space of their
bounds. The bounds of the pool:
`MaxDispatches` (the goal's own budget) is 5 or 6, enough for the opening
review, both actions, a review after each and the final review, or for a
retry in place of one of them; in `pool_join` it is 10, more than any behaviour
uses, so liveness does not hinge on it. `MaxEdits` of 2 lets a file change and
change back, or a file and the reviewer sources change. `MaxRepairCycles` of 2
with two repairs reaches the last cycle with another repair waiting.
`MaxRevisions` of 1 and `MaxRepairCycles` bound what is otherwise unbounded.
Agents and evidence contents are symmetric where no definition tells them apart, and
so are analyzers, turns, update checks and map commands.

For the coordinator, three tokens are a worker, a reviewer and one more that can
reuse an identity or find the ceiling reached (`MaxWorkers` 1, so two
identities); a token may spawn once, so three identities suffice. In
`coord_crash` a lost reply is a crash just after the call, so "lost" is not in
its `Fates`. `MaxUpsets` of 1 allows one pause, one token turning stale or one
rejected result.

The parts of `skill_loops` and of `skill_services` share no state, so they run
side by side: the variable `part` names the one a behaviour is about, the
others stay in their initial states. A property of one part is checked in every
state of that part. Deadlock is not checked in these two runs: each part stops
when its bounds are used up.

Their bounds. Serial: one work action and one repair, four dispatches (a review,
the repair, the review after it, one more), two repair cycles, one crash, edit,
pause or new objective, and one plan that adds the work action and makes the
repair depend on it. Store: three receipts in a queue of two, of which one
expires early and one reports that nothing was wrong, two analyzers, one
proposal and one tombstone, so that every limit is met and room must be made; a
clock of 2 outlasts a lease and the early receipt. Contributions: two drafts and
two submitters, who may meet on one. Repairs: a managed and a maintainer run, a
harmless, a releasing and a denied patch, two re-runs, two owner steps (enough
to change the issue and the branch, or to disable). Reports: two of the same
content, two reporters with tokens of their own, three commands. Analytics:
three clients, two of which share a token, four commands (enable, check-in,
erase and another), one upgrade. Updater: two checks, two owner commands, one
change of the installation, one death. Map: two commands at once and four in all
(bootstrap, accept, a second accept beside a guarded command), one change by
others. Records: one record over every draft of one claim and two items of
evidence (every status, role, method, source and limitation), one verification,
one change by others.

Fairness is stated for two runs, `pool_join` and `coord_calm`. `CalmSpec`
assumes that `tick` is called again and again and runs to its end, and that a turn which began ends with a result that is accepted and
its operations settle. Nobody is assumed to repair anything: an identity whose
spawn reply was lost must be found by `find`, which in this run works.
`AgentPoolHost` assumes weak fairness of the host's own steps: it asks
when it can, binds, starts and returns results (`references/subagent-host-protocol.md`
makes this the host's job), keeps one identity free for reviews, and its reviewer
supports what it is asked about and clears what it may. Nothing is assumed of
the program beyond answering a call. The world is quiet in these runs; liveness
is claimed only when evidence stops changing.

### Where the code and its documents differ

- **A stale request that was never bound is stuck** (`pool_stale`).
  `references/long-running-mode.md:74` says to finish unstarted stale work as
  `not_started`. `finish` refuses a token without a binding, `bind_agent` refuses
  a stale token, `revise` and `reconcile` refuse while anything is in flight.
- **An older global review lowers a newer barrier** (`pool_barrier`).
  `references/agent-pool.md:141` says a review cannot erase a newer unresolved
  outcome. A global review with no dirty claim to review stays current while a
  worker reports an undeclared claim and raises the barrier; recording the
  review lowers it.
- **Branches that share a dependent claim do not serialize, they stop**
  (`pool_shared`). `references/agent-pool.md:154` says they may serialize. The
  first result drops the second action's clearance, and no later review covers
  the second action's scope, so it is never cleared again.
- **One rejected result holds back the others** (`coord_rejected`). The
  docstring of `tick` (`S/native_agent_coordinator.py:247`) says it harvests all
  available results. `_harvest` saves an envelope and passes it to `finish`; when
  `finish` rejects it the tick ends with the error, and so does every later tick,
  which meets the saved envelope again, before results that come after it.

## 4. Proofs

Every invariant and action property that a run checks is also proved, for every
value of the constants. What each proof adds to the property is the point of it:
hardly any of the properties is inductive.

`AgentPoolProofs` and `AgentPoolReviewProofs` hold for every configuration that
satisfies `ConfigAssumption`, `ScopeAssumption` and `PoolAssumption`, which state
what `validate_config` and `validate` enforce and nothing about sizes.

- `TypeCorrect`: `Spec => []TypeOK`. `TypeOK` is inductive. Besides types it
  says a token is in flight or has an outcome, never both, and that requests
  refer to outcomes that exist.
- `MutualExclusion`: `Spec => []NoOverlap`. Inductive with `TypeOK`. Only the
  dispatches add to `pending`, and their guards are `Conflicts` (symmetric in
  both directions once the review gate is added) and `ReviewScopes`; a global
  review is dispatched only when nothing is in flight.
- `PoolKeepsLeases`: the pool implements `ScopeLeases`. A dispatch maps to
  `Grant` by `MutualExclusion` in the next state, a recorded result to
  `Release`, every other step leaves the leases unchanged.
- `OneWorkerPerAction`, `DependenciesHold`, `DoneForGood`: the running actions
  and the workers in flight correspond one to one, so an outcome is recorded
  only for a running action; hence a done action stays done, and the
  dependencies of work in flight, done and reviewed at dispatch, stay so.
- `WorkRestsOnSupport`: a step that dirties a claim or takes its support away
  also gives it a new generation, and generations never go back
  (`RequestsBehind`). So a request over such a claim is out of date for good.
- `ReviewsAreIndependent`: the authors of a unit are excluded by name when its
  review is dispatched; one who contributes later bumped a claim of the review
  and outdated it (`AuthorsExcluded`, `OutcomesTouchClaims`), and such a review
  is refused. No identity holds two requests (`AgentsDistinct`).
- `RepairsStayInBudget`: what was executed is what is charged, and the repairs
  in flight fit in the rest (`WithinBudget`); a dispatch keeps it as it counts
  both.
- `NoDirtForgotten`, `CompletionEarned`: rest on one `ReviewInvariant` of what a
  global review may miss. An outcome recorded beside it outdates it where they
  meet (`LateOutcomes`) and somebody else owes the dirt (`DirtBesideReview`); the
  barrier is up only over dirty claims, which no single unit review can clean
  (`BarrierIsDirty`); a done action is reviewed, or an open outcome or
  reconciliation says it is done (`DoneIsAccounted`).

`NativeCoordinatorProofs` holds for every set of identities, number of tokens and
workers, every kind of loss and observation, with or without a takeover
(`CoordinatorAssumption`).

- `CoordinatorTypeCorrect`, `OneSpawn`: none of the properties is inductive
  alone, as each depends on what the tick in progress already knows. The
  inductive `IInv` adds, for each position: whether the token is bound
  (`BindingKnown`), whether the host may have an identity for it (`SpawnKnown`:
  one exists only after a saved reservation, and none while the call is to be
  made), what its delivery marker says and whether its turn began
  (`DeliveryKnown`), and that a result needs a turn (`ResultsKnown`).
- `KeepsTurns`: the coordinator implements `TurnLedger`. `Intend`, `Withdraw`,
  `HostStart`, and `Finish` or `Retire` map to its four actions by
  `DeliveryKnown`, every other step to a stutter.
- `ClosingIsFinal`, `IdentitiesTakeTurns`: inductive with `TakenKnown`, which says
  what is true of the identity between the choice and the binding.
- `StaysWithinCeiling`: the coordinator counts the identities in its bindings,
  the property those that live at the host. At most one token is without a
  binding (`OneUnbound`), and an identity belongs to the token it was created for
  (`BirthKnown`), so they differ by the one that the tick is about; room for it is
  reserved before the host is asked and is still there when the host creates it
  (`RoomReserved`), whatever crashed or was recovered since.

`SerialControllerProofs` holds for every manifest that satisfies
`ManifestAssumption`: `validate_config` rejects unknown dependencies and cycles,
kinds and attempts are given, a repair is among the reviewed actions, and list
positions order the actions.

- `SerialTypeCorrect`: with `FlightKnown`, what the run loop knows of the request
  it holds, wherever it is between two journal events.
- `NothingIsReplayed`: `RanKnown`: an action whose side effect was begun is the one
  in flight, or has an outcome that makes it ineligible.
- `WorkIsReviewed`, `SerialCompletionEarned`: `JudgedKnown`: the clearances are of
  the evidence judged last, except while a begun action runs, whose result drops
  them.
- `RepairAttemptsConverge`: `AttemptsInv`: a repair in flight answers findings its
  attempt has not met and has a cycle left; an attempt has met no candidate
  twice, but perhaps the one that stopped it.
- `PastIsNotRewired`: `ExecutedKnown`: a revision is refused while work is in flight
  and may not touch executed actions, so what an action depended on when it began
  is what the plan says when its outcome is recorded.

Each remaining module of proofs holds for every number of processes, drafts,
runs, commands or records.

- `QualityLoopProofs`. Contributions: `Accounts` adds to `IssuesAccounted` that a
  draft has one owner (`OneOwner`: the exclusive creation of the submission
  file), what an owner knows of the file and the issue at each step
  (`OwnerKnows`), and what the file says of the issue when nobody owns it
  (`FileTells`). Store: every operation is `Careful` (a receipt leaves the queue
  because it expired, or is no longer owed; a proposal leaves only if it was
  dismissed), which gives `AcceptedReceiptsWait` and `ActiveProposalsAreKept`; a
  turn that is not remembered was not asked since it was evicted (`Remembering`),
  which gives `TurnsAreAskedOnce`. `StoreSound` adds to `WithinLimits` that the
  registries and histories are finite, so that an operation that removes and then
  adds can count what is left: an eviction either leaves room or empties the
  registry (`RoomForOne`). It also gives `StoreTypeCorrect`.
- `InstallationProofs`. Reports: `ReportsKnown` says of each command, wherever it
  was overtaken, that the policy it loaded was one a configure may leave, that
  what it is about to send may leave, and that the id it was told is in the table
  or was removed (`ReplyIsStored`: true of every answer of the server, also to a
  duplicate). `CopiesAgree`: until an outdated copy is written, the file and every
  copy loaded since the last configure have the mode it chose. From these
  `ReceiptsNameStoredReports`, `UnapprovedReportsWereChosen` and `ChoicesAreKept`.
  `ReportTypeCorrect` includes that the table has one row per principal and content.
  Analytics: every copy is `Sound` (its sent version is recorded for its
  installation, its pending event is of it), and an erased id that was
  not revived is `Quiet`: the service has no row of it (`Gone`), and once nobody
  is erasing it any more the file has forgotten it, only clients that are behind
  hold it, and only sealed events are on their way (`Over`). From these `SentVersionsAreRecorded` and `ErasuresHold`.
  Updates: whoever is past the lock holds it, so its copy of the policy is the one
  on disk (`HolderKnows`); whoever was admitted had a mode that admits it
  (`Admitted`), replaces only in auto mode (`ReplacesInAuto`), and no outcome
  clears a suspension of distrust (`StaysDistrusted`). From these
  `ReplacesOnlyAsChosen` and `SuspensionHolds`.
- `RepairPipelineProofs`: `RunSound` says of each run, also of one that failed
  and may be run again, what its earlier jobs established: a manifest no newer
  than the issue and the branch (and older, once the run is stale), a patch that
  passed the guard, a validated tree, the branch and the pull request. GitHub
  only grows. A stale manifest fails `Live`, so `NothingStaleIsPublished`; what
  is announced is on a branch that equals the validated tree, so
  `AnnouncedIsValidated`.
- `MapProofs`. The map: `Kept` says that what was in force is in force still, is
  archived, or was overrun; whoever is about to replace the map has archived
  the file it read (`ReplacerArchived`). For the
  guard, a file that was in force and was replaced never comes back (`Past`), as
  a command's number is used once; so a command that finds its map in force when
  it is about to write has had it in force since it read the project. The
  records: what `append` derives passes what readers derive
  (`BuiltIsPersisted`), for any draft and any state of the world; the codes of an
  undisturbed verification are empty exactly when the same draft could be
  appended now to the same record (`VerifierKnows`, `VerdictKnows`).

The assumptions of these modules say that the markers (`NoMap`, `NoPolicy`, ...)
are not among the values they stand beside, that bounds are numbers, and what
the code's validation establishes.

One proof did not go through because its property was false: an earlier form of
`ErasedStaysErased` allowed for a client that held the id when it was erased, but
not for one that loads it between the service's answer and the write of the
policy, and then sends under the same token. No client of the run shared a token,
so the run had not met it; now two do, and the property and its comment list all
the ways back.

A second proof failed on the type invariant of the store: a missing pair of
parentheses made "a proposal has a revision" say nothing. It is stated plainly
now, and proved (`StoreTypeCorrect`). The limits need an assumption on the
version-1 store that is migrated: it was within the limits of proposals and
revisions (`StoreAssumption`; the migration itself refuses a history over the
limit and does not count the proposals, `S/_internal/skill_quality/store.py:145`).

Model-checked only: `GoalCompletes` and `EveryTokenIsRecorded`, as liveness under
fairness is beyond the prover. The type invariants that are proved, apart from
that of the pool, and the store's `WithinLimits` are not checked again by a run:
each held when added to the invariants of one, and `QueueFullLate`, a limit that is
compared too late, violates `WithinLimits` there.

## 5. Not modelled, and the plan

Not modelled:

- `migrate` with imported outcomes, the `thread_limit` retry of a spawn, and the
  hash chain by which a damaged journal is found (`_load`, `_materialize`).
- `attempt_contract.py`, the lifecycle receipt and evidence nomination: each
  classifies or ranks one document and keeps nothing between calls.
- `doctor`, `canary`, `status`, `summary`, `diagnose` and other commands that
  only read; the two files that `managed_fleet init` writes.
- Hooks, the process helper and the evaluation harness: input and output.

Met while modelling, and no run of its own:

- A file that a worker in flight owns and somebody else edits counts as the
  worker's output, and a file that changes and changes back between two
  observations leaves no trace (`S/agent_pool.py:237`).
- A submit that loaded `auto-minimal` before the owner chose `off` writes its
  copy back when it fails (`S/problem_report.py:838`), and the next submit sends
  an unapproved report, where `docs/PROBLEM_REPORTING.md:55` has "No automatic
  sending". `ChoiceStandsUnlessOverwritten` says that this is the only way.
- An event sent before an erase and handled after it is recorded as the first of
  a new installation, as the service keeps no trace of what it deleted
  (`analytics_service/server.py:259`). `ErasedStaysErased` lists the ways back.
- When every identity has contributed to some outcome, no agent may be bound to
  the final review (`S/agent_pool.py:369`): the fair host keeps one free.
- A FAILED review clears the serial clearances but not the pool's
  (`S/long_running_controller.py:582`).
- A native update whose process died goes on, and nothing keeps the next check
  from starting another beside it (`S/update_policy.py:993`); `ReplacesAsChosen`
  speaks of live processes.
- Two first commands at once make two installation ids
  (`S/problem_report.py:247`). The same report sent under another token violates
  the primary key, and the handler dies without an answer
  (`reporting_service/server.py:188`). An erase under a rotated token answers
  "deleted" and deletes nothing.
- While an invalid `accepted-map.json` lies there, the recovery candidate cannot
  be accepted (`S/reconcile_component_map.py:961`), and a candidate made against
  an older map is accepted over a newer one (`:943`). An accept that
  replaces a map after it archived another one loses it; `MapsAreKept` says so. An unguarded `append` reads the map and its
  digest in two reads (`S/_internal/evidence_bound_scan.py:708`).
- A comment on the issue is a change of the issue: a managed run that commented
  cannot be published again by a re-run.

Next, in order:

1. An abstract specification of one side effect at a time that
   `SerialController` implements, and one of one issue per draft that
   `Contribution` implements.
2. `migrate` composed with the pool, and the journal's hash chain under damage.
