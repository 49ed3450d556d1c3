# CIC ingestion: TLA+ models, checks and proofs

This directory holds TLA+ modules that model this repository (the ingestion path,
its queues and resilience layer, governance, and the services around them), TLC
configurations that check them on small instances, and theorems that TLAPS checks
for every value of the constants. `PROJECT.json` maps every definition to the
source lines it stands for. Paths below are relative to the repository's `src/`
directory.

## 1. Inventory

The ingestion path.

| Component | State | Operations | What is hard | What makes it correct | Model |
|---|---|---|---|---|---|
| Ingestion manifest (`ingestion/ingestionManifest.ts`, `quarantineReview.ts`, `pruneManifest.ts`, `repairManifest.ts`) | manifest, lock, temp, archive and backup files | recordIngestion, approve, reject, prune, repair | several OS processes, lock file, torn writes, failed rewrites, crashes | mutual exclusion, no record lost, snapshot fresh at the rewrite, calls end | `IngestionManifest`, refining `ManifestLog` |
| Six-rules repair (`repairManifest.SixRules.ts`) | count and verdict of a repair | count, repair, judge | the count takes no lock | a verdict is of the repair it names | `RepairSixRules` |
| Daemons (`ingestion/daemon.ts`, `daemon-routing.ts`) | processed keys, quarantined ids, timer; session log and DLQ on disk | start, stop, runCycle | cycles overlap (setInterval), early marks, swallowed write errors, restarts | an entry marked as processed is somewhere, dead-lettered once, parked in the end | `IngestionDaemon` |
| Control state (`server/cicStateStore.ts`) | one JSON file: playbooks, violations, freezes, lockdown | load, save, seven mutators | load-modify-save across awaits, unlink before rename | orders and penalties survive | `CicState`, `IngestionDaemon` |
| Docs job (`ingestion/jobs/docsManagerJob.ts`) | mark of the last event; the given state | run: choose files, read, apply, save | index and segments of another program, mark saved after the events | an event counts once | `IngestionDaemon`, `DocsManagerJob` |
| DLQ replayer (`ingestion/dlqReplayer.ts`) | DLQ file and its rotations | rotate, replay, rewrite | a second process writing the daemon's file | the rewrite keeps entries (it does not) | `IngestionDaemon` |
| Orchestrator and queue (`orchestrator/IngestionOrchestrator.ts`, `queue/`) | queue, DLQ, processedRecords, active runs | run, enqueue, dequeue, push, recover, clear | overlapping runs, timeouts, limits | outcomes bounded by overlap; reported = findable; runs end | `IngestionPipeline` |
| Resilience (`resilience/`) | breaker, token bucket, provider health, timers | execute, executeWithAsyncRateLimit, addFallbackProvider, reset | late results, timers, resets with calls in flight, live list | open exactly while a timer runs; calls end, the breaker recovers | `CircuitBreaker`, `FallbackChain`, `Hardening` |

Governance.

| Component | State | Operations | What is hard | What makes it correct | Model |
|---|---|---|---|---|---|
| Cohort engines (`governance/multi-cohort-engine.ts`, `custom-metrics-engine.ts`, `cohort-promotion-engine.ts`, lineage) | assignments, progressions, observations, decisions | assign, progress, observe, decide, roll back | engines know nothing of each other; calls in any order | progressions chain, a cohort is decided on once and rolled back for good, a lineage breaks only by progress | `CohortRollout`, refining `RolloutPromise` |
| Rollout pipeline (`multi-cohort-rollout-pipeline.ts`, `snapshot-capture.ts`, phase 4 engines) | states of proposals, two logs, snapshots | propose, canary, convert, allocate, decide, capture | nothing orders the phases | what is kept of a proposal is what its logs hold | `RolloutPipeline` |
| Envelopes (`GovernanceEnvelopeCache.ts`) | cache over a table | load, refresh, upsert, clear | queries in flight, queries that throw although the database runs them | a stale entry has a cause | `EnvelopeCache` |
| Rollback (`rollback-executor.ts`, `rollback/`) | steps executed and current deployment, shared by all calls; local stores, etcd, Unleash | resolve, execute, restore, health gate | overlapping calls, partial failure, lost answers, cycles; target ids and store names are the callers' choice, so deployments may share them | a success is true; the gate lets nothing else pass; dependencies first | `Rollback` |
| MAAL (`core/maal/`) | telemetry, cohort, history | parse, validate, review, canary, controller | a refusal does not stop a flow; each decision may bring another config | which proposals have telemetry; how fast a cohort grows under a config | `Maal` |

The services around them; they share no state with each other.

| Component | State | Operations | What is hard | What makes it correct | Model |
|---|---|---|---|---|---|
| Task policies (`autonomy/TaskMetadataStore.ts`, `ExecutionPolicy*.ts`) | contexts, the current one, records | start, end, check a call | one current context for all tasks | a task is governed by its own policy | `TaskPolicy` |
| Fire drills (`autonomy/FireDrillManager.ts` and harness) | list of results, mode of the mock | run, schedule | overlapping runs empty and fill one list | every report covers the drills | `FireDrills` |
| Drift and healing (`autonomy/`) | events, vectors, plan, report | correlate, heal, resume, stitch | vectors are merged; severity may be hidden | hard drift never resumes; reports do not contradict themselves | `DriftHealing`, `TelemetryStitcher` |
| Aperture (`aperture/`) | policies, counts, sandboxes, TMPDIR | execute, approve, reset, load | checks before awaits, timed-out attempts that go on, `cleanupAll` under calls, process-wide TMPDIR | overrun bounded, sandboxes cleaned, TMPDIR nests | `Aperture`, `SandboxEnv` |
| FamilySearch (`adapters/familysearch/`) | person, ledger, plan; token | plan, apply, request, refresh | lost answers, two terminals, edits by others, one-time refresh tokens | nothing posted or spent twice | `WritePlan`, `WriteApply`, `FamilySearchClient` |
| Browser ingestion (`extractors/browser/`, `sweeper/`) | browser, pages, dead-letter list | ingest, launch, retry, clean up | launch behind an await; cleanups under visits and under each other | visits and leftovers accounted for | `BrowserIngest` |
| Warm pool (`services/WarmPoolManager.ts`) | entries, builds in flight | hydrate, execute, invalidate, sweep | entries added after awaits | growth bounded between sweeps | `WarmPool` |
| Webhook (`webhooks/SLOViolationWebhook.ts`) | queue, loop flag | emit, post, retry | an event pushed as the loop ends | every event served, in order | `SloWebhook` |
| Drift batcher (`batch/driftBatcher.ts`) | queue, timer | request, flush | timers of earlier batches | the timer is that of the oldest request | `DriftBatcher` |
| Model router (`core/modelRouter.ts`, `modelRegistry.ts`, `providers/`) | registry | callModel | registry kept before it is full; formats of answers | which answers reach a caller | `ModelRouter` |

Not modelled, with reasons in section 6: router and operator overrides;
observability, metrics and learning; configuration, schemas and validation; SQL.

How they interact. A producer appends to `client_sessions.jsonl`; a daemon cycle
reads it, sends each entry to a lane, writes failures to the DLQ file, runs the
docs job and saves the control state. The operator changes the same control
state and runs the review, prune and repair commands as processes of their own;
the six-rules repair wraps one of them; the DLQ replayer is another process. The
manifest is called by the routing side for each record. The orchestrator is in
memory: callers hand it records, a consumer takes jobs from its queue. Provider
calls go through the hardening orchestrator, which composes limiter, breaker,
retry and chain. The governance engines are handed each other's results by their
callers.

Facts met while reading, which shape the models. `clientSessionExtractor` returns
no `id`, `source` or `payload`, so `verifyIngestionEntry` refuses every entry:
the fast lane ends in the DLQ and the replayer recovers nothing. Failures of the deep
lane are kept in memory only. Docs events other than drift throw in the daemon, because
the default state lacks the lists they touch, and a later mark passes over them.

## 2. Modules

* **`ManifestLog`**: what the manifest promises: a log that grows at its end and
  from which lines leave to the archive, or because they do not parse.
* **`IngestionManifest`**: processes that call record/approve/reject/prune/repair,
  one action per file operation, with the lock protocol (`AcquireLock`,
  `LockBusy`, `LockTimeout`, `ReleaseLock`), a temp file, torn appends, failed
  rewrites and crashes (`Faults` says which). `written`, `appends`, `failed` are
  history variables. `ManifestLog` is instantiated with the lines the
  manifest stands for while it is rewritten (`Live`).
* **`CicState`**: the control state and its mutators as operators.
* **`IngestionDaemon`**: the process of either daemon (`routing` tells which), its
  overlapping cycles, the session log, DLQ and rotations, the docs job, the
  operator, the replayer. `mishap`, `ordered`, `stale`, `overlap` are history variables.
* **`CircuitBreaker`**, **`FallbackChain`**: the two state machines, with the calls
  in flight; each has its own specification. **`Hardening`** composes them with the
  token bucket and the retries: its actions conjoin theirs.
* **`IngestionPipeline`**: the runs of the orchestrator with queue and DLQ;
  `enqueued`, `dead`, `peak`, `left` are history variables.
* **`CohortRollout`**, **`RolloutPipeline`**, **`EnvelopeCache`**, **`Rollback`**,
  **`Maal`**: governance. `MCGovernance` puts them side by side. `overlapped`, `adrift` and
  `undropped` (envelopes), `alone` and `begun` (rollbacks) and `latest` (the last config of the
  controller and how often the cohort has grown under it) are history variables. **`RolloutPromise`** is
  what the cohort engines promise together: where each member of a rollout is and has been,
  and what became of each cohort. `CohortRollout` implements it (`KeepsPromise`): a journey is
  an assignment with the progressions of it, a fate the last decision of the list. In `Rollback`, `Resolve`
  is the code's topological sort and `Reachable` its reference: the recorded targets from
  which dependencies do not lead on without end. A step of its log keeps whose target it was
  of, but the code sees only the id (`Id`): `Names` says when a run takes a step for its own.
  Local stores go by name (`Stores`), and both may be shared by deployments.
* **`TaskPolicy`**, **`FireDrills`**, **`DriftHealing`** (extended by
  **`TelemetryStitcher`**, which reports on its state), **`Aperture`**, **`SandboxEnv`**,
  **`WritePlan`** (the plan as operators, extended by **`WriteApply`**, the terminals
  that carry it out), **`FamilySearchClient`**, **`BrowserIngest`**, **`WarmPool`**,
  **`SloWebhook`**, **`DriftBatcher`**, **`ModelRouter`**, **`DocsManagerJob`**,
  **`RepairSixRules`**: the services and the two parts of the ingestion path that are
  looked at by themselves. `MCServices` puts them side by side. **`Places`** is what `filter`
  keeps of a list, by places and ranks, which unlike `SelectSeq` can be proved about.
* **`MC...`** give constants their values. **`...Proofs`** hold the theorems:
  `IngestionManifestProofs`, `IngestionDaemonProofs`, `IngestionPipelineProofs` and
  `HardeningProofs` those of one system each; `GovernanceProofs` (cohorts, rollout pipeline,
  envelopes, rollback, MAAL), `AutonomyProofs` (Aperture, its sandboxes, task policies, fire
  drills, drift with the stitcher) and `ServicesProofs` (batcher, warm pool, six-rules repair,
  webhook, browser, model router, FamilySearch, docs job) those of several, which share no
  state; `SequenceProofs` the lemmas about sequences, and about recursion over numbers, that
  these need.

`MCGovernance` and `MCServices` have a variable `part`: a behaviour is about one of
the modules, the others keep their initial state. The modules share no variable because
the parts share no state in the code; one run then checks each and not their product.

Operators whose comment begins with "Slip:" are plausible wrong versions of the
definition they stand before. Nothing uses them; putting one in the place of the
real one shows that a property notices (`mutants` in `PROJECT.json`).

## 3. Runs

| Run | Shows | Bounds, and why they are enough |
|---|---|---|
| `manifest_faultfree` | the manifest implements the log, so no record is lost | two processes, three calls that append, one tick of the clock past the retention: every pair of operations overlaps, and a prune finds expired and fresh lines |
| `manifest_faults` | exclusion, fresh snapshots, bounded loss, calls end | as above with two calls, and with failing and torn writes and crashes at each step |
| `manifest_review` | **violated**: an approval does not clear the quarantine | |
| `daemon_entries` | entries are accounted for, dead-lettered once, parked in the end | two cycles, two lines (equal keys too), a run of the replayer, one mishap: overlaps and the rotation of a day happen |
| `daemon_state` | orders of the operator and penalties are kept | two cycles, one line, two docs events, one request, one mishap |
| `dlq_rewrite` | **violated**: the rewrite of the DLQ loses what was appended since the read | |
| `hardening` | timers and thresholds; calls end, the breaker recovers | two calls at a time, three in all, two providers, two attempts, a burst of two: a late result meets every state of the breaker |
| `breaker_probe` | **violated**: a failure in HALF_OPEN need not reopen | |
| `pipeline` | outcomes bounded by overlap, reported is findable, runs end | two runs, a valid and an invalid id, two retries, queue and DLQ of two |
| `pipeline_idempotent` | **violated**: overlapping runs of one record enqueue it twice | |
| `governance` | eight properties of five modules | three cohorts and two proposals with four decisions, so that a rollback is followed by decisions and another; two entries in each log; two callers of one envelope with two versions, and upserts adrift; two rollbacks of two deployments that share a flag, the id of a target and a store they have different versions for, with whole plans in two orders, one with flags before config and one with a cycle; two flows; the controller without a bound, its size and the last config being all it keeps, given configs of all curves in any order, with a cap below one percent and one of the whole |
| `services` | sixteen properties of fourteen parts | two tasks, one restarted in another mode; three drift events of five; three runs of the drills; two calls under two policies; three sandboxes (two can nest while a third overlaps); two terminals, two sessions and one mishap; a read, a write and three tokens (the refresh of a refresh); two visits and two cleanups; three keys in a pool of one; three events to two targets; batches of three in an interval of three with five requests; two chats; three docs events in two segments with one fault; manifests of ten lines, where the drift rule begins, up to twelve |

The bounds whose names begin with `Max` and that the code has no setting for stand in
the guards of the action that counts. `IngestionPipeline` needs none of them.

Restrictions made by the MC modules. Symmetry: `daemon_state` that of the cycles, which
are slots; `governance` and `services` that of callers, deployments, terminals and
wrappers, where one permutation may exchange members of several parts at once since a
behaviour is about one part only; runs with liveness use none. In `governance` the
plans, versions and gate of a rollback are free only where the part is about them; the first
deployment has the plan with the cycle where the second has the one with flags and config only;
and the whole plan in its second order comes with the gate and without some of the versions
and captures. Of the configs of the controller the cap and the curve vary, the thresholds
are the defaults. In `services` the directory of models has a bad file only in the router's part and
the state of the docs job lacks its lists only in that job's part. The findings noted for
the person are all findings. There are two Aperture policies of one name, which replace
each other: one asks for approval and one does not and has the higher limit. The governance records of
the rollout pipeline are of one error rate, with a verdict of either sort.

The failure rate of `hardening` is 3/4 and not the default 1/2: with few
calls, a rate of 1/2 opens the breaker at its first failure and the
consecutive threshold would never be met.

### What the violated runs say

* `quarantineReview.ts:29` promises that approving clears the quarantine. The old
  line stays and `getQuarantined` still finds it.
* `dlqReplayer.ts:157` promises "no data loss". What the daemon appends between
  the read and the write is overwritten.
* `queue-resilience-testing-design.md:37` says that a failing probe reopens the
  breaker at once, and `circuitBreaker.test.ts:84` tests it without a call in
  flight. With a late success in between, the failure leaves it HALF_OPEN.
* `IngestionOrchestrator.ts:39` says "ensures idempotency". The history is written at
  the end of a run, so overlapping runs of one record both enqueue it.

### What passing properties say that may surprise

* `GateHolds`: a proposal the validator refused is not stopped by the review: it gets its
  point of telemetry, and nobody is asked. The property states what the code does and admits
  that case; it notices any other proposal that gets through. As no baseline is set anywhere, nothing is promoted or rolled back.
* `CapReachedInSteps`: the config comes with each decision and the latest one counts
  (`CanaryGrowthConfig.ts:23`). `LINT_RULES.md:237` asserts that no decision has a size above
  its cap and rule 8 of `CI_GATE_RULES.md:87` that the size never exceeds it, but a cap that is
  lowered below the size takes hold only when the cohort next grows: until then, and as long as
  soft violations make every decision a pause, the size stays above. So the property
  claims the cap, and the number of steps, of a config that has made the cohort grow, and of
  all configs together only that each starts its count anew.
* `DependenciesFirst`: the comment of `rollback-executor.ts:82` says "ensure dependent
  targets are reverted first"; the loops below it count the dependencies of a target and let
  it out after them, and `phase6-rollback-execution-e2e.test.ts:91-113` expects just that. The
  code and its test contradict the comment, and the property states what they do. Its mutant
  is the comment's order.
* `ReturnReverts`: an ungated rollback that another one overlaps is not covered: its config
  handler restores the deployment of the call begun last (`rollback-executor.ts:315`), so
  it may report a success with its own config as it was. With the gate such a call
  throws, unless its config is back after all. The gate reads config and flags; the local
  stores it judges by the shared log, whose steps carry only a `target_id` that is looked up
  in the targets of the call (`rollback-executor.ts:393-408`). So a call may pass on the steps of
  another deployment that uses the same id for something else, and two deployments that go
  back to different versions of one store or flag undo each other: the property
  excepts exactly the targets of such an id (`Ambiguous`), store (`Contested`) and flag
  (`Shared`), and never the config. Targets on a dependency cycle are left
  out of the order and of the result without a word.
* `ProgressionsChain`: the lineage of a decision breaks when its assignment has gone on to
  another cohort.
* `StaleHasCause`: a load whose query overlapped an upsert leaves the old envelope
  in the cache until the next upsert, refresh or clear. So does, without any overlap, an upsert
  whose query throws after the database has written the row, or before: the entry is
  dropped only after an answer (`GovernanceEnvelopeCache.ts:104`).
* `SandboxesCleaned`: a `cleanupAll` that sweeps the sandbox of a call at its attempts leaves a
  directory behind, which an execution writes again and the call's own cleanup no longer
  touches. A removal that fails is ignored and the sandbox deregistered all the same.
* `LimitOverrunBounded`: calls in progress together overrun the call limit.
* `TmpdirNests`: executions that overlap without nesting run with each other's TMPDIR and may
  leave the process with that of a sandbox that is gone.
* `IngestAccounted`: pages of failed attempts stay open, and overlapping launches, or
  overlapping cleanups, leave a browser nobody closes.
* `OnlySomeAnswersCount`: answers of Google and Ollama are never accepted, because their
  shape is not what the validators look at; tool calls are looked for in the choice and
  not in its message; a bad model file leaves a half-loaded registry for good.
* `DocsEventsOnce`: an event that a later one has overtaken is lost, and one that fails is
  passed over by the next mark.
* `RepairJudged`: the drift verdict depends on a count made without the lock, and comes
  when the manifest has been cut already.

## 4. Fairness

* Manifest: weak fairness of each process's own steps: a process runs its
  synchronous code; the lock loop has a deadline, so it either gets the lock or
  gives up. A crashed call has ended.
* Daemon: weak fairness of starting a cycle (setInterval) and of each cycle's
  step (its awaits are local file reads). Operator, producer, replayer and
  mishaps are unfair.
* Hardening: weak fairness of the breaker's timer, of the refill and of the
  steps of a call. The primary may hang, its timeout fires. The providers of the
  chain have no timeout; that they settle is an assumption, and so is that a
  call that polls for a token has finitely many rivals (`MaxCalls`).
* Pipeline: weak fairness of each run; the extractor may hang, the timeout fires.
* Governance and services: none, and no liveness is claimed. The clients of etcd and
  Unleash have no timeout, neither has the browser's launch nor a build of the pool, and
  approvals wait for a person.

Assumed besides: the sweep of the warm pool comes in time and not while a build waits;
the writer of the docs events numbers them in order, while its index may lag and list
segments in any order; whoever fixes the FamilySearch ledger by hand (`FixLedger`)
looks first and deletes only the intent of a request whose result is not there, though
that request may still be on its way.

## 5. Proofs

Each theorem is `Spec => []...` of the module it is about, for any constants that meet the
named assumption of that module (in parentheses). The type invariants are part of every
induction. Every proof has one step per action, and lemmas for what several actions do.

Loops over lists are recursive functions of a number of turns in the model. What they compute
is proved with three lemmas of `SequenceProofs`: a set of numbers that is not empty has a
smallest (`Smallest`), so what holds at first and from one turn to the next holds throughout
(`Throughout`), and a function that starts with a value and goes on by a given step exists
(`Iteration`), which is what makes the recursive one defined.

`IngestionManifestProofs` (`ConstantsAssumption`), for any processes, ids and retention.
* `Typing` (`TypeOK`), `Exclusion` (`MutualExclusion`), `Freshness` (`SnapshotFresh`),
  `LockStaysLost` (`AbandonedForever`), for any faults. Mutual exclusion is inductive only
  with the fact that a holder implies the lock file, which `MutualExclusion` states.
  Freshness rests on it: a step that changes the manifest is taken by a holder, and there
  is only one. A lock whose owner died stays: taking it needs it gone, and only its owner
  removes it.
* `Refinement`: `Faults \subseteq {"append"}` implies `Spec => Implements`. The manifest maps
  to `Live`; every step is a step of `ManifestLog` or a stutter. It rests on `LogInv`: what
  a process will write back is part of what it read (`KeepsRead`), and lines are numbered
  as they are appended. Without the hypothesis it is false: a rewrite that fails, or whose
  process dies, loses lines. TLC checks it with no fault.
* `LossBounded` (`LossBoundedByTornAppends`), for any faults: the property speaks of behaviours
  in which no process has crashed and no rewrite has failed. Inductive is `LossInv`, with one
  more on the left while the last line has no end: a torn append has been made, and what
  it may take with it has not come yet.

`HardeningProofs` (`BreakerConstants`, `ChainConstants`, `HardeningConstants`). The breaker's
invariant (types, `OpenHasTimer`, `ClosedBelowThreshold`) and the chain's (states,
`ProviderOpenHasTimer`) are inductive for each part alone. `Composition` proves
`Spec => BreakerSpec /\ ChainSpec`: every step of the hardened call is a step or a stutter of
each part. `BreakerTimer`, `BreakerThreshold` and `ProviderTimer` follow for the composition.

`IngestionPipelineProofs` (`PipelineConstants`), for any ids, finite set of runs and limits.
* `PipelineTyping`; `NothingVanishes` (`Traceable`), with `HandedOn`: a run that is past the
  store has handed its job to the queue, or left it where the history says.
* `OutcomesCounted` (`OutcomesBounded`), from `CountInv`: the outcomes there are and the runs
  that may still have one are together no more than have overlapped; while the history does
  not know a record, every run of it is still counted as overlapping.

`IngestionDaemonProofs` (`DaemonConstants`), for any cycles, lines, requests and mishaps.
* `DaemonTyping`; `NothingForgotten` (`EntriesAccounted`), from `EntriesInv`: what cycles hold is
  in the log and what the replayer will write is what it found (`Held`), and no entry is
  pending twice, pending and filed, or filed twice (`Once`).
* `ControlKept` (`ControlStateKept`), from `ControlInv`: each cycle in flight carries the lockdown
  that was ordered, and every penalty on disk.

`GovernanceProofs` (`EnvelopeConstants`, `PipelineConstants`, `CohortConstants`,
`MaalConstants`, `RollbackConstants`).
* `Staleness` (`StaleHasCause`), from `FillCurrent`: a load that no upsert crossed carries
  the row of the table. Upserts may lose their answers, and run after their call has thrown.
* `LogsMatched` (`StateMatchesLogs`), for any batches and order of calls; the lemmas say how
  counts over a log grow with it.
* `ChainsHold` (`ProgressionsChain`), from `RolloutInv`: the progressions of an assignment are as
  many as its stage and numbered in the order of the log (`ChainInv`), cohorts keep the order
  they were registered in, and a decision is of an assignment that is or was in its cohort
  (`DecisionInv`). That no cohort comes twice in a chain is not assumed: each is larger than the
  one before, or as large and registered later.
* `RollbacksStand` (`RollbackStands`), an action property, from `ListInv`: the decisions on a
  cohort are all of one proposal, and all but the first are rollbacks; `InOrderCovers` says
  that an atomic rollback goes through all standing decisions.
* `PromiseKept` (`KeepsPromise`), the refinement of `RolloutPromise`: one lemma for each call
  that is a step of the promise (`AllocateEnters`, `ProgressMovesUp`, `EvaluateDecides`,
  `RollbackRollsBack`), and the others leave it alone. It rests on `RolloutInv`, which makes the
  progressions of a member the cohorts it has left, on `ListInv`, by which a reader who looks
  for the last decision on a cohort finds the proposal it was decided for, and on
  `MembersOnce`: no two assignments are of one member.
* `GateStands` (`GateHolds`), from `FlowsInv`; `ReviewClears` is the arithmetic of the caps: what
  the review lets through without a hand is harmless, or the validator refused it.
* `CapReached` (`CapReachedInSteps`), for any sequence of configs with caps from 0 to 100 percent
  of one decimal, from `GrowthInv`: after n growths under a config, a cohort below its cap is at
  least as large as n of its steps on the linear curve, n steps of three quarters on the adaptive one,
  or the least size doubled n times (`LeastAfter`), whatever size earlier configs have left it at.
* `GateStops` (`GatedReturnReverts`, the gated half of `ReturnReverts`), from `GateInv`: what the
  shared log says of a local target is so (`LogTrue`), a call at the gate has read all flags
  but those it still has to and they still hold (`ReadUpTo`), and nothing takes back what holds
  but another deployment with the same flag or another version of the same store
  (`StoresKept`). The log may be another call's, and its steps are matched by their ids alone:
  if the id of a target is used for nothing else, the step that passes for it has put back the
  same store to the same version (`LineageHolds`).
* `NeedsFirst` (`DependenciesFirst`), from `AloneInv`: the log of a call that runs alone and what it
  has left to do are together its plan (`OnPlan`). That a plan is in order is a fact about
  Kahn's algorithm: whatever is out has what it awaits out before it, whatever is queued has
  it out (`KahnOrder`, kept by each turn in `ShiftGives`, for the whole loop in `SortedGives`).
* `ReturnsTrue` (`ReturnReverts`), from `BackInv` besides: of a call that nothing has overlapped, what
  the log says is put back (`LogBack`), its handlers work for its own deployment, and the flags
  it does not still have to read back hold (`AtHand`). It also needs that the algorithm leaves
  nothing out but what is `Endless`: no key is out or queued twice, whatever awaits only what is
  out is out or queued (`Covers`), and by counting keys the queue is empty in the end
  (`QueueEmpties`). So the keys left over each wait for another of them, which is what `Endless`
  says (`ResolveGives`).

`AutonomyProofs` (`ApertureAssumption`, `EnvAssumption`, `PolicyConstants`, `DriftConstants`).
* `Overrun` (`LimitOverrunBounded`). The bound alone is not inductive; `RoomForAll` is: what is
  counted, together with the calls that have passed the check and may still be counted,
  leaves room for one less than all calls.
* `SandboxesGone` (`SandboxesCleaned`), from `CallKept`: at each stage of a call, what is
  registered or on the disk is what its later steps or those of a sweep under way remove, or
  what is excused, stragglers that write after the end included.
* `Nesting` (`TmpdirNests`), from `SavedChain`: what each running execution saved is the TMPDIR
  of the one entered before it.
* `PolicyOwned` (`OwnPolicyDecides`), from `Governed`: the context a task was started with is
  the one in the store, up to the defaults of its mode, and is the current one while no
  other task has started or ended. That the defaults never change an answer is a lemma.
* `DrillsCovered` (`ReportsCoverDrills`), from `ListOfRun`: the list of a run under way begins
  with the first drill, and is that run's alone while nothing has crossed it.
* `HardRefused` (`HardDriftHandled`). Every event shares its failure with the first of its key,
  which is in the graph (`FirstHasVector`), so deduplication hides no hard drift from the gate.
  Whatever primitives are recommended, in whatever number, what they leave in hand of a hard
  drift is reverted or inside the scope they cut (`PrimitivesConfine`, by induction on the
  primitives done).
* `ReportAgrees` (`ReportCoherent`): `ReadyIsLight` compares the weights by which the two methods
  of the stitcher judge the same vectors, with cardinalities for their averages.

`ServicesProofs` (`BatcherConstants`, `WarmConstants`, `RepairConstants`, `WebhookConstants`,
`BrowserConstants`, `RouterConstants`, `ClientAssumption`, `WriteConstants`, `DocsConstants`).
* `OldestTimed` (`TimerIsOfOldest`), which is inductive with the types alone.
* `Bounded` (`PoolBounded`), from `OldEntriesFit`: the entries that were there at the last sweep
  fit into the maximum.
* `RepairsJudged` (`RepairJudged`), from `Compared`: unless something crossed a repair in that
  direction, its count is no more, and no less, than what it found. A judgement then follows
  from the arithmetic of the rules.
* `EventsServed` (`EveryEventServed`), from `WebhookInv`: every event before the one in hand is
  served, and the posts of the one in hand are as many as have failed.
* `VisitsEndOnce` (`IngestAccounted`), from `BrowserInv`: attempts are successes, listed visits and
  those under way (`VisitsCounted`); without a race only `this.browser` is alive
  (`BrowsersKnown`); an open page without a cause is in its visit's hands (`PagesKnown`).
* `AnswersCount` (`OnlySomeAnswersCount`), from `TriedInv`: the outcomes of a chat are ones its
  models may come to, in the order of its chain, and the first accepted one ends it. The
  mock is in every chain (`ChainGives`), so a chat that ended unanswered has tried it.
* `SpentOnce` (`NothingSpentTwice`). An effect of a write ends its retries (`EffectEnds`), and at
  most one refresh is under way, with the valid token unless an answer was lost (`OneRefresh`).
* `PostedOnce` (`PostsGuarded`). The ledger's half holds whatever plan is made, from `OneAttempt`:
  every request on its way has its intent, a terminal past the check holds a key nobody has
  posted, and there is one request of a key, unless the key is hazy. The plan's half follows
  from `Planned`: of each unique kind a run has at most one conclusion to post, and none the
  person it has seen had (`PlanGives`, through the selections `buildPlan` makes of its batch).

* `EventsCountOnce` (`DocsEventsOnce`), from `DocsInv`: up to the mark, each event has been counted
  at most once and in order unless a mark was lost, and at least once unless a run was blind
  to one. A line adds what it has unless the mark has passed it (`ReadLineGives`); by induction the
  lines of a segment do (`ReadFileGives`), and the segments one after another, in any order
  (`ReadFilesGives`). Sums of penalties are the numbers of tenths in them (`PenaltiesGrow`).

Only model-checked: liveness (`CallsEnd` of both modules, `EventuallyParked`, `RunsEnd`,
`BreakerRecovers`). Fairness and ENABLED are out of reach of the prover used here. Every safety
property of the runs that pass is stated by a theorem.

## 6. Not modelled

Components. Router, overrides and profiles choose a lane, which `IngestionDaemon` takes
as an input; metrics, exports and learning are output only; configuration, schemas and
validation are stateless; the modelled code does not reach the SQL scripts.

Of the modelled components:

* Manifest: power loss and fsync; the difference between a missing and an empty file;
  lines that parse but lack fields. In `RepairSixRules` a manifest is how many lines of
  each sort it has, and the repair does not fail midway (`IngestionManifest` has that).
* Daemon: the lessons file of the replayer; scores, decay, latency and token figures;
  totals of processed and skipped lines in the docs job.
* Resilience: the request window of the breaker (written, never read); adding a fallback
  provider twice under one name; registries and metrics.
* Orchestrator: extractors that reject with something other than an Error;
  `waitForCompletion`, which only waits.
* Governance: creation of proposals; two rollback targets of one type in a deployment; a
  capture without flags; health flags of rollback steps, which nothing reads; statistics, replay and comparison of
  logs, the wording of log records; what MAAL's telemetry counts and its ledger type.
* Autonomy: most routes; figures of the stitched report that nothing decides on.
* Aperture: registry, engines, adapters and the schema checks of their outputs.
* FamilySearch: mapping of GEDCOM X, search and the other commands; a ledger line torn by a
  crash; `--only`, the guards on the environment and on verified sources; pacing of
  requests; how `isPossiblyLiving` is computed.
* Services: the choice of a model from a task, adapters of single services; parsing and
  scoring of content; hit rates and other figures; Python services; HTTP and
  command-line surfaces; an expiring cache nobody shares.

## 7. Plan

Written first, because a lost or doubled record is what this program must not have:
`ManifestLog` and `IngestionManifest`; `CicState` and `IngestionDaemon`;
`CircuitBreaker`, `FallbackChain`, `Hardening`; `IngestionPipeline`; `Rollback`. Then
governance, the services, the docs job with its segments and the six-rules repair, and
proofs: first of what bounds overlapping calls, then of every safety property. Still to come:

1. `FallbackChain`: a provider added again under its name, whose timers and calls keep the
   old state object (`fallbackChain.ts:71`).
2. Overrides of the operator over the router, with the daemon that reads them.
