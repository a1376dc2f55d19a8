# A TLA+ verification project for Autodev

Autodev delivers software changes described by GitLab issues. A control plane
turns an issue into a *run*, schedules the *stages* of the run's execution plan,
and hands stage *attempts* to worker processes, which execute them and report
back. This project models the control plane, its lock table, its state file, the
scheduling rules, the workers, what a stage is given and how it is executed, and
the ratchet and signals that remember what happened. TLC checks the models on
small instances; TLAPS proves all their safety properties and both refinements for
every instance. Liveness is only model-checked.

All paths below are relative to `src/`.

## 1. Inventory

| component | state | operations | hard behaviour |
|---|---|---|---|
| service (`internal/controlplane/service.go`) | tracked issues, runs, attempts (one state file); labels on GitLab; journal files; lock rows | `EnqueueFromGitLab`, `EnsureRunForIssue`, `PersistPipelineArtifacts`, `reconcile`, `claimNext`, `Heartbeat`, `Complete`, `RecoverStuckRuns` | effects outside the state file survive when the state is dropped; late calls of workers; stale listings; failure after every external call |
| lock table (`internal/locks`) | one row per key: owner, expiry | `TryAcquire`, `Refresh`, `Release` | expiry races with renewal; refreshing a lost row is not an error |
| pipeline evaluation (`internal/pipeline`) | none | `SpecsInOrder`, `Evaluate`, `isReady`, triggers, rollback conditions | checkpoints end the walk; order decides what is looked at; cycles and repeated dependencies |
| state store (`internal/store`, `internal/contracts/jsonfile.go`) | the state file, its temporary file, a mutex per process | `Save`, `Load`, `NextID`, views of attempts | atomic within one process only; crashes and failures between writing and renaming |
| workers (`cmd/stage-runner`) | the attempt being executed | claim, heartbeat, complete, reconcile, exit | crash at any point, lost answers, leases that end while a stage is quiet |
| HTTP server and client (`internal/httpapi`) | none | one request per operation; materialize is several operations | concurrent requests; answers lost after the effect |
| GitLab adapter (`internal/gitlab/api.go`) | labels of issues | list, relabel, comment | approval is derived from a label the service itself removes |
| journal (`internal/workorder`) | execution plan of every run | write by materialization and stage reports, read by every decision | plan missing between run creation and its first write; plan replaced under attempts |
| stage executor (`internal/runner/runner.go`) | the container it waits for, what it last read of the state file | `ExecuteWithProgress`, `streamStageState` | heartbeats only on change; a workspace shared by all executions of an attempt; a container that outlives its worker |
| stage runtime (`tooling/runtime`) | working result and metadata; state, result and report files | contract, steps, criteria, files | data read back from JSON between steps; writes that fail one by one |
| isolation and mounts (`internal/isolation`, `internal/stagecontainer`) | scopes of the sandbox, grants, mounts | `New`, `initializeStageRepos`, `Summary`, `RequireWrite`, `mounts` | sandbox and launcher read the same patterns differently; the order of grant and summary; mounts that are passed over in silence |
| repository checkouts (`internal/repos`, `internal/runner/repos.go`) | one checkout per run and repository | `EnsureRunRepo` | parallel stages share it; a worker dies between two git commands; a clone outlives its lease and meets the next execution of its stage |
| ratchet (`internal/ratchet`) | events, clusters, proposals, invariants and statistics in Postgres | ingest, propose, activate, rank | transactions that do not see each other; check-then-act across statements |
| signals (`internal/signals`) | events and signals in Postgres | record, synthesize, upsert, comment | calls interleave statement by statement; an error leaves the rest of a batch out |
| result cache (`internal/runner/resolver.go`, `git_ledger.go`) | ledger of results | lookup, execute, verify, commit | stale hits |

The remaining packages (merge requests, configuration, contracts, artifacts,
secrets, language models, the other commands) validate documents or make single
calls; section 5 says why they are not modelled. `PROJECT.json` lists every
component with its status and every hazard at its line.

How the parts interact: people label issues on GitLab; an operator's `enqueue`
copies the labels into the state file; `materialize` ensures a run and writes its
plan to the journal; `reconcile` evaluates the plan, queues attempts, sets the
run's status and relabels the issue; workers claim attempts, taking their locks,
renew leases and locks by heartbeats, complete, and reconcile; `recover` returns
attempts whose lease ended long ago. Before a container starts, the executor
prepares the checkouts of the run, grants the stage its scopes in them, asks the
ratchet for the invariants to respect and derives the mounts; after a claim, a
completion or a recovery the service records events from which signals are
derived. Nothing in the repository calls `enqueue`,
`materialize` and `recover` by itself (`OPERATIONS.md`); workers poll.

What makes the parts correct: at most one worker uses a resource; a stage is
queued once per run and only when its dependencies and the approval allow it; a
finished outcome stays; a run is completed only when everything it was built on
succeeded; nothing is forgotten as long as people and workers keep going; labels
tell the truth about runs; an update that was answered is in the state file for
good; a container can write what its stage's sandbox allows and not more; stages find
the work of the stages before them; counts of findings and events are right
however they come in, and what recurs is proposed or signalled.

## 2. Modules

| module | models | role |
|---|---|---|
| `ResourceLocks` | `internal/locks/postgres.go` | one operator per SQL statement |
| `PipelineEval` | `internal/pipeline` | the scheduling decision as operators on a plan |
| `SpecOrder` | the loop of `SpecsInOrder` | a state machine, shown to agree with the operator `SpecsInOrder` |
| `StageWork` | what claims, leases and locks are for | abstract: one worker at a time for an attempt and its locks, one outcome |
| `ControlPlane` | service, store, requests, workers, GitLab labels | the composed system; extends `ResourceLocks` and `PipelineEval`; implements `StageWork` |
| `AtomicStore` | what callers of `internal/store` rely on | abstract: a log of updates, answers, loads |
| `StateFile` | `internal/store/store.go`, `internal/contracts/jsonfile.go` | statement by statement; implements `AtomicStore` |
| `StageAccess` | `internal/isolation`, `internal/runner/repos.go`, mounts of `internal/stagecontainer/docker.go` | from a stage contract to scopes, grants and mounts |
| `RunRepos` | `internal/repos/manager.go` | the checkout a run's stages share, one action per git command |
| `StageExecution` | `internal/runner/runner.go`, `tooling/runtime/single_plane.go` | executor and container runtime composed over the files of the workspace |
| `Ratchet` | `internal/ratchet`, `loadInvariantContext` | transactions of concurrent processes, statement by statement |
| `Signals` | `internal/signals`, `emitSignals` | calls that emit events, statement by statement |
| `ControlPlane_proofs` | | types and uniqueness of attempts |
| `Leases_proofs` | | leases, locks, mutual exclusion, outcomes, the refinement of `StageWork`, the lock table at rest; runs, approval, dependencies, completion |
| `StateFile_proofs` | | types, ids, and the refinement of `AtomicStore` |
| `StageInputs_proofs` | | what a stage is given: work and ref of the shared checkout, scopes and mounts, the order of the stages |
| `StageExecution_proofs` | | types, evidence, logs and the last state of executions |
| `Ratchet_proofs` | | types, counts, proposals, invariants and their selection |
| `Signals_proofs` | | hotspots, counts, baselines |
| `FiniteSums` | | lemmas on sums over finite sets, and the induction they rest on |
| `MC*` | | instances for TLC |

`MCStageInputs` and `MCMemoryPlane` hold several components that share no state,
as a disjoint sum: a behaviour of the run is a behaviour of one of them (`part`),
and the others stay where they start.

### Correspondence

*One service operation is one action.* Every operation runs inside `store.Save`,
which holds the mutex from reading the state file to renaming the new one. When
the operation returns an error the state is dropped but the effects on GitLab,
the lock table and the journal stay; these outcomes are actions of their own,
ending in `Fails`, `Unsaved` or `Lost` (the last: saved, but the caller gets an
error). What is not atomic in the code is not atomic here: an enqueue lists the
issues in one step and stores the list in another; a materialize request is four
steps; a worker claims, heartbeats, completes and reconciles in separate steps.

| state | in the code |
|---|---|
| `gitlab` | the `delivery/` labels of the issues on GitLab |
| `issues` | `state.Issues`: labels and approval as last stored |
| `runs` | `state.Runs`, by creation |
| `attempts` | `state.Attempts`, by id, with status, worker, lease, recorded lock keys |
| `journal` | the pipeline plan file of every run |
| `locks` | `stage_resource_locks` |
| `worker` | the loop of `runWorker` |
| `client` | the enqueue and materialize requests in flight |
| `now` | the clock of service and database, in units in which leases are counted |
| `granted` | history: who has ever been approved |

`reconcile` walks a Go map, so issues are handled in any order; `QueueOrders`
admits exactly the id orders this can give (issues in any order, triggered stages
first, then plan order). A failing reconciliation (`ReconcileFails`) has handled
any subset of the issues and has relabelled those. `claimNext` tries pending
attempts in id order and gives locks back for each it skips; `Skips` and `CanTake`
describe which locks each candidate could take, including rows an unsaved claim
left behind. `Heartbeat` and `Complete` check neither status nor worker, so
neither do the actions. Comments, run indexes, statistics and signals are left
out except for their failure: no decision reads them.

The external parts are people labelling issues (`Request`, `Approve`), the clock
(`Tick`) and the end of a worker process (`Crash`; a restarted worker is an idle
worker of the same name).

*The state file* (`StateFile`) is what `ControlPlane` takes for one step. A call is
one `Save` or one `Load` of a process; `pc` is between which two statements it is,
`mutex` the lock of each process's `Store`, `file` and `tmp` the two files, `Torn` a
file that is truncated or partly written. The persisted state is the sequence of
the updates made to it, and `NextID` numbers the object an update creates, so that
position and id coincide. `Committed`, what `state.json` decodes to, is the
abstract `log`. A `Crash` kills a process between any two steps and restarts it.
`Lock` is the code's. That a call begins, `Begin`, is `Lock` in an environment that
satisfies `WriterAlone`: no process starts a `Save` while another one is inside one.
Nothing enforces it; a command run beside the server breaks it, and then an update
is lost.

*What a stage may write* (`StageAccess`): an instance runs one contract (stage spec,
delivery target) through `New`, `initializeStageRepos`, `writeContext` and
`runEntrypoint`. Paths and patterns are sequences of segments; `Dotted` segments
contain a dot, which `writablePatternRoot` takes for a file. A scope is a root with
patterns; `RequireWrite` is the sandbox's answer for a path, which for a stage without
`write_as` is always yes, `mounts` what docker is given, and `skipped` what it was to
be given and was not: any of the `Optional` mounts, whose directory cannot be made or
whose `.git` is not there (`runEntrypoint`), or all of them but the workspace when
`context.json` cannot be read (`runEntrypointBlind`). Neither is an error in the code.

*The shared checkout* (`RunRepos`): `dest` is what is at the checkout's path: nothing,
something git does not answer for, a clone that has set `HEAD` and still writes its
files, the branch tip, or the pinned ref; git answers for the last three. `work` are the
stages whose files lie in it. A stage (`status`) may have several executions (`at`): a
lease may end at any time (`LeaseEnds`), the stage is claimed again, and the old
execution goes on, because no heartbeat is sent before `runner.go:279`; whoever reports
last decides (`Complete`). A worker may die anywhere (`Crash`); a git command or a
container it leaves behind acts like that of a worker that dies later. `cut` is history:
an execution was stopped between the start of its clone and its checkout. `overlap` is
history: an execution came to the checkout while another one of its stage prepared it.

*Ratchet and signals*: tables are variables named after them; a process is a
record with its program counter. `Ratchet` models READ COMMITTED: a statement sees
what is committed when it runs, writes appear at commit, and the upsert of a
cluster locks its row until then. `Signals` needs no transactions, each statement
commits by itself; an event's `age` says in which window of the queries it lies,
durations are in milliseconds and costs in millionths of a dollar.

*The execution of a stage* (`StageExecution`) is what lies between a claim and its
completion in `ControlPlane`, where a worker executes an attempt in one state and
completes it with any result. `container[e]` is the process of `single_plane.go`
for the `e`-th execution of the attempt, one action per stretch between two file
writes another process can see; `executor[e]` is `ExecuteWithProgress`;
`stream[e]` is what its goroutine remembers of `state.json`; `workspace` holds the
three files. Executions start in order and at any time: after a crash, after a
completion that was lost, or while an earlier worker or its container is still at
work, which is what `ControlPlane` allows. `shared` remembers which executions
were not alone. A step's command is one of `StepOutcomes`: an exit code and what it
did to the working files. What the stage requires is reduced to whether it is
there; summaries, outputs, statistics and artifacts are left out.

## 3. Runs

| run | question | result |
|---|---|---|
| `leases` | do leases, locks and attempts stay in step under every failure of claim, heartbeat, completion and recovery, workers renewing in time, and is `StageWork` what workers get? | holds |
| `overlap` | are resources exclusive when a stage is quiet for one lease? | **violated** |
| `outcome_mirror` | does a final label imply the end of the run? | **violated** |
| `intake` | one open run per issue and one attempt per stage, with concurrent requests and replaced plans? | holds |
| `delivery` | dependencies, approval, completion on the shape of the shipped graph | holds |
| `approval_lost` | does a run wait for approval only before its promotion? | **violated** |
| `rollback` | is the shipped rollback queued after a failed observation? | **violated** |
| `progress` | does every active run settle? | holds |
| `state_file` | is the store the atomic log its callers take it for, do ids stay valid, does every call return, under crashes, failing writes and several processes? | holds |
| `stage_inputs` | does the loop of `SpecsInOrder` compute the order the model uses; do sandbox and mounts agree; does the checkout keep the work of stages and the pinned ref? | holds |
| `stage_execution` | is the evidence of a stage its own, complete and reported to the end, when executions share a workspace, crash and fail to write? | holds |
| `memory_plane` | do clusters and signals count what happened, is what recurs proposed or signalled, and does no stage miss a blocking invariant, with concurrent processes that die, also between a finding and its proposal? | holds |

The four violations are the findings of `PROJECT.json`; each quotes the sentence
of the repository it contradicts.

* `overlap`: heartbeats are sent only when the stage's state file changes
  (`internal/runner/runner.go:404`). A stage that is silent for longer than the
  lease of 30 seconds loses its row to the next claimer and goes on writing. No
  failure is involved; this is why the positive results assume `Timely`.
* `outcome_mirror`: a reconciliation of all issues stops at the first run without
  a plan, which every run is between `EnsureRunForIssue` and
  `PersistPipelineArtifacts`. Labels already set stay, statuses are dropped; the
  next enqueue then hides the run.
* `approval_lost`: the label that carries the approval is among those the
  reconciliation strips.
* `rollback`: a failed stage with an enabled rollback plan keeps its run active until
  the rollback stage has succeeded (`pipeline/graph.go:68`), but a triggered stage is
  queued only for the failures it names in `trigger_on_failure`, and no file under
  `stage-specs/` has that field. No failure but that of the observation is involved,
  and the run stays active for ever.

### Observations

What the models show beside the properties; each is a reachable behaviour that a
property above makes an exception for, or that follows from a definition alone.

* The metadata is read back from JSON after every step, and `recordTransition`
  (`single_plane.go:400`) recognizes only the Go type it had before, so it starts a
  new list: the report of a stage holds the transitions since the last reload, where
  `README.md:37` has the runtime record them. `StepLogKept` states what is kept.
* When a rollback has succeeded the run becomes failed in the step that queues the
  stage observing it (`execution.go:62`), and no worker is given a stage of a failed
  run; `README.md:505` has `observe_dev -> rollback_dev -> observe_rollback_dev`.
* An execution stopped between the start of its clone and its checkout leaves the branch
  tip, which later stages take for the pinned ref of `README.md:388`. A clone killed
  while it writes its files will do: git answers once `HEAD` is set, and the files that
  are missing are taken for uncommitted deletions (the exception `cut`).
* A clone that takes longer than the lease is handed out again while it runs. The second
  execution removes what the first has got, which may by then have succeeded and lost
  its work, or is given the tip of the unfinished clone (the exception `overlap`).
* A rollback that fails leaves its run active for ever, also one that names its trigger:
  `rollbackEligible` (`pipeline/graph.go:68`) asks whether it has succeeded.
* A stage that was not given a mount it needs runs all the same (`docker.go:123`, `197`).
* A pattern that covers the root of a checkout (`**`, `*.md`) is allowed by the
  sandbox and mounted nowhere: `writableSubpathMounts` skips it, and the repository
  stays read-only (the exception in `AllowedIsMounted`).
* A pattern with a wildcard before its final `**` (`src/*/**`) is the other way round:
  `matchPattern` (`sandbox.go:341`) takes what is before the `/**` literally and allows
  nothing, while `writablePatternRoot` stops at the first wildcard and mounts `src`
  read-write. A directory with a dot in its name is taken for a file: `src/v1.2/**` mounts
  `src` as well (the exceptions in `MountedIsAllowed`).
* A second activation of a cluster's proposal overwrites the enforcement mode of
  its invariant, a block by a warning too; its severity is that of the activation
  and does not follow later findings.
* `max_parallelism` is compared with the running attempts when a stage is queued and
  not when it is claimed (`service.go:123`): attempts queued together all run.
* Ids have five digits and are compared as strings: from the 100000th attempt on,
  claims are no longer in the order of queueing (`store.go:97`).
* One of two parallel stages that fails makes the run failed while the other still
  runs; its completion is then recorded in a finished run.
* The ledger of results is looked up by contract name and input (`git_ledger.go:21`):
  a new version of a contract would find the result of the old one.
* The specs that set `result_status` set it to `success`, while the runtime writes
  `succeeded`: `validateSuccessCriteria` fails every such stage that is not blocked.

### Bounds

Two workers suffice for exclusion, one contended and one further lock for partial
acquisition, three stages for a claim that skips a candidate. `Lease = MaxAge = 1`
with `MaxNow = 2` gives every order of renewal, expiry, takeover and recovery;
more time repeats it. `MaxRuns = 2` gives a run after a finished one, or one run
per issue. `LastFault` is the last clock value at which operations fail: 2 in
safety runs (any time), 0 in liveness runs, since progress needs failures to stop.
`Approvable` and `Clients` bound approvals and requests. In the runs about
scheduling and intake the clock stands still (`MaxNow = 0`), which excludes
recovery; `leases` and `progress` have it. Two executions of two steps give
`StageExecution` a stale and a concurrent neighbour and a reload between steps;
`MaxFaults = 1` lets one thing go wrong at any point (a further execution after a
lost completion needs no fault). Workers, clients and issues are
symmetric where the run checks safety.

`state_file`: two saves of one process, a third of another and two loads give every
order of mutex, files and answers; each process may crash at any of its steps.
`stage_inputs`: all plans of up to three stages with dependencies listed up to twice;
about five thousand stage specs on five delivery targets and all patterns of up to three
segments over a plain and a dotted name and both wildcards, paths up to depth three;
one stage that materializes first and two in parallel after it, in five executions: two
of the first, so that a lost lease brings them together, two of one of the others, one
of the third; crashes and lost leases are bounded by the executions alone. The proof
covers any number of them.
`memory_plane`: three findings of one cluster in three runs, which cross the
threshold together, a critical finding of it and one of a global cluster, two
activations, and two processes that die. One of these is the ingest of one of the
critical findings (`Lost`), which dies before it begins, to keep the states few; the
other dies anywhere, also between a finding and its proposal. Three calls that emit up to two events each on histories with two and three
comparable successes, one of them stopped by an error. The advisory limit is 1
instead of 5 and the baseline 3 events instead of 20, so that both are reached.

### Fairness

`WorkerFairness` is the loop of `runWorker`: an idle worker claims again every two
seconds and a completion is followed by reconciliation. It is weak fairness of
`Claim`, `Complete`, `WorkerReconcile`. That of `Complete` assumes that stages end:
`timeout_seconds` is recorded with the attempt (`service.go:134`) and enforced
nowhere, neither by the executor nor by `docker run`.
`OperatorFairness` is an assumption about people: that somebody keeps reconciling,
recovering and finishing requests, and that time passes. The repository schedules
none of this itself, so without it a crashed worker's attempt stays running.
`progress` assumes both, and so does `rollback`, whose counterexample is therefore a run
in which people and workers keep going and the rollback is still not queued.

`StateFile` assumes weak fairness of each step of a call and of taking a free mutex:
goroutines are scheduled, file operations return, and `sync.Mutex` hands a waiter
the lock eventually. `CallsReturn` needs no more, and no fairness of `Crash`.

`ActiveRunsSettle` is checked with the results succeeded and failed: a blocked
stage is never attempted again and leaves the run active. It is also checked with
`Timely` and without failing reconciliations: a late completion can change an
outcome that was acted on, and a reconciliation that fails after labelling can hide
the run (as in `outcome_mirror`).

## 4. Proofs

| theorem | statement |
|---|---|
| **`ControlPlane_proofs`** | |
| `TypeCorrect` | `Spec => []TypeOK` |
| `AttemptsAreUnique` | `Spec => []UniqueAttempts` |
| **`Leases_proofs`** | |
| `LeasesHeld` | `Timely`, `LocksStable` imply `Spec => []WorkerHoldsLease` |
| `LocksExclude` | `Timely`, `LocksStable` imply `Spec => []MutualExclusion` |
| `OutcomesAreFinal` | `Timely`, `LocksStable` imply `Spec => FinishedIsFinal` |
| `WorkIsExclusive` | `Timely`, `LocksStable` imply `Spec => ImplementsStageWork` (a refinement) |
| `FinishedRelease` | `Spec /\ []RunLocks(K) => []FinishedOwnNoLocks`, any `K` |
| `RunsAreSerial` | `Spec => []OneOpenRun` |
| `ApprovalsAreGiven` | `Spec /\ []RunStages(F) => []ApprovalGiven`, any `F` |
| `DependenciesComeFirst` | `Timely`, `LocksStable` imply `Spec /\ []RunStages(F) => []DependenciesSucceeded` |
| `CompletedRunsAreDelivered` | `Timely`, `LocksStable`, `WellBuilt` plans `F` imply `Spec /\ []RunPlan(F) => []CompletedIsDelivered` |
| **`StateFile_proofs`** | |
| `StateTypeCorrect` | `Spec => [](TypeOK /\ file # Torn)` |
| `IdsAreKept` | `Spec => []IdsKept` |
| `StoreIsAtomic` | `Spec => ImplementsAtomicStore` (a refinement) |
| **`StageInputs_proofs`** | |
| `StagesKeepTheirWork` | `Leads(first)` implies `Spec => []WorkKept` |
| `RefsArePinned` | `Leads(first)` implies `Spec => []PinnedUnlessCut` |
| `AllowedPathsAreMounted` | `AccessSpec => []AllowedIsMounted` |
| `MountsAreAllowed` | `AccessSpec => []MountedIsAllowed` |
| `PlacedAfterDependencies` | `OrderSpec => []DependenciesFirst` |
| `OrdersAgree` | `OrderSpec => []OrderAgrees` |
| **`StageExecution_proofs`** | |
| `ExecutionTypeCorrect` | `Spec => []TypeOK` |
| `SuccessIsEarned` | `Spec => []SuccessIsBacked` |
| `StepLogsAreComplete` | `Spec => []StepLogKept` |
| `EvidenceIsFresh` | `Spec => []FreshEvidence` |
| `LastStateIsTold` | `Spec => LastStateTold` (an action property) |
| **`Ratchet_proofs`** | |
| `RatchetTypeCorrect` | `Spec => []TypeOK` |
| `ClustersCount` | `Spec => []ClusterCountsEvents` |
| `InvariantsAreBacked` | `Spec => []InvariantIsBacked` |
| `DuplicatesAreRaces` | `Spec => []DuplicatesOnlyByRace` |
| `RecurringGetsProposed` | `Spec => []RecurringIsProposed` |
| `InvariantStatsAreRight` | `Spec => []InvariantStatsFollow` |
| `BlockingIsGiven` | `Spec => []BlockingAlwaysIncluded` |
| **`Signals_proofs`** | |
| `HotspotsAreSignalled` | `Emits(Events)` implies `SignalsSpec => []HotspotSignalled` |
| `SignalsCount` | `Emits(Events)`, `EarlierHistory` imply `SignalsSpec => []SignalsCountEvents` |
| `BaselinesAreOfOthers` | `Emits(Events)`, `Timed(Events)` imply `SignalsSpec => []BaselineOfOthers` |

### Hypotheses

The theorems of `ControlPlane_proofs` and `Leases_proofs` hold for every finite or
infinite set of issues, workers, clients and keys, every set of plans over a finite
alphabet of stage names, every `Faults`, and all bounds; the others for any sets of
processes, calls, executions, findings, stages and contracts, for paths and patterns
of any depth and dependencies listed any number of times. They rest on the named
assumptions of `PipelineEval`, `ControlPlane`, `StateFile`, `StageExecution`,
`Ratchet`, `SpecOrder`, `StageAccess` and `RunRepos`, which type the constants and which TLC
evaluates in the runs; the one of `RunRepos` says that executions are of stages that
materialize the repository. Those of `StageAccess` say that no segment of a path is
empty, `.`, `.git` or a wildcard, that ownership patterns and the directories of
journal and environments are made of segments, the directories short enough for one
more segment within `MaxDepth`, and that the surfaces a stage materializes are the
three `initializeStageRepos` knows; it ignores others. What a theorem assumes beyond
them is in its statement, and the run that checks the property satisfies it:

| hypothesis | says | why the code justifies it, or does not |
|---|---|---|
| `Timely` | a working worker renews its lease before it ends | an assumption about stages: heartbeats follow changes of the state file, and the run `overlap` shows what a quiet stage loses |
| `LocksStable` | a stage that needs locks in one plan needs some in every plan | lock keys come from the stage's specification; a plan that dropped them would meet `service.go:342` |
| `RunLocks(K)` | the locks of a stage do not change during a run | `KeysForStage` (`internal/locks/manager.go:39`) computes them from the run and the stage's permissions |
| `RunStages(F)` | replaced plans keep queue mode, approval and dependencies of a stage within a run | materialization and stage reports rebuild a plan from the same catalog; nothing compares it with the old one |
| `RunPlan(F)` | a run keeps its plan | as above, for the whole plan: completion speaks of the plan in the journal |
| `WellBuilt` | stages queued by themselves depend only on such stages of the plan, and a completion checkpoint is one | true of `stage-specs/`; no validation enforces it |
| `Leads(first)` | one stage precedes all others that materialize the repository | true of `stage-specs/`: `implement` for components, `generate` for the journal, `promote_local` for environments; with two first materializers the race of `manager.go:68` is open |
| `Emits(Events)` | events have the shapes the service gives them and are of this hour | `service.go:317`, `496`, `556` |
| `Timed(Events)` | durations are whole numbers | milliseconds in `signals/types.go` |
| `EarlierHistory` | events found at the start are older than an hour | the signal table of the model starts empty |

`FinishedRelease`, `ApprovalsAreGiven` and `RunsAreSerial` need no `Timely`: they
hold also when workers outlive their leases.

### Control plane

*Types.* The work is in reconciliation: that the greatest run of an issue exists
(`GreatestExists`, `LatestRun`), that the pairs to queue are finite so that a
queue order exists only over them (`StagesFinite`, `Pairs`), and that what is
appended is well-typed (`ReconcileQueues`).

*Uniqueness.* `UniqueAttempts` is inductive with `TypeOK`. Evaluation queues only
stages without attempt (`EvaluateQueues`, `ToQueueFresh`), a reconciliation queues
pairs of run and stage that are pairwise different (`Fresh`), and no other step
creates attempts or changes their run or stage (`AttemptsStep`). `Timely` is not
needed.

*Leases.* `MutualExclusion` is not inductive: it says nothing of the rows. The
invariant is `LeaseInv`: `WorkerHoldsLease` (the executed attempt is running, the
worker's own, its lease is not over, and it owns the rows of its keys at least as
long), `LeasesBounded` (no lease ends later than one granted now, so that a
heartbeat cut short cannot shorten a row below the lease), and `KeysPlanned` (the
recorded keys are those of some plan). Each kind of step has a lemma: claims cannot
take a row that has not expired (`ClaimSparesLocks`), completions and heartbeats
touch the rows of their own attempt (`LeaseOthers`), recovery spares attempts whose
lease is not over (`LeaseRecoveries`), and `Timely` is used in exactly one place,
the clock. `LocksStable` is needed because `claimNext` leaves the recorded keys
alone when the stage needs none (`service.go:342`): a replaced plan without locks
would leave keys nobody holds.

*Outcomes.* `Complete` checks nothing, so `FinishedIsFinal` is a consequence of
`WorkerHoldsLease`: whoever completes an attempt finds it running (`FinishedStep`).

*The abstract view.* `StageWork` has no clock, no lock table and no state file: a
worker starts an attempt that nobody executes and that has no outcome, with locks
nobody has, and finishes or stops. The mapping takes the attempt and the recorded
keys of every executing worker, and the statuses of finished attempts. A saved claim
is a start (`ClaimStarts`, where `MutualExclusion` of the next state says that the
attempt and its locks were free), a saved completion a finish, whether or not its
answer arrives (`CompleteFinishes`), a crash or a refused completion a stop; every
other step, among them a claim that was saved for a worker that never learned of it,
changes neither work nor outcomes (`WorkNext`). It says more than `MutualExclusion`
and `FinishedIsFinal` together: the locks of a worker do not change under it, and
outcomes come only from workers that execute the attempt.

*The lock table at rest.* `FinishedOwnNoLocks` is not inductive: a row could belong
to a pending attempt, left by a claim that was not saved, and survive its
completion. `RowsInv(K)` says that every row belongs to an attempt that is not
finished and needs that lock, so that the completion, which releases the keys
recorded by the last claim, releases all of them.

*Runs and approval.* `OneOpenRun` is strengthened to `EarlierRunsOver`: all runs of
an issue but its last are over. Only the last is ever reconciled, and a new one is
made only when the last is over. `ApprovalGiven` rests on `ApprovalsGranted`: wherever an
approval is noted, on GitLab, in a listing under way or in the state file, somebody
gave it.

*Delivery.* `DependenciesDone` says of every attempt queued by evaluation that its
dependencies succeeded; `SucceededStep`, from `OutcomesAreFinal`, that they stay so.
`CompletedIsDelivered` speaks of everything a checkpoint was built on, while
`Evaluate` sees the checkpoint alone: the stages that succeeded are closed under
dependencies because each was queued only after its own, and `WellBuilt` keeps
triggered stages, which are queued without looking at dependencies, out of the closure.

### State file

`IdsKept` is not inductive: it says nothing of a `Save` under way.
`IInv` adds that a call that is inside holds its process's mutex (`MutexInv`), that
at most one `Save` is inside anywhere (`WriterInv`, from the mutex within a process
and from `Begin` across processes), that a call is unanswered until it returns
(`AnswerInv`), that `state.json` is never torn, and what a `Save` knows at each step
(`DataInv`): what it has read is still committed, what it has written is that plus
its own update. Only `Rename` changes the committed state, and appends to it
(`RenameAppends`). The refinement maps `Rename` to `Apply`, the returns to `Confirm`,
`Refuse` and `Return`, and everything else to a stutter (`Invisible`,
`StepRefines`).

### Stages

*Checkouts.* As long as nobody overlaps, `Orderly` holds (`ReposInv(first)` is its
disjunction with `overlap`). Until an execution is given the checkout (`Fresh`) only
executions of the leading stage have begun and no work is in it; whoever comes to it
while one of them prepares it is therefore of the same stage and overlaps, so that one
at a time prepares it (`OneAtATime`), and `InPlace` says what is at the destination by
how far that one is. From then on (`Settled`) git answers and nobody prepares, and as
every execution takes what answers, nobody ever resets it: what stages left there stays
(`Kept`), and a checkout that is not at the ref was left by somebody who was stopped
(`Sound`). A stage may be executed any number of times and reported by whoever is late.

*Scopes and mounts.* The state is simple: `AccessInv` says that repositories and
grants are those of the contract, that `context.json` holds the sandbox after the
grants, and that what is mounted and what is passed over are computed from it. The work
is in the two readings of a pattern. `PatternRoot` says what `writablePatternRoot` keeps
of a pattern: its beginning up to the first wildcard, less a file name, empty exactly for
a pattern at the root of its repository. A path that the sandbox matches is then below it
(`MatchedIsBelow`). For a directory with everything below it the two readings agree to
the last path (`ExactMount`); for other patterns there is at least one allowed path at or
below the mount (`MountHasPath`), unless a wildcard precedes a final `**`.

*The order of stages.* `OrderInv` says that the counters are the open dependencies
(`Open`, a sum over the stages not yet placed), that the ready list is the sorted
sequence of the unblocked stages, and that what is placed is what `Kahn` has placed
after as many turns. `Counters` relates the two: a stage is unblocked exactly when its
sum is 0, and placing a stage takes what lists it off the sums. `Sorted` says of
`ByName`, which places a name by the number of names before it, that it has every name
once and begins with the first. When nothing is ready any more the remaining turns of
`Kahn` change nothing (`KahnEnds`), and the rest follows by name.

*Sums and recursion.* Induction as a theorem with an operator parameter cannot be
instantiated, but over a set it can be stated: `Least` gives the least element of a
set of numbers from the well-foundedness of `<`, and `Induction` says that a set that
holds 0 and all successors holds every number. With the sets of counterexamples of
each claim this gives existence and uniqueness of the recursions behind `SumFunctionOnSet`
and `Kahn` (`SumsExists`, `SumsUnique`, `TurnsExist`), and from them the facts used:
what one element adds to a sum, when a sum is 0, and that some element is at most the
average.

*Executions.* `RuntimeInv` says for each place of the runtime what its log holds:
all steps so far succeeded, or the last one failed, and the transitions are
contiguous; the reload after each step keeps this. It is stated of one runtime, and
`Moves` describes what any of its steps does, so that the other proofs need not look
at the actions. `EvidenceInv` carries it across the files: what lies in the
workspace, or was read from it, is what some runtime settled on, and a settled
runtime no longer changes. `AloneInv` adds who wrote it: two executions that are
under way are both in `shared` (`Together`), a container that ended well has left
its own files (`EndedWell`, `OwnFiles`), and they are what an executor that was alone
reads (`OwnReads`). `LastStateTold` needs one fact about the stream: what it
remembers as current it has told (`StreamInv`).

### Ratchet and signals

*Counts.* `CountInv` says that a cluster and its statistics are those of the
committed findings, that at most one transaction holds the row of a cluster
(`Exclusive`), and that what it has written, and will commit, is that plus its own
finding (`Written`).

*Proposals and invariants.* `BackedInv` follows the values an activation has read:
severity and counts of a cluster only grow, so that a cluster over a threshold
stays there (`Eligible`) and the severity read is not ahead of the cluster's
(`NotAhead`), and a proposal that was approved stays so (`Sourced`).
`Looked` and `FoundActive` say what an ingest that has looked may conclude later;
What recurs among the findings of ingests that returned is over a threshold in the row,
which counts them all (`RecurringRow`), so that the last of them to return, whichever
that is, has found the cluster proposed or proposes it (`AnsweredIngest`); an ingest that
is dead is never among them, and needs no condition. `StatsInv` says of the statistics an activation has read
that they are the cluster's unless a race was noted, and of an ingest that missed the
new invariant that it noted one. `RankInv` says that the active invariants are
finitely many and have different ids, so that the ranking is strict and its first
`AdvisoryLimit` are the best ones.

*Signals.* `CallInv` says that the signals a call has at hand are those of its
current event, and `CallMoves` what a step of a call does to the tables. For the
hotspots, whoever inserted the event that made three counts afterwards and sees all
three (`HotInv`). For the counts, `CountInv` relates a row to the events of its
class: the count plus the calls that still have to add to it is at most the number
of events, and equals it when no call failed; the comments and the calls that are
about to comment are at most the count. For the baselines, `BackInv` says of every
timing signal, stored or about to be, that some event supports it; a call that
synthesizes knows the row of its own event and leaves it out, some other success is at
most the average (`SomeAtMostAverage`), and events are only added, so that what
supported a signal once always does.

### Only model-checked

* Liveness (`ActiveRunsSettle`, `CallsReturn`): the prover has no
  fairness reasoning.

Every invariant and action property of a passing run, and both refinements, are
stated by a theorem.

## 5. Not modelled

* The result cache (`resolver.go`, `git_ledger.go`, `postgres_catalog.go`) and its
  stage providers are a prototype: a fixed run id `e2e-run-placeholder`, an artifact
  load and store that return constants, a `PostgresCatalog.Build` that does nothing,
  and a result file that nothing in the repository writes. There is no behaviour yet
  whose correctness could be stated.
* `internal/policy`: `EvaluateStage` has no caller outside its own tests, although
  `OPERATIONS.md:32` has `review` and `release_prepare` block when the required
  documentation is not selected. What a stage may do is decided by the sandbox and the
  mounts.
* Merge requests, promotion and language-model calls are single calls made inside
  a stage; the file adapter is the local stand-in of the API adapter, and changes its
  files without a lock because one local process uses it.
* Building a plan from catalog and work order is a selection of stages; every plan
  of `Plans` stands for its result. The local commands `run` and `e2e` of the stage
  runner repeat the worker's steps in one process.
* Configuration, schemas, secrets, artifacts and the pages of the server load,
  validate or print, and keep no state.

## 6. Plan

What is open:

1. A model of two processes inside `Save` at once, with `Lock` for `Begin`, that says
   exactly which updates are lost; the property would be a statement about histories.
2. Selection of a plan from the catalog (`internal/workorder/pipeline_plan.go`), with
   `RunStages` and `WellBuilt` as what it should guarantee, so that the hypotheses of
   section 4 become theorems about it.
3. The result cache, once it has a behaviour.
