# A TLA+ model of One Person Lab

One Person Lab (`src/`) is a TypeScript framework that runs long AI-agent work as durable *stages*: a
SQLite-backed family runtime launches `StageRun`s as Temporal workflows, and a *Foundry* evolves agents through
design, evaluation and activation, with a file-based event store as its authority. This directory holds TLA+
modules for the parts where concurrency, crashes and lost answers decide whether the program is right, the TLC
configurations that check them on small instances, and TLAPS proofs for every instance.

Paths below are relative to `src/src/` unless they start with `src/`.

## Inventory

| Component | State it keeps | Operations | What is hard | What makes it correct |
|---|---|---|---|---|
| **StageRun launch registry** `adapters/execution/family-runtime-stage-run-launch-registry.ts`, `...-launch.ts` | one row per invocation in `stage_run_launches`: status, spec hash, claim token and lease, start receipt, terminal status | register, claim, record start, record failure, record close; describe and start through Temporal | several callers, leases that run out under a slow claimant, a start RPC whose answer is lost, a second closer with another vocabulary | one execution per invocation, one claimant per claim, no degradation, closing only on the execution's own outcome, eventual binding and closing |
| **StageRun workflow** `family-runtime-temporal-stage-run-workflow.ts`, `...-activity-stage-run.ts` | workflow state in Temporal, quality cycle in SQLite | stage loop, attempts, reviews, `terminalize` | projection activity fails or is late while the workflow goes on | the row and the quality cycle agree with the outcome |
| **StageRun closeout recovery, route launch** `...-closeout-recovery.ts`, `...-route-launch.ts` | recovery claims and receipt history in the same row | reopen a closed row, start a second execution, return into the parent | a recovery receipt lost between two takeovers; replay beside recovery | every execution is in the receipt history |
| **Stage quality cycle** `authority/stages/stage-quality-cycle.ts` | cycle record: attempts, reviews, budgets; its SQLite projection | materialize, decide outcome and closure, project | late or repeated reviews, budgets at their limit | terminal statuses are final, budgets bound the attempts |
| **Stage attempts** | attempt ledger, provider leases | start, observe, close out | provider answers out of order | one closeout per attempt |
| **Family runtime queue, control loop, scheduler** | SQLite tasks | enqueue, lease, dispatch, retain | overlapping ticks | a task is dispatched once per lease |
| **Temporal service and worker supervision** | pid and state files | start, stop, restart | dead pids, concurrent supervisors | one supervised service |
| **Foundry mutation lock** `authority/evidence/foundry-persistent-adapters-parts/shared.ts` | lock files `target-*`, `run-*`, `state-index` | acquire (link), reclaim, release, sweep on opening | reclaiming a dead owner's file is two steps | mutual exclusion |
| **Foundry event store** `.../event-store.ts` | per run: `events/NNNNNNNNNN.json`; per target: reservation file; SQLite state index | create, append, read, list, rebuild | crash between a durable event and its derived state; stale readers; contention after commit | append-only logs, one active run per target, index behind the log and never behind an acknowledgement |
| **Foundry kernel** `authority/evolution/kernel.ts`, `state-machine.ts` | none of its own: the run's events | start, advance, owner decision, cancel, fail, roll back | retried activities, failure classification, decisions racing steps | allowed transitions only, one result per phase, terminal states final |
| **Foundry version and activation registry** `.../registries.ts` | versions, activation pointer and transaction file | register, activate, roll back | pointer switched before the run's event | the pointer is a registered version a run activated |
| **Foundry Temporal workflow** `adapters/execution/foundry-temporal-workflow.ts` | workflow state | advance loop, signals, cancellation | activity retries beside handlers | the ledger's terminal state is reached |
| **Foundry content stores, evaluators, provider** | content-addressed files | put, evaluate | process I/O | bytes match digests |
| **Agent packages, managed updates, workspaces, artifacts** | JSON registries, lock with lease, transactions over files | install, update, initialise, materialise | crash inside a transaction | all or nothing |
| **Evidence ledgers, read models** | append-only JSON, caches | append, project | cache currency | a projection follows its ledger |
| **Host, plugins, Cordis ABI, entrypoints, MCP app, Python client, scripts, contracts** | configuration | load, parse, render | - | - |

How they interact: a CLI process or a Temporal activity calls `launchRegisteredStageRun`; the registry row is the
only thing several callers share, besides the workflow id Temporal owns. The workflow runs activities that write the
quality cycle and close the row. The Foundry's Temporal workflow calls kernel activities; the kernel calls the event
store and the registries, which several processes (workers, CLI, status commands) open at once and which serialise
through lock files.

The hazards, each at its line, are in `PROJECT.json`.

## Modules

| Module | Models | Composes |
|---|---|---|
| `StageRunLaunch` | the launch of one StageRun: row, callers, Temporal executions, the workflow's end | - |
| `DurableStageRun` | what the registry promises: bound once, executed once, learned after it exists, closed after its outcome | implemented by `StageRunLaunch` (`DurableSpec`) |
| `MCStageRunLaunch` | TLC instance | extends `StageRunLaunch` |
| `StageRunLaunch_proofs` | theorems of the launch registry | extends `StageRunLaunch` |
| `FoundryMutationLock` | lock files: link, probe, remove, release, crash | - |
| `FoundryLedger` | the event store of one target and the processes that use it | extends `FoundryMutationLock` |
| `FoundryRunLog` | what the event store promises whatever happens to its locks | implemented by `FoundryLedger` (`RunLogSpec`) |
| `MCFoundryLedger` | TLC instances | extends `FoundryLedger` |
| `FoundryActivation` | the version and activation registry of one target: files, transactions, readers without a lock | extends `FoundryMutationLock` |
| `FoundryActivationRegister` | what the registry promises: registered versions, a compare-and-swap register that keeps what it told | implemented by `FoundryActivation` (`RegisterSpec`) |
| `MCFoundryActivation` | TLC instances | extends `FoundryActivation` |
| `FoundryKernel` | runs of one target: the step loop, owner decisions, cancel, fail, roll back, over stores that keep their promises | - |
| `MCFoundryKernel` | TLC instances | extends `FoundryKernel` |
| `FoundryWorkflow` | the Temporal workflow of one run: main loop, update handlers, activities, the provider's StageRuns | - |
| `MCFoundryWorkflow` | TLC instances | extends `FoundryWorkflow` |
| `StageRunWorkflow` | the controller of one StageRun's quality cycle, from its input to its handoff and projection | - |
| `MCStageRunWorkflow` | TLC instance | extends `StageRunWorkflow` |
| `StageRunRecovery` | closeout recovery: operators, the recovery entry of the launch row, recovery executions | - |
| `MCStageRunRecovery` | TLC instance | extends `StageRunRecovery` |
| `FoundryMutationLock_proofs` | theorems of the lock files | extends `FoundryMutationLock` |
| `FoundryLedger_proofs` | theorems of the event store | extends `FoundryLedger`, `FoundryMutationLock_proofs` |
| `FoundryActivation_proofs` | theorems of the version and activation registry | extends `FoundryActivation`, `FoundryMutationLock_proofs` |
| `FoundryKernel_proofs` | theorems of the kernel | extends `FoundryKernel` |
| `FoundryWorkflow_proofs` | theorems of the Foundry workflow | extends `FoundryWorkflow` |
| `StageRunWorkflow_proofs` | theorems of the StageRun's controller | extends `StageRunWorkflow` |
| `StageRunRecovery_proofs` | theorems of closeout recovery | extends `StageRunRecovery` |

### StageRunLaunch and the code

Every `BEGIN IMMEDIATE ... COMMIT` block of the registry is one action and every `await` of a caller is a step
boundary. `pc[l]` is where a caller of `launchRegisteredStageRun` stands: `claim` before `claimStageRunStart`, `rpc`
before `workflow.start`, `rpcDescribe` before the `describe` that follows it, `record` and `recordClose` before the
two registry writes of the claimant, `describeStarted`/`describeStarting`, `persistStart` and `persistClose` on the
reconciling path, `startFailure` in the `catch`.

* The row keeps status, spec, claim token, lease, receipt and terminal status. A claim token is a fresh UUID in the
  code; here it is the attempt number that the same `UPDATE` increments, which is as unique and lets a property speak
  of the newest claim.
* Temporal is external and modelled from how it is called: `workflowIdConflictPolicy: USE_EXISTING` and
  `workflowIdReusePolicy: REJECT_DUPLICATE` (`TemporalStart`). `MaxRuns` run ids exist so that a second execution
  *could* happen: `ExactlyOneExecution` says it does not.
* An RPC may fail before or after it took effect (`StartRpcFails`), a describe may fail, a caller may die at any step
  (`Crash`), and the lease may run out under a live claimant (`LeaseExpires`). These cost a fault, bounded by
  `MaxFaults`; a dead claimant's lease runs out for free.
* The workflow decides an outcome, its activity projects the quality cycle and then closes the row in a second
  transaction, and the execution completes whether or not that worked: the activity's error is swallowed.

### FoundryMutationLock, FoundryLedger and the code

Every method of the event store is synchronous inside its process, so the actors are *processes*. `lock[f]` is what a
lock file names: nobody (`Free`), a live process, or a pid that is gone (`Dead`). `Acquire` is the exclusive `link`;
`FindDead` is the read of the owner with the failed liveness probe and `Remove` the `rm` by path, two steps, as in
`reclaimAbandonedMutationLock`; `Release` compares the owner token. Nobody waits for a lock: a contender fails
(`Refused`). The history variable `stolen` records that a file of a live process was removed.

`log[r]` is the sequence of idempotency keys of a run's event files, `reservation` the target's reservation file,
`index[r]` the events a row of the SQLite state index was projected from. `Commit` is the rename of the run directory
or the link of the event file: both fail on an existing path. A process keeps in `view` the ledgers it has read; `read`
takes its view before it has the lock, `list` and `rebuildStateIndex` read the runs one at a time. `acked` is the
history of what callers were told. A crash leaves the process's lock files behind and everything it has not written
undone; the process starts again and may sweep dead locks, as every opening of the store does.

Abstracted: contents of events beyond their key and whether they end the run (`Ends`), hash chains and schema checks,
other targets of the same store (their runs appear in the same scan, and what is shown of a scan within a target holds
for each target alone), file-system errors other than "exists", and the steps inside one registry of SQLite, which
its transaction makes one.

### FoundryActivation and the code

The registry of one target: its directory (`epoch`), qualification records, versions, the numbered files
`activation-transactions/NNNNNNNNNN.json` and `activation.json`. As in the event store the actors are processes, and a
step ends at the lock file, at each published file, and, for `activation` and `read`, which take no lock, at each
directory they read. The link of a transaction file is the commit point; `repairActivationProjection` brings
`activation.json` up to it, in the switch itself or in whoever comes next. `told` is the history of the revisions that
switches have returned, `disturbed` tells a reader under which a file was published from one whose records fail their
own cross-checks. Digests are abstracted: records with the same content are the same record. The payload field
`activation_revision_preserved` is left out.

### FoundryKernel and the code

`startRun`, `advanceRunStep` with each phase of `#advanceOne`, `submitOwnerDecision`, `cancelRun`, `failRun` and
`rollbackActivation`, each by a process that keeps the revision it inspected and uses it in a later step: attempts of one Temporal activity, owner
calls and other runs overlap freely. The stores are used as `FoundryRunLog` and `FoundryActivationRegister` promise:
one call is one step, an append succeeds only on the expected revision, the pointer moves by compare-and-swap. The pc
labels are the points between a store call and the next. `journal` holds the operation results by which a retried
phase finds its evidence again; provider output is deterministic per operation, as the journal makes it. A contended
lock, a lost answer or a death costs a fault; `adopted`, `begun`, `broken`, `stranded` and `caused` are what the
workflow around the run has done, as far as the properties need it. Baseline adoption and the checks of provider
output are abstracted to a provider that may fail; attempts to advance a run that has ended are left out, they return
its inspection.

### FoundryWorkflow and the code

`Main` is the workflow function; the handlers of `foundryCancelUpdate` and `foundryOwnerDecisionUpdate` interleave
with it at every await. What an activity does to the ledger and the workflow's receipt of its answer are two steps, and either may be
lost (a fault). `tail` is the queue of `serialize`. A provider operation is a chain of StageRuns that hop on their own;
its observation, cancellation and the cursor are modelled with the one-StageRun window between describe and cancel.
`observations` counts to continue-as-new. The kernel's states are grouped by what the workflow does in them. The
branches kept for histories of older versions, the cursor that the advance activity takes as an argument and the client
that starts the workflow are left out.

### StageRunWorkflow and the code

One action is what the workflow does between two awaits; `at` names the call it waits for: the entry
materialization (`start`), a materialization, a child attempt, its receipt, the handoff, the projection. An attempt is known by its
position, an artifact by the attempt that produced it (`Inherited` is the input's), and of the findings only whether a
required one is open; `debt` stands for `completed_with_quality_debt`. The producer's policy (`required`) and the
budget come with the input. Recoveries enter after a producer, a reviewer or a repairer in the first round. The
synchronization of a child's evidence is folded into its return, since its failure leaves only a debt reference. The
handoff is retried without limit, as in the code. Cancellation may be requested once, at any await; a cancelled child
may still end normally, and one requested during synchronization, handoff or projection has no effect. Left out: debt
references, recommendations, branches of executions begun before a patch, legacy content bindings, and branches no
input reaches (no artifact after a review, falling through the loop). What the projection does to the launch row is in
`StageRunLaunch`.

### StageRunRecovery and the code

Every SQLite transaction and every await of `recoverStageRunCloseoutProjection` is a step: describe the original,
close, project the cycle, describe the prior execution, claim, describe the own workflow id, probe, start, describe an
existing one, record, failure. The row is started or closed with a terminal status (`completed` is Temporal's spelling,
`blocked` the cycle's), `entry` is `recovery_runs[0]` with its receipt history as a set. A resume is an id, whether it
has a reviewer snapshot and its debt references; ids are numbered so that a later one may succeed an earlier. `Advances`,
`Amends` and `Enriches` are the three ways the code lets one resume replace another. The claim token is the attempt
number. Which closeout, artifacts and lineage are acceptable is one refusal (`RefuseCloseout`). The option
`--retry-reviewer` is left out: it only adds an observation and refusals before the claim. Replays of the launch beside
a recovery are left out, because recovery needs a closed row, which a replay does not change. `MaxClaims` bounds the
calls that get as far as a claim.

## Runs

| Run | Instance | Shows |
|---|---|---|
| `launch_safety` | 3 callers, 2 specs, 2 faults, 2 run ids, symmetry | `ExactlyOneExecution`, `ClosedOnItsOutcome`, `OneClaimant`, `NeverDegrades`, `ClaimProtected` |
| `launch_liveness` | 2 callers, 1 spec, 2 faults, fairness | `RegisteredCloses`, refinement of `DurableStageRun` |
| `launch_replay` | 2 callers, 2 specs, 2 faults | `ReplayReturns` is violated (below) |
| `ledger` | 2 processes, 2 runs, 1 crash, symmetry, every call | `MutualExclusion`, `AckedIsIndexed`, `IndexFollowsLog`, `OneActiveRun`, `WriterRepairs`, `NoFalseConflict`, `RefusedOnlyWhenBusy`, refinement of `FoundryRunLog` |
| `ledger_writer` | 2 processes, 2 runs, 1 crash, create and append | `OneActiveWriter` is violated (below) |
| `activation_switch` | three instances, at most 2 processes, 2 candidates, 3 switches, 1 crash | `OutcomesHold`, `ReadersAgree`, refinement of `FoundryActivationRegister` |
| `kernel_run` | four instances, at most 2 processes, 3 runs, 3 generations, 2 overlaps, 1 fault | `ActivatedWasEarned`, `RunAndSwitchAgree`, `LogHolds`, `FailureHasCause`, `ImprovesItsBaseline` |
| `kernel_contended` | 1 run, 1 process, 1 fault | `QuarantineNeedsOutput` is violated (below) |
| `workflow_updates` | three instances: 2 cancels; a cancel, a decision and 1 fault; a cancel and 2 faults | `EndsAreJustified`, `ProviderFollowsRun`, `Settles` (liveness) |
| `workflow_cancel` | 1 cancel, no fault | `CancelStopsProvider` is violated (below) |
| `stage_run` | 3 rounds, fresh or recovered, 1 cancellation | `CompletedIsAccepted`, `HandoffIsDecisive`, `EndsAsDecided`, `Terminates` (liveness) |
| `stage_recovery` | 2 operators, 4 resumes of 2 ids, 3 claims, 2 faults, symmetry | `EveryRunKept`, `BoundToItsOwn`, `RetriedWhenOver` |

Instances. `FoundryActivation`, `FoundryKernel` and `FoundryWorkflow` take a set of bounds records (`Instances`), and
each behaviour picks one of them at the start and keeps it: one run explores several small worlds, each rich in
another way, where their product would be out of reach. The MC modules define them.

* `activation_switch`: two processes that register and switch two versions; one process that also rolls back, through
  three switches; two processes with registrations repeated under other evidence and readers without the lock.
* `kernel_run`: one run of any risk tier with an owner, two processes whose attempts overlap and one fault; three
  generations with scores that rise and fall and providers that fail; two runs, the attempts of the failed first one
  still at work; three runs in a row, one of them only to qualify, with cancellation, rollback and a crash.
* `workflow_updates`: two cancels over a provider operation that hops from StageRun to StageRun; a cancel and an owner
  decision in a run of two generations; a cancel and two faults, so that the repair of a failure can fail.

Bounds. Three callers are what a takeover of a takeover needs: one whose lease ran out, the one who took over, and a
late reconciler; two faults let a lost answer meet an outlived lease. Two outcomes suffice: one spelled like a
Temporal status and one not, which is the only difference the two closers can disagree about. In the event store two
processes and one crash reach the reclaim race (the process that died is one of the two that reclaim), and two events
after acceptance let a stale writer meet a different event and a replay. `MCBounds` restricts `ledger` to one run with
every event and call, or two runs whose only event ends them, without the rebuild (which touches neither log nor
reservation). After the crash a run gets one event after its acceptance, and nobody makes the calls that only read,
whom locks left behind do not stop; after a theft two runs are followed only until one of them is indexed, since
the store promises little of two then (`ledger_writer` shows why, and the theorems cover what it still promises). In the
kernel two overlapping attempts let a stale one meet both an append and a switch; three runs let a rollback return to
a version that is not the last. Three rounds are the code's own maximum. Two operators and three claims let a resume be
replaced and its replacement retried while the other operator still holds an old observation.

Deadlock is checked except where the system really stops: a Foundry run that has ended, a workflow that has closed.

Fairness. `launch_liveness`: weak fairness of each caller's own steps, of the lease's clock, of the workflow
reaching its end, and of *some* caller replaying an existing row: `retryStageRunRouteLaunchActivity` has no attempt
limit, and status commands replay rows too. The projection activity and its close are *not* fair: `RegisteredCloses`
holds although they may never succeed, because a replay describes the finished execution. `workflow_updates`: weak
fairness of the main loop, of each update's handler and of the StageRuns' progress: Temporal schedules every workflow
task and activity of an open execution, and a StageRun ends. No client need send an update. `stage_run`: weak
fairness of the workflow's own step, since every activity and child attempt ends or times out; nobody need cancel.
Faults are finite everywhere. The other runs state safety only and assume no fairness.

Each property has a mutant in `PROJECT.json`: an operator beside the definition it replaces, which breaks the
property under the run's own configuration.

### Disagreements between code, docs and tests

* `launch_replay`. `docs/runtime/stage-graph-route-transition-runtime.md:34` promises that a replay of the same
  invocation and spec returns idempotently for a running or closed run. A replay that describes the finished execution
  while the workflow's projection closes the row with a quality-cycle status (`blocked`) tries to close it with the
  Temporal status (`completed`) and gets `stage_run_terminal_status_conflict`.
* `ledger_writer`. `docs/runtime/opl-foundry-kernel-control-plane.md:33` allows one writing run per target. Two
  processes that find the same dead lock file can both get past it, because the removal is by path; both create a run.
  `RunLogSpec` and `IndexFollowsLog` show what survives even then: the logs stay append-only with every event once.
* `kernel_contended`. The same document, line 34, has transient platform failures retried at most three times. A lock
  file that another process holds while the kernel appends an event is reported as a contract error, and
  `#terminateAfterFailure` quarantines the healthy run.
* `workflow_cancel`. `src/tests/src/foundry-temporal.test.ts:709` says the ledger is cancelled only after the provider
  has stopped. A cancel handler that finds no provider operation goes on to commit, while the main loop, which has
  just adopted the same revision, launches one that nobody stops.

Behaviour met while modelling, allowed by the models and without a run of its own because no document speaks of it:

* Foundry workflow: a second cancel that fails clears the `providerCancellationRequested` of the first, so the main
  loop takes the StageRun that was stopped for one that failed. A cancel while the advance activity holds a terminal
  cursor makes it lose the compare-and-swap, and the loop then fails the run. The awaiting states have no failing
  transition, so a run whose activities are exhausted there is left as it is.
* StageRun workflow: the contract's `repair_budget_source: latest_materialized_attempt` and the scope's `max_attempts`,
  fixed from the input, both bound the rounds; the smaller wins. A producer that fails while an artifact was inherited
  closes the run with quality debt although nothing was produced. A cancellation during `terminalize` is swallowed when
  a successor may already have been launched. The route decided by an attempt whose review is then rejected is still
  handed over.
* Closeout recovery: when a start's answer is lost on an execution that has already ended, the next claim executes the
  resume again, and the first execution is in no history; `EveryRunKept` counts it against a fault. With two faults an
  operator with an old observation may replace the resume of an execution that another operator has started again and
  that still runs, although the message at `family-runtime-stage-run-closeout-recovery.ts:543` asks for a terminal one.
  Every call, refused or repeated, first projects the quality cycle as running, so a repetition after the end leaves a
  finished cycle shown as running.

## Proofs

`StageRunLaunch_proofs`, from the assumption that the sentinels are no specs or outcomes and the bounds are naturals,
for any set of callers, specs and outcomes and any bounds:

* `TypeCorrect`: the types.
* `InductiveInvariant`: `IInv`, which adds to the safety properties that a row exists before anything else does, that
  executions are numbered in order and only the newest runs, and that what a caller has *seen* of Temporal stays true
  (an execution it saw is the only one; a terminal status it saw is final). Without the last part a late receipt could
  bind a row to an execution that is not the newest, so the safety properties alone are not inductive.
* `OneExecution`, `ClosesOnOutcome`, `OneClaim`, and the action properties `StartedStays` and `LiveLeaseStays`.
* `ImplementsDurable`: the refinement of `DurableStageRun`. `RowSteps` and `TemporalSteps` list what a step can do to
  the row and to Temporal; each entry is one abstract step or none. Besides `IInv` it needs that a workflow which was
  never started has no outcome.

`FoundryMutationLock_proofs`, for any processes and files: `LocksKeepInv`, `LocksExclude` (a lock has one holder until
a live file is stolen) and `TheftNeedsCrash`. The invariant only needs that the file of a held lock names its holder;
two holders would be two names in one file.

`FoundryLedger_proofs`, for any processes, runs, events, ends and crashes, from the assumption that the lock files are
those of the runs, the target and the index, all different. The invariant is built in layers, each proved once:

1. `Shape`: the types, and which calls reach which point with what (`TypeCorrect`).
2. `LockInv`, inherited from `FoundryMutationLock_proofs` because every step of the store is a step of the locks
   (`StoreLocksExclude`, `StoreTheftNeedsCrash`).
3. `LogInv` adds that every view, index row and acknowledgement is a prefix of its ledger, and that a process about to
   commit has read a ledger of the length it expects and may extend it. No lock is mentioned: it holds because a rename
   or a link fails on an existing path. It gives `IndexFollows` and, with a step-by-step simulation, the refinement
   `ImplementsRunLog`.
4. `TargetInv` adds who holds the target lock and, while nothing was stolen, that a create about to commit faces no
   active run and that the reservation names the writer's own run or none. The bare property does not survive `Commit`
   without the first, nor `RepairTargetReservation` without the second. It gives `OneActive` and `RepairsSucceed`.
5. `RefusalsAreBusy` needs the shape only.
6. `IndexInv` adds who holds the index lock and, while nothing was stolen, that a rebuild has seen or will still visit
   every event the index shows, so that replacing the index loses nothing: `AckedStaysIndexed`.
7. `NoFalseAlarm` adds to `TargetInv` that once a scan has seen an active run, all it has not visited yet has ended:
   those runs existed when it listed the directory, so they were not active when it saw the other one.

`FoundryActivation_proofs`, for any processes, versions, instances, switches and crashes, in four layers:

1. `Shape`: the types, and which calls reach which point with what.
2. The lock file, inherited from `FoundryMutationLock_proofs` because every step of the registry is a lock step.
3. What holds whatever happens to the lock: transactions name registered versions, the pointer and the version files
   only follow what was committed, what a process read is still a prefix of the files, and what a caller was told stays
   true. The exclusive link of a transaction's file is all this needs.
4. What holding the lock keeps others from doing, while nothing was stolen: whoever has passed the check faces the very
   history he checked.

`RegistryInvariant` is their conjunction, `TypeCorrect` the types; `SwitchesHold` (`OutcomesHold`) follows from 3 and
4, `ReadersSeeOneRegistry` (`ReadersAgree`) from 3 with what a reader without the lock has seen of each file in turn,
and `ImplementsRegister` is the refinement of `FoundryActivationRegister`: the link of the transaction is the abstract
compare-and-swap, every other step one of registering, telling or nothing.

`FoundryKernel_proofs`, for any processes, runs, requests, providers and bounds, from the assumption that the sentinels
are no run, version or receipt. Two lists come first, each proved action by action and used by everything after: what a
step does to the stores (`StoreMoves`: at most one of create, commit, journal, register, switch, roll back, so that the
stores only grow), and how its process goes on (`ProcMoves`), with what the workflow notes of it (`NoteMoves`). Then:

1. `LogInvariant`: the types; `CallFits`, what a call carries at each point (a decision's receipt names the revision it
   was made on, an inspected revision exists); `Chained`, every event `Fits` the one before it: its phase leads there
   (`Leads`), generation and tier are kept or raised as the phase says (`Keeps`), it is within the policy (`Budgeted`)
   and its evidence is the journaled one; `Prepared`, a process carries such an event for the revision it has inspected.
   The last part is what makes it inductive: an event is computed several steps before it is appended, from an
   inspected revision that only the compare-and-swap ties to the log. It gives `TypeCorrect` and `LogWithinPolicy`
   (`LogHolds`).
2. What a run has gone through when it is in a state (`Earned`: the risk tier covers every design of its generations, a
   qualified generation has its version and its evaluation, a canaried one its canary, a risky one its approvals) needs
   no step: it follows from `Chained`, event by event, by the smallest revision it would not hold of (`AllEarned`).
3. `SwitchInvariant`: the baseline of a run is the version that was active at its start (`Based`), a transaction is the
   one an activating revision of its run asks for (`Switched`), a process that has switched, or found its switch done,
   still faces it (`Switches`), and so does a completed run (`Completed`). It rests on `AuthorityStays`: once a run is
   activating the approvals it has are the last it gets. It gives `ActivationWasEarned`, `SwitchesFromBaseline` and
   `RegistryFollowsRuns`.
4. `CalmInvariant` is about the runs that nothing has happened to: no failing provider or store, no switch of another
   run, nothing begun beside an attempt (`Excused` is the rest). Such a run is `Calm`: it has one attempt at most, that
   is at the latest revision and begins its operation for the first time, no decision overtakes it, and between attempts
   its workflow has adopted the latest revision or waits for the owner. Then each point of the attempt has what it needs
   (`CalmWork`, `CalmAuthority`, `CalmSwitch`, `CalmAppend`), the last because no phase comes twice in a generation
   (`Progresses`, `KeyIsNew`), so the event's idempotency key is not in the log. It gives `FailuresHaveCauses`
   (`FailureHasCause`).

`FoundryWorkflow_proofs`, for any set of updates (which may be empty) and any bounds on stages, observations, diagnoses
and faults, from the assumption that the kinds of update and `Main` are different: `WorkflowInvariant`, and from it
`TypeCorrect`, `EndsJustified` (`EndsAreJustified`) and `ProviderFollows` (`ProviderFollowsRun`). The steps fall into
two groups: an activity changes the ledger or the provider and answers one actor, and the workflow function and the
handlers change neither but act on an answer. What each group keeps is proved once (`ActivityKeeps`, `MoveKeeps`,
`HandlerKeeps`), then each action is shown to belong to one. Besides the types the invariant has these parts:

* `LedgerShape`: only the last revision of a run is an end, and what follows an operation that has not finished is a
  cancel or a failure. Both halves of `ProviderFollowsRun` and the causes of failures follow from it.
* `Queue`: exactly those who wait for the activity chain of `serialize` are in `tail`, each once, and only its head has
  an answer. Two answers that both report the next revision would otherwise be in flight together.
* `Positions`: which operation the loop's iteration is about and how far the provider is with it, by the place where
  the workflow function awaits.
* `Known`: the loop works on the last revision unless the run is over (`Fresh`). This is what a late cancel threatens:
  it commits behind the loop's back, and the loop then goes on about a revision that is not the last, but of a run that
  is over, so its next activity fails or changes nothing.
* `MainAnswered` and `Answered`: what an answer that is not yet received says of the ledger. An activity commits and its
  answer is received in different steps with any number of others between, so a receipt can be acted upon only because
  what it says stays true, or is overtaken by an end. `EndsAreJustified` is not inductive without it.

`StageRunWorkflow_proofs`, for any number of rounds: `WorkflowInvariant`, and from it `TypeCorrect`,
`CompletedAccepted`, `HandoffDecisive` and the action property `EndsStay`. None of the three is inductive: what is
recorded when an await returns was decided before it. The invariant therefore says, for each await, what the
controller knows there (`AtStart`, `InHand`, `AtReceipt`, `Handing`): which artifact the attempt in hand works on and
which round it counts, that a reviewer whose receipt is awaited worked on the artifact the run holds, that nothing is
decided before an attempt has returned. `SoundState` relates attempts, artifact, reviews and route: the artifact the run
holds is that of the attempt it is named by, a review names an attempt that made what it was given, a route was decided
by the last attempt on the artifact held. It is stated of a state record because one step of the workflow goes
through several of them before its next await.

`StageRunRecovery_proofs`, for any finite set of operators (claims are counted, so the assumption asks for a finite
set; the code's callers are finitely many at any time), any resumes, claims and faults: `RecoveryInvariant`, and from it
`TypeCorrect`, `RunsKept` (`EveryRunKept`), `BoundCorrectly` (`BoundToItsOwn`) and the action property `GivenUpWhenOver`
(`RetriedWhenOver`). Besides the types the invariant counts claims against executions, those still to come included
(`Counted`), and says that only the newest execution runs (`OneRuns`), that a receipt, a lease and a token belong to a
status of the entry (`EntryFits`), that a claimant's token is his alone (`Tokens`), what an operator's observation still
says of an execution (`Carried`), and that each execution that left the history, and each claimant whose lease was
outlived and who may yet lose one, is paid for by a fault of its own (`Charged`). `EveryRunKept` alone is not inductive because an execution whose receipt was lost looks, until the next
claim, like one whose receipt is on its way.

Not model-checked but proved: `StolenOnlyAfterCrash` (`TheftNeedsCrash`, `StoreTheftNeedsCrash`), on which
the weaker half of the store's promises rests.

Only model-checked: liveness (`RegisteredCloses`, `Settles`, `Terminates`), which is out of TLAPS's reach under
fairness. Every safety property, action property and refinement that a passing run checks is a theorem.

## Plan

1. Refinements between the components, which so far are checked and proved each on its own: that `FoundryKernel`'s
   stores are what `FoundryRunLog` and `FoundryActivationRegister` promise, and that the ledger of `FoundryWorkflow` is
   a run of `FoundryKernel` with its phases grouped.
2. Further candidates for modelling: the SQLite projection of the quality cycle, the managed-update lock, the artifact
   materialisation transaction, the leases of the runtime queue.

## Not modelled

Provider and process I/O, package installation, read models, entrypoints, generated contracts and the Python client:
they hold no concurrent state of their own, or what makes them right is the content of files rather than the order of
steps. They are also most of the repository's lines, which is why the modelled share of it is small. Within the
modelled components the sections above say what is abstracted. The quality cycle's SQLite projection, the attempt
ledger, the runtime's queue and its service supervision, the managed-update lock and the artifact transaction do hold
state and are not modelled yet. The remaining components of the inventory are marked in `PROJECT.json` with the reason.
