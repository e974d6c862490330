# Verification of the AIec control plane

AIec gives coding agents machines to work in: a caller submits a *run* (a task,
its setup and validation commands, a retention policy), a control plane admits
it, places a *sandbox* for it on a worker, executes it there, decides it, keeps
its evidence and gives the compute back; a *guard* can quarantine a sandbox. This
directory holds TLA+ models of that control plane, the TLC configurations that
check them on small instances, and proofs checked by TLAPS. Paths below are
relative to `src/`; `PROJECT.json` maps every definition to the lines it models.

    tlc -workers 2 -config MCRunQueue.cfg MCRunQueue     # one run
    tlapm RunQueueProofs.tla                             # one proof module

## 1. Inventory

| Component | State | Operations | Interacts with |
|---|---|---|---|
| Run lifecycle (`aiec-core/run.rs`) | the eight run states | `can_transition_to`, `should_retain` | used by every writer of a run |
| Runs rows (`aiec-storage/postgres.rs`, migrations 0011, 0012) | state, results, retention, attempts, links to sandboxes | `update_run_state`, `record_run_results`, `record_run_failure`, `record_run_attempt`, `complete_run_attempt`, `retain_run_sandbox`, `clear_run_retention`, ... | shared by executor, recovery, cancel, sweeper; no common fence |
| Durable run queue (`aiec-storage/run_queue.rs`, migration 0013) | one row per run: status, owner, lease, deadlines, reason; one row per tenant | enqueue, claim, recover, heartbeat, fail, finish | serialised by an advisory lock (`gate`); fenced by owner and lease |
| Dispatcher (`aiec-api/run_queue.rs`) | a set of tokio tasks, each with one owner id | `dispatch`, `with_lease`, `run_claim`, `fail_and_reclaim`, `reclaim_owned` | polls the queue, runs the executor under a lease |
| Run executor (`aiec-api/runs.rs`) | the local copy of run and results | `execute_created`, `execute`, `post_placement`, `cleanup`, `reclaim_run` | scheduler, runtimes, runs rows |
| Cancel endpoint (`aiec-api/lib.rs`) | the request's handler | `cancel_run`, `release_run_sandboxes` | runs rows and machines, never the queue |
| DELETE of a sandbox (`aiec-api/lib.rs`, `runs.rs`) | none | `destroy_with_retry`, `tear_down_sandbox` | machines, those of a run included; never the runs rows |
| Retention sweeper (`aiec-api/lib.rs`, `runs.rs`) | none between ticks | `sweep_once`, `expire_retention` | one per process, on the same rows |
| Sandbox leases, scheduler, capacity (`postgres.rs`, `aiec-core/scheduler.rs`) | sandbox rows, lease generations, assignments, capacity of workers | schedule, claim, renew, complete, reconcile, reassign, release, delete, register, drain | executor, provisioning, recovery, workers |
| Worker protocol (`aiec-api/worker.rs`, `aiec-core/protocol.rs`) | calls in flight, a lifecycle gate per sandbox, a durable generation floor | create, start, destroy; authorize on arrival and behind the gate | leases, runtimes |
| Artifacts and garbage collection (`artifact_gc.rs` of storage and API, migration 0014) | the ledger `artifact_objects`, the scan's place, references of runs and snapshots | reserve, complete, refer, delete, claim, finish | object storage, runs rows, snapshots |
| Guard control plane (`guard*.rs`) | incidents, budgets, proposals | quarantine in stages, release, decide | sandboxes, workers, lifecycle routes |
| Guard on the host (`aiec-guard`, `aiec-runtime`) | network attachment, journal, capture directory | cut, hold, restore, capture, append | guard control plane |
| Evaluation matrices (`eval_matrix.rs`, `matrix.rs`) | cells and their runs | submit, settle, score | clients of the run queue |
| Lifecycle lock, rate limits, repository cache | in-process maps | lock, take, fetch | API handlers |
| Snapshots, images, runtimes, guest agent, coding agent, MCP server, CLI, SDK, web | records, or external effects | | |

The hard behaviours are these. Several control-plane processes share the rows.
An executor whose lease ran out does not know it until its next renewal and goes
on writing beside the recovery that replaced it. The runs rows carry no queue
fence, so stale executor, recovery, cancel and sweeper write them in any order.
A worker call may be lost, may time out and be carried out later, after the
sandbox was given to somebody else. A future may be dropped at every await by a
deadline, a shutdown or a client that goes away. A teardown may fail, and its
report is written later than the fact. Objects and the rows that name them live
in two stores without a common transaction. A quarantine is a chain of awaited
steps that is interrupted anywhere and resumed by somebody else.

What makes each part correct:

- *queue*: limits hold under every order of claim and recovery; a grant has one
  owner and passes on only when its lease is over; a request is handed out to
  execute once; a retried submission joins its run; a tenant without a slot goes
  first; the first reason a run was lost for is the one its caller reads.
- *runs rows*: a verdict is final; a row in teardown has one.
- *executor, recovery, cancel, sweeper together*: one verdict; no machine placed
  after it; nothing held when the row leaves the queue but the machine the
  caller asked to keep; in the end not even that one; no false report.
- *leases*: a sandbox has one owner, the newest; generations order owners;
  capacity is neither lost nor given out twice; a closed lease stays closed.
- *control plane and workers*: a call under a replaced lease never touches the new
  owner's machine; a worker's floor never locks the owner out; what a crash leaves
  behind is swept.
- *guard*: row and budget latch together; a complete incident holds until it is
  released; what it records was done to the machine it names; a task on an open
  incident latches it though earlier stages fail.
- *artifacts*: what was stored and is referred to stays; a deletion is final and
  leaves no bytes; what nothing names goes.

`PROJECT.json` lists the hazards at their lines with the property for each.

## 2. Modules

| Module | Models | State and actions |
|---|---|---|
| `RunLifecycle` | `RunState::can_transition_to`, `RetentionPolicy::should_retain` | operators only |
| `RunStore` | statements that write `runs` and `run_attempts` | `runState`, `cleanupFailed`, `openAttempts`; an operator per statement, which is its success branch |
| `RunQueue` | the queue's transactions | the columns of `run_queue` and `run_queue_tenants`; an action per operation, `UnfencedWrite` for all writers of the runs rows, `Tick` for the database clock |
| `RunExecution` (EXTENDS `RunQueue`) | dispatcher, executor, cancel, sweepers on those rows, and the tenant's DELETE of a machine | a record per owner id (`task`), cancel request and sweeper; an action per awaited statement or machine operation; `machine`, `retained`, `retainLeft` |
| `RunPromise` | what a submitted run is promised | abstract specification: `stage`, `verdict`, `used`, `held`, `kept` |
| `SandboxStates` | `SandboxState::can_transition_to`, what recovery may take | operators only |
| `SandboxLease` | the statements on sandboxes, leases, assignments and workers | their columns; an action per statement, by anyone at any time, and `ExpireLease` for the clock |
| `SandboxControl` (EXTENDS `SandboxLease`) | provisioning, recovery, deletion and the sweeper of one sandbox, the workers and the calls between them | `job` per caller, `calls` at the workers, `built`, `up`, `floor` per worker |
| `GuardQuarantine` | the quarantine of one sandbox, its release, the lifecycle routes and a recovery beside it | incident, row and budget latch; `net`, `vm`, `shot`, `decisions` on the host; `task` per caller, `route`, `release` |
| `ArtifactGc` | ledger, references, uploads, artifact routes, sweepers | columns of `artifact_objects`, `bytes`, `listed`, `named`; an uploader's step in `at`, `key`, `got`, `left`; a sweeper's claims in `work` |
| `RunQueueProofs`, `RunExecutionProofs`, `RunTeardownProofs`, `RunPromiseProofs`, `SandboxLeaseProofs`, `SandboxControlProofs`, `GuardQuarantineProofs`, `ArtifactGcProofs` | | theorems |
| `MCRunQueue`, `MCRunExecution`, `MCSandboxLease`, `MCSandboxControl`, `MCGuardQuarantine`, `MCArtifactGc` | | instances for TLC |

Two pairs are built alike. `RunQueue` and `SandboxLease` take their callers to be
arbitrary: whoever wants may attempt any statement at any time. `RunExecution`
and `SandboxControl` EXTEND them with the callers the program has. The theorem
`QueueImplemented` says that `RunExecution` uses the queue only as `RunQueue`
allows, and `ControlKeepsLeases` that every step of `SandboxControl` is one of
`SandboxLease`, so what is proved of the lower module holds of the upper one.
`PromiseKept` is the refinement of `RunPromise` by the control plane.

Operators named *Mutant* beside a definition are variants with a plausible
mistake. No specification uses them; they show that the property they break
depends on the code in question.

### How the models relate to the code

In general:

- A timestamp is a countdown: `lease_until > now()` is `leaseLeft > 0`, and NULL
  is 0. In `SandboxLease` and `GuardQuarantine` a lease merely lapses at some point.
  The orders the queue sorts by (`enqueued_at`, `last_dispatched_at`) are ranks. One
  tick stands for any amount of time; a lease of one or two ticks is enough for it
  to end before, at and after each deadline.
- A transaction is one step. PostgreSQL reads `now()` when a transaction begins;
  here it is read when it commits, so a transaction that waits long for a lock is
  idealised. A row that SKIP LOCKED passes over is left to a later pass.
- A task keeps what it read earlier and acts on it later; that is where stale
  values come from.

Queue and execution:

- Dispatch draws a new uuid for every grant. Owner ids are finite slots, reused
  when no row names them (`Fresh`).
- Machines are named by the attempt that placed them, since an attempt is linked
  to one at most (`ScheduleOnNode`). `UNIQUE (run_id, attempt_number)` never
  bites because a run has one execution grant.
- `LoseLease` is the refused renewal of `with_lease`, `HeartbeatTimeout` one that
  merely timed out, `Crash` the end of a process, a panic or a shutdown. Other store
  errors in `execute_created` end the task the way `HeartbeatTimeout` does.
- `DeleteMachine` is DELETE /sandboxes/{id}, which destroys a run's machine without
  a look at the run (`lib.rs:2875`). Hence `UndecidedMachineSafe` names it beside the
  owner's teardown, and `RetentionReportOnRecord` speaks of the record and not of the
  machine: the report outlives a machine the tenant deleted until the next sweep. The
  sweep's `abandon_sandbox` has the same effect; it is given no sandbox of an
  unfinished run (`postgres.rs:3948`), a condition the model does not repeat because
  it grants the step to anyone.
- `with_lease` ends no later than the inner budget of an attempt, so `Expire`
  mostly happens to a stale task; it is modelled because nothing orders the two.
- A recovery pass that came back empty is an earlier transaction than the claim
  after it; the claim is not conditioned on it.
- `cancel_run`'s list of machines is read with its write of the state; placement
  looks at the state in its own transaction, so none is linked in between.
- A teardown that is refused (a worker out of reach, a quarantined machine) is a
  fault and `MaxFaults` bounds faults; when the bound is used up teardowns succeed.
- `Stamps` says whether an attempt's evidence carries `completed_at` when it is
  sealed. The program never sets it, and PostgreSQL's `complete_run_attempt`
  refuses evidence without it (finding 1), so `{FALSE}` is the program as it
  stands. The passing runs take `{TRUE, FALSE}`: every behaviour of the program as
  it stands, and every behaviour of the program with that assignment in place,
  where settling and retries are reachable.

Leases, control plane and workers:

- vCPUs, memory and disk are one number; which of the workers that fit is chosen is
  left open. A sandbox's leases are numbered in the order they are issued.
- A transaction is one step at the lock that decides it. `reassign_expired_lease`
  looks for another owner (postgres.rs:3498) before it locks the sandbox (3520); a
  placement that commits in between is caught by the partial unique index on active
  leases (migration 0002:136), which refuses the loser's insert and with it its whole
  transaction. So the index is needed where the model checks and places in one step,
  and `OneOwner` is about everything else. A loser that finds no worker commits the
  clearing of the node pointer all the same (3556-3572); that one interleaving is
  not in the model.
- `delete_sandbox` is the transaction whose two statements the model keeps apart:
  `DeleteSandbox(s, k)` takes what the first one found as a parameter, `FindLease` and
  `Forget` of `SandboxControl` are the two statements. A recovery that commits between
  them leaves a destroyed sandbox with an active lease; `FinishedReleased` shows that
  the sweep over orphaned leases closes it.
- A worker registers at any time with any of the sizes `Capacities`, one below what
  its leases hold included. `Load` counts what they hold unit by unit.
- A call is sent, authorized on arrival, waits at the sandbox's gate, is authorized
  again and carried out; its caller may have timed out by then (`from` becomes
  nobody). The floor a worker keeps is durable, its calls are not (`WorkerRestart`).
- Callers are one provisioning, one recovery, one deletion and the sweeper of one
  control plane process. `Lapse` is for active leases; a lease that ended already
  has no clock. Two calls nobody waits for that agree in every field are one.

Guard:

- Only lifecycle routes take the lifecycle lock, so one route is under way at a
  time, and quarantine, release and recovery run beside it.
- Every worker call goes to the owner the store names when the call is made; `acts`
  records under which lease a cut or a capture really happened.
- The recovery of a lease is one step here; its steps are in `SandboxControl`.
- The policy a sandbox runs is named in three places (`policy`): by the attachment,
  which refuses calls that name another, by the sandbox row, which callers read, and
  by the budget, against which an incident is written. An approved proposal moves
  them one after the other and may stop in between.
- A task whose process ends is `lost`; a failed write of the database is the same.

Artifacts:

- Keys are numbers in the order of the ledger's index. Collections and captures
  draw a new key for every upload; only the artifact routes use a name again.
- A snapshot's row names its capture and `<object_key>.manifest.json` (`ManifestOf`).
  Only the capture is reserved and stored; the manifest's row is made by the
  reference (`Refer`, `aiec_lock_artifact_reference`), goes unreferenced with the
  snapshot and is swept like any other. `ReferencedIntact` asks for the bytes of
  everything but manifests. Captures are of the workspace: `create_snapshot` refuses
  the other kinds, whose keys a row could name besides.
- A PUT lands while its deadline (`MAX_ARTIFACT_UPLOAD_SECONDS`) lasts; it may land
  and still be reported as failed. `ArtifactAssumption` has the one fact about
  durations that matters: no upload outlasts the grace of a pending row
  (`MIN_PENDING_GRACE_SECONDS` is twice the upload's deadline).
- A claim's uuid is the sweeper that holds it, since a sweeper works off one pass
  before it begins the next. Columns not read in a state are 0.
- A run is what the ledger tells apart: active, retaining a machine, decided, out of
  retention, expired.

## 3. Runs

| Run | Configuration | Checks | Bounds |
|---|---|---|---|
| `queue` | `MCRunQueue.cfg` | `LeaseWithinDeadline`, `TeardownHasVerdict`, `OneRunPerKey`, `VerdictFinal`, `ExecutedOnce`, `OwnershipFenced`, `FirstReasonKept` | 3 submissions, 2 of them under one key, 2 tenants, 1 slot, 2 owners, lease 2, execution 3 ticks |
| `dispatch` | `MCRunQueueDispatch.cfg` | `WithinLimits`, `IdleTenantFirst` | 4 runs, 2 tenants, 2 slots, 3 owners; unfenced writes only where they decide a run |
| `execution` | `MCRunExecution.cfg` | `ExecTypeOK`, `OneMachinePerRun`, `RetentionReportOnRecord`, `UndecidedMachineSafe`, `ImplementsQueue`, `ImplementsPromise` | 1 run, 2 attempts, 2 owners, 2 sweepers, 2 faults, no cancel |
| `live` | `MCRunExecutionLive.cfg` | `CancelReleases`, `EveryRunFinishes`, `ComputeReturned` | 1 attempt, 1 fault, 1 cancel, no symmetry |
| `leases` | `MCSandboxLease.cfg` | `OneOwner`, `GenerationsFence`, `AssignmentFollowsLease`, `CapacityNotLost`, `ClosedForGood`, `Latched`, `StaysBalanced` | 2 sandboxes (3 leases and 1), 2 workers of size 3 or 4, one of them resized, drained and silent, demand 2, 3 generations |
| `control` | `MCSandboxControl.cfg` | `OwnerNeverFenced`, `RunningWasBuilt`, `RollbackUnreplaced`, `NewerMachineSafe` | 1 sandbox, 2 workers, 2 leases, generations up to 3, 1 fault, 1 destroy attempt |
| `sweep` | `MCSandboxControlSweep.cfg` | `FinishedReleased`, `StrandedReclaimed` | 1 worker, 2 leases, 1 fault, 2 destroy attempts, one admission |
| `guard` | `MCGuardQuarantine.cfg` | `StagesFenced`, `LatchesAgree`, `CompletedIsHeld`, `CaptureKept`, `IncidentLatches` | 1 caller, all routes but pause, 2 leases, 1 approved policy, 1 fault |
| `artifacts` | `MCArtifactGc.cfg` | `ReferencedIntact`, `TombstoneMeansGone`, `DeletionFinal`, `GarbageReclaimed` | 4 keys: evidence, a capture, its manifest, a name of the routes; 1 run, 1 uploader, 1 sweeper, pages of 1, all durations 1, 1 fault |
| `success_discarded` | `FindingSuccessNotDiscarded.cfg` | violates `SuccessNotDiscarded` | no fault, no cancel |
| `machine_left` | `FindingDestroyedHasNoMachine.cfg` | violates `DestroyedHasNoMachine` | no fault but a lease that lapses |
| `captured_paused` | `FindingCapturedStaysPaused.cfg` | violates `CapturedStaysPaused` | 1 caller |

The type invariants `TypeOK` with `RowShape`, `LeaseTypeOK`, `ControlTypeOK`,
`GuardTypeOK` and `ArtifactTypeOK` are theorems for all values of the constants; the runs do not
repeat them.

Why these bounds.

- In `queue`, two rows compete for one slot, so a claim and a recovery meet at the
  last one; the third submission is the retry; a lease of two in a deadline of three
  lets a renewal be cut short by the deadline. In `dispatch` the limits (3 pending, 2
  per tenant, 2 active) are all below the number of runs, and one tenant can hold
  slots while the other waits.
- In `execution` and `live`, runs do not interact except through the queue, which the
  first two runs cover with several, so one run suffices; two owner ids are the
  stale executor and the recovery that replaced it, and a second recovery reuses
  the slot of the first; two attempts are what a retry needs; `keep_on_failure` is
  the policy that both keeps and destroys. The cancel request is in `live`, where it
  races executor, recovery and one fault.
- In `leases`, one sandbox goes through everything and is placed three times, the
  number at which a lease can be both replaced and a replacement; the other
  competes with it for capacity. A worker of 4 holds both of them and comes back with
  3, less than its load, or grows again; 3 with a demand of 2 leaves a remainder, so
  that a credit that is wrong by less than a sandbox shows. Only one worker is resized,
  drained and silent; the other is what a recovery moves to.
- `control` has a new lease on the same worker and on the other one, a late call of
  the old lease, and a renewal between them. `sweep` is checked with fairness and
  without symmetry on one worker, and with the retry of a destroy. The request of the
  provisioning is admitted once there (`AdmittedOnce`), and again in `control`: for the
  sweeper a retry that acquires a lease is a recovery that does.
- In `guard`, one caller asks again after its task ended or was lost, two leases are
  what makes an incident name an old one, and one approved proposal what makes it
  name an old policy; one fault is a cut or a capture that fails, leaves a
  half-written directory or succeeds unheard, or a crash. The user's pause is left
  out for the size (a release pauses the row too) and is in `captured_paused`.
  Pause, several tasks at once, more faults and more policies are covered by the
  proofs of the four invariants; for `IncidentLatches` another task can only latch
  earlier.
- In `artifacts`, objects meet only in the window of a sweep; a page of one with a
  protected object before the garbage is what starves a scan that loses its place.
  A behaviour has the name of the artifact routes or the capture with its manifest
  (`ApartNext`), each beside the evidence of the run, so that up to three rows are
  live at a time; the two kinds meet in no statement but a sweep's, which sees a
  page of rows and no kinds. Several
  sweepers and uploaders are covered by the proofs of the three safety properties.

`Spec` of `queue` and the specification of `leases` have no deadlock; the other systems
come to rest once everything is finished, bounds are used up and clocks have run
down, and are checked without deadlock detection.

Symmetry is over owners and sweepers, over runs with the same tenant and key, and
over the workers of `control`; liveness is checked without.

**Fairness.** In `live`: weak fairness of each task's steps, of dispatch's recovery
and of its claim, of cancel handlers, of sweepers and of the clock. Tokio polls
every spawned future that is ready, `dispatch` and the maintenance loop run on
intervals for as long as the process lives, and time passes. In `sweep`
(`ControlFairness`): of the sweeper, which runs on a timer, and of calls at the
workers, which are carried out or fail within the client's timeout. In `guard`
(`GuardFairness`): of the spawned tasks, every call of which has a timeout. Nothing
is assumed of those who ask: the watchdog gives up after 12 posts or two minutes
(`aiec-guard-watchdog.rs:89-99`), the watcher posts once and polls, and the reaper
looks at spent budgets of consuming sandboxes only, so no part of the code promises
that a lost task has a successor, and `IncidentLatches` is about each task that is
not lost. In `artifacts`: of the sweepers and of time. Nothing is assumed of heartbeats,
crashes, clients, uploads, provisioning, recovery or failing calls; failures are
only finite in number (`MaxFaults`). A control plane with no live process, or a
machine that can never be torn down, is outside what these properties say.

## 4. Proofs

Every theorem holds for all values of the constants that satisfy the ASSUME of its
module: any number of runs, tenants, owners, sandboxes, workers, leases, callers,
keys, sweepers and faults, and any limits and durations.

**`RunQueueProofs`**, from `LimitsAssumption` (what `RunQueueLimits::validate`
enforces, and `NoOwner` is no owner) and `MaxAttemptsAssumption`.

- `TypeCorrect`. Timers stay in range: a renewal is at most the lease
  (`LesserBounds`), a tick does not go below zero (`CountDownBounds`).
- `RowShapeHolds`, `LeaseWithinDeadlineHolds`, `TeardownHasVerdictHolds` from one
  inductive invariant, `RowInv == TypeOK /\ RowShape /\ LeaseWithinDeadline /\
  TeardownHasVerdict`. None is inductive by itself: that a finished row has no
  lease needs the owner column, that the lease stays within the deadline when time
  passes needs both timers' ranges, and that an unfenced write cannot undo a
  verdict needs `runState` to be a state the lifecycle knows. `UnfencedWriteKeeps`
  is the argument about writers without a fence: every statement either goes along
  an edge of the lifecycle, and none leaves a verdict (`NoEdgeOutOfTerminal`), or
  keeps the verdict explicitly.
- `LimitsHold`: active and pending rows stay within their limits. `LimitsInv` adds
  `TypeOK`, and finiteness of the rows makes a cardinality grow by at most one with
  a grant (`BoundKeptByOneMore`), which the guard `SlotFree` or `RoomFor` allows.
- `VerdictFinalHolds`, `OwnershipFencedHolds`, `ExecutedOnceHolds`,
  `FirstReasonKeptHolds`: action properties, each from `RowInv` with one step per
  action. `ExecutedOnceHolds` needs that a row becomes executing only from
  queued, by a claim, and that nothing changes its owner while it executes; `FirstReasonKeptHolds` that `fail_run_queue`, which does
  write its reason unconditionally, only meets rows without one.
- `OneRunPerKeyHolds`: only `enqueue_run` inserts a run (`OnlyEnqueueInserts`).
- `IdleTenantFirstHolds`: only a claim starts a waiting row, the first thing it orders by is
  the number of slots a tenant holds, and that number is zero exactly for a tenant
  without a slot because the rows are finitely many (`ClaimableIsIdle`).

**`RunExecutionProofs`**, from `ExecAssumption` (there is a run, every run has a
retention policy, the retention time is positive, the fault budget is a natural number,
`Stamps` is a non-empty set of Booleans; owners, requests and sweepers are any sets).
The invariant is `BaseInv`, the conjunction of the invariant of the rows, `ExecTypeOK`
and `Shape`: the run a task works on exists, its attempt is a permitted one, and the
machines it is about to destroy or retain are linked to the run; the same for cancel
requests and sweepers. Every step is shown to be a step of the queue or a stutter and
to keep `BaseInv`, in one lemma per action (`StepKept`).

- `ExecTypesHold`: `ExecTypeOK` with the range of every field of a task, a cancel
  request and a sweeper; the attempt count needs that a retry is only begun below
  the last attempt.
- `QueueImplemented`: `ExecSpec => Spec` of `RunQueue`. Each action of a task is matched
  with the queue operation it performs, with one of the unfenced writes, or with a
  stutter; what has to be known is which statement a task's step may issue and that
  the values it writes are in the sets `UnfencedWrite` ranges over, hence the types.
- `QueueGuarantees`: the theorems about the queue, of the control plane.

**`RunTeardownProofs`** is about the machines of a run while a live executor, a stale
one, recoveries, cancels and sweepers act on it. Two more invariants stand on
`BaseInv`.

- `HoldInv` says what each party at work on a run may rely on: the verdict and grant
  behind a task (`StandsOf`); the machines behind an executor, none before placement
  and only its own after (`ExecutorHolds`); that a teardown still lists what is loose,
  and that a pass which ends without a report leaves nothing loose (`TeardownHolds`);
  one executor per run; and the corresponding facts about rows, cancels and sweepers.
  An action is looked at twice: for the task that takes it, and, as a step that leaves
  rows and machines undisturbed (`RowsUndisturbed`, `MachinesUndisturbed`), for every
  task that does not.
- `StepEffect` follows from the two: a step leaves machines and retentions alone, or
  leaves the rows alone and is a placement on an undecided run (`Placed`), a teardown
  (`TakenDown`, the tenant's included), the recording of a retention (`KeptFor`) or its removal (`StruckOff`).
- `ReportInv` is about the runs that were settled by their own executor: tasks on them
  are only leaving, sweepers are after the retained machine or too late, and a report
  is backed by the retention on record, whose time is over.

From them: `OneMachinePerRunHolds` (a retry begins only when the attempt before it is
torn down and nothing is reported), `CancelReleasesHolds` (placement refuses a
decided run, so what a cancel lists after its write is everything),
`UndecidedMachineSafeHolds` (from `StepEffect`), `RetentionReportOnRecordHolds` (from
`ReportInv`), and `PromiseKept`: `ExecSpec => Promise!Spec`, where initial states map to
initial states, a step that leaves the machines alone keeps the promise because it is a
step of the queue (`QueueKeepsPromise`), and each of the four effects is a step of the
promise (`EffectKeepsPromise`). `ComputeNotLeaked` is the theorem of `RunPromiseProofs`
under that mapping.

**`RunPromiseProofs`** proves `NothingLeakedHolds`, what the promise amounts to: a
closed run has its verdict and holds at most the machine it was asked to keep.
`PromiseInv` is inductive because a decided run acquires nothing and a machine is
forgotten only when it is gone.

**`SandboxLeaseProofs`**: `LeaseTypes`, `SingleOwner`, `GenerationsOrdered`,
`OwnersAssigned`, `LeasesEnd`, `LatchesHold`, from `LeaseInv`, the conjunction of type
correctness, `OneOwner`, `GenerationsFence` and `AssignmentFollowsLease`.
They need each other: a placement is safe for `OneOwner` because its guards see no
active lease, and only the newest can be one; its generation is above all others
because the row it reads is the newest (`NewestIsHighest`); a renewal raises a
generation and stays below later leases only because an active lease has none. Two
lemmas carry the actions: what a release keeps (`ReleaseKeeps`), and what a placement
keeps once no lease of the sandbox is active (`PlaceKeeps`).

`NoCapacityLost` and `BooksBalance` are about sums over leases, which are counted as
the cardinality of the set of units they hold: units of different leases are
different, so a lease that is added or dropped changes the count by its demand
(`UnitsAdded`), and no induction over the leases is needed. A transaction may release
one lease and place another; `Books(m, a, H)` says of worker `m`, with `a` on offer and
the leases `H` in place, that the books are in order in between, and
`PlaceBalances`, `ReplaceBalances`, `ReleaseBalances` and `RegisterBalances` close them
(`BooksClose`). That a release is credited once rests on `LeaseInv`: a closed lease
is not closed again. What `BalanceKept` excepts is the resize of section 5.

**`SandboxControlProofs`**: `ControlKeepsLeases`, `OwnersServed`, `NewerMachinesSafe`,
`ControlTypesHold`, `RunningWasBuiltHolds`, `RollbackUnreplacedHolds`, `ControlBalances`.
`ControlIsLease` shows that every step of callers, workers and calls is a step of
`SandboxLease` or leaves its variables alone, so `LeaseInv` carries over, and so do
the books (`ControlBalances`; no step of this module changes the size of a worker).
`ControlInv` adds:

- `FloorLearned`: a worker's floor is no higher than a generation the sandbox was
  given. That the owner is never fenced then follows from the order of generations:
  what a floor learned came from this lease or an earlier one.
- `GateInv`: one call behind a gate, whose lease is not older than the one that built
  what is there.
- `CallInv`: each caller waits for one call or none, the call asks what the caller's
  step needs, and it is under the lease of the job or a later one; calls nobody
  waits for any more are still bound to the worker of their lease. `CallsStep` sorts
  all steps into three kinds: the callers only go on from where they were
  (`Follows`), a rollback wins its compare-and-set (`RolledBack`), or a create is
  carried out (`Builds`).
- `MachineInv`: a placement past its create that still holds the newest lease has the
  machine that lease built. Without it `RunningWasBuilt` is not inductive: the
  commit to running only looks at the row and the lease. A recovery asks for the
  owner anew for every call, so its create may build under a later lease than its
  own; `MachineInv` says nothing about it then, and the commit is refused.
- `RollbackUnreplaced` needs `RowStep`: a row that is being destroyed is not placed
  again, by any statement, and becomes running only for a caller at its start.

**`GuardQuarantineProofs`**: `GuardTypes`, `LatchesInStep`, `CompletedHeld`,
`StagesOfOwner`, `CapturesKept`, from `GuardInv`. The incident row is written from
the copies its tasks hold, so what is to hold of the row must be known of every copy
that may still be stored (`CopyOK`); what makes a stale copy harmless is that a later
lease refuses it. `JournalOK` counts the tasks that still may append an event.

**`ArtifactGcProofs`**: `ArtifactTypes`, `ReferencesHold`, `TombstonesHold`,
`DeletionsFinal`, from `ArtifactInv`. That a stored object is kept while it is referred to rests
on what is under way: an upload whose PUT may still land has a pending row within
its grace, hence one no sweep claims (`UploadOK`); a collected or captured key has
one writer (`OneWriter`); a sweeper works on dying objects only, and what it deleted
stays away (`WorkOK`); what was uploaded and is available is stored (`StoredWhileLive`);
and a reference changes no row but to make that of a manifest (`Recorded`). The argument
uses `UploadTTL <= Grace` in one place, the reservation, and nothing about leases of
claims: a sweeper that is late does no harm, because nothing brings a dying object
back (`StateStep`).

Only model-checked: liveness, since fairness and ENABLED are beyond the prover
(`EveryRunFinishes`, `ComputeReturned`, `FinishedReleased`, `StrandedReclaimed`,
`IncidentLatches`, `GarbageReclaimed`). Every other property of a passing run is a
theorem. The findings are counterexamples TLC gives.

## 5. Findings

1. **No attempt is ever sealed on PostgreSQL** (`success_discarded`).
   `execute_created` builds the evidence with `completed_at: None` (`runs.rs:243`)
   and never sets it; `complete_run_attempt` (`postgres.rs:4310`) answers with a
   conflict; `run_claim` fails the run. No run reaches `succeeded` and none is
   retried. The in-memory stores of the API's tests do not make the check.
2. **A destroyed sandbox whose machine is up** (`machine_left`). `abandon_sandbox`
   (`runs.rs:1806`) takes NotFound from the destroy for "the worker has already
   forgotten the machine". A lease that lapsed stops nothing on the worker; NotFound
   comes from the control plane, which finds no lease to send the call under.
3. **A captured machine that runs** (`captured_paused`). `resume_sandbox`
   (`lib.rs:3170`) asks whether there is an incident and resumes in two awaits, and a
   quarantine does not take the lifecycle lock; the incident is opened, cut and
   captured in between, what the comment there says cannot happen.

Observations without a run of their own:

- `register_worker` (`postgres.rs:2569`) floors what is available at 0 when the new size
  is below the units in use. The units in use are only known as total minus available,
  so what exceeds the new size is forgotten and the next release is credited in full: a
  worker of 4 with two sandboxes of 2 comes back with 3 and, when one is deleted,
  offers 2 where 1 is free. The statement's test says the units promised "has to survive
  that resize" (`postgres.rs:8405`), `docs/known-defects.md:127-129` that it "preserves
  in-use capacity". `StaysBalanced` names this step as the only one that unbalances the
  books, and `BooksBalance` proves there is no other.
- A stale executor records its attempt after recovery closed the run's attempts, and
  it stays open (`record_run_attempt`, `postgres.rs:4259`, against
  `docs/ARCHITECTURE.md:63-67`).
- A `keep_on_failure` run that meets its execution deadline loses its machine
  (`runs.rs:1898`, against `run.rs:477`).
- The cancel endpoint reports a failed teardown after the owner tore the machine down
  and finished the row (`lib.rs:4508`, against `docs/ARCHITECTURE.md:68-69`).
- Guard. A request that meets a completed incident latches a released sandbox again
  with its network open, and the write-once trigger of migration 0025 rolls a second
  release back (`guard.rs:436`). A capture directory left half done is refused for
  ever, so its incident never completes (`guard.rs:587`). Two tasks can both append
  the quarantine event (`guard.rs:640`). A cut that comes after a release leaves a
  released row without network (`guard_release.rs:112`). An incident names its
  lease, so after a recovery it cannot be finished. It also names its policy: a
  proposal approved while it is open moves the budget to another (`guard_proposals.rs:344`),
  every later write of the incident is refused (`postgres/guard/mod.rs:174`), and a task
  that has not reached its mark ends without one, though `guard.rs:465` calls everything
  after the opening "repeatable". A stop and a start between two
  stages make a recorded cut stale; a released sandbox cannot be resumed, because
  the incident's row is never deleted.
- Artifacts. Every snapshot's row names a manifest object, `<object_key>.manifest.json`
  (`lib.rs:3801`), that nothing in the repository reserves, stores or reads, and the
  trigger of migration 0014 records it as `available`; `lib.rs:3737` says that "a stored
  snapshot never points at bytes that nobody else can reach", and a row of the ledger
  that is available does not mean that there is an object. No harm is done while nobody
  reads it: it is kept and swept beside its capture. A DELETE of a name between an upload's reservation and its PUT, followed
  by a dropped handler, leaves bytes under a tombstone that no sweep looks at,
  where `artifact_gc.rs:102` says that "even a late successful PUT must leave a
  deletion intent"; hence `TombstoneMeansGone` is about runs and captures. Objects of
  the artifact routes are never referred to, so the sweeper deletes them once their
  grace is over (an hour by default), and their names stay retired.

## 6. Not modelled, and why

- *Runs*: `delete_run`, run events, results other than `cleanup_failed`, placement
  data and the text of a failure reason (no property depends on them); rows that
  migration 0013 seeds from earlier versions and their synchronous creator (not
  initial states of this version); the waiter of `enqueue_and_wait` (reads only) and
  the cap on tasks of one process (the queue's limit is the shared one). Commands,
  git evidence and output are the nondeterministic outcome of a phase.
- *Leases and workers*: the ranking of workers, headroom of hosts that several
  workers share, idempotency fingerprints; the initialisation of guard budgets in a
  provisioning; the worker's response cache by request id and its slots for heavy
  operations; exec and file calls, which change no state modelled here; several
  control-plane processes in `SandboxControl` (in `SandboxLease` callers are
  arbitrary).
- *Guard*: tool approvals, the making and the denial of policy proposals (an approval
  is three steps, its content a number) and the arithmetic of reservations; the
  watchdog's rules, posts and backoff; nftables, namespaces, protocol parsing and timers on the host.
- *Artifacts*: the in-memory twin, staging files, two DELETE requests at a time, a PUT that lands at the store after its
  client gave up.
- *Other parts*: evaluation matrices are clients of the queue; rate limits and the
  repository cache are in-process maps without a protocol; snapshot and image
  records are single statements; runtimes, guest agent and host networking are
  external effects, of which the models use the contract; agent loop, MCP server,
  CLI, SDK and web translate requests. Most of the repository's lines are of this
  kind, or tests.

## 7. Plan

Done: 1 `RunLifecycle`, `RunStore`, `RunQueue`; 2 `RunExecution`; 3 `RunPromise`;
4 `SandboxStates`, `SandboxLease`; 5 `SandboxControl`; 6 `GuardQuarantine`;
7 `ArtifactGc`; all with proofs, the refinements of `RunQueue` and `RunPromise`
included.

8. Smaller components: matrices over `RunQueue`, budget reservations of the guard,
   lifecycle lock, agent budget.
9. Proofs: what remains are consequences worth stating for a reader, such as a machine
   being torn down only under a lease that owned it, and the composition of the lease
   theorems with those of a run. The number of modules with theorems is kept at
   eight; new results go into the module of their component.
