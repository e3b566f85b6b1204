# OctaCity: a TLA+ verification project

OctaCity is a self-hosted CI/CD server with a fleet of Agents. The part of it
that has to be right under concurrency is the coordination of work: which Job
may run, who owns it, what happens when the owner disappears, and what the
caller is told about the Build; and, around it, what the Agent does with its lease,
how its events and logs reach the server and leave it again, how a repeated request
is recognised, and how a Factory Run starts and stops Builds. This project models
those parts, checks them with TLC on small instances and proves results about the
core with TLAPS.

Paths are relative to the repository root; `store` stands for
`src/server/infrastructure/octacity-server-store-postgres/src` and `core` for
`src/server/core`.

## 1. The system

| Part | State it keeps | Operations | Talks to |
|---|---|---|---|
| Job state machine, dependency policies (`core/octacity-server-job`, `-pipeline`) | none: pure functions | `JobState::transition`, `DependencyPolicy::decide` | called by the orchestrator |
| Orchestrator (`core/octacity-server-orchestrator`) | none: pure functions | `reconcile`, `cancel_job_states`, `decide_retry` | called inside store transactions |
| Build and lease transactions (`store/cicd/builds`) | builds, attempts, jobs, dependencies, ready queue, leases, job events, completions, cancellations | accept, retry, cancel, claim, heartbeat, append events, complete, fail an assignment, recover | PostgreSQL rows shared by all server processes |
| Fleet (`store/cicd/agents`) | Agents, registrations with epochs, Pools and their versions | register, revoke, drain, reassign, publish a Pool | writes the directive of leases that the Build transactions own |
| Scheduler core (`core/octacity-server-scheduler`) | none | placement compatibility, Pool drain transitions, lease states | called by the claim and by Pool publication |
| Lease expiry worker (`src/server/application/src/agents/lease_expiry.rs`) | worker claims | claim a batch, recover each lease | races every owner |
| Mutation idempotency (`store/mutation.rs`) | mutation records | begin, commit, replay | wraps every mutation |
| Triggers, schedules, webhooks, outbox delivery | trigger state, outbox rows | evaluate, accept, deliver | start Builds |
| Logs: archive, search projection, retention (`src/server/application/src/operations`, `store/operations`) | chunk manifests, index work, projection, holds, retention and orphan work | prepare, append, index, rebuild, hold, delete, clean orphans | objects in S3; the append transaction |
| Artifacts, cache sessions | upload sessions, cache entries | | objects in S3 |
| Factory Runs (`src/server/application/src/factory`, `store/factory`) | Run, checkpoint, Node Attempts, claims | claim, observe, dispatch, cancel, commit; cancel, retry and answer by people | accepts and cancels ordinary Builds |
| Issues, work sources | issue records | | external services |
| Agent (`src/agent`) | journal, event spool, job work space | execute, spool, deliver, monitor the lease, recover at start | server, over HTTP |
| APIs, console, CLI, packaging | none that is authoritative | | |

What is hard here:

- every transaction of the first, third and fourth kind commits in an order
  nobody controls, from several server processes;
- an owner is only presumed dead. Its requests may arrive at any time, before,
  between and after the two transactions of lease recovery;
- an Agent restarts under a new registration epoch while the lease of its
  earlier life is still current;
- three writers (cancellation, Agent drain, Pool drain) set the directive of a
  lease, and four places derive or store aggregate states;
- a requeue, a cancellation and the completion of a predecessor compete for the
  same Job;
- a Build must neither hang (nobody left to move it) nor end twice;
- the transactions take row and advisory locks in orders of their own, and READ
  COMMITTED re-reads a locked row but not the rest of the statement;
- an Agent may lose its process between the journal and the event that belongs to
  it, its spool may be full, and the coordinator may not answer;
- a request may be lost, late or repeated while the first copy is still running;
- objects and rows are written and deleted in separate calls: a chunk is stored
  before its manifest commits, and deleted after it was seen to have none;
- a Factory worker may act on a snapshot after a person has cancelled the Run, or
  end between starting a Build and recording it.

`PROJECT.json` lists these as hazards, each at its line, with the properties
that would catch it going wrong. A hazard without a property has a note.

## 2. Modules

| Module | Models | From |
|---|---|---|
| `JobGraph` | Job transitions, fan-in policies, the fixed point `Settled`, derived aggregate states, cancellation and start decisions: operators only | `octacity-server-job`, `-pipeline`, `-orchestrator`, `job_model.rs` |
| `ReconcileLoop` | `reconcile` step by step: validation passes, the cancellation check, settle passes in BTreeMap order | `reconcile.rs` |
| `BuildCoordination` | the coordination state and one action per committed transaction | `store/cicd/builds`, `store/cicd/agents`, `lease_expiry.rs` |
| `BuildLifecycle` | what a caller is promised about a Build, without Jobs, leases or Agents | abstract specification |
| `RowLocks` | seven of those transactions statement by statement, with row locks, snapshots and deadlock victims | the same files |
| `ClaimScopes` | the claim alone, statement by statement: queue row, advisory try-locks, counts | `job_claim.rs` |
| `EventDelivery` | owners that send event batches over a lossy network, the preparation of log chunks, the append transaction with its mutation record | `job_events.rs`, `agent_execution.rs`, `delivery.rs` |
| `AgentAttempt` | one attempt on the Agent: lifecycle, Job, delivery task, lease monitor, journal, spool, crash and restart | `src/agent/octacity-lifecycle`, `octacity-agent/src/app.rs` |
| `MutationRecord` | begin, the sealed command and commit of one key, with an issue transition as the wrapped mutation | `store/mutation.rs` |
| `OnceOnly` | what a caller who repeats a request is promised | abstract specification |
| `LogRetention` | chunk manifests, index workers, the search projection and its rebuild, holds, retention workers | `log_search.rs`, `retention.rs`, `log_indexing.rs` |
| `LogArchive` | appends of one chunk against orphan cleaners | `orphan.rs`, `retention.rs`, `agent_execution.rs` |
| `FactoryRun` | one Run over a chain of Builds and human gates, its workers and the controls | `src/server/application/src/factory`, `store/factory/execution` |
| `Null` | `None`, the value of a NULL column; extended by `RowLocks`, `MutationRecord`, `LogRetention` and `LogArchive` | |
| `MC...` | the graphs, limits, assignments and symmetry of the instances | |
| `ReconcileLoop_proofs`, `BuildCoordination_proofs`, `ClaimScopes_proofs`, `EventDelivery_proofs`, `AgentAttempt_proofs`, `RowLocks_proofs`, `LogRetention_proofs`, `FactoryRun_proofs` | theorems about the modules they are named after; the first also about `JobGraph`, `RowLocks_proofs` about `MutationRecord`, `LogRetention_proofs` about `LogArchive` (section 5) | |

How they fit together. `BuildCoordination` does not run the loops of `reconcile`
again: its `ReconcileAndApply` takes the graph that `Settled` describes, and
`ReconcileLoop` shows that the loops return exactly that graph and `SettledIsUnique`
that there is only one. It takes a transaction as one step; `RowLocks` and
`ClaimScopes` look inside, for the effects of overlap and for the limits. It lets an
Agent's requests arrive in any order; `AgentAttempt` is the Agent that sends them,
and `EventDelivery` what the network does to one stream of them. `MutationRecord` is
the record that every mutation of the others is wrapped in. `LogArchive` starts
where an append stores a chunk before its transaction; `LogRetention` continues with
the committed manifest. Two pairs of modules share a proof module
and therefore a name space: the specifications of `MutationRecord` and `LogArchive` are
`MutationSpec` and `ArchiveSpec`, and their type invariants `MutationTypeOK` and
`ArchiveTypeOK`. `FactoryRun` uses a Build through `BuildLifecycle`'s
promises, and its fairness rests on `CancelledBuildEnds`, `UnwantedLeaseEnds` and
`ExecutionsBounded` of `BuildCoordination`.

### BuildCoordination

| Variable | In the database |
|---|---|
| `build`, `attempt`, `latest`, `cancelled` | `builds.state`, `attempts.state`, the greatest `attempt_number`, `build_cancellations` |
| `job`, `requeues`, `queue` | `jobs.state`, `jobs.infrastructure_requeues`, `ready_queue_entries` |
| `events`, `completion` | `job_events` (per sequence number, the lease that wrote it), `job_completions` |
| `leaseState`, `leaseJob`, `leaseAgent`, `leaseEpoch`, `leasePool`, `left` | `leases`; `left` is the number of ticks before `expires_at` |
| `claim` | the `worker_claims` row of the lease |
| `epoch`, `registered` | `agent_registrations`: greatest epoch, and whether that registration is live |
| `agentState`, `agentPool`, `poolState` | `agents.state`, `agents.pool_id`, `drain_state` of the current Pool version |

| Action | Code |
|---|---|
| `StartBuild`, `RetryBuild` (both `Materialize`) | `accept_trigger.rs`, `retry_build.rs`, `attempt_materialization.rs` |
| `CancelBuild` | `cancel_build.rs`, `cancellation.rs` |
| `ClaimJob` | `job_claim.rs` |
| `Heartbeat` | `lease_heartbeat.rs`, `lease.rs` |
| `AppendEvents` | `job_events.rs` |
| `CompleteJob`, `FailAssignment` (both `Finish`) | `job_completion.rs`, `job_completion/orchestration.rs` |
| `ClaimExpired`, `RecoverEnded`, `RecoverRequeue`, `RecoverTerminal` | `lease_recovery.rs`, `lease_expiry.rs` |
| `RegisterAgent`, `LoseRegistration` | `agent_registration.rs`, `agent_credential_revocation.rs`, or `expires_at` passing |
| `DrainAgent`, `ReassignAgent`, `PublishPool` | `agent_mutation.rs`, `pool_mutation.rs` |
| `Tick` | the clock |

Abstractions, and why they are sound for what is checked:

- A transaction is one step: each takes row locks on what it reads and writes
  before it decides. `RowLocks` checks what overlap does beneath this.
- A rejected request and the replay of a committed one change nothing.
- Placement order (priority, age, compatibility) only chooses among eligible
  entries, so any of them may be taken.
- The digest of an event is represented by the lease that wrote it. Two owners
  never produce the same digest for a sequence number in this model; where they
  would, the code treats the batch as a replay, which changes nothing.
- Lease identities are random in the code. Their order in the model is the order
  of claims; no action compares them, only properties do.
- The worker's clock and the database's may differ: a worker in `FastWorkers` sees
  a deadline one tick early. Recovery uses the time of the claim and does not look
  at the deadline again, as in the code.
- A worker claim that has expired is taken over at any time (`claim[l] # w`), which
  covers a worker that crashed and one that is slow.
- `ReassignAgent` does not ask whether the Agent fits its new Pool
  (`ensure_compatible`): the model moves Agents that the code would leave.
- `CompletionKinds` has no `TimedOut`, which `job_completion.rs:307-309` refuses: such a
  request changes nothing.

### RowLocks and ClaimScopes

In `RowLocks` a transaction is a list of statements; a statement reads under a
snapshot taken when it starts, waits for the rows it locks, reads those rows again
when it gets them, and the locks are released at commit. `StatementRows` lists the rows
a statement passes over, in the order of identities that the code's `ORDER BY` gives,
and `todo` holds the positions of those it selected and has still to lock. A set of
waiting transactions is a circle when what they wait for is just the set itself; it is
broken by aborting one of them, as PostgreSQL does. The rows are one Build, its Attempt,
its Jobs (`JobOrder`), their leases (`LeaseOrder`) and an Agent; the seven operations are
claim, heartbeat, append, complete, cancel, recover and drain, requested together in the
groups of `Together`. A cancellation that finds one recorded ends there with the recorded
answer. `ClaimScopes` follows a claim from its queue row
(`SKIP LOCKED`) through the advisory try-locks of Project and Build Configuration to
the counts and the insert; only what the limits depend on is kept. The page of a
claim is the set of Jobs it read, gone through in queue order.

### AgentAttempt and EventDelivery

`AgentAttempt` has one program counter per task (lifecycle, Job, delivery, lease
monitor), the journal on disk, the spool with its acknowledged prefix, and the
bounded channel from the runner. A crash keeps the disk and loses the rest; a restart
runs the recovery of `recovery.rs`. I/O may fail at every write that the code checks: the
journal, the spool, the reclaiming of acknowledged records (`AcknowledgeFails`), the
stored completion (`CompletionFails`) and the removal of the attempt's directory.
What the coordinator answers is a choice: acknowledged, rejected, fenced, expired,
unreachable. An attempt that loses its lease or is stopped while it sends the completion
does not know whether that was committed, and both are possible. In `EventDelivery` requests are a set from which the server takes any one at
any time or never, which covers loss, delay and reordering; a repetition is another
send of the same batch, and both may be handled. The handler prepares log chunks
against the cursor it reads and appends in a later transaction. An append to a Build whose
logs are hidden is refused as well (`job_events.rs:236`). Only a finished Build's logs are
hidden, whose Jobs have no owner, and an append without the ownership is already refused.

### MutationRecord

`record` is the row under one key; a call is at the step before which its process may
die. A sealed request stores its command at `begin` and resumes it; an ordinary one
applies its effect and commits in the transaction that began it. `RejectedAt` names the
versions of the aggregate at which the command is not valid, so that a repetition may
meet another state than the first. The refinement to `OnceOnly` hides the steps.

### LogRetention and LogArchive

`work` is the ordered list of index work, `documents`, `applied`, `tombstone` and
`indexedThrough` the projection in its own store, `manifest`, `bytes`, `held`, `phase`
the chunks and their retention. Each call of a worker is a step; between two of them a
claim may run out, a call may fail, or all workers may crash. A call of the index that
fails for good makes a dead letter at once, any other one when its attempts are used up.
`ClaimRetentionWork`, `PrepareRetention` and `PlaceHold` leave out the conditions on
Factory Runs, artifacts and other components: the model deletes logs and places holds
where the code does not, or not yet.

`LogArchive` has one
chunk: an append stages an orphan row, writes the object and commits its manifest; a
cleaner claims a due row, looks for a manifest and deletes the object. The grace period may
end at any step of an append, since the configuration only asks that it exceeds one object
operation (`src/server/app/src/config/validation.rs:258-265`).

### FactoryRun

`attempts` holds the Node Attempts, `builds[i]` the ordinary Build of Attempt `i`,
`cancelling` the flag of the checkpoint. A pass of a worker is `ClaimRun`,
`ReadSnapshot`, `Observe` and perhaps `Dispatch`, or `CancelNode` and perhaps `Withdraw`,
and `CommitTransition`;
`CancelRun`, `RetryNode` and `ResolveNode` are what people do. The version of a Run
only grows, so it is kept as `fresh`, the workers whose snapshot has the current one.
Claim windows all have the same length, so what matters of time is `lapsed` (the
window of the current claim is over), `follows` (this claim was made after the one
that opened the last Attempt had ended) and whether the dispatch window is spent. A
store call that fails leaves the pass, as a crash of the pass would; only dispatch,
whose failure is decided upon, has that case. `answers` has the calls of the output source
(`terminal_usage`, `published_outputs`) that are answered at present; the others fail, with
an error that is waited for or with one that ends the pass. `WithdrawNothing` is the Build
cancellation that is refused or was recorded before; the refusal of `drain_then_cancel` is
one of them.

`CHECK_DEADLOCK FALSE` is set in all runs: each system may come to rest when
everything has ended or a bound of the instance is reached. That nothing waits
for ever where it should not is stated by `UnfinishedBuildHasWork`,
`CycleLeavesLockOrder` and the liveness properties.

## 3. Runs

| Run | Instance | Properties |
|---|---|---|
| `reconcile` | every graph of 3 Jobs, cyclic ones too, every policy, 5 input states, cancelled or not | `ReturnsFixedPoint`, `ValidationIsExact`, `Terminates` |
| `ownership` | 2 Attempts of one Job, 2 Agents with 2 epochs, 2 workers (one fast), 3 leases, 2 events | `OwnershipMatchesJob`, `CompletionSealsJob`, `ExecutionsBounded`, `FormerOwnerIsSilent`, `AggregatesDerived`, `JobsFollowStateMachine`, `RefinesLifecycle` |
| `fleet` | a chain of 2 Jobs, 1 Agent with 2 epochs, 2 Pools, both drain modes, all Pool states, 3 leases, fairness | `QueueMatchesReady`, `CancellationPropagated`, `UnfinishedBuildHasWork`, `OneLeasePerAgent`, `DrainedPoolIsIdle`, `DirectiveNeverWeakens`, `CancelledBuildEnds`, `UnwantedLeaseEnds` |
| `drain_then_cancel` | violation | `ActiveBuildCancellable` |
| `agent_attempt` | spool of 1 record, channel of 1, 1 runner item | `CompletionIsFinal`, `EventsFollowJournal`, `AttemptEnds` |
| `event_delivery` | 2 owners, 3 events and 2 sends each, batches of 3, the second event is log output | `AcknowledgedIsStored`, `OwnStreamIsAccepted` |
| `log_retention` | 1 Build with 2 chunks, 1 index and 2 retention workers, 2 attempts, 1 object a pass, 1 fault or rebuild | `FreshnessIsTruthful`, `ReachableIsReadable`, `HiddenLogsAreDeleted`, `ProjectionCatchesUp` |
| `log_archive` | 3 appends, 2 cleaners, 2 attempts, 2 faults | `CommittedStaysStored`, `AnnouncedOrphanIsRemoved` |
| `mutation_record` | 3 calls of a sealed and 2 of an ordinary request under one key | `ImplementsOnceOnly`, `EveryCallIsAnswered` |
| `row_locks` | 2 Jobs, one transaction of each operation, two groups of five | `OverlapIsHarmless`, `CycleLeavesLockOrder`, `TransactionsEnd` |
| `claim_scopes` | 3 claims, 2 Pools, 2 Projects, 3 configurations, 4 Jobs | `PlacementsAreAllowed`, `ClaimIsAnswered` |
| `factory_run` | a Build and a human gate, 2 workers of which one may end, 1 retry | `StopReceiptIsTruthful`, `CancellationIsFinal`, `CancelledRunEnds`, `FinishedBuildIsRecorded` |

`Drain.cfg` (two Agents) and `Release.cfg` (a join of three Jobs, liveness) are larger
instances of the questions of `fleet`. The type invariant `TypeOK` of a module holds
in its runs too; it is not listed with them.

Why the bounds are enough to make the interesting cases happen:

- *ownership*: three leases on one Job give an owner, its successor and a third that
  meets the requeue limit (2 at `RetryMaxAttempts = 3`). The fast worker sees a lease
  as expired while its owner does not. Two epochs give an Agent that restarts over its
  own lease; two events let a batch overlap what is stored and extend it.
- *fleet*: the second Job depends on the first, so that an end of the first, a
  cancellation and a requeue compete for it; three leases let each Job be lost once. The
  second Pool receives the Agent that is moved while its lease names the first.
- *agent_attempt*: a spool of one record is full as soon as an event waits, which is
  the state in which appends block; the runner item is the event that fills it.
- *event_delivery*: two sends of up to three events give a first send and its
  repetition, alone or in a longer batch; the output is between two events without, so
  that a batch ends before it, at it or after it; the second owner meets what the first
  has stored. Three sends of each owner were checked once as well (14 million states).
- *log_retention*: two chunks with one object a pass make two passes; two workers take
  a claim from each other; the fault may be at any call.
- *log_archive*: three appends are one that commits, one that fails before and one
  after the cleanup; two cleaners take the claim from each other between the look at the
  manifests, the delete and the end of the work.
- *mutation_record*: three repetitions let one die, one run and one come late; the
  other request under the key must be refused.
- *row_locks*: one of each operation is enough for a circle of any two of them and
  for three in a row; the two groups are what is done to a Build and its Jobs, and
  what is done to a lease and its Agent. All seven at once is only used for the
  shorter search of `RecoverCancelled.cfg`.
- *claim_scopes*: a Project limit that changed between two Builds, a Build
  Configuration limited to one and a Pool limited to one, each with two claims that
  compete for it.
- *factory_run*: the Build is the node that is dispatched and stopped, the gate the
  one that waits for a person; a worker that ends leaves its work to the other; one
  retry gives a second Attempt of a node whose first one has a receipt.

Agents are interchangeable (`AgentSymmetry`); symmetry is not used where liveness is
checked.

Fairness:

- *fleet*: `Tick` is weakly fair because time passes; `ClaimExpired` and `Recover` are
  weakly fair per lease because the server supervises the expiry worker, which calls
  `run_once` for ever. That it is per lease assumes that no row fails for ever: one that
  does ends the batch it is in and would hold up the others. Agents and operators get none: the properties hold although an
  Agent sends heartbeats for ever and never completes. That a Build which nobody
  cancels ends is not claimed.
- *reconcile*: a function that can take a step does.
- *agent_attempt*: the runtime schedules its tasks, a Job ends within its wall-clock
  limit, and a batch that is sent again and again is acknowledged once (strong
  fairness). `AttemptLoss.cfg` drops the last.
- *log_retention*, *log_archive*: the worker loops run for as long as a replica is
  up; a claim takes every due row up to its limit; the grace period ends.
- *mutation_record*, *claim_scopes*: a call that can take a step takes it or dies.
- *row_locks*: some transaction that can go on does; the victim of a circle is aborted.
- *factory_run*: living workers poll and go on, claim windows end, cancelled Builds end
  (shown in `fleet`), and windows, which are many times longer than a pass, do not cut
  passes short for ever. The cancellation of a Build that is asked for again and again is
  accepted once (strong fairness of `Withdraw`): it is refused over a lease that a drain
  has told to stop, such a lease ends and a Job has finitely many. Nothing is assumed of
  the output source. Usage and outputs may come late, go away or never come, as for a Job
  that was cancelled while it was queued (`factory_command_output_source.rs:228`).

## 4. What the runs show

All properties of the passing runs hold:

- *The Build.* Ownership, queue and aggregates agree after every transaction; a Job
  runs at most as often as its policy allows; an owner that was replaced changes
  nothing; a cancelled Build ends although Agents do not help; and what callers see
  is `BuildLifecycle`.
- *Beneath the transactions.* However the seven operations overlap, a cancellation
  reaches every Job, a Job has one owner exactly while it is owned and is queued
  exactly while it is ready; what recovery calls the end of a Job may be wrong
  (`RecoverCancelled` below). Circles of waiting transactions occur, each has a member that leaves the common lock order,
  and every transaction ends. Limits of Pool, Project and configuration hold between
  concurrent claims, and try-locks never make a claim wait.
- *The Agent.* A completion is sent last and once, the stream follows the journal, and
  an attempt ends as long as the coordinator answers.
- *Events.* What an Agent has deleted from its spool is stored, whatever the network does.
  A batch is refused for good only over another owner's events or over output of its own
  that was stored and not acknowledged; the latter is a disagreement (`LogReplay` below).
- *Logs.* A result that can be reached can be read, a held one whole; freshness never
  says more than the projection has; hidden logs are deleted in spite of a fault. A chunk
  committed while no cleaner was about to delete it stays stored, however often it is
  announced again, and an announced object without a manifest is deleted. That a manifest
  has its object, and that every object is announced, does not hold where appends overlap
  the cleanup (`LogArchiveLate`, `LogArchiveAgain` below).
- *Repetition.* An effect under a key happens once and every call gets its outcome.
- *Factory.* After a cancellation no Build starts, even from a worker that had read
  the Run before; a stop receipt never names a Build that is still at work. A
  cancelled Run ends, and a Build that ended is recorded although its dispatcher is gone,
  unless what the Build has used or published is not to be had: then the Run waits, as
  `local-compose-stack/spec.md:179-182` says.

While modelling we met statements of the documents and comments that the code does not
keep. `drain_then_cancel` is a run of the project; each of the others has a
configuration of its own and TLC finds the property violated under it.

| Configuration (module) | Property | The code | The statement |
|---|---|---|---|
| `DrainThenCancel` (`MCBuildCoordination`) | `ActiveBuildCancellable` | after a forced drain has put a lease in `cancellation_requested`, `request_lease_cancellation` finds one row too few (`cancel_build.rs:287`) and cancelling the Build fails until that lease ends, when its Job may be requeued | cancellation reaches every non-terminal Job (`openspec/specs/server/project-runs/spec.md:138`) |
| `StaleOwner` (`MCBuildCoordination`) | `StaleOwnerIsFenced` | `require_current` tests the deadline and the `expired` state first (`lease.rs:65`), so a former owner is told `lease_expired` | rejected as `lease_fenced` (`agent-scheduling/spec.md:64-65`) |
| `RecoverCancelled` (`MCRowLocks`) | `FailedMeansExhausted` | recovery reads `EXISTS(build_cancellations)` under the snapshot it had before it waited for the cancellation (`lease_recovery.rs:143`): the Job is failed, not cancelled | "A durable Build cancellation caused the Job to become cancelled." (core `lease_recovery.rs:103-106`) |
| `LogReplay` (`EventDelivery`) | `RepeatedBatchIsAcknowledged` | the digest of an append covers the prepared chunks, which depend on the cursor: a repetition after a lost acknowledgement is a conflict (`job_events.rs:58`) | "returns the same acknowledgement" (`agent-scheduling/spec.md:88-90`) |
| `LogPrepare` (`EventDelivery`) | `PreparationStaysValid` | chunks prepared against an older cursor are refused for good (`job_events.rs:134`) | events are inserted idempotently (`agent-scheduling/spec.md:75`) |
| `RequeuedOwner` (`EventDelivery`) | `RequeuedJobCanBeReported` | events stay with a requeued Job while the next owner numbers its own from 1, so its first batch is a conflict (`job_events.rs:116`) | "returned to the ready queue within its retry policy" (core `lease_recovery.rs:101`) |
| `AttemptDrift` (`AgentAttempt`) | `EventsNeverDrift` | a failed append after `Running` was journalled leaves a stream without that event (`attempt_events.rs:81`) | "must never drift apart" (`attempt_events.rs:3-4`) |
| `AttemptLeak` (`AgentAttempt`) | `IdleWorkerIsClean` | when `Cleaning` cannot be recorded and the lease is lost, the worker goes on with its resources kept (`lifecycle.rs:286`) | "has already cancelled and cleaned execution resources" (`app.rs:180`) |
| `AttemptLeaseCode` (`AgentAttempt`) | `LeaseCodesAreLeaseLoss` | `lease_fenced` in answer to a batch or completion ends the process (`delivery.rs:82`, `terminal.rs:150`) | preserved "as lease-loss outcomes" (`server-agent-v1.md:286-288`) |
| `AttemptCancel` (`AgentAttempt`) | `CancellationStillFlushes` | with a full spool, cancellation makes an append fail and no completion is sent (`delivery.rs:138`) | "Cancellation still permits already-produced events ... to be flushed" (`terminal.rs:130-132`) |
| `AttemptLoss` (`AgentAttempt`) | `CoordinatorLossEndsAttempt` | with a full spool and no coordinator, the transitions after the Job wait for ever (`delivery.rs:136`) | "bounding disk and process lifetime" (`planning/agent/operations.md:115-116`) |
| `LogRebuild` (`MCLogRetention`) | `RebuildCatchesUp` | a rebuild between `index.delete` and `complete_search` leaves work completed that the projection lacks (`retention.rs:179`) | stale "until durable replay catches up" (`backend-contracts.md:666-667`) |
| `LogObsolete` (`MCLogRetention`) | `DeadLetterIsFailure` | index work overtaken by a deletion is a `WorkConflict` and becomes a dead letter (`log_search.rs:482`) | "acknowledges the obsolete work" (`output-storage/spec.md:73-75`) |
| `LogBudget` (`MCLogRetention`) | `DeadLetterAfterRetries` | every page of a deletion counts as an attempt (`retention.rs:104`) | "Failures whose bounded retry budget was exhausted." (application `retention.rs:29`) |
| `LogArchiveLate` (`LogArchive`) | `CommittedIsStored` | the cleaner checks for a manifest and deletes in two calls, and the grace need only exceed one object operation (application `retention.rs:162`) | "never names a missing or unverified chunk" (`agent-scheduling/spec.md:82`) |
| `LogArchiveAgain` (`LogArchive`) | `StoredIsKnown` | an append after the cleanup reuses the completed row, and its object is never cleaned (`orphan.rs:31`) | orphan cleanup deletes it (`architecture/server.md:1542-1544`) |

## 5. Proofs

All proofs hold for every value of the constants. They rest on named assumptions,
which TLC evaluates in each run: `GraphAssumption` (dependencies stay inside an
Attempt and have no cycle, which `validate_graph` enforces), `BoundAssumption` (the
bounds are natural numbers, `Ttl` and `MaxAttempts` positive), `NoneAssumption`
(`None` is no Job, Agent, state or row), and for the loop `JobsAreOrdered` (Jobs
are numbers, visited in their order) and `InputStatesAreJobStates`. The other modules
have one assumption each, on the shape of their constants: `ClaimScopesAssumption`,
`DeliveryAssumption`, `OutcomeAssumption`, `LogRetentionAssumption`,
`LogArchiveAssumption`, `LimitsAssumption` (spool, batch and channel hold at least one),
`RowLocksAssumption` (the Jobs and the leases have an order, and `First` is no transaction) and `ConstantsAreValid`, where a Flow has at least one node because
`flow/definition.rs:844` refuses one without.

No theorem has a hypothesis on a constant beyond these.

**`ReconcileLoop_proofs`, of `JobGraph`.** `SettledIsUnique`: an acyclic graph has at most one settled
successor, so that the relation `Settled` is the function the code computes.
`SettledHasWork`: a settled graph that is not finished has a Job that is neither
blocked nor terminal. Both take the set of counterexample Jobs and apply acyclicity to
it, which replaces an induction over the graph. `DecisionIsStable` says that a
decision is not changed by a later one; the loop may therefore write as it goes.

**`ReconcileLoop_proofs`, of the loops.** `TypeCorrect`, `FixedPointReturned`, `ValidationExact`,
`OutcomeUnique`, `AttemptHasWork`. The invariant has two parts. `ValidationInv`: the
visited Jobs are acyclic and closed under predecessors, and in a pass without progress
each Job looked at and not visited has a predecessor that is not. `SettleInv`: only blocked Jobs have moved, each moved Job
stands where its policy puts it now, and when a pass made no progress the Jobs visited
so far are decided as blocked.

**`BuildCoordination_proofs`.** One inductive invariant, `CoordinationInv`, yields
`TypeCorrect`, `QueueExact`, `OwnershipExact`, `AggregatesExact`,
`CancellationReachesAll`, `UnfinishedHasWork` and `ImplementsLifecycle`. The
properties are not inductive alone; what was added, and why:

| Part | Needed because |
|---|---|
| `LeaseRows` | a current lease must name a Job before `job[leaseJob[l]]` means anything |
| `EventsBounded` | recovery writes the number of stored events into the completion row |
| `Materialized` | a retry must find no Job of the new Attempt, or it would overwrite an owned one |
| `EarlierAttemptsEnded` | the Job of a lease is then in the latest Attempt, whose aggregates are the ones derived |
| `CancelledAreAccepted` | a first Attempt does not start cancelled |
| `AggregatesDerived`, `CancellationPropagated` | a failed Build is not a cancelled one; requeue does not hand out a Job of a cancelled Build |
| `BlockedJobsWait` | between two commits a blocked Job has an unfinished predecessor; acyclicity then finds one that is ready or owned |

The step proofs do not go through the actions six times. `StepKinds` shows once that
each transaction is one of seven kinds of step (quiet, begin, cancel, claim, start,
requeue, end); every invariant is then shown for the kinds. `ReconcileEffect` is the
one place where `reconcile_and_apply` is expanded. `LifecycleStep` is the refinement:
begin maps to `Start` or `Retry`, cancel to `Cancel`, end to `Finish` when the derived
state is final, and every other step leaves the Build as it is.

A second invariant is about what has happened rather than what is. `HistoryInv` holds
together with `CoordinationInv` and yields `CompletionsSeal`, `ExecutionsCounted` and
`FormerOwnersSilenced`:

| Part | Needed because |
|---|---|
| `FreshRows`, `LeasesInOrder` | a claim takes the next lease, so it is newer than every lease with a Job |
| `NewestOwns` | the lease that a fence lets through is the last one granted on its Job |
| `WritersHadJob`, `EventStreamNotInterleaved` | an append by the newest owner comes after everything of the earlier ones |
| `CompletionSealsJob`, `ExecutionsBounded` | the number of leases on a Job is one more than its counted failures exactly while it is owned or completed |

`HistoryStep` classifies the transactions once more, by what they do to this record:
grant, write, give back, seal, or nothing. `OneLeaseAtATime` and `DrainedPoolsIdle` have
their own small invariants over the leases of an Agent and of a Pool. Two action
properties are proved as well: `DirectivesOnlyStrengthen` and `JobsMoveByTheMachine`.

**`ClaimScopes_proofs`.** `PlacementsAllowed`, for any number of claims, Pools,
Projects, configurations and Jobs. The limits are checked statements before the lease
is inserted, so the invariant says for each place in a claim what it may still rely
on: the queue row (`HoldsEntry`), the two advisory locks (`HoldsProject`,
`HoldsConfiguration`), room in the Pool since the Pool's lock was taken (`HasRoom`),
and from the recheck on the counts (`StaysAllowed`). `OthersKept` shows that no step of
another claim disturbs these: an insert into the same Project, configuration or Pool
needs the lock that this claim has, and leases that end only make room.

**`EventDelivery_proofs`.** `AcknowledgedStored` and `OwnStreamAccepted`, for any
number of owners, events and sends. The property speaks of the spool and the store; in
between are messages that may be handled at any later time. So the invariant makes each
of them good for ever: a batch is `Sound` when the owner has spooled its events and
everything before its first one is stored; an acceptance and a mutation record name a
stored prefix. `Grows` (events are only added, spools only extended) is the one fact
about steps that keeps all of that. `AcceptedAppend` is the heart: what comes before the
batch is the lease's own because the batch is sound, the overlap because the prefix was
compared, and the rest because it was just written. For the refusals, `NoGap` and
`ContradictionIsForeign` leave another owner's events, and `RefusedChunks` and
`DifferenceIsStored` output that was stored between two preparations: chunks that differ
do so in events that are durable by then. `OwnInv` carries this from the answer to the
Agent: chunks were cut at some earlier cursor (`ChunksInv`), a message of the latest send
is about the batch the Agent waits for (`SendsInv`), every refusal under way has its cause
(`Explained`), and the cause lies behind what is acknowledged while the Agent waits
(`Waits`), so it is unacknowledged output when the refusal is taken.

**`AgentAttempt_proofs`.** `CompletionFinal` and `EventsReported`, for spools, batches
and channels of any size and any number of runner items, with every crash, restart, lost
lease and failed write of the model. The properties look at the end of an attempt or at
an attempt without an error; what makes them true is settled many steps before, by tasks
that run beside each other. So the invariant says for each place of the lifecycle what
has been achieved on the way there:

| Part | Needed because |
|---|---|
| `TasksInv` | an append is under way only at some steps, and a process that is down has no delivery task that could still acknowledge |
| `PanicInv` | a Job that panicked leaves an error, so its attempt cannot reach the completion |
| `SoundInv` | from the revoked cache session to the removed workspace and the journalled `Completing`, each step without an error leaves what `complete` relies on; a lost lease is seen before `Completing` |
| `SpoolInv` | what is acknowledged is stored, a batch in flight starts at the acknowledged prefix, and no event is added once `complete` is reached |
| `ReportInv` | between the journal entry and its event the stream is exactly one state behind; that state is the one being appended |

`Reports` counts the reported states of a prefix of the stream, and `InOrder` compares each
of them with the journal at its position, which says what a filtered sequence would say
without a recursive definition.

**`RowLocks_proofs`, of `RowLocks`.** `OverlapHarmless` and `CyclesLeaveOrder`, for any
number of Jobs, leases and transactions of each kind and any groups that are requested
together. The invariant, `LockInv`, has a part about the committed rows and one about each
transaction:

| Part | Needed because |
|---|---|
| `OwnerInv` | owners, queue and cancellation of the committed rows agree; a Job is only `cancelling` under a recorded cancellation, so a second one finds its owner told |
| `StageInv` | statements follow each other, and what is still to be locked are positions of the current statement |
| `ClaimInv` | the queue entry a claim has locked stays in the queue, although the claim read it long before it deletes it |
| `CancelInv` | from its third statement on a cancellation has every queue entry locked, and with the Build locked none can be added: no claim slips through between its reading and its writing |
| `RecoverInv`, `CompleteInv` | whoever ends the lease has its row locked, and whoever queues the Job again the Build as well |
| `OrderInv` | what a transaction waits for comes after all that it has, in the order of the tables, or in the same table while it has the Build |

A step of one transaction must not spoil what another knows. `Keeps` says that it leaves
the other's progress and locks alone, `Undisturbed` names the three things the other
relies on in the committed rows, and `OtherKept` that these are enough; each commit then
has one lemma (`ClaimCommits` to `CancelCommits`) with the lock that excludes the harm.
For the circles, take of all transactions in one the one that waits for the row latest in
the order. The transaction it waits for waits for no earlier row, so by `OrderInv` for one
of the same table, and has the Build; so has the transaction that one waits for, which is
then itself.

**`RowLocks_proofs`, of `MutationRecord`.** `ImplementsOnce` is the refinement of `OnceOnly`. `RowInv`
says that a committed record has the outcome of its own command and is undecided only
when sealed, `TransactionInv` that the transaction which has the record locked decides
the command that is committed or its own, `CallInv` that a call which has committed
finds the record decided.
Committing maps to the abstract decision; beginning, dying, rolling back and losing an
answer map to nothing.

**`LogRetention_proofs`, of `LogRetention`.** `FreshnessTruthful` and `ReachableReadable`, for any number of
Builds, chunks, workers, failures and rebuilds. The two properties speak of the queue, the
projection and the objects, which are written in separate calls by workers that may have
lost their claims; what orders them is the tombstone of a Build. `TombstoneInv` says that a
tombstone exists only for a hidden Build, keeps its documents out, and comes before any of
its bytes goes; `Visibility` that a hidden Build stays hidden, is under no hold and has its
deletion in the queue; `AppliedInv` that what is recorded as applied has its document or its
Build a tombstone; `Documented` that only committed chunks have documents. These facts only
get stronger (`Onward`), so what a worker knew when it was given its work is still so when
it acts: `IndexerInv`, `CleanerInv`. `NoGap`, with `FreshnessHasNoGap`, is the watermark.
Most steps leave visibility and the projection alone and share one argument (`Soft`); the
calls of the projection, the append, the hiding and the rebuild have one each.

**`LogRetention_proofs`, of `LogArchive`.** `ArchiveTypeCorrect` and the action property
`CommittedStays`, for any number of appends and cleaners, overlapping in any way. A cleaner
gets to its delete only by a look at the manifests that found none; once a manifest is
committed no look does, so `SafelyCommitted` is kept by every step.

**`FactoryRun_proofs`.** `ReceiptsTruthful` and the action property
`CancellationFinal`, for any chain of Builds and gates, any number of workers and any
number of retries. A receipt is written at the end of a pass from what its worker saw
before, so the invariant follows the plan: `PassInv` says that the plan of the worker that has
the claim is `Justified` by the present state (a void receipt, for example, by a Build
that was never accepted), and `EntryIsTrue` that what the journal says of a Build is
so. The steps of a cancelling pass (`Cancels`) share one list of outcomes
(`CancelOutcomes`). Only the worker with the claim and the current version commits, and every step
that could make its plan wrong takes the claim or the version from it.

Proving also corrected the models: the result of an append was written with
overlapping `CASE` arms, of which TLA+ leaves the choice open while TLC takes the
first; it is now the chain of early returns that the code has.

## 6. Only model-checked, and not modelled

Only model-checked: the liveness properties, since fairness and `ENABLED` are out of
the prover's reach (`AttemptEnds`, `TransactionsEnd`, `EveryCallIsAnswered`,
`ClaimIsAnswered`, `AnnouncedOrphanIsRemoved`, `HiddenLogsAreDeleted`, `ProjectionCatchesUp`,
`CancelledBuildEnds`, `UnwantedLeaseEnds`, `CancelledRunEnds`, `FinishedBuildIsRecorded`,
and `Terminates` of the loop). Every safety invariant and action property that a passing
run checks is stated by a theorem.

Not modelled:

- **Placement order.** Priority, fairness and capability matching choose among eligible
  entries; the model takes any of them, so nothing is said about starvation.
- **Fleet.** Enabling and disabling an Agent, enrollment, and creation and deletion of
  Agents and Pools.
- **Mutation records.** `commit_fresh`, `probe`, expiry, and the digests of the other
  mutations.
- **Agent.** Registration, credential renewal, assignment validation, source,
  execution backends and output upload: mostly calls to the operating system.
- **Logs.** Only the logs component of retention. Artifacts, reports and their upload
  sessions follow another protocol.
- **Factory.** Subflows, cycles, deterministic gates, trusted actions, profile
  selection, phase pools, work-in-progress limits, budgets, admission, its outbox and
  recovery after a restore.
- **Data.** Signatures, digests, notifications, audit rows and secrets, which no
  coordination decision reads. A digest appears as the lease or the preparation that
  produced the event.
- **The other components of section 1.** Object storage, containers and work sources
  are external; APIs, console, CLI and integrations hold no authoritative state.
  Webhooks, schedules, outbox delivery, cache sessions and artifact uploads are in the
  plan.

Most of the repository is in these last groups: protocol types, decoding, adapters,
configuration, tests and the console. The models cover the part in which more than one
actor changes the same state.

## 7. Plan

1. Trigger evaluation, schedules and the outbox: acceptance once per occurrence.
2. Artifact upload sessions and cache sessions against retention.
3. The rest of Factory: subflows, budgets and the admission queue.
