------------------------- MODULE BuildCoordination -------------------------
(***************************************************************************)
(* The authoritative coordination state of the OctaCity server: Builds,    *)
(* Attempts and Jobs, the ready queue, fenced leases, Agent registrations, *)
(* Agent and Pool drain, and lease-expiry recovery.                        *)
(*                                                                         *)
(* One action is one committed transaction of the PostgreSQL store         *)
(* adapter. A request the adapter rejects, and the exact replay of one it  *)
(* has committed, change nothing and are stuttering steps. The row and     *)
(* advisory locks each transaction holds make it atomic.                   *)
(*                                                                         *)
(* Time is the number of clock ticks left before a lease's deadline.       *)
(***************************************************************************)
EXTENDS JobGraph, Sequences

CONSTANTS
    Builds, Jobs, Agents, Pools, Workers,
    None,                \* absence of a row or of a reference
    BuildOf,             \* Job |-> its Build
    AttemptOf,           \* Job |-> the number of its Attempt
    Deps,                \* Job |-> its direct predecessors (same Attempt)
    Policy,              \* Job |-> its dependency policy
    AllowedPools,        \* Job |-> Pools that may run it
    ProjectOf, ConfigurationOf,            \* Build |-> project, configuration
    ProjectLimit, ConfigurationLimit,      \* Build |-> concurrency limits
    PoolLimit,           \* Pool |-> concurrency limit
    RetryMaxAttempts,    \* retry_max_attempts of the build configuration
    RetriesInfrastructure,  \* whether infrastructure failures are requeued
    DrainModes,          \* the Agent drain modes operators use
    PoolTargets,         \* the Pool drain states operators publish
    FastWorkers,         \* expiry workers whose clock runs one tick ahead
    Ttl,                 \* ticks a renewed lease has left
    MaxAttempts, MaxLeases, MaxEvents, MaxEpoch   \* bounds of the instance

LeaseIds   == 1 .. MaxLeases
AttemptIds == 1 .. MaxAttempts

AttemptJobs(b, n) == {j \in Jobs : BuildOf[j] = b /\ AttemptOf[j] = n}

ASSUME GraphAssumption ==
    /\ BuildOf \in [Jobs -> Builds]
    /\ AttemptOf \in [Jobs -> AttemptIds]
    /\ Deps \in [Jobs -> SUBSET Jobs]
    /\ \A j \in Jobs : \A d \in Deps[j] : BuildOf[d] = BuildOf[j] /\ AttemptOf[d] = AttemptOf[j]
    /\ Policy \in [Jobs -> Policies]
    /\ Acyclic(Jobs, Deps)

ASSUME BoundAssumption ==
    /\ MaxAttempts \in Nat \ {0}
    /\ MaxLeases \in Nat
    /\ MaxEvents \in Nat
    /\ MaxEpoch \in Nat
    /\ Ttl \in Nat \ {0}
    /\ RetryMaxAttempts \in Nat
    /\ RetriesInfrastructure \in BOOLEAN

LeaseStates == {"none", "active", "cancellation_requested", "drain_requested",
                "completed", "expired"}

CurrentLeaseStates == {"active", "cancellation_requested", "drain_requested"}

PoolStates == {"Accepting", "GracefulDrain", "ForcedDrain", "Drained"}

Completions == [lease : LeaseIds, kind : CompletionKinds, final : 0 .. MaxEvents]

ASSUME NoneAssumption ==
    /\ None \notin Jobs \cup Agents \cup Pools \cup Workers
    /\ None \notin JobStates \cup AttemptStates \cup BuildStates
    /\ None \notin Completions

VARIABLES
    build,        \* builds.state, or None before the Build is accepted
    latest,       \* greatest attempt_number of the Build
    attempt,      \* attempts.state by Build and number
    cancelled,    \* Builds with a build_cancellations row
    job,          \* jobs.state
    requeues,     \* jobs.infrastructure_requeues
    queue,        \* ready_queue_entries
    events,       \* job_events: the lease that wrote each sequence number
    completion,   \* job_completions
    leaseState, leaseJob, leaseAgent, leaseEpoch, leasePool,   \* leases
    left,         \* ticks until leases.expires_at
    claim,        \* worker_claims row of a lease: its owner until it is completed
    epoch,        \* greatest registration epoch of the Agent
    registered,   \* Agents whose latest registration is neither revoked nor expired
    agentState, agentPool,   \* agents.state, agents.pool_id
    poolState     \* drain_state of the Pool's current version

buildVars == <<build, latest, attempt, cancelled>>
jobVars   == <<job, requeues, queue, events, completion>>
leaseVars == <<leaseState, leaseJob, leaseAgent, leaseEpoch, leasePool, left, claim>>
fleetVars == <<epoch, registered, agentState, agentPool, poolState>>
vars      == <<buildVars, jobVars, leaseVars, fleetVars>>

-----------------------------------------------------------------------------
(* Leases                                                                  *)

IsCurrent(l) == leaseState[l] \in CurrentLeaseStates

\* The registration a lease was granted to is still the Agent's live one.
RegistrationLive(l) ==
    /\ leaseAgent[l] \in registered
    /\ epoch[leaseAgent[l]] = leaseEpoch[l]

\* Mutant: ownership is judged by the deadline and the registration alone.
RequireCurrentByDeadline(l) ==
    IF left[l] = 0 THEN "Expired"
    ELSE IF ~ RegistrationLive(l) THEN "Fenced"
    ELSE "Current"

\* lease::require_current, for a caller that presents the lease's own epoch and
\* fence (lease::load fences every other caller).
RequireCurrent(l) ==
    IF left[l] = 0 \/ leaseState[l] = "expired" THEN "Expired"
    ELSE IF ~ RegistrationLive(l) \/ ~ IsCurrent(l) THEN "Fenced"
    ELSE "Current"

\* Mutant: only the leases of the present registration are counted.
CurrentLeasesOfRegistration(a) ==
    {l \in LeaseIds : IsCurrent(l) /\ leaseAgent[l] = a /\ leaseEpoch[l] = epoch[a]}

CurrentLeasesOf(a)     == {l \in LeaseIds : IsCurrent(l) /\ leaseAgent[l] = a}
PoolLoad(p)            == Cardinality({l \in LeaseIds : IsCurrent(l) /\ leasePool[l] = p})
ProjectLoad(b)         == Cardinality({l \in LeaseIds :
                              IsCurrent(l) /\ ProjectOf[BuildOf[leaseJob[l]]] = ProjectOf[b]})
ConfigurationLoad(b)   == Cardinality({l \in LeaseIds :
                              IsCurrent(l) /\ ConfigurationOf[BuildOf[leaseJob[l]]] = ConfigurationOf[b]})

\* A lease identity is a fresh random identifier; the numbers record the order
\* in which leases were granted.
IsFreshLease(l) ==
    /\ leaseState[l] = "none"
    /\ \A m \in LeaseIds : m < l => leaseState[m] # "none"

-----------------------------------------------------------------------------
Init ==
    /\ build = [b \in Builds |-> None]
    /\ latest = [b \in Builds |-> 0]
    /\ attempt = [b \in Builds |-> [n \in AttemptIds |-> None]]
    /\ cancelled = {}
    /\ job = [j \in Jobs |-> None]
    /\ requeues = [j \in Jobs |-> 0]
    /\ queue = {}
    /\ events = [j \in Jobs |-> <<>>]
    /\ completion = [j \in Jobs |-> None]
    /\ leaseState = [l \in LeaseIds |-> "none"]
    /\ leaseJob = [l \in LeaseIds |-> None]
    /\ leaseAgent = [l \in LeaseIds |-> None]
    /\ leaseEpoch = [l \in LeaseIds |-> 0]
    /\ leasePool = [l \in LeaseIds |-> None]
    /\ left = [l \in LeaseIds |-> 0]
    /\ claim = [l \in LeaseIds |-> None]
    /\ epoch = [a \in Agents |-> 0]
    /\ registered = {}
    /\ agentState = [a \in Agents |-> "offline"]
    /\ agentPool \in [Agents -> Pools]
    /\ poolState = [p \in Pools |-> "Accepting"]

-----------------------------------------------------------------------------
(* Builds: acceptance, retry, cancellation                                 *)

\* insert_attempt, insert_jobs, insert_dependencies, enqueue_roots.
Materialize(b, n) ==
    /\ latest' = [latest EXCEPT ![b] = n]
    /\ attempt' = [attempt EXCEPT ![b][n] = "Running"]
    /\ job' = [j \in Jobs |-> IF j \notin AttemptJobs(b, n) THEN job[j]
                              ELSE IF Deps[j] = {} THEN "Ready" ELSE "Blocked"]
    /\ queue' = queue \cup {j \in AttemptJobs(b, n) : Deps[j] = {}}
    /\ build' = [build EXCEPT ![b] = "Running"]
    /\ UNCHANGED <<cancelled, requeues, events, completion, leaseVars, fleetVars>>

\* accept_trigger commits a Build together with its first Attempt.
StartBuild(b) ==
    /\ build[b] = None
    /\ AttemptJobs(b, 1) # {}
    /\ Materialize(b, 1)

\* retry_build: only the latest Attempt, and only when it and the Build failed.
RetryBuild(b) ==
    /\ build[b] = "Failed"
    /\ attempt[b][latest[b]] = "Failed"
    /\ latest[b] < MaxAttempts
    /\ AttemptJobs(b, latest[b] + 1) # {}
    /\ Materialize(b, latest[b] + 1)

\* The Jobs that cancel_job_states moves to Cancelling.
CancellingTargets(b) ==
    {j \in AttemptJobs(b, latest[b]) : job[j] \in {"Leased", "Running"}}

\* request_lease_cancellation must update one lease row per cancelling Job.
CancellableLeases(b) ==
    {l \in LeaseIds : /\ leaseJob[l] \in CancellingTargets(b)
                      /\ leaseState[l] \in {"active", "drain_requested"}}

LeaseCancellationSucceeds(b) ==
    Cardinality(CancellableLeases(b)) = Cardinality(CancellingTargets(b))

\* Mutant: the queue entries of cancelled Jobs stay behind.
DequeuedByCancellationNone(jobs, next) == {}

\* The entries the DELETE of cancel_build removes: Jobs that are cancelled now.
DequeuedByCancellation(jobs, next) == {j \in jobs : job[j] # next[j] /\ next[j] = "Cancelled"}

\* cancel_build.
CancelBuild(b) ==
    LET jobs == AttemptJobs(b, latest[b])
        next == [j \in Jobs |-> IF j \in jobs THEN CancelJobState(job[j]) ELSE job[j]]
        aggregate == CancelledAggregate(jobs, next)
    IN  /\ b \notin cancelled
        /\ build[b] \in {"Queued", "Running"}
        /\ attempt[b][latest[b]] \in {"Created", "Running"}
        /\ LeaseCancellationSucceeds(b)
        /\ job' = next
        /\ queue' = queue \ DequeuedByCancellation(jobs, next)
        /\ leaseState' = [l \in LeaseIds |-> IF l \in CancellableLeases(b)
                                             THEN "cancellation_requested" ELSE leaseState[l]]
        /\ attempt' = [attempt EXCEPT ![b][latest[b]] = aggregate]
        /\ build' = [build EXCEPT ![b] = aggregate]
        /\ cancelled' = cancelled \cup {b}
        /\ UNCHANGED <<latest, requeues, events, completion, leaseJob, leaseAgent,
                       leaseEpoch, leasePool, left, claim, fleetVars>>

-----------------------------------------------------------------------------
(* Placement                                                               *)

\* Mutant: a Pool that is being drained still hands out work.
MayClaimWhileDraining(a, p) ==
    /\ a \in registered
    /\ agentState[a] = "online"
    /\ agentPool[a] = p
    /\ PoolLoad(p) < PoolLimit[p]
    /\ CurrentLeasesOf(a) = {}

\* The registration query at the head of job_claim.
MayClaim(a, p) ==
    /\ a \in registered
    /\ agentState[a] = "online"
    /\ agentPool[a] = p
    /\ poolState[p] = "Accepting"
    /\ PoolLoad(p) < PoolLimit[p]
    /\ CurrentLeasesOf(a) = {}

\* select_candidate. Priority, fairness and compatibility only choose among the
\* eligible entries, and a locked or incompatible entry is passed over, so any
\* eligible entry may be the one taken.
IsCandidate(j, p) ==
    /\ j \in queue
    /\ job[j] = "Ready"
    /\ p \in AllowedPools[j]
    /\ ProjectLoad(BuildOf[j]) < ProjectLimit[BuildOf[j]]
    /\ ConfigurationLoad(BuildOf[j]) < ConfigurationLimit[BuildOf[j]]

\* job_claim.
ClaimJob(a, p, j, l) ==
    /\ IsFreshLease(l)
    /\ MayClaim(a, p)
    /\ IsCandidate(j, p)
    /\ queue' = queue \ {j}
    /\ job' = [job EXCEPT ![j] = "Leased"]
    /\ leaseState' = [leaseState EXCEPT ![l] = "active"]
    /\ leaseJob' = [leaseJob EXCEPT ![l] = j]
    /\ leaseAgent' = [leaseAgent EXCEPT ![l] = a]
    /\ leaseEpoch' = [leaseEpoch EXCEPT ![l] = epoch[a]]
    /\ leasePool' = [leasePool EXCEPT ![l] = p]
    /\ left' = [left EXCEPT ![l] = Ttl]
    /\ UNCHANGED <<buildVars, requeues, events, completion, claim, fleetVars>>

-----------------------------------------------------------------------------
(* The lease owner: heartbeat, events, completion                          *)

\* Mutant: every heartbeat renews, whatever the directive.
HeartbeatAlwaysRenews(l) ==
    /\ RequireCurrent(l) = "Current"
    /\ left' = [left EXCEPT ![l] = Ttl]
    /\ UNCHANGED <<buildVars, jobVars, leaseState, leaseJob, leaseAgent, leaseEpoch,
                   leasePool, claim, fleetVars>>

\* lease_heartbeat: active and draining leases are renewed, a lease asked to
\* cancel is not.
Heartbeat(l) ==
    /\ RequireCurrent(l) = "Current"
    /\ left' = [left EXCEPT ![l] = IF leaseState[l] = "cancellation_requested" THEN @ ELSE Ttl]
    /\ UNCHANGED <<buildVars, jobVars, leaseState, leaseJob, leaseAgent, leaseEpoch,
                   leasePool, claim, fleetVars>>

\* Mutant: events are accepted from a lease that no longer owns the Job.
AppendEventsUnfenced(l, first, last) ==
    LET j == leaseJob[l]
        n == Len(events[j])
    IN  /\ first <= n + 1
        /\ n < last
        /\ events' = [events EXCEPT ![j] = events[j] \o [s \in 1 .. (last - n) |-> l]]
        /\ UNCHANGED <<buildVars, job, requeues, queue, completion, leaseVars, fleetVars>>

\* job_events: a batch first..last from lease l. What is already stored must
\* carry the digest the sender computes, which only the lease that wrote it
\* does; the rest must follow without a gap.
AppendEvents(l, first, last) ==
    LET j == leaseJob[l]
        n == Len(events[j])
    IN  /\ RequireCurrent(l) = "Current"
        /\ first <= last
        /\ first <= n + 1
        /\ \A s \in 1 .. n : s \in first .. last => events[j][s] = l
        /\ n < last
        /\ job[j] \in OwnedJobStates
        /\ events' = [events EXCEPT ![j] = events[j] \o [s \in 1 .. (last - n) |-> l]]
        /\ job' = [job EXCEPT ![j] = StartJobExecution(job[j])]
        /\ UNCHANGED <<buildVars, requeues, queue, completion, leaseVars, fleetVars>>

\* reconcile_and_apply on an Attempt whose Jobs stand at `base`.
ReconcileAndApply(b, n, base) ==
    LET jobs == AttemptJobs(b, n)
        blocked == {i \in jobs : base[i] = "Blocked"}
    IN  /\ b \in cancelled => CancellationPropagatedIn(jobs, base)
        /\ \E d \in [blocked -> {"Blocked", "Ready", "Skipped"}] :
             LET g == [i \in Jobs |-> IF i \in blocked THEN d[i] ELSE base[i]]
                 a == DeriveAttempt(jobs, g, b \in cancelled)
             IN  /\ Settled(jobs, Deps, Policy, base, g)
                 /\ job' = g
                 /\ queue' = queue \cup {i \in blocked : g[i] = "Ready"}
                 /\ attempt' = [attempt EXCEPT ![b][n] = a]
                 /\ build' = [build EXCEPT ![b] = BuildStateOf(a)]
        /\ UNCHANGED <<latest, cancelled>>

\* job_completion::execute_with_origin, past the replay of an existing row.
Finish(l, kind, final) ==
    LET j == leaseJob[l]
    IN  /\ leaseState[l] # "none"
        /\ completion[j] = None
        /\ RequireCurrent(l) = "Current"
        /\ final = Len(events[j])
        /\ job[j] \in OwnedJobStates
        /\ leaseState' = [leaseState EXCEPT ![l] = "completed"]
        /\ ReconcileAndApply(BuildOf[j], AttemptOf[j], [job EXCEPT ![j] = kind])
        /\ completion' = [completion EXCEPT ![j] = [lease |-> l, kind |-> kind, final |-> final]]
        /\ UNCHANGED <<requeues, events, leaseJob, leaseAgent, leaseEpoch, leasePool,
                       left, claim, fleetVars>>

\* The Agent's completion declares the last sequence it delivered.
CompleteJob(l, kind, final) == Finish(l, kind, final)

\* fail_assignment: the coordinator gives up a lease it could not deliver.
FailAssignment(l) == Finish(l, "Failed", 0)

-----------------------------------------------------------------------------
(* Lease-expiry recovery                                                   *)

\* Mutant: only leases without a directive are looked for.
ClaimExpiredActiveOnly(w, l) ==
    /\ leaseState[l] = "active"
    /\ left[l] = 0
    /\ claim[l] # w
    /\ claim' = [claim EXCEPT ![l] = w]
    /\ UNCHANGED <<buildVars, jobVars, leaseState, leaseJob, leaseAgent, leaseEpoch,
                   leasePool, left, fleetVars>>

\* lease_recovery::claim by worker w, which sees the deadline as passed. The row
\* has no claim or the one of a crashed or slow worker that has expired.
ClaimExpired(w, l) ==
    /\ IsCurrent(l)
    /\ left[l] = 0 \/ (w \in FastWorkers /\ left[l] <= 1)
    /\ claim[l] # w
    /\ claim' = [claim EXCEPT ![l] = w]
    /\ UNCHANGED <<buildVars, jobVars, leaseState, leaseJob, leaseAgent, leaseEpoch,
                   leasePool, left, fleetVars>>

\* The configured bound on infrastructure requeues (saturating subtraction).
RequeueLimit == IF RetryMaxAttempts = 0 THEN 0 ELSE RetryMaxAttempts - 1

\* Mutant: off by one at the limit.
MayRequeueOnceMore(j) ==
    /\ job[j] \in {"Leased", "Running"}
    /\ BuildOf[j] \notin cancelled
    /\ RetriesInfrastructure
    /\ requeues[j] <= RequeueLimit

\* Mutant: a Job that is being cancelled is requeued like any other.
MayRequeueIgnoresCancellation(j) ==
    /\ job[j] \in OwnedJobStates
    /\ RetriesInfrastructure
    /\ requeues[j] < RequeueLimit

MayRequeue(j) ==
    /\ job[j] \in {"Leased", "Running"}
    /\ BuildOf[j] \notin cancelled
    /\ RetriesInfrastructure
    /\ requeues[j] < RequeueLimit

\* lease_recovery::recover, the lease having ended since it was claimed. Recovery
\* uses the time at which the claim was made: neither the lease's deadline nor
\* the claim's is looked at again, only that no other worker took it over.
RecoverEnded(w, l) ==
    /\ claim[l] = w
    /\ ~ IsCurrent(l)
    /\ claim' = [claim EXCEPT ![l] = None]
    /\ UNCHANGED <<buildVars, jobVars, leaseState, leaseJob, leaseAgent, leaseEpoch,
                   leasePool, left, fleetVars>>

\* Mutant: the lease of a requeued Job stays current.
RecoverRequeueKeepsLease(w, l) ==
    LET j == leaseJob[l]
    IN  /\ claim[l] = w
        /\ IsCurrent(l)
        /\ MayRequeue(j)
        /\ job' = [job EXCEPT ![j] = "Ready"]
        /\ requeues' = [requeues EXCEPT ![j] = @ + 1]
        /\ queue' = queue \cup {j}
        /\ claim' = [claim EXCEPT ![l] = None]
        /\ UNCHANGED <<buildVars, events, completion, leaseState, leaseJob, leaseAgent,
                       leaseEpoch, leasePool, left, fleetVars>>

\* lease_recovery::recover, giving the Job back to the queue.
RecoverRequeue(w, l) ==
    LET j == leaseJob[l]
    IN  /\ claim[l] = w
        /\ IsCurrent(l)
        /\ MayRequeue(j)
        /\ leaseState' = [leaseState EXCEPT ![l] = "expired"]
        /\ job' = [job EXCEPT ![j] = "Ready"]
        /\ requeues' = [requeues EXCEPT ![j] = @ + 1]
        /\ queue' = queue \cup {j}
        /\ claim' = [claim EXCEPT ![l] = None]
        /\ UNCHANGED <<buildVars, events, completion, leaseJob, leaseAgent, leaseEpoch,
                       leasePool, left, fleetVars>>

\* lease_recovery::recover, ending the Job as failed or cancelled.
RecoverTerminal(w, l) ==
    LET j    == leaseJob[l]
        kind == IF BuildOf[j] \in cancelled THEN "Cancelled" ELSE "Failed"
    IN  /\ claim[l] = w
        /\ IsCurrent(l)
        /\ ~ MayRequeue(j)
        /\ job[j] \in OwnedJobStates
        /\ leaseState' = [leaseState EXCEPT ![l] = "expired"]
        /\ ReconcileAndApply(BuildOf[j], AttemptOf[j], [job EXCEPT ![j] = kind])
        /\ completion' = IF completion[j] # None THEN completion
                         ELSE [completion EXCEPT ![j] =
                                 [lease |-> l, kind |-> kind, final |-> Len(events[j])]]
        /\ claim' = [claim EXCEPT ![l] = None]
        /\ UNCHANGED <<requeues, events, leaseJob, leaseAgent, leaseEpoch, leasePool,
                       left, fleetVars>>

Recover(w, l) == RecoverEnded(w, l) \/ RecoverRequeue(w, l) \/ RecoverTerminal(w, l)

\* One tick of the clock brings every deadline closer.
Tick ==
    /\ \E l \in LeaseIds : left[l] > 0
    /\ left' = [l \in LeaseIds |-> IF left[l] > 0 THEN left[l] - 1 ELSE 0]
    /\ UNCHANGED <<buildVars, jobVars, leaseState, leaseJob, leaseAgent, leaseEpoch,
                   leasePool, claim, fleetVars>>

-----------------------------------------------------------------------------
(* The fleet: registration, revocation, drain                              *)

\* agent_registration, by enrollment or by the current registration: the next
\* epoch replaces the previous one; leases are left alone.
RegisterAgent(a) ==
    /\ epoch[a] < MaxEpoch
    /\ epoch' = [epoch EXCEPT ![a] = @ + 1]
    /\ registered' = registered \cup {a}
    /\ agentState' = [agentState EXCEPT ![a] = IF @ = "draining" THEN @ ELSE "online"]
    /\ UNCHANGED <<buildVars, jobVars, leaseVars, agentPool, poolState>>

\* The registration is revoked by an operator, or its expires_at passes.
LoseRegistration(a) ==
    /\ a \in registered
    /\ registered' = registered \ {a}
    /\ UNCHANGED <<buildVars, jobVars, leaseVars, epoch, agentState, agentPool, poolState>>

\* The directive a drain writes to the leases it reaches.
Directive(mode) == IF mode = "Forced" THEN "cancellation_requested" ELSE "drain_requested"

\* agent_mutation::drain.
DrainAgent(a, mode) ==
    /\ epoch[a] > 0
    /\ agentState[a] # "draining"
    /\ agentState' = [agentState EXCEPT ![a] = "draining"]
    /\ leaseState' = [l \in LeaseIds |->
                        IF leaseAgent[l] = a /\ leaseState[l] \in {"active", "drain_requested"}
                        THEN Directive(mode) ELSE leaseState[l]]
    /\ UNCHANGED <<buildVars, jobVars, leaseJob, leaseAgent, leaseEpoch, leasePool, left,
                   claim, epoch, registered, agentPool, poolState>>

\* agent_mutation::reassign.
ReassignAgent(a, p) ==
    /\ epoch[a] > 0
    /\ agentPool[a] # p
    /\ CurrentLeasesOf(a) = {}
    /\ registered' = registered \ {a}
    /\ agentState' = [agentState EXCEPT ![a] = "offline"]
    /\ agentPool' = [agentPool EXCEPT ![a] = p]
    /\ UNCHANGED <<buildVars, jobVars, leaseVars, epoch, poolState>>

\* PoolDrainState::transition_to.
MayPublish(current, requested, activeLeases) ==
    \/ requested = current
    \/ current = "Accepting" /\ requested \in {"GracefulDrain", "ForcedDrain"}
    \/ current = "GracefulDrain" /\ requested = "ForcedDrain"
    \/ current \in {"GracefulDrain", "ForcedDrain"} /\ requested = "Drained" /\ ~ activeLeases
    \/ current = "Drained" /\ requested = "Accepting"

\* Mutant: the directive of a drain overwrites every current lease.
PublishPoolOverwrites(p, requested) ==
    /\ MayPublish(poolState[p], requested, PoolLoad(p) > 0)
    /\ poolState' = [poolState EXCEPT ![p] = requested]
    /\ leaseState' =
         [l \in LeaseIds |->
            IF requested \in {"GracefulDrain", "ForcedDrain"} /\ leasePool[l] = p /\ IsCurrent(l)
            THEN Directive(IF requested = "ForcedDrain" THEN "Forced" ELSE "Graceful")
            ELSE leaseState[l]]
    /\ UNCHANGED <<buildVars, jobVars, leaseJob, leaseAgent, leaseEpoch, leasePool, left,
                   claim, epoch, registered, agentState, agentPool>>

\* pool_mutation::publish with apply_lease_directive.
PublishPool(p, requested) ==
    /\ MayPublish(poolState[p], requested, PoolLoad(p) > 0)
    /\ poolState' = [poolState EXCEPT ![p] = requested]
    /\ leaseState' =
         [l \in LeaseIds |->
            IF /\ requested \in {"GracefulDrain", "ForcedDrain"}
               /\ leasePool[l] = p /\ leaseState[l] \in {"active", "drain_requested"}
            THEN Directive(IF requested = "ForcedDrain" THEN "Forced" ELSE "Graceful")
            ELSE leaseState[l]]
    /\ UNCHANGED <<buildVars, jobVars, leaseJob, leaseAgent, leaseEpoch, leasePool, left,
                   claim, epoch, registered, agentState, agentPool>>

-----------------------------------------------------------------------------
BuildNext ==
    \E b \in Builds : StartBuild(b) \/ RetryBuild(b) \/ CancelBuild(b)

LeaseNext ==
    \E l \in LeaseIds :
        \/ \E a \in Agents, p \in Pools, j \in Jobs : ClaimJob(a, p, j, l)
        \/ leaseState[l] # "none" /\ Heartbeat(l)
        \/ leaseState[l] # "none" /\ \E first, last \in 1 .. MaxEvents : AppendEvents(l, first, last)
        \/ \E kind \in CompletionKinds, final \in 0 .. MaxEvents : CompleteJob(l, kind, final)
        \/ FailAssignment(l)

RecoveryNext ==
    \/ Tick
    \/ \E l \in LeaseIds :
          \E w \in Workers : ClaimExpired(w, l) \/ Recover(w, l)

FleetNext ==
    \/ \E a \in Agents :
          \/ RegisterAgent(a)
          \/ LoseRegistration(a)
          \/ \E mode \in DrainModes : DrainAgent(a, mode)
          \/ \E p \in Pools : ReassignAgent(a, p)
    \/ \E p \in Pools, s \in PoolTargets : PublishPool(p, s)

Next == BuildNext \/ LeaseNext \/ RecoveryNext \/ FleetNext

Spec == Init /\ [][Next]_vars

\* Time passes, and the supervised expiry worker keeps claiming expired leases
\* and recovering what it has claimed.
Fairness ==
    /\ WF_vars(Tick)
    /\ \A l \in LeaseIds : /\ WF_vars(\E w \in Workers : ClaimExpired(w, l))
                           /\ WF_vars(\E w \in Workers : Recover(w, l))

FairSpec == Spec /\ Fairness

-----------------------------------------------------------------------------
(* Safety                                                                  *)

\* Every variable keeps its type; a Job is never requeued past the limit.
TypeOK ==
    /\ build \in [Builds -> BuildStates \cup {None}]
    /\ latest \in [Builds -> 0 .. MaxAttempts]
    /\ attempt \in [Builds -> [AttemptIds -> AttemptStates \cup {None}]]
    /\ cancelled \subseteq Builds
    /\ job \in [Jobs -> JobStates \cup {None}]
    /\ requeues \in [Jobs -> 0 .. RequeueLimit]
    /\ queue \subseteq Jobs
    /\ events \in [Jobs -> Seq(LeaseIds)]
    /\ completion \in [Jobs -> Completions \cup {None}]
    /\ leaseState \in [LeaseIds -> LeaseStates]
    /\ leaseJob \in [LeaseIds -> Jobs \cup {None}]
    /\ leaseAgent \in [LeaseIds -> Agents \cup {None}]
    /\ leaseEpoch \in [LeaseIds -> 0 .. MaxEpoch]
    /\ leasePool \in [LeaseIds -> Pools \cup {None}]
    /\ left \in [LeaseIds -> 0 .. Ttl]
    /\ claim \in [LeaseIds -> Workers \cup {None}]
    /\ epoch \in [Agents -> 0 .. MaxEpoch]
    /\ registered \subseteq Agents
    /\ agentState \in [Agents -> {"offline", "online", "draining"}]
    /\ agentPool \in [Agents -> Pools]
    /\ poolState \in [Pools -> PoolStates]

\* The ready queue is the set of ready Jobs. Five transactions write both tables
\* (materialization, claim, cancellation, reconciliation, recovery) and no
\* foreign key or trigger keeps them equal: a ready Job missing from the queue
\* never runs, an entry without a ready Job is a dead entry.
QueueMatchesReady == \A j \in Jobs : j \in queue <=> job[j] = "Ready"

\* A Job is leased, running or cancelling exactly while one lease on it is
\* current, whatever the order of claims, completions, expiries and
\* cancellations.
OwnershipMatchesJob ==
    /\ \A j \in Jobs : job[j] \in OwnedJobStates =>
          \E l \in LeaseIds : IsCurrent(l) /\ leaseJob[l] = j
    /\ \A l \in LeaseIds : IsCurrent(l) => job[leaseJob[l]] \in OwnedJobStates
    /\ \A l, m \in LeaseIds : IsCurrent(l) /\ IsCurrent(m) /\ leaseJob[l] = leaseJob[m] => l = m

\* An Agent holds at most one current lease over all its registrations, and that one
\* counts against the Pool the Agent is in: after a restart it gets no work until the
\* lease of its earlier epoch has ended, and reassignment waits for that lease too.
OneLeasePerAgent ==
    \A l \in LeaseIds : IsCurrent(l) =>
        /\ agentPool[leaseAgent[l]] = leasePool[l]
        /\ \A m \in LeaseIds : IsCurrent(m) /\ leaseAgent[l] = leaseAgent[m] => l = m

\* The stored Attempt and Build states are the ones derived from the Jobs: no
\* transaction leaves an aggregate behind, an accepted cancellation outweighs a
\* late success or failure, and only a failed Attempt was ever followed.
AggregatesDerived ==
    \A b \in Builds : build[b] # None =>
        /\ attempt[b][latest[b]] = DeriveAttempt(AttemptJobs(b, latest[b]), job, b \in cancelled)
        /\ build[b] = BuildStateOf(attempt[b][latest[b]])
        /\ \A n \in AttemptIds : n < latest[b] => attempt[b][n] = "Failed"

\* A cancelled Build keeps no Job that cancellation did not reach. reconcile
\* refuses such a graph, so one such Job would make every later completion and
\* recovery of the Attempt fail.
CancellationPropagated ==
    \A b \in cancelled : CancellationPropagatedIn(AttemptJobs(b, latest[b]), job)

\* A completion row seals its Job: the Job has the recorded outcome, its event
\* stream still ends at the recorded sequence, and the lease that produced it
\* has ended. A Job that succeeded or failed has such a row.
CompletionSealsJob ==
    \A j \in Jobs :
        /\ completion[j] # None =>
              /\ job[j] = completion[j].kind
              /\ Len(events[j]) = completion[j].final
              /\ leaseJob[completion[j].lease] = j
              /\ ~ IsCurrent(completion[j].lease)
        /\ job[j] \in {"Succeeded", "Failed"} => completion[j] # None

\* A Build that is not finished has something that moves it: a queued Job or a
\* current lease. It never waits on Jobs that only wait for each other.
UnfinishedBuildHasWork ==
    \A b \in Builds : build[b] = "Running" =>
        \E j \in AttemptJobs(b, latest[b]) :
            j \in queue \/ \E l \in LeaseIds : IsCurrent(l) /\ leaseJob[l] = j

\* A Job is handed out at most max(1, retry_max_attempts) times, and only after
\* an infrastructure failure was counted for each earlier lease.
ExecutionsBounded ==
    \A j \in Jobs :
        /\ requeues[j] <= RequeueLimit
        /\ Cardinality({l \in LeaseIds : leaseJob[l] = j})
              = requeues[j] + IF job[j] \in OwnedJobStates \/ completion[j] # None THEN 1 ELSE 0

\* The owner that require_current accepts is the last one the Job was given to,
\* also when the expiry worker's clock runs ahead of the database's.
OnlyNewestLeaseAccepted ==
    \A l, m \in LeaseIds :
        leaseState[l] # "none" /\ RequireCurrent(l) = "Current" /\ leaseJob[m] = leaseJob[l]
            => m <= l

\* The event streams of successive owners of a Job do not interleave: once a
\* newer lease has stored an event, no older lease adds one.
EventStreamNotInterleaved ==
    \A j \in Jobs : \A s, t \in 1 .. Len(events[j]) :
        s <= t => events[j][s] <= events[j][t]

\* An owner that has lost its Job is silent: neither an event nor a completion of it
\* is accepted, and none of its events is stored behind those of its successor.
FormerOwnerIsSilent == OnlyNewestLeaseAccepted /\ EventStreamNotInterleaved

\* A Pool that reports drained is idle until it accepts work again
\* (PoolDrainState::Drained): no claim slips in between the check that no lease
\* is left and the new Pool version, and no lease survives it.
DrainedPoolIsIdle == \A p \in Pools : poolState[p] = "Drained" => PoolLoad(p) = 0

-----------------------------------------------------------------------------
(* What the documents say and the code does not do                         *)

\* openspec/specs/server/agent-scheduling/spec.md:64-65: a fenced mutation of an
\* older owner, after ownership has changed, is rejected as fenced.
StaleOwnerIsFenced ==
    \A l, m \in LeaseIds :
        l < m /\ leaseJob[l] # None /\ leaseJob[m] = leaseJob[l] => RequireCurrent(l) = "Fenced"

\* openspec/specs/server/project-runs/spec.md:138: cancellation is a durable
\* intent propagated to every non-terminal Job. An active Build that was not
\* cancelled yet can be: the lease update of cancel_build finds all its rows.
ActiveBuildCancellable ==
    \A b \in Builds : build[b] = "Running" /\ b \notin cancelled => LeaseCancellationSucceeds(b)

-----------------------------------------------------------------------------
(* What a step may never do                                                *)

\* One transition of the Job state machine.
JobStep(s, t) == \E e \in JobTransitions : e[1] = s /\ e[3] = t

\* Every transaction moves a Job along JobState::transition, by at most the two
\* arms of a completion that also starts the Job. SQL writes the state column
\* directly in seven places; terminal Jobs stay as they are.
JobsFollowStateMachine ==
    [][\A j \in Jobs :
          \/ job'[j] = job[j]
          \/ job[j] = None
          \/ JobStep(job[j], job'[j])
          \/ \E s \in JobStates : JobStep(job[j], s) /\ JobStep(s, job'[j])]_vars

\* An owner that was told to stop is not told to go on: a directive is only
\* strengthened until the lease ends, though cancellation, Agent drain and Pool
\* drain write it independently.
DirectiveNeverWeakens ==
    [][\A l \in LeaseIds :
          /\ leaseState[l] = "cancellation_requested" =>
                leaseState'[l] \notin {"none", "active", "drain_requested"}
          /\ leaseState[l] = "drain_requested" => leaseState'[l] \notin {"none", "active"}
          /\ leaseState[l] \in {"completed", "expired"} => leaseState'[l] = leaseState[l]]_vars

-----------------------------------------------------------------------------
(* Liveness                                                                *)

\* A Build whose cancellation was accepted ends as cancelled, even when its
\* Agents keep sending heartbeats and never complete.
CancelledBuildEnds == \A b \in Builds : b \in cancelled ~> build[b] = "Cancelled"

\* A lease that was told to stop, by cancellation or by forced drain, ends, and so
\* does one whose registration was replaced, revoked or expired: its owner cannot
\* keep it by heartbeats, so its Job is recovered.
UnwantedLeaseEnds ==
    \A l \in LeaseIds :
        (\/ leaseState[l] = "cancellation_requested"
         \/ IsCurrent(l) /\ ~ RegistrationLive(l)) ~> ~ IsCurrent(l)

-----------------------------------------------------------------------------
(* Refinement                                                              *)

Lifecycle == INSTANCE BuildLifecycle WITH state <- build, attempts <- latest

\* The coordination of Jobs, leases and Agents implements the life cycle that
\* callers see: whatever commits in which order, a Build goes through the
\* states of BuildLifecycle.
RefinesLifecycle == Lifecycle!Spec
=============================================================================
