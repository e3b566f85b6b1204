---------------------- MODULE BuildCoordination_proofs ----------------------
(***************************************************************************)
(* Invariants of the coordination transactions for any number of Builds,   *)
(* Jobs, Agents, Pools, workers and leases, and the proof that they        *)
(* implement the life cycle of a Build.                                    *)
(***************************************************************************)
EXTENDS BuildCoordination, FiniteSetTheorems, TLAPS

\* A fan-in whose predecessors have all ended is decided (policy.rs:47-84): only
\* a Job without predecessor, or with one that is still pending, stays blocked.
LEMMA BlockedNeedsPending ==
    ASSUME NEW deps, NEW policy, NEW g, NEW j,
           policy[j] \in Policies,
           deps[j] # {},
           \A d \in deps[j] : g[d] \in TerminalJobStates
    PROVE  JobDecision(deps, policy, g, j) # "Blocked"
  <1> DEFINE outcomes == {DependencyOutcome(g[d]) : d \in deps[j]}
  <1>1. "Pending" \notin outcomes
    BY DEF DependencyOutcome, TerminalJobStates
  <1>2. outcomes # {}
    OBVIOUS
  <1>3. Decide(policy[j], outcomes) # "Blocked"
    <2> HIDE DEF outcomes
    <2> QED BY <1>1, <1>2 DEF Decide, Policies
  <1> QED BY <1>3 DEF JobDecision

-----------------------------------------------------------------------------
(* The inductive invariant                                                 *)

\* A lease row refers to a Job, an Agent and a Pool.
LeaseRows ==
    \A l \in LeaseIds : leaseState[l] # "none" =>
        leaseJob[l] \in Jobs /\ leaseAgent[l] \in Agents /\ leasePool[l] \in Pools

\* The bound of the instance on events.
EventsBounded == \A j \in Jobs : Len(events[j]) <= MaxEvents

TypeInv == TypeOK /\ LeaseRows /\ EventsBounded

\* The Jobs that exist are those of the Attempts that were materialized.
Materialized ==
    /\ \A j \in Jobs : job[j] # None <=> AttemptOf[j] <= latest[BuildOf[j]]
    /\ \A b \in Builds : build[b] = None <=> latest[b] = 0

\* Only the latest Attempt of a Build has Jobs that are not finished.
EarlierAttemptsEnded ==
    \A j \in Jobs : AttemptOf[j] < latest[BuildOf[j]] => job[j] \in TerminalJobStates

\* A Build must be accepted before it is cancelled.
CancelledAreAccepted == \A b \in cancelled : build[b] # None

BuildInv ==
    /\ Materialized
    /\ EarlierAttemptsEnded
    /\ CancelledAreAccepted
    /\ AggregatesDerived
    /\ CancellationPropagated

\* A blocked Job waits for a predecessor that has not ended.
BlockedJobsWait ==
    \A j \in Jobs : job[j] = "Blocked" =>
        \E d \in Deps[j] : job[d] # None /\ job[d] \notin TerminalJobStates

CoordinationInv ==
    TypeInv /\ BuildInv /\ BlockedJobsWait /\ QueueMatchesReady /\ OwnershipMatchesJob

-----------------------------------------------------------------------------
(* The effect of the pure decisions                                        *)

\* derive_attempt_state yields an Attempt state, and a cancelled Attempt ends as
\* cancelled and in no other way.
LEMMA DeriveType ==
    ASSUME NEW jobs, NEW g, NEW c
    PROVE  /\ DeriveAttempt(jobs, g, c) \in {"Running", "Succeeded", "Failed", "Cancelled"}
           /\ c => DeriveAttempt(jobs, g, c) \in {"Running", "Cancelled"}
           /\ BuildStateOf(DeriveAttempt(jobs, g, c)) = DeriveAttempt(jobs, g, c)
           /\ DeriveAttempt(jobs, g, c) = "Running"
                 <=> \E j \in jobs : g[j] \notin TerminalJobStates
  BY DEF DeriveAttempt, BuildStateOf

\* What reconcile_and_apply writes when the owned Job j ends as `kind`: j itself,
\* blocked Jobs of the same Attempt, the queue and the aggregates.
LEMMA ReconcileEffect ==
    ASSUME TypeOK, NEW j \in Jobs, NEW kind \in CompletionKinds,
           job[j] \in OwnedJobStates,
           ReconcileAndApply(BuildOf[j], AttemptOf[j], [job EXCEPT ![j] = kind])
    PROVE  LET b == BuildOf[j]
               n == AttemptOf[j]
               a == DeriveAttempt(AttemptJobs(b, n), job', b \in cancelled)
           IN  /\ job' \in [Jobs -> JobStates \cup {None}]
               /\ job'[j] = kind
               /\ \A i \in Jobs : i # j /\ job[i] # "Blocked" => job'[i] = job[i]
               /\ \A i \in Jobs : job[i] = "Blocked" => job'[i] \in {"Blocked", "Ready", "Skipped"}
               /\ \A i \in Jobs : i \notin AttemptJobs(b, n) => job'[i] = job[i]
               /\ queue' = queue \cup {i \in Jobs : job[i] = "Blocked" /\ job'[i] = "Ready"}
               /\ attempt' = [attempt EXCEPT ![b][n] = a]
               /\ build' = [build EXCEPT ![b] = a]
               /\ latest' = latest /\ cancelled' = cancelled
               /\ b \in cancelled => CancellationPropagatedIn(AttemptJobs(b, n), job')
               /\ \A i \in AttemptJobs(b, n) :
                     job[i] = "Blocked" => job'[i] = JobDecision(Deps, Policy, job', i)
  <1> DEFINE b == BuildOf[j]
             n == AttemptOf[j]
             base == [job EXCEPT ![j] = kind]
             jobs == AttemptJobs(b, n)
             blocked == {i \in jobs : base[i] = "Blocked"}
  <1>1. j \in jobs /\ jobs \subseteq Jobs
    BY DEF AttemptJobs
  <1>2. base \in [Jobs -> JobStates \cup {None}] /\ base[j] = kind
    BY DEF TypeOK, CompletionKinds, JobStates
  <1>3. kind # "Blocked" /\ job[j] # "Blocked" /\ kind \in JobStates
    BY DEF CompletionKinds, OwnedJobStates, JobStates
  <1>4. PICK d \in [blocked -> {"Blocked", "Ready", "Skipped"}] :
          LET g == [i \in Jobs |-> IF i \in blocked THEN d[i] ELSE base[i]]
              a == DeriveAttempt(jobs, g, b \in cancelled)
          IN  /\ Settled(jobs, Deps, Policy, base, g)
              /\ job' = g
              /\ queue' = queue \cup {i \in blocked : g[i] = "Ready"}
              /\ attempt' = [attempt EXCEPT ![b][n] = a]
              /\ build' = [build EXCEPT ![b] = BuildStateOf(a)]
    BY DEF ReconcileAndApply
  <1> DEFINE g == [i \in Jobs |-> IF i \in blocked THEN d[i] ELSE base[i]]
  <1>5. job' = g
    BY <1>4
  <1>6. \A i \in Jobs : i \in blocked => g[i] \in {"Blocked", "Ready", "Skipped"} /\ job[i] = "Blocked"
    BY <1>2, <1>3
  <1>7. \A i \in Jobs : i \notin blocked => g[i] = base[i]
    OBVIOUS
  <1>8. \A i \in Jobs : i # j => base[i] = job[i]
    BY DEF TypeOK
  <1> HIDE DEF g, blocked
  <1>9. job' \in [Jobs -> JobStates \cup {None}]
    <2>1. \A i \in Jobs : g[i] \in JobStates \cup {None}
      BY <1>2, <1>6, <1>7 DEF JobStates
    <2>2. g = [i \in Jobs |-> g[i]]
      BY DEF g
    <2> QED BY <1>5, <2>1, <2>2
  <1>10. j \notin blocked /\ blocked \subseteq Jobs
    BY <1>1, <1>2, <1>3 DEF blocked
  <1>11. \A i \in Jobs : job[i] = "Blocked" /\ i \notin blocked => i \notin jobs
    BY <1>3, <1>8 DEF blocked
  <1>12. job'[j] = kind
    BY <1>2, <1>5, <1>7, <1>10
  <1>13. \A i \in Jobs : i # j /\ job[i] # "Blocked" => job'[i] = job[i]
    BY <1>5, <1>6, <1>7, <1>8
  <1>14. \A i \in Jobs : job[i] = "Blocked" => job'[i] \in {"Blocked", "Ready", "Skipped"}
    BY <1>3, <1>5, <1>6, <1>7, <1>8
  <1>15. \A i \in Jobs : i \notin jobs => job'[i] = job[i]
    BY <1>1, <1>5, <1>7, <1>8 DEF blocked
  <1>16. queue' = queue \cup {i \in Jobs : job[i] = "Blocked" /\ job'[i] = "Ready"}
    <2>1. {i \in blocked : g[i] = "Ready"} = {i \in Jobs : job[i] = "Blocked" /\ g[i] = "Ready"}
      BY <1>3, <1>6, <1>7, <1>8, <1>10
    <2>2. queue' = queue \cup {i \in blocked : g[i] = "Ready"}
      BY <1>4 DEF g
    <2> QED BY <1>5, <2>1, <2>2
  <1>17. /\ attempt' = [attempt EXCEPT ![b][n] = DeriveAttempt(jobs, job', b \in cancelled)]
         /\ build' = [build EXCEPT ![b] = DeriveAttempt(jobs, job', b \in cancelled)]
    <2> DEFINE a == DeriveAttempt(jobs, g, b \in cancelled)
    <2>1. BuildStateOf(a) = a
      BY DeriveType
    <2>2. attempt' = [attempt EXCEPT ![b][n] = a] /\ build' = [build EXCEPT ![b] = BuildStateOf(a)]
      BY <1>4 DEF g
    <2>3. a = DeriveAttempt(jobs, job', b \in cancelled)
      BY <1>5
    <2> HIDE DEF a
    <2> QED BY <2>1, <2>2, <2>3
  <1>18. latest' = latest /\ cancelled' = cancelled
    BY DEF ReconcileAndApply
  <1>19. b \in cancelled => CancellationPropagatedIn(jobs, job')
    <2> SUFFICES ASSUME b \in cancelled PROVE CancellationPropagatedIn(jobs, job')
      OBVIOUS
    <2>1. CancellationPropagatedIn(jobs, base)
      BY DEF ReconcileAndApply
    <2>2. blocked = {}
      BY <2>1 DEF blocked, CancellationPropagatedIn
    <2>3. \A i \in jobs : job'[i] = base[i]
      BY <1>1, <1>5, <1>7, <2>2
    <2> QED BY <2>1, <2>3 DEF CancellationPropagatedIn
  <1>20. \A i \in jobs : job[i] = "Blocked" => job'[i] = JobDecision(Deps, Policy, job', i)
    <2>1. Settled(jobs, Deps, Policy, base, job')
      BY <1>4, <1>5 DEF g
    <2> QED BY <1>1, <1>3, <1>8, <2>1 DEF Settled
  <1> QED BY <1>9, <1>12, <1>13, <1>14, <1>15, <1>16, <1>17, <1>18, <1>19, <1>20

-----------------------------------------------------------------------------
(* Type correctness                                                        *)

\* The empty database has the types.
LEMMA InitType == Init => TypeInv
  BY BoundAssumption, NoneAssumption
  DEF Init, TypeInv, TypeOK, LeaseRows, EventsBounded, LeaseIds, AttemptIds, LeaseStates,
      PoolStates, RequeueLimit

\* A Job that ends is recorded with the last event that is stored.
LEMMA FinishType ==
    ASSUME TypeInv, NEW l \in LeaseIds, NEW kind \in CompletionKinds,
           leaseState[l] # "none",
           job[leaseJob[l]] \in OwnedJobStates,
           ReconcileAndApply(BuildOf[leaseJob[l]], AttemptOf[leaseJob[l]],
                             [job EXCEPT ![leaseJob[l]] = kind])
    PROVE  /\ leaseJob[l] \in Jobs
           /\ [lease |-> l, kind |-> kind, final |-> Len(events[leaseJob[l]])] \in Completions
           /\ job' \in [Jobs -> JobStates \cup {None}]
           /\ queue' \subseteq Jobs
           /\ attempt' \in [Builds -> [AttemptIds -> AttemptStates \cup {None}]]
           /\ build' \in [Builds -> BuildStates \cup {None}]
           /\ latest' = latest /\ cancelled' = cancelled
  <1> DEFINE j == leaseJob[l]
  <1>1. j \in Jobs
    BY DEF TypeInv, LeaseRows
  <1>2. Len(events[j]) \in 0 .. MaxEvents
    BY <1>1, BoundAssumption DEF TypeInv, TypeOK, EventsBounded
  <1>3. BuildOf[j] \in Builds /\ AttemptOf[j] \in AttemptIds
    BY <1>1, GraphAssumption
  <1> DEFINE a == DeriveAttempt(AttemptJobs(BuildOf[j], AttemptOf[j]), job', BuildOf[j] \in cancelled)
  <1>4. a \in AttemptStates /\ a \in BuildStates
    BY DeriveType DEF AttemptStates, BuildStates
  <1> HIDE DEF a
  <1>5. /\ job' \in [Jobs -> JobStates \cup {None}]
        /\ queue' = queue \cup {i \in Jobs : job[i] = "Blocked" /\ job'[i] = "Ready"}
        /\ attempt' = [attempt EXCEPT ![BuildOf[j]][AttemptOf[j]] = a]
        /\ build' = [build EXCEPT ![BuildOf[j]] = a]
        /\ latest' = latest /\ cancelled' = cancelled
    BY <1>1, ReconcileEffect DEF TypeInv, a
  <1>6. attempt' \in [Builds -> [AttemptIds -> AttemptStates \cup {None}]]
    BY <1>3, <1>4, <1>5 DEF TypeInv, TypeOK
  <1> QED BY <1>1, <1>2, <1>3, <1>4, <1>5, <1>6 DEF TypeInv, TypeOK, Completions

\* Recovery ends a lease and leaves the rest of its row alone.
LEMMA LeaseEndsType ==
    ASSUME TypeInv, NEW l \in LeaseIds, IsCurrent(l),
           leaseState' = [leaseState EXCEPT ![l] = "expired"],
           UNCHANGED <<leaseJob, leaseAgent, leasePool>>
    PROVE  leaseState' \in [LeaseIds -> LeaseStates] /\ LeaseRows'
  <1>1. leaseState[l] # "none" /\ "expired" \in LeaseStates
    BY DEF IsCurrent, CurrentLeaseStates, LeaseStates
  <1>2. leaseState' \in [LeaseIds -> LeaseStates]
    BY <1>1 DEF TypeInv, TypeOK
  <1>3. \A m \in LeaseIds : leaseState'[m] # "none" => leaseState[m] # "none"
    BY <1>1 DEF TypeInv, TypeOK
  <1> QED BY <1>2, <1>3 DEF TypeInv, LeaseRows

\* Every transaction keeps the types.
LEMMA NextType == TypeInv /\ [Next]_vars => TypeInv'
  <1> SUFFICES ASSUME TypeInv, [Next]_vars PROVE TypeInv'
    OBVIOUS
  <1> USE DEF TypeInv
  <1>1. ASSUME NEW b \in Builds, NEW n \in AttemptIds, Materialize(b, n) PROVE TypeInv'
    <2> USE <1>1 DEF Materialize, leaseVars, fleetVars
    <2>1. job' \in [Jobs -> JobStates \cup {None}]
      BY DEF TypeOK, JobStates
    <2>2. attempt' \in [Builds -> [AttemptIds -> AttemptStates \cup {None}]]
      BY DEF TypeOK, AttemptStates
    <2>3. build' \in [Builds -> BuildStates \cup {None}]
      BY DEF TypeOK, BuildStates
    <2>4. latest' \in [Builds -> 0 .. MaxAttempts]
      BY BoundAssumption DEF TypeOK, AttemptIds
    <2>5. queue' \subseteq Jobs
      BY DEF TypeOK, AttemptJobs
    <2> QED BY <2>1, <2>2, <2>3, <2>4, <2>5 DEF TypeOK, LeaseRows, EventsBounded
  <1>2. ASSUME NEW b \in Builds, StartBuild(b) PROVE TypeInv'
    BY <1>1, <1>2, BoundAssumption DEF StartBuild, AttemptIds
  <1>3. ASSUME NEW b \in Builds, RetryBuild(b) PROVE TypeInv'
    <2>1. latest[b] + 1 \in AttemptIds
      BY <1>3, BoundAssumption DEF RetryBuild, AttemptIds, TypeOK
    <2> QED BY <1>1, <1>3, <2>1 DEF RetryBuild
  <1>4. ASSUME NEW b \in Builds, CancelBuild(b) PROVE TypeInv'
    <2> USE <1>4 DEF CancelBuild, fleetVars
    <2>1. job' \in [Jobs -> JobStates \cup {None}]
      BY DEF TypeOK, JobStates, CancelJobState
    <2>2. attempt' \in [Builds -> [AttemptIds -> AttemptStates \cup {None}]]
      BY DEF TypeOK, AttemptStates, CancelledAggregate
    <2>3. build' \in [Builds -> BuildStates \cup {None}]
      BY DEF TypeOK, BuildStates, CancelledAggregate
    <2>4. leaseState' \in [LeaseIds -> LeaseStates]
      BY DEF TypeOK, LeaseStates
    <2>5. LeaseRows'
      BY DEF LeaseRows, CancellableLeases
    <2> QED BY <2>1, <2>2, <2>3, <2>4, <2>5 DEF TypeOK, EventsBounded
  <1>5. ASSUME NEW l \in LeaseIds, NEW a \in Agents, NEW p \in Pools, NEW j \in Jobs,
               ClaimJob(a, p, j, l)
        PROVE  TypeInv'
    BY <1>5, BoundAssumption
    DEF ClaimJob, TypeOK, LeaseRows, EventsBounded, JobStates, LeaseStates, buildVars, fleetVars
  <1>6. ASSUME NEW l \in LeaseIds, Heartbeat(l) PROVE TypeInv'
    BY <1>6, BoundAssumption
    DEF Heartbeat, TypeOK, LeaseRows, EventsBounded, buildVars, jobVars, fleetVars
  <1>7. ASSUME NEW l \in LeaseIds, leaseState[l] # "none",
               NEW first \in 1 .. MaxEvents, NEW last \in 1 .. MaxEvents, AppendEvents(l, first, last)
        PROVE  TypeInv'
    <2> DEFINE j == leaseJob[l]
               n == Len(events[j])
               new == [s \in 1 .. (last - n) |-> l]
    <2> USE <1>7 DEF AppendEvents, buildVars, leaseVars, fleetVars
    <2>1. j \in Jobs /\ events[j] \in Seq(LeaseIds) /\ n \in Nat
      BY DEF LeaseRows, TypeOK
    <2>2. n < last
      OBVIOUS
    <2>3. new \in Seq(LeaseIds) /\ Len(new) = last - n
      BY <2>1, <2>2, BoundAssumption
    <2> HIDE DEF new
    <2>4. events[j] \o new \in Seq(LeaseIds) /\ Len(events[j] \o new) = last
      BY <2>1, <2>2, <2>3, BoundAssumption
    <2>5. events' = [events EXCEPT ![j] = events[j] \o new]
      BY DEF new
    <2>6. events' \in [Jobs -> Seq(LeaseIds)] /\ EventsBounded'
      <3>1. events' \in [Jobs -> Seq(LeaseIds)]
        BY <2>1, <2>4, <2>5 DEF TypeOK
      <3>2. \A i \in Jobs : events'[i] = IF i = j THEN events[j] \o new ELSE events[i]
        BY <2>1, <2>5 DEF TypeOK
      <3> HIDE DEF j
      <3>3. EventsBounded'
        BY <2>4, <3>2, BoundAssumption DEF EventsBounded
      <3> QED BY <3>1, <3>3
    <2>7. job' \in [Jobs -> JobStates \cup {None}]
      BY <2>1 DEF TypeOK, StartJobExecution, JobStates
    <2> QED BY <2>6, <2>7 DEF TypeOK, LeaseRows
  <1>8. ASSUME NEW l \in LeaseIds, NEW kind \in CompletionKinds, NEW final \in Nat,
               Finish(l, kind, final)
        PROVE  TypeInv'
    <2> USE <1>8 DEF Finish, fleetVars
    <2>1. leaseState' \in [LeaseIds -> LeaseStates] /\ LeaseRows'
      BY DEF TypeOK, LeaseStates, LeaseRows
    <2>2. /\ leaseJob[l] \in Jobs
          /\ [lease |-> l, kind |-> kind, final |-> final] \in Completions
          /\ job' \in [Jobs -> JobStates \cup {None}]
          /\ queue' \subseteq Jobs
          /\ attempt' \in [Builds -> [AttemptIds -> AttemptStates \cup {None}]]
          /\ build' \in [Builds -> BuildStates \cup {None}]
          /\ latest' = latest /\ cancelled' = cancelled
      BY FinishType
    <2>3. completion' \in [Jobs -> Completions \cup {None}]
      BY <2>2 DEF TypeOK
    <2> QED BY <2>1, <2>2, <2>3 DEF TypeOK, EventsBounded
  <1>9. ASSUME NEW l \in LeaseIds, NEW w \in Workers, ClaimExpired(w, l) \/ RecoverEnded(w, l)
        PROVE  TypeInv'
    BY <1>9 DEF ClaimExpired, RecoverEnded, TypeOK, LeaseRows, EventsBounded, buildVars, jobVars, fleetVars
  <1>10. ASSUME NEW l \in LeaseIds, NEW w \in Workers, RecoverRequeue(w, l) PROVE TypeInv'
    <2> USE <1>10 DEF RecoverRequeue, buildVars, fleetVars
    <2>1. leaseJob[l] \in Jobs
      BY DEF LeaseRows, IsCurrent, CurrentLeaseStates
    <2>2. requeues' \in [Jobs -> 0 .. RequeueLimit]
      BY <2>1, BoundAssumption DEF TypeOK, MayRequeue, RequeueLimit
    <2>3. job' \in [Jobs -> JobStates \cup {None}] /\ queue' \subseteq Jobs
      BY <2>1 DEF TypeOK, JobStates
    <2>4. leaseState' \in [LeaseIds -> LeaseStates] /\ LeaseRows'
      BY LeaseEndsType
    <2>5. claim' \in [LeaseIds -> Workers \cup {None}]
      BY DEF TypeOK
    <2> QED BY <2>2, <2>3, <2>4, <2>5 DEF TypeOK, EventsBounded
  <1>11. ASSUME NEW l \in LeaseIds, NEW w \in Workers, RecoverTerminal(w, l) PROVE TypeInv'
    <2> DEFINE kind == IF BuildOf[leaseJob[l]] \in cancelled THEN "Cancelled" ELSE "Failed"
    <2> USE <1>11 DEF RecoverTerminal, fleetVars
    <2>1. leaseState' \in [LeaseIds -> LeaseStates] /\ LeaseRows'
      BY LeaseEndsType
    <2>2. leaseState[l] # "none" /\ kind \in CompletionKinds
      BY DEF IsCurrent, CurrentLeaseStates, CompletionKinds
    <2>3. /\ leaseJob[l] \in Jobs
          /\ [lease |-> l, kind |-> kind, final |-> Len(events[leaseJob[l]])] \in Completions
          /\ job' \in [Jobs -> JobStates \cup {None}]
          /\ queue' \subseteq Jobs
          /\ attempt' \in [Builds -> [AttemptIds -> AttemptStates \cup {None}]]
          /\ build' \in [Builds -> BuildStates \cup {None}]
          /\ latest' = latest /\ cancelled' = cancelled
      BY <2>2, FinishType
    <2>4. completion' \in [Jobs -> Completions \cup {None}]
      BY <2>3 DEF TypeOK
    <2> QED BY <2>1, <2>3, <2>4 DEF TypeOK, EventsBounded
  <1>12. CASE Tick
    BY <1>12, BoundAssumption
    DEF Tick, TypeOK, LeaseRows, EventsBounded, buildVars, jobVars, fleetVars
  <1>13. ASSUME NEW a \in Agents, RegisterAgent(a) \/ LoseRegistration(a) PROVE TypeInv'
    <2> USE DEF TypeOK, LeaseRows, EventsBounded, buildVars, jobVars, leaseVars
    <2>1. CASE RegisterAgent(a)
      <3>1. epoch' \in [Agents -> 0 .. MaxEpoch]
        BY <2>1, BoundAssumption DEF RegisterAgent
      <3>2. agentState' \in [Agents -> {"offline", "online", "draining"}]
        BY <2>1 DEF RegisterAgent
      <3> QED BY <2>1, <3>1, <3>2 DEF RegisterAgent
    <2>2. CASE LoseRegistration(a)
      BY <2>2 DEF LoseRegistration
    <2> QED BY <1>13, <2>1, <2>2
  <1>14. ASSUME NEW a \in Agents, NEW mode \in DrainModes, DrainAgent(a, mode) PROVE TypeInv'
    BY <1>14
    DEF DrainAgent, Directive, TypeOK, LeaseStates, LeaseRows, EventsBounded, buildVars, jobVars
  <1>15. ASSUME NEW a \in Agents, NEW p \in Pools, ReassignAgent(a, p) PROVE TypeInv'
    BY <1>15 DEF ReassignAgent, TypeOK, LeaseRows, EventsBounded, buildVars, jobVars, leaseVars
  <1>16. ASSUME NEW p \in Pools, NEW s \in PoolTargets, PublishPool(p, s) PROVE TypeInv'
    <2> USE <1>16 DEF PublishPool
    <2>1. poolState' \in [Pools -> PoolStates]
      BY DEF TypeOK, MayPublish, PoolStates
    <2>2. leaseState' \in [LeaseIds -> LeaseStates]
      BY DEF TypeOK, LeaseStates, Directive
    <2>3. LeaseRows'
      BY DEF LeaseRows, Directive
    <2> QED BY <2>1, <2>2, <2>3 DEF TypeOK, EventsBounded, buildVars, jobVars
  <1>17. CASE UNCHANGED vars
    BY <1>17 DEF TypeOK, LeaseRows, EventsBounded, vars, buildVars, jobVars, leaseVars, fleetVars
  <1> QED
    BY <1>2, <1>3, <1>4, <1>5, <1>6, <1>7, <1>8, <1>9, <1>10, <1>11, <1>12, <1>13, <1>14, <1>15,
       <1>16, <1>17, BoundAssumption
    DEF Next, BuildNext, LeaseNext, RecoveryNext, FleetNext, Recover, CompleteJob, FailAssignment, CompletionKinds

\* The types hold in every reachable state.
LEMMA Typed == Spec => []TypeInv
  BY InitType, NextType, PTL DEF Spec

\* Every transaction of the coordination store keeps the types of all tables, for
\* any number of Builds, Jobs, Agents, Pools and leases; no Job is requeued more
\* often than retry_max_attempts allows.
THEOREM TypeCorrect == Spec => []TypeOK
  <1>1. TypeInv => TypeOK
    BY DEF TypeInv
  <1> QED BY <1>1, Typed, PTL

-----------------------------------------------------------------------------
(* The kinds of steps                                                      *)

\* Neither Builds, Jobs and queue nor the set of current leases change.
Quiet ==
    /\ UNCHANGED <<build, latest, attempt, cancelled, job, queue, leaseJob>>
    /\ \A l \in LeaseIds : IsCurrent(l)' <=> IsCurrent(l)

\* The owner of lease l has sent its first event, or a later one.
StartsJob(l) ==
    /\ leaseState[l] # "none"
    /\ job[leaseJob[l]] \in OwnedJobStates
    /\ job' = [job EXCEPT ![leaseJob[l]] = StartJobExecution(job[leaseJob[l]])]
    /\ UNCHANGED <<build, latest, attempt, cancelled, queue, leaseState, leaseJob>>

\* The Job of lease l goes back to the queue.
RequeuesJob(l) ==
    /\ IsCurrent(l)
    /\ MayRequeue(leaseJob[l])
    /\ leaseState' = [leaseState EXCEPT ![l] = "expired"]
    /\ job' = [job EXCEPT ![leaseJob[l]] = "Ready"]
    /\ queue' = queue \cup {leaseJob[l]}
    /\ UNCHANGED <<build, latest, attempt, cancelled, leaseJob>>

\* The Job of lease l ends, by completion, assignment failure or recovery.
EndsJob(l, kind, s) ==
    /\ IsCurrent(l)
    /\ job[leaseJob[l]] \in OwnedJobStates
    /\ leaseState' = [leaseState EXCEPT ![l] = s]
    /\ ReconcileAndApply(BuildOf[leaseJob[l]], AttemptOf[leaseJob[l]],
                         [job EXCEPT ![leaseJob[l]] = kind])
    /\ leaseJob' = leaseJob

LeaseEnds == {"completed", "expired"}

\* Every step is of one of these kinds.
StepKind ==
    \/ Quiet
    \/ \E b \in Builds : StartBuild(b) \/ RetryBuild(b) \/ CancelBuild(b)
    \/ \E l \in LeaseIds, a \in Agents, p \in Pools, j \in Jobs : ClaimJob(a, p, j, l)
    \/ \E l \in LeaseIds : StartsJob(l) \/ RequeuesJob(l)
    \/ \E l \in LeaseIds, kind \in CompletionKinds, s \in LeaseEnds : EndsJob(l, kind, s)

\* Heartbeats, worker claims, the clock and the fleet are quiet; drains change the
\* directive of a lease but not that it is current.
LEMMA StepKinds == TypeInv /\ [Next]_vars => StepKind
  <1> SUFFICES ASSUME TypeInv, [Next]_vars PROVE StepKind
    OBVIOUS
  <1> USE DEF TypeInv
  <1>1. ASSUME NEW l \in LeaseIds, NEW kind \in CompletionKinds, NEW final \in Nat,
               Finish(l, kind, final)
        PROVE  StepKind
    <2>1. EndsJob(l, kind, "completed")
      BY <1>1 DEF Finish, EndsJob, RequireCurrent
    <2> QED BY <2>1 DEF StepKind, LeaseEnds
  <1>2. ASSUME NEW l \in LeaseIds, NEW w \in Workers, RecoverTerminal(w, l) PROVE StepKind
    <2> DEFINE kind == IF BuildOf[leaseJob[l]] \in cancelled THEN "Cancelled" ELSE "Failed"
    <2>1. EndsJob(l, kind, "expired")
      BY <1>2 DEF RecoverTerminal, EndsJob
    <2>2. kind \in CompletionKinds
      BY DEF CompletionKinds
    <2> QED BY <2>1, <2>2 DEF StepKind, LeaseEnds
  <1>3. ASSUME NEW l \in LeaseIds, NEW w \in Workers, RecoverRequeue(w, l) PROVE StepKind
    BY <1>3 DEF RecoverRequeue, RequeuesJob, StepKind, buildVars
  <1>4. ASSUME NEW l \in LeaseIds, leaseState[l] # "none",
               NEW first \in 1 .. MaxEvents, NEW last \in 1 .. MaxEvents, AppendEvents(l, first, last)
        PROVE  StepKind
    <2>1. StartsJob(l)
      BY <1>4 DEF AppendEvents, StartsJob, buildVars, leaseVars
    <2> QED BY <2>1 DEF StepKind
  <1>5. ASSUME NEW l \in LeaseIds, Heartbeat(l) PROVE Quiet
    BY <1>5 DEF Heartbeat, Quiet, IsCurrent, buildVars, jobVars
  <1>6. ASSUME NEW l \in LeaseIds, NEW w \in Workers, ClaimExpired(w, l) \/ RecoverEnded(w, l)
        PROVE  Quiet
    BY <1>6 DEF ClaimExpired, RecoverEnded, Quiet, IsCurrent, buildVars, jobVars
  <1>7. CASE Tick
    BY <1>7 DEF Tick, Quiet, StepKind, IsCurrent, buildVars, jobVars
  <1>8. ASSUME NEW a \in Agents, RegisterAgent(a) \/ LoseRegistration(a) PROVE Quiet
    BY <1>8 DEF RegisterAgent, LoseRegistration, Quiet, IsCurrent, buildVars, jobVars, leaseVars
  <1>9. ASSUME NEW a \in Agents, NEW mode \in DrainModes, DrainAgent(a, mode) PROVE Quiet
    BY <1>9 DEF DrainAgent, Directive, Quiet, IsCurrent, CurrentLeaseStates, buildVars, jobVars
  <1>10. ASSUME NEW a \in Agents, NEW p \in Pools, ReassignAgent(a, p) PROVE Quiet
    BY <1>10 DEF ReassignAgent, Quiet, IsCurrent, buildVars, jobVars, leaseVars
  <1>11. ASSUME NEW p \in Pools, NEW s \in PoolTargets, PublishPool(p, s) PROVE Quiet
    BY <1>11 DEF PublishPool, Directive, Quiet, IsCurrent, CurrentLeaseStates, buildVars, jobVars
  <1>12. CASE UNCHANGED vars
    BY <1>12 DEF vars, Quiet, StepKind, IsCurrent, buildVars, jobVars, leaseVars
  <1>13. CASE BuildNext
    BY <1>13 DEF BuildNext, StepKind
  <1>14. CASE LeaseNext
    BY <1>14, <1>1, <1>4, <1>5, BoundAssumption
    DEF LeaseNext, StepKind, CompleteJob, FailAssignment, CompletionKinds
  <1>15. CASE RecoveryNext
    BY <1>15, <1>2, <1>3, <1>6, <1>7 DEF RecoveryNext, Recover, StepKind
  <1>16. CASE FleetNext
    BY <1>16, <1>8, <1>9, <1>10, <1>11 DEF FleetNext, StepKind
  <1> QED BY <1>12, <1>13, <1>14, <1>15, <1>16 DEF Next

-----------------------------------------------------------------------------
(* Builds, Attempts and their Jobs                                         *)

\* derive_attempt_state looks at nothing but the Jobs of the Attempt.
LEMMA DeriveIsLocal ==
    ASSUME NEW jobs, NEW g, NEW h, NEW c, \A j \in jobs : g[j] = h[j]
    PROVE  DeriveAttempt(jobs, g, c) = DeriveAttempt(jobs, h, c)
  BY DEF DeriveAttempt

\* A Job that is not finished belongs to the latest Attempt of an accepted Build.
LEMMA UnfinishedIsLatest ==
    ASSUME TypeInv, BuildInv, NEW j \in Jobs, job[j] # None, job[j] \notin TerminalJobStates
    PROVE  /\ BuildOf[j] \in Builds
           /\ AttemptOf[j] \in AttemptIds
           /\ latest[BuildOf[j]] = AttemptOf[j]
           /\ build[BuildOf[j]] = "Running"
           /\ attempt[BuildOf[j]][AttemptOf[j]] = "Running"
  <1>1. BuildOf[j] \in Builds /\ AttemptOf[j] \in AttemptIds
    BY GraphAssumption
  <1>2. latest[BuildOf[j]] \in Nat /\ AttemptOf[j] \in Nat \ {0}
    BY <1>1, BoundAssumption DEF AttemptIds, TypeInv, TypeOK
  <1>3. latest[BuildOf[j]] = AttemptOf[j]
    BY <1>2 DEF BuildInv, Materialized, EarlierAttemptsEnded
  <1>4. build[BuildOf[j]] # None
    BY <1>1, <1>2, <1>3 DEF BuildInv, Materialized
  <1>5. j \in AttemptJobs(BuildOf[j], AttemptOf[j])
    BY DEF AttemptJobs
  <1>6. attempt[BuildOf[j]][AttemptOf[j]] = "Running"
    BY <1>1, <1>3, <1>4, <1>5, DeriveType DEF BuildInv, AggregatesDerived
  <1>7. build[BuildOf[j]] = "Running"
    BY <1>1, <1>3, <1>4, <1>6 DEF BuildInv, AggregatesDerived, BuildStateOf
  <1> QED BY <1>1, <1>3, <1>6, <1>7

\* A new Attempt starts when the earlier ones have failed and their Jobs have
\* ended, and never after a cancellation.
LEMMA AttemptBegins ==
    ASSUME TypeInv, BuildInv, NEW b \in Builds, StartBuild(b) \/ RetryBuild(b)
    PROVE  LET n == latest[b] + 1
           IN  /\ n \in AttemptIds
               /\ b \notin cancelled
               /\ AttemptJobs(b, n) # {}
               /\ \A j \in Jobs : BuildOf[j] = b /\ AttemptOf[j] <= latest[b] => job[j] \in TerminalJobStates
               /\ \A m \in AttemptIds : m < n => attempt[b][m] = "Failed"
               /\ Materialize(b, n)
  <1>0. latest[b] \in 0 .. MaxAttempts /\ \A j \in Jobs : AttemptOf[j] \in 1 .. MaxAttempts
    BY GraphAssumption DEF TypeInv, TypeOK, AttemptIds
  <1>1. CASE StartBuild(b)
    <2>1. latest[b] = 0 /\ b \notin cancelled
      BY <1>1 DEF StartBuild, BuildInv, Materialized, CancelledAreAccepted
    <2>2. \A j \in Jobs : ~ (AttemptOf[j] <= latest[b])
      BY <1>0, <2>1, BoundAssumption
    <2> QED BY <1>1, <2>1, <2>2, BoundAssumption DEF StartBuild, AttemptIds
  <1>2. CASE RetryBuild(b)
    <2> DEFINE n == latest[b] + 1
    <2>1. n \in AttemptIds /\ AttemptJobs(b, n) # {} /\ Materialize(b, n)
      BY <1>0, <1>2, BoundAssumption DEF RetryBuild, AttemptIds
    <2>2. build[b] = "Failed" /\ attempt[b][latest[b]] = "Failed" /\ build[b] # None
      BY <1>2, NoneAssumption DEF RetryBuild, BuildStates
    <2>3. "Failed" = DeriveAttempt(AttemptJobs(b, latest[b]), job, b \in cancelled)
      BY <2>2 DEF BuildInv, AggregatesDerived
    <2>4. b \notin cancelled
      BY <2>3, DeriveType
    <2>5. \A j \in AttemptJobs(b, latest[b]) : job[j] \in TerminalJobStates
      BY <2>3, DeriveType
    <2>6. \A j \in Jobs : BuildOf[j] = b /\ AttemptOf[j] <= latest[b] => job[j] \in TerminalJobStates
      BY <1>0, <2>5, BoundAssumption DEF AttemptJobs, BuildInv, EarlierAttemptsEnded
    <2>7. \A m \in AttemptIds : m < n => attempt[b][m] = "Failed"
      BY <1>0, <2>2, BoundAssumption DEF AttemptIds, BuildInv, AggregatesDerived
    <2> QED BY <2>1, <2>4, <2>6, <2>7
  <1> QED BY <1>1, <1>2

\* The empty database satisfies the invariants.
LEMMA InitInv == Init => CoordinationInv
  <1> SUFFICES ASSUME Init PROVE CoordinationInv
    OBVIOUS
  <1>1. \A j \in Jobs : BuildOf[j] \in Builds /\ AttemptOf[j] \in Nat /\ AttemptOf[j] > 0
    BY GraphAssumption, BoundAssumption DEF AttemptIds
  <1>2. BuildInv
    BY <1>1 DEF Init, BuildInv, Materialized, EarlierAttemptsEnded, CancelledAreAccepted,
                AggregatesDerived, CancellationPropagated
  <1>3. \A j \in Jobs : job[j] \notin JobStates
    BY NoneAssumption DEF Init
  <1>4. QueueMatchesReady /\ OwnershipMatchesJob /\ BlockedJobsWait
    BY <1>3 DEF Init, BlockedJobsWait, QueueMatchesReady, OwnershipMatchesJob, JobStates, OwnedJobStates, IsCurrent,
                CurrentLeaseStates
  <1> QED BY <1>2, <1>4, InitType DEF CoordinationInv

\* Materialization of the next Attempt keeps the Build invariants.
LEMMA BeginBuildInv ==
    ASSUME TypeInv, BuildInv, NEW b \in Builds, StartBuild(b) \/ RetryBuild(b)
    PROVE  BuildInv'
  <1> DEFINE n == latest[b] + 1
  <1>1. /\ n \in AttemptIds
        /\ b \notin cancelled
        /\ AttemptJobs(b, n) # {}
        /\ \A j \in Jobs : BuildOf[j] = b /\ AttemptOf[j] <= latest[b] => job[j] \in TerminalJobStates
        /\ \A m \in AttemptIds : m < n => attempt[b][m] = "Failed"
        /\ Materialize(b, n)
    BY AttemptBegins
  <1>2. \A j \in Jobs : BuildOf[j] \in Builds /\ AttemptOf[j] \in Nat /\ AttemptOf[j] > 0
    BY GraphAssumption, BoundAssumption DEF AttemptIds
  <1>3. /\ latest \in [Builds -> Nat] /\ latest' \in [Builds -> Nat]
        /\ latest'[b] = n /\ \A c \in Builds : c # b => latest'[c] = latest[c]
    BY <1>1, BoundAssumption DEF Materialize, TypeInv, TypeOK
  <1>4. build'[b] = "Running" /\ \A c \in Builds : c # b => build'[c] = build[c]
    BY <1>1 DEF Materialize, TypeInv, TypeOK
  <1>5. /\ attempt'[b][n] = "Running"
        /\ \A m \in AttemptIds : m # n => attempt'[b][m] = attempt[b][m]
        /\ \A c \in Builds : c # b => attempt'[c] = attempt[c]
    BY <1>1 DEF Materialize, TypeInv, TypeOK
  <1>6. /\ \A j \in AttemptJobs(b, n) : job'[j] \in {"Ready", "Blocked"}
        /\ \A j \in Jobs : j \notin AttemptJobs(b, n) => job'[j] = job[j]
    BY <1>1 DEF Materialize, AttemptJobs
  <1>7. cancelled' = cancelled
    BY <1>1 DEF Materialize
  <1>8. "Running" # None /\ None \notin {"Ready", "Blocked"}
    BY NoneAssumption DEF BuildStates, JobStates
  <1>9. Materialized'
    <2>1. \A j \in Jobs : job'[j] # None <=> AttemptOf[j] <= latest'[BuildOf[j]]
      <3> SUFFICES ASSUME NEW j \in Jobs PROVE job'[j] # None <=> AttemptOf[j] <= latest'[BuildOf[j]]
        OBVIOUS
      <3>1. CASE j \in AttemptJobs(b, n)
        BY <1>2, <1>3, <1>6, <1>8, <3>1 DEF AttemptJobs
      <3>2. CASE j \notin AttemptJobs(b, n)
        BY <1>2, <1>3, <1>6, <3>2 DEF AttemptJobs, BuildInv, Materialized
      <3> QED BY <3>1, <3>2
    <2>2. \A c \in Builds : build'[c] = None <=> latest'[c] = 0
      BY <1>3, <1>4, <1>8 DEF BuildInv, Materialized
    <2> QED BY <2>1, <2>2 DEF Materialized
  <1>10. EarlierAttemptsEnded'
    BY <1>1, <1>2, <1>3, <1>6 DEF AttemptJobs, BuildInv, EarlierAttemptsEnded
  <1>11. CancelledAreAccepted'
    BY <1>4, <1>7, <1>8, <1>1 DEF BuildInv, CancelledAreAccepted, TypeInv, TypeOK
  <1>12. AggregatesDerived'
    <2> SUFFICES ASSUME NEW c \in Builds, build'[c] # None
                 PROVE  /\ attempt'[c][latest'[c]]
                              = DeriveAttempt(AttemptJobs(c, latest'[c]), job', c \in cancelled')
                        /\ build'[c] = BuildStateOf(attempt'[c][latest'[c]])
                        /\ \A m \in AttemptIds : m < latest'[c] => attempt'[c][m] = "Failed"
      BY DEF AggregatesDerived, AttemptJobs
    <2>1. CASE c = b
      <3>1. \E j \in AttemptJobs(b, n) : job'[j] \notin TerminalJobStates
        BY <1>1, <1>6 DEF TerminalJobStates
      <3>2. DeriveAttempt(AttemptJobs(b, n), job', b \in cancelled') = "Running"
        BY <3>1, DeriveType
      <3>3. \A m \in AttemptIds : m < n => m # n
        BY <1>1, BoundAssumption DEF AttemptIds
      <3> QED BY <1>1, <1>3, <1>4, <1>5, <2>1, <3>2, <3>3 DEF BuildStateOf
    <2>2. CASE c # b
      <3>1. \A j \in AttemptJobs(c, latest[c]) : job'[j] = job[j]
        BY <1>6, <2>2 DEF AttemptJobs
      <3>2. DeriveAttempt(AttemptJobs(c, latest[c]), job', c \in cancelled)
              = DeriveAttempt(AttemptJobs(c, latest[c]), job, c \in cancelled)
        BY <3>1, DeriveIsLocal
      <3> QED BY <1>3, <1>4, <1>5, <1>7, <2>2, <3>2 DEF BuildInv, AggregatesDerived
    <2> QED BY <2>1, <2>2
  <1>13. CancellationPropagated'
    <2> SUFFICES ASSUME NEW c \in cancelled, NEW j \in AttemptJobs(c, latest'[c])
                 PROVE  job'[j] \notin {"Blocked", "Ready", "Leased", "Running"}
      BY <1>7 DEF CancellationPropagated, CancellationPropagatedIn, AttemptJobs
    <2>1. c # b /\ c \in Builds /\ j \in Jobs /\ BuildOf[j] = c
      BY <1>1 DEF AttemptJobs, TypeInv, TypeOK
    <2>2. j \in AttemptJobs(c, latest[c]) /\ job'[j] = job[j]
      BY <1>3, <1>6, <2>1 DEF AttemptJobs
    <2> QED BY <2>2 DEF BuildInv, CancellationPropagated, CancellationPropagatedIn
  <1> QED BY <1>9, <1>10, <1>11, <1>12, <1>13 DEF BuildInv

\* Cancellation keeps the Build invariants: what it writes to the aggregates is
\* what derive_attempt_state gives for the Jobs it leaves behind.
LEMMA CancelBuildInv ==
    ASSUME TypeInv, BuildInv, NEW b \in Builds, CancelBuild(b)
    PROVE  BuildInv'
  <1> DEFINE n == latest[b]
             jobs == AttemptJobs(b, n)
             aggregate == CancelledAggregate(jobs, job')
  <1>1. /\ latest' = latest /\ cancelled' = cancelled \cup {b}
        /\ \A j \in jobs : job'[j] = CancelJobState(job[j])
        /\ \A j \in Jobs : j \notin jobs => job'[j] = job[j]
        /\ attempt' = [attempt EXCEPT ![b][n] = aggregate]
        /\ build' = [build EXCEPT ![b] = aggregate]
    BY DEF CancelBuild, AttemptJobs
  <1>2. build[b] # None
    BY NoneAssumption DEF CancelBuild, BuildStates
  <1>3. n \in AttemptIds
    BY <1>2, BoundAssumption DEF TypeInv, TypeOK, AttemptIds, BuildInv, Materialized
  <1>4. \A j \in jobs : job[j] \in JobStates
    <2>1. \A j \in jobs : j \in Jobs /\ AttemptOf[j] <= latest[BuildOf[j]]
      BY <1>3, BoundAssumption DEF AttemptJobs, AttemptIds
    <2> QED BY <2>1 DEF TypeInv, TypeOK, BuildInv, Materialized
  <1>5. \A j \in jobs : job'[j] \in {"Cancelling"} \cup TerminalJobStates
    BY <1>1, <1>4 DEF CancelJobState, JobStates, TerminalJobStates
  <1>6. aggregate = DeriveAttempt(jobs, job', TRUE)
    BY <1>5 DEF CancelledAggregate, DeriveAttempt, TerminalJobStates
  <1>7. aggregate \in {"Running", "Cancelled"} /\ aggregate # None /\ BuildStateOf(aggregate) = aggregate
    BY NoneAssumption DEF CancelledAggregate, BuildStates, BuildStateOf
  <1> HIDE DEF aggregate
  <1>8. /\ build'[b] = aggregate /\ \A c \in Builds : c # b => build'[c] = build[c]
        /\ attempt'[b][n] = aggregate
        /\ \A m \in AttemptIds : m # n => attempt'[b][m] = attempt[b][m]
        /\ \A c \in Builds : c # b => attempt'[c] = attempt[c]
    BY <1>1, <1>3 DEF TypeInv, TypeOK
  <1>9. None \notin {"Cancelling"} \cup TerminalJobStates
    BY NoneAssumption DEF JobStates, TerminalJobStates
  <1>10. Materialized'
    <2>1. \A j \in Jobs : job'[j] # None <=> job[j] # None
      BY <1>1, <1>4, <1>5, <1>9, NoneAssumption
    <2> QED BY <1>1, <1>2, <1>7, <1>8, <2>1 DEF BuildInv, Materialized
  <1>11. EarlierAttemptsEnded'
    <2>1. \A j \in jobs : ~ (AttemptOf[j] < latest[BuildOf[j]])
      BY <1>3, BoundAssumption DEF AttemptJobs, AttemptIds
    <2> QED BY <1>1, <2>1 DEF BuildInv, EarlierAttemptsEnded
  <1>12. CancelledAreAccepted'
    BY <1>1, <1>7, <1>8 DEF BuildInv, CancelledAreAccepted, TypeInv, TypeOK
  <1>13. AggregatesDerived'
    <2> SUFFICES ASSUME NEW c \in Builds, build'[c] # None
                 PROVE  /\ attempt'[c][latest'[c]]
                              = DeriveAttempt(AttemptJobs(c, latest'[c]), job', c \in cancelled')
                        /\ build'[c] = BuildStateOf(attempt'[c][latest'[c]])
                        /\ \A m \in AttemptIds : m < latest'[c] => attempt'[c][m] = "Failed"
      BY DEF AggregatesDerived, AttemptJobs
    <2>1. CASE c = b
      <3>1. (b \in cancelled') = TRUE
        BY <1>1
      <3>2. \A m \in AttemptIds : m < n => m # n
        BY <1>3, BoundAssumption DEF AttemptIds
      <3>3. \A m \in AttemptIds : m < n => attempt[b][m] = "Failed"
        BY <1>2 DEF BuildInv, AggregatesDerived
      <3>4. DeriveAttempt(jobs, job', b \in cancelled') = aggregate
        BY <1>6, <3>1
      <3> QED BY <1>1, <1>7, <1>8, <2>1, <3>2, <3>3, <3>4
    <2>2. CASE c # b
      <3>1. \A j \in AttemptJobs(c, latest[c]) : job'[j] = job[j]
        BY <1>1, <2>2 DEF AttemptJobs
      <3>2. DeriveAttempt(AttemptJobs(c, latest[c]), job', c \in cancelled)
              = DeriveAttempt(AttemptJobs(c, latest[c]), job, c \in cancelled)
        BY <3>1, DeriveIsLocal
      <3>3. (c \in cancelled') = (c \in cancelled)
        BY <1>1, <2>2
      <3> QED BY <1>1, <1>8, <2>2, <3>2, <3>3 DEF BuildInv, AggregatesDerived
    <2> QED BY <2>1, <2>2
  <1>14. CancellationPropagated'
    <2> SUFFICES ASSUME NEW c \in cancelled', NEW j \in AttemptJobs(c, latest[c])
                 PROVE  job'[j] \notin {"Blocked", "Ready", "Leased", "Running"}
      BY <1>1 DEF CancellationPropagated, CancellationPropagatedIn, AttemptJobs
    <2>1. CASE c = b
      BY <1>5, <2>1 DEF TerminalJobStates
    <2>2. CASE c # b
      BY <1>1, <2>2 DEF BuildInv, CancellationPropagated, CancellationPropagatedIn, AttemptJobs
    <2> QED BY <2>1, <2>2
  <1> QED BY <1>10, <1>11, <1>12, <1>13, <1>14 DEF BuildInv

\* A Job that moves between unfinished states changes no aggregate.
LEMMA MoveBuildInv ==
    ASSUME TypeInv, BuildInv, NEW j \in Jobs, NEW s \in JobStates \ TerminalJobStates,
           job[j] # None, job[j] \notin TerminalJobStates,
           job'[j] = s, \A i \in Jobs : i # j => job'[i] = job[i],
           BuildOf[j] \notin cancelled \/ s = job[j],
           UNCHANGED <<build, latest, attempt, cancelled>>
    PROVE  BuildInv'
  <1>1. /\ job'[j] = s /\ s # None /\ s \notin TerminalJobStates
        /\ \A i \in Jobs : i # j => job'[i] = job[i]
    BY NoneAssumption DEF TypeInv, TypeOK
  <1>2. Materialized' /\ CancelledAreAccepted'
    BY <1>1 DEF BuildInv, Materialized, CancelledAreAccepted
  <1>3. EarlierAttemptsEnded'
    BY <1>1 DEF BuildInv, EarlierAttemptsEnded
  <1>4. \A c \in Builds : DeriveAttempt(AttemptJobs(c, latest[c]), job', c \in cancelled)
                            = DeriveAttempt(AttemptJobs(c, latest[c]), job, c \in cancelled)
    <2> SUFFICES ASSUME NEW c \in Builds
                 PROVE  DeriveAttempt(AttemptJobs(c, latest[c]), job', c \in cancelled)
                            = DeriveAttempt(AttemptJobs(c, latest[c]), job, c \in cancelled)
      OBVIOUS
    <2>1. CASE j \in AttemptJobs(c, latest[c])
      <3>1. DeriveAttempt(AttemptJobs(c, latest[c]), job, c \in cancelled) = "Running"
        BY <2>1, DeriveType
      <3>2. DeriveAttempt(AttemptJobs(c, latest[c]), job', c \in cancelled) = "Running"
        BY <1>1, <2>1, DeriveType
      <3> QED BY <3>1, <3>2
    <2>2. CASE j \notin AttemptJobs(c, latest[c])
      <3>1. \A i \in AttemptJobs(c, latest[c]) : job'[i] = job[i]
        BY <1>1, <2>2 DEF AttemptJobs
      <3> QED BY <3>1, DeriveIsLocal
    <2> QED BY <2>1, <2>2
  <1>5. AggregatesDerived'
    BY <1>4 DEF BuildInv, AggregatesDerived, AttemptJobs
  <1>6. CancellationPropagated'
    BY <1>1 DEF BuildInv, CancellationPropagated, CancellationPropagatedIn, AttemptJobs
  <1> QED BY <1>2, <1>3, <1>5, <1>6 DEF BuildInv

\* The end of a Job keeps the Build invariants: reconciliation stores the derived
\* aggregates of the latest Attempt and of no other.
LEMMA EndBuildInv ==
    ASSUME TypeInv, BuildInv, NEW l \in LeaseIds, NEW kind \in CompletionKinds, NEW s,
           EndsJob(l, kind, s)
    PROVE  BuildInv'
  <1> DEFINE j == leaseJob[l]
             b == BuildOf[j]
             n == AttemptOf[j]
             jobs == AttemptJobs(b, n)
             a == DeriveAttempt(jobs, job', b \in cancelled)
  <1>1. j \in Jobs /\ job[j] \in OwnedJobStates
    BY DEF EndsJob, TypeInv, LeaseRows, IsCurrent, CurrentLeaseStates
  <1>2. /\ job' \in [Jobs -> JobStates \cup {None}]
        /\ job'[j] = kind
        /\ \A i \in Jobs : i # j /\ job[i] # "Blocked" => job'[i] = job[i]
        /\ \A i \in Jobs : job[i] = "Blocked" => job'[i] \in {"Blocked", "Ready", "Skipped"}
        /\ \A i \in Jobs : i \notin jobs => job'[i] = job[i]
        /\ attempt' = [attempt EXCEPT ![b][n] = a]
        /\ build' = [build EXCEPT ![b] = a]
        /\ latest' = latest /\ cancelled' = cancelled
        /\ b \in cancelled => CancellationPropagatedIn(jobs, job')
    BY <1>1, ReconcileEffect DEF EndsJob, TypeInv
  <1>3. job[j] # None /\ job[j] \notin TerminalJobStates
    BY <1>1, NoneAssumption DEF OwnedJobStates, JobStates, TerminalJobStates
  <1>4. b \in Builds /\ n \in AttemptIds /\ latest[b] = n /\ build[b] = "Running"
    BY <1>1, <1>3, UnfinishedIsLatest
  <1>5. a \in {"Running", "Succeeded", "Failed", "Cancelled"} /\ a # None /\ BuildStateOf(a) = a
    BY DeriveType, NoneAssumption DEF BuildStates
  <1> HIDE DEF a
  <1>6. /\ build'[b] = a /\ \A c \in Builds : c # b => build'[c] = build[c]
        /\ attempt'[b][n] = a
        /\ \A m \in AttemptIds : m # n => attempt'[b][m] = attempt[b][m]
        /\ \A c \in Builds : c # b => attempt'[c] = attempt[c]
    BY <1>2, <1>4 DEF TypeInv, TypeOK
  <1>7. build[b] # None
    BY <1>4, NoneAssumption DEF BuildStates
  <1>8. Materialized'
    <2>1. kind # None /\ None \notin {"Blocked", "Ready", "Skipped"}
      BY NoneAssumption DEF CompletionKinds, JobStates
    <2>2. \A i \in Jobs : job'[i] # None <=> job[i] # None
      BY <1>2, <1>3, <2>1
    <2> QED BY <1>2, <1>5, <1>6, <1>7, <2>2 DEF BuildInv, Materialized
  <1>9. EarlierAttemptsEnded'
    <2>1. \A i \in jobs : ~ (AttemptOf[i] < latest[BuildOf[i]])
      BY <1>4, BoundAssumption DEF AttemptJobs, AttemptIds
    <2> QED BY <1>2, <2>1 DEF BuildInv, EarlierAttemptsEnded
  <1>10. CancelledAreAccepted'
    BY <1>2, <1>5, <1>6 DEF BuildInv, CancelledAreAccepted, TypeInv, TypeOK
  <1>11. AggregatesDerived'
    <2> SUFFICES ASSUME NEW c \in Builds, build'[c] # None
                 PROVE  /\ attempt'[c][latest[c]]
                              = DeriveAttempt(AttemptJobs(c, latest[c]), job', c \in cancelled)
                        /\ build'[c] = BuildStateOf(attempt'[c][latest[c]])
                        /\ \A m \in AttemptIds : m < latest[c] => attempt'[c][m] = "Failed"
      <3>1. latest' = latest /\ cancelled' = cancelled
        BY <1>2
      <3> QED BY <3>1 DEF AggregatesDerived, AttemptJobs
    <2>1. CASE c = b
      <3>1. \A m \in AttemptIds : m < n => m # n
        BY <1>4, BoundAssumption DEF AttemptIds
      <3>2. \A m \in AttemptIds : m < n => attempt[b][m] = "Failed"
        BY <1>4, <1>7 DEF BuildInv, AggregatesDerived
      <3>3. a = DeriveAttempt(AttemptJobs(b, n), job', b \in cancelled)
        BY DEF a
      <3> QED BY <1>4, <1>5, <1>6, <2>1, <3>1, <3>2, <3>3
    <2>2. CASE c # b
      <3>1. \A i \in AttemptJobs(c, latest[c]) : job'[i] = job[i]
        BY <1>2, <2>2 DEF AttemptJobs
      <3>2. DeriveAttempt(AttemptJobs(c, latest[c]), job', c \in cancelled)
              = DeriveAttempt(AttemptJobs(c, latest[c]), job, c \in cancelled)
        BY <3>1, DeriveIsLocal
      <3> QED BY <1>6, <2>2, <3>2 DEF BuildInv, AggregatesDerived
    <2> QED BY <2>1, <2>2
  <1>12. CancellationPropagated'
    <2> SUFFICES ASSUME NEW c \in cancelled, NEW i \in AttemptJobs(c, latest[c])
                 PROVE  job'[i] \notin {"Blocked", "Ready", "Leased", "Running"}
      BY <1>2 DEF CancellationPropagated, CancellationPropagatedIn, AttemptJobs
    <2>1. CASE c = b
      BY <1>2, <1>4, <2>1 DEF CancellationPropagatedIn
    <2>2. CASE c # b
      BY <1>2, <2>2 DEF BuildInv, CancellationPropagated, CancellationPropagatedIn, AttemptJobs
    <2> QED BY <2>1, <2>2
  <1> QED BY <1>8, <1>9, <1>10, <1>11, <1>12 DEF BuildInv

\* Every step keeps the Build invariants.
LEMMA NextBuildInv == CoordinationInv /\ StepKind => BuildInv'
  <1> SUFFICES ASSUME CoordinationInv, StepKind PROVE BuildInv'
    OBVIOUS
  <1>0. TypeInv /\ BuildInv
    BY DEF CoordinationInv
  <1>1. CASE Quiet
    BY <1>0, <1>1
    DEF Quiet, BuildInv, Materialized, EarlierAttemptsEnded, CancelledAreAccepted, AggregatesDerived,
        CancellationPropagated, CancellationPropagatedIn, AttemptJobs
  <1>2. ASSUME NEW b \in Builds, StartBuild(b) \/ RetryBuild(b) PROVE BuildInv'
    BY <1>0, <1>2, BeginBuildInv
  <1>3. ASSUME NEW b \in Builds, CancelBuild(b) PROVE BuildInv'
    BY <1>0, <1>3, CancelBuildInv
  <1>4. ASSUME NEW l \in LeaseIds, NEW a \in Agents, NEW p \in Pools, NEW j \in Jobs,
               ClaimJob(a, p, j, l)
        PROVE  BuildInv'
    <2>1. job[j] = "Ready" /\ UNCHANGED <<build, latest, attempt, cancelled>>
      BY <1>4 DEF ClaimJob, IsCandidate, buildVars
    <2>2. job[j] # None /\ job[j] \notin TerminalJobStates
      BY <2>1, NoneAssumption DEF JobStates, TerminalJobStates
    <2>3. job'[j] = "Leased" /\ \A i \in Jobs : i # j => job'[i] = job[i]
      BY <1>0, <1>4 DEF ClaimJob, TypeInv, TypeOK
    <2>4. BuildOf[j] \notin cancelled
      <3>1. j \in AttemptJobs(BuildOf[j], latest[BuildOf[j]])
        BY <1>0, <2>2, UnfinishedIsLatest DEF AttemptJobs
      <3> QED BY <1>0, <2>1, <3>1 DEF BuildInv, CancellationPropagated, CancellationPropagatedIn
    <2>5. "Leased" \in JobStates \ TerminalJobStates
      BY DEF JobStates, TerminalJobStates
    <2> QED BY <1>0, <2>1, <2>2, <2>3, <2>4, <2>5, MoveBuildInv
  <1>5. ASSUME NEW l \in LeaseIds, StartsJob(l) PROVE BuildInv'
    <2> DEFINE j == leaseJob[l]
    <2>1. j \in Jobs /\ job[j] \in OwnedJobStates /\ UNCHANGED <<build, latest, attempt, cancelled>>
      BY <1>0, <1>5 DEF StartsJob, TypeInv, LeaseRows
    <2>2. job[j] # None /\ job[j] \notin TerminalJobStates
      BY <2>1, NoneAssumption DEF OwnedJobStates, JobStates, TerminalJobStates
    <2>3. job'[j] = StartJobExecution(job[j]) /\ \A i \in Jobs : i # j => job'[i] = job[i]
      BY <1>0, <1>5, <2>1 DEF StartsJob, TypeInv, TypeOK
    <2>4. StartJobExecution(job[j]) \in JobStates \ TerminalJobStates
      BY <2>1 DEF StartJobExecution, OwnedJobStates, JobStates, TerminalJobStates
    <2>5. BuildOf[j] \notin cancelled \/ StartJobExecution(job[j]) = job[j]
      <3>1. j \in AttemptJobs(BuildOf[j], latest[BuildOf[j]])
        BY <1>0, <2>1, <2>2, UnfinishedIsLatest DEF AttemptJobs
      <3>2. BuildOf[j] \in cancelled => job[j] # "Leased"
        BY <1>0, <3>1 DEF BuildInv, CancellationPropagated, CancellationPropagatedIn
      <3> QED BY <3>2 DEF StartJobExecution
    <2> QED BY <1>0, <2>1, <2>2, <2>3, <2>4, <2>5, MoveBuildInv
  <1>6. ASSUME NEW l \in LeaseIds, RequeuesJob(l) PROVE BuildInv'
    <2> DEFINE j == leaseJob[l]
    <2>1. /\ j \in Jobs /\ job[j] \in {"Leased", "Running"} /\ BuildOf[j] \notin cancelled
          /\ UNCHANGED <<build, latest, attempt, cancelled>>
      BY <1>0, <1>6 DEF RequeuesJob, MayRequeue, TypeInv, LeaseRows, IsCurrent, CurrentLeaseStates
    <2>2. job[j] # None /\ job[j] \notin TerminalJobStates
      BY <2>1, NoneAssumption DEF JobStates, TerminalJobStates
    <2>3. job'[j] = "Ready" /\ \A i \in Jobs : i # j => job'[i] = job[i]
      BY <1>0, <1>6, <2>1 DEF RequeuesJob, TypeInv, TypeOK
    <2>4. "Ready" \in JobStates \ TerminalJobStates
      BY DEF JobStates, TerminalJobStates
    <2> QED BY <1>0, <2>1, <2>2, <2>3, <2>4, MoveBuildInv
  <1>7. ASSUME NEW l \in LeaseIds, NEW kind \in CompletionKinds, NEW s \in LeaseEnds, EndsJob(l, kind, s)
        PROVE  BuildInv'
    BY <1>0, <1>7, EndBuildInv
  <1> QED BY <1>1, <1>2, <1>3, <1>4, <1>5, <1>6, <1>7 DEF StepKind

-----------------------------------------------------------------------------
(* The ready queue and the ownership of Jobs                               *)

\* No Job of the Attempt that begins exists yet.
LEMMA NewJobsAreAbsent ==
    ASSUME TypeInv, BuildInv, NEW b \in Builds, StartBuild(b) \/ RetryBuild(b)
    PROVE  /\ Materialize(b, latest[b] + 1)
           /\ \A j \in AttemptJobs(b, latest[b] + 1) : job[j] = None
  <1>1. Materialize(b, latest[b] + 1)
    BY AttemptBegins
  <1>2. latest[b] \in Nat
    BY BoundAssumption DEF TypeInv, TypeOK
  <1>3. \A j \in AttemptJobs(b, latest[b] + 1) : j \in Jobs /\ ~ (AttemptOf[j] <= latest[BuildOf[j]])
    BY <1>2 DEF AttemptJobs
  <1> QED BY <1>1, <1>3 DEF BuildInv, Materialized

\* Jobs that stay unfinished keep the Jobs behind them waiting.
LEMMA SameWaits ==
    ASSUME BlockedJobsWait,
           \A i \in Jobs : job'[i] = "Blocked" => job[i] = "Blocked",
           \A j \in Jobs : job[j] # None /\ job[j] \notin TerminalJobStates
                              => job'[j] # None /\ job'[j] \notin TerminalJobStates
    PROVE  BlockedJobsWait'
  <1>1. \A j \in Jobs : Deps[j] \subseteq Jobs
    BY GraphAssumption
  <1> QED BY <1>1 DEF BlockedJobsWait

\* Every step leaves a blocked Job only behind an unfinished predecessor: a Job
\* that ends is reconciled with its whole Attempt in the same transaction.
LEMMA NextWaits == CoordinationInv /\ StepKind => BlockedJobsWait'
  <1> SUFFICES ASSUME CoordinationInv, StepKind PROVE BlockedJobsWait'
    OBVIOUS
  <1>0. TypeInv /\ BuildInv /\ BlockedJobsWait
    BY DEF CoordinationInv
  <1> USE GraphAssumption
  <1>1. CASE Quiet
    BY <1>0, <1>1, SameWaits DEF Quiet
  <1>2. ASSUME NEW b \in Builds, StartBuild(b) \/ RetryBuild(b) PROVE BlockedJobsWait'
    <2> DEFINE jobs == AttemptJobs(b, latest[b] + 1)
    <2>1. \A j \in Jobs : job'[j] = IF j \notin jobs THEN job[j]
                                    ELSE IF Deps[j] = {} THEN "Ready" ELSE "Blocked"
      BY <1>0, <1>2, NewJobsAreAbsent DEF Materialize
    <2>2. \A j \in jobs : job[j] = None
      BY <1>0, <1>2, NewJobsAreAbsent
    <2>3. \A j \in Jobs : \A d \in Deps[j] : d \in Jobs /\ (d \in jobs <=> j \in jobs)
      BY DEF AttemptJobs
    <2>4. {"Ready", "Blocked"} \cap (TerminalJobStates \cup {None}) = {}
      BY NoneAssumption DEF JobStates, TerminalJobStates
    <2> HIDE DEF jobs
    <2> QED BY <1>0, <2>1, <2>2, <2>3, <2>4 DEF BlockedJobsWait
  <1>3. ASSUME NEW b \in Builds, CancelBuild(b) PROVE BlockedJobsWait'
    <2> DEFINE jobs == AttemptJobs(b, latest[b])
    <2>1. \A j \in Jobs : job'[j] = IF j \in jobs THEN CancelJobState(job[j]) ELSE job[j]
      BY <1>3 DEF CancelBuild
    <2>2. \A j \in Jobs : \A d \in Deps[j] : d \in Jobs /\ (d \in jobs <=> j \in jobs)
      BY DEF AttemptJobs
    <2> HIDE DEF jobs
    <2> QED BY <1>0, <2>1, <2>2 DEF BlockedJobsWait, CancelJobState
  <1>4. ASSUME NEW l \in LeaseIds, NEW a \in Agents, NEW p \in Pools, NEW j \in Jobs,
               ClaimJob(a, p, j, l)
        PROVE  BlockedJobsWait'
    <2>1. "Leased" \notin TerminalJobStates \cup {None, "Blocked"}
      BY NoneAssumption DEF JobStates, TerminalJobStates
    <2>2. job'[j] = "Leased" /\ \A i \in Jobs : i # j => job'[i] = job[i]
      BY <1>0, <1>4 DEF ClaimJob, TypeInv, TypeOK
    <2> QED BY <1>0, <2>1, <2>2, SameWaits
  <1>5. ASSUME NEW l \in LeaseIds, StartsJob(l) \/ RequeuesJob(l) PROVE BlockedJobsWait'
    <2> DEFINE j == leaseJob[l]
    <2>1. j \in Jobs
      BY <1>0, <1>5 DEF StartsJob, RequeuesJob, TypeInv, LeaseRows, IsCurrent, CurrentLeaseStates
    <2>2. job'[j] \in OwnedJobStates \cup {"Ready"} /\ \A i \in Jobs : i # j => job'[i] = job[i]
      BY <1>0, <1>5, <2>1
      DEF StartsJob, RequeuesJob, StartJobExecution, OwnedJobStates, TypeInv, TypeOK
    <2>3. (OwnedJobStates \cup {"Ready"}) \cap (TerminalJobStates \cup {None, "Blocked"}) = {}
      BY NoneAssumption DEF JobStates, TerminalJobStates, OwnedJobStates
    <2> HIDE DEF j
    <2> QED BY <1>0, <2>1, <2>2, <2>3, SameWaits
  <1>6. ASSUME NEW l \in LeaseIds, NEW kind \in CompletionKinds, NEW s \in LeaseEnds, EndsJob(l, kind, s)
        PROVE  BlockedJobsWait'
    <2> DEFINE j == leaseJob[l]
               jobs == AttemptJobs(BuildOf[j], AttemptOf[j])
    <2>1. j \in Jobs /\ job[j] \in OwnedJobStates
      BY <1>0, <1>6 DEF EndsJob, TypeInv, LeaseRows, IsCurrent, CurrentLeaseStates
    <2>2. /\ job'[j] = kind
          /\ \A i \in Jobs : i # j /\ job[i] # "Blocked" => job'[i] = job[i]
          /\ \A i \in Jobs : job[i] = "Blocked" => job'[i] \in {"Blocked", "Ready", "Skipped"}
          /\ \A i \in Jobs : i \notin jobs => job'[i] = job[i]
          /\ \A i \in jobs : job[i] = "Blocked" => job'[i] = JobDecision(Deps, Policy, job', i)
      BY <1>0, <1>6, <2>1, ReconcileEffect DEF EndsJob, TypeInv
    <2>3. \A i \in Jobs : job'[i] = "Blocked" => job[i] = "Blocked"
      BY <2>1, <2>2 DEF CompletionKinds
    <2>4. \A i \in Jobs : \A d \in Deps[i] : d \in Jobs /\ (d \in jobs <=> i \in jobs)
      BY DEF AttemptJobs
    <2>5. None \notin CompletionKinds \cup {"Blocked", "Ready", "Skipped"}
      BY NoneAssumption DEF CompletionKinds, JobStates
    <2>6. \A i \in Jobs : job[i] # None => job'[i] # None
      BY <2>2, <2>5
    <2> SUFFICES ASSUME NEW i \in Jobs, job'[i] = "Blocked"
                 PROVE  \E d \in Deps[i] : job'[d] # None /\ job'[d] \notin TerminalJobStates
      BY DEF BlockedJobsWait
    <2>7. \E d \in Deps[i] : job[d] # None /\ job[d] \notin TerminalJobStates
      BY <1>0, <2>3 DEF BlockedJobsWait
    <2> HIDE DEF j, jobs
    <2>8. CASE i \notin jobs
      BY <2>2, <2>4, <2>7, <2>8
    <2>9. CASE i \in jobs
      <3>1. JobDecision(Deps, Policy, job', i) = "Blocked" /\ Deps[i] # {} /\ Policy[i] \in Policies
        BY <2>2, <2>3, <2>7, <2>9
      <3>2. PICK d \in Deps[i] : job'[d] \notin TerminalJobStates
        BY <3>1, BlockedNeedsPending
      <3>3. d \in Jobs /\ BuildOf[d] = BuildOf[i] /\ AttemptOf[d] = AttemptOf[i]
        OBVIOUS
      <3>4. job[d] # None
        BY <1>0, <2>7, <3>3 DEF BuildInv, Materialized
      <3> QED BY <2>6, <3>2, <3>3, <3>4
    <2> QED BY <2>8, <2>9
  <1> QED BY <1>1, <1>2, <1>3, <1>4, <1>5, <1>6 DEF StepKind

\* Every step keeps the queue equal to the set of ready Jobs.
LEMMA NextQueue == CoordinationInv /\ StepKind => QueueMatchesReady'
  <1> SUFFICES ASSUME CoordinationInv, StepKind PROVE QueueMatchesReady'
    OBVIOUS
  <1>0. TypeInv /\ BuildInv /\ QueueMatchesReady
    BY DEF CoordinationInv
  <1>1. CASE Quiet
    BY <1>0, <1>1 DEF Quiet, QueueMatchesReady
  <1>2. ASSUME NEW b \in Builds, StartBuild(b) \/ RetryBuild(b) PROVE QueueMatchesReady'
    <2> DEFINE jobs == AttemptJobs(b, latest[b] + 1)
    <2>1. /\ queue' = queue \cup {j \in jobs : Deps[j] = {}}
          /\ \A j \in Jobs : job'[j] = IF j \notin jobs THEN job[j]
                                       ELSE IF Deps[j] = {} THEN "Ready" ELSE "Blocked"
      BY <1>0, <1>2, NewJobsAreAbsent DEF Materialize
    <2>2. \A j \in jobs : job[j] = None
      BY <1>0, <1>2, NewJobsAreAbsent
    <2>3. None # "Ready"
      BY NoneAssumption DEF JobStates
    <2> HIDE DEF jobs
    <2> QED BY <1>0, <2>1, <2>2, <2>3 DEF QueueMatchesReady
  <1>3. ASSUME NEW b \in Builds, CancelBuild(b) PROVE QueueMatchesReady'
    <2> DEFINE jobs == AttemptJobs(b, latest[b])
    <2>1. /\ \A j \in Jobs : job'[j] = IF j \in jobs THEN CancelJobState(job[j]) ELSE job[j]
          /\ queue' = queue \ {j \in jobs : job[j] # job'[j] /\ job'[j] = "Cancelled"}
      BY <1>3 DEF CancelBuild, DequeuedByCancellation
    <2> HIDE DEF jobs
    <2> QED BY <1>0, <2>1 DEF QueueMatchesReady, CancelJobState
  <1>4. ASSUME NEW l \in LeaseIds, NEW a \in Agents, NEW p \in Pools, NEW j \in Jobs,
               ClaimJob(a, p, j, l)
        PROVE  QueueMatchesReady'
    BY <1>0, <1>4 DEF ClaimJob, QueueMatchesReady, TypeInv, TypeOK
  <1>5. ASSUME NEW l \in LeaseIds, StartsJob(l) PROVE QueueMatchesReady'
    BY <1>0, <1>5
    DEF StartsJob, StartJobExecution, OwnedJobStates, QueueMatchesReady, TypeInv, TypeOK, LeaseRows
  <1>6. ASSUME NEW l \in LeaseIds, RequeuesJob(l) PROVE QueueMatchesReady'
    BY <1>0, <1>6
    DEF RequeuesJob, QueueMatchesReady, TypeInv, TypeOK, LeaseRows, IsCurrent, CurrentLeaseStates
  <1>7. ASSUME NEW l \in LeaseIds, NEW kind \in CompletionKinds, NEW s \in LeaseEnds, EndsJob(l, kind, s)
        PROVE  QueueMatchesReady'
    <2> DEFINE j == leaseJob[l]
    <2>1. j \in Jobs /\ job[j] \in OwnedJobStates
      BY <1>0, <1>7 DEF EndsJob, TypeInv, LeaseRows, IsCurrent, CurrentLeaseStates
    <2>2. /\ job'[j] = kind
          /\ \A i \in Jobs : i # j /\ job[i] # "Blocked" => job'[i] = job[i]
          /\ queue' = queue \cup {i \in Jobs : job[i] = "Blocked" /\ job'[i] = "Ready"}
      BY <1>0, <1>7, <2>1, ReconcileEffect DEF EndsJob, TypeInv
    <2>3. kind # "Ready" /\ job[j] \notin {"Ready", "Blocked"}
      BY <2>1 DEF CompletionKinds, OwnedJobStates
    <2> HIDE DEF j
    <2> QED BY <1>0, <2>1, <2>2, <2>3 DEF QueueMatchesReady
  <1> QED BY <1>1, <1>2, <1>3, <1>4, <1>5, <1>6, <1>7 DEF StepKind

\* Lease l ends and with it the ownership of its Job j; nobody else's changes.
LEMMA EndOwnership ==
    ASSUME TypeInv, OwnershipMatchesJob, NEW l \in LeaseIds, IsCurrent(l), NEW s \in LeaseEnds,
           leaseState' = [leaseState EXCEPT ![l] = s], leaseJob' = leaseJob,
           job'[leaseJob[l]] \notin OwnedJobStates,
           \A i \in Jobs : i # leaseJob[l] => (job'[i] \in OwnedJobStates <=> job[i] \in OwnedJobStates)
    PROVE  OwnershipMatchesJob'
  <1> DEFINE j == leaseJob[l]
  <1>1. j \in Jobs
    BY DEF TypeInv, LeaseRows, IsCurrent, CurrentLeaseStates
  <1>2. \A m \in LeaseIds : IsCurrent(m)' <=> m # l /\ IsCurrent(m)
    BY DEF TypeInv, TypeOK, IsCurrent, CurrentLeaseStates, LeaseEnds
  <1>3. \A m \in LeaseIds : IsCurrent(m)' => leaseJob[m] # j /\ leaseJob[m] \in Jobs
    <2>1. \A m \in LeaseIds : IsCurrent(m) => leaseJob[m] \in Jobs
      BY DEF TypeInv, LeaseRows, IsCurrent, CurrentLeaseStates
    <2> QED BY <1>2, <2>1 DEF OwnershipMatchesJob
  <1>4. \A i \in Jobs : job'[i] \in OwnedJobStates => \E m \in LeaseIds : IsCurrent(m)' /\ leaseJob[m] = i
    BY <1>2 DEF OwnershipMatchesJob
  <1>5. \A m \in LeaseIds : IsCurrent(m)' => job'[leaseJob[m]] \in OwnedJobStates
    BY <1>2, <1>3 DEF OwnershipMatchesJob
  <1>6. \A m, k \in LeaseIds : IsCurrent(m)' /\ IsCurrent(k)' /\ leaseJob[m] = leaseJob[k] => m = k
    BY <1>2 DEF OwnershipMatchesJob
  <1> QED BY <1>4, <1>5, <1>6 DEF OwnershipMatchesJob

\* No current lease changes and no Job changes hands.
LEMMA SameOwnership ==
    ASSUME OwnershipMatchesJob, TypeInv, leaseJob' = leaseJob,
           \A l \in LeaseIds : IsCurrent(l)' <=> IsCurrent(l),
           \A i \in Jobs : job'[i] \in OwnedJobStates <=> job[i] \in OwnedJobStates
    PROVE  OwnershipMatchesJob'
  <1>1. \A l \in LeaseIds : IsCurrent(l) => leaseJob[l] \in Jobs
    BY DEF TypeInv, LeaseRows, IsCurrent, CurrentLeaseStates
  <1> QED BY <1>1 DEF OwnershipMatchesJob

\* Every step keeps Jobs and current leases matched.
LEMMA NextOwnership == CoordinationInv /\ StepKind => OwnershipMatchesJob'
  <1> SUFFICES ASSUME CoordinationInv, StepKind PROVE OwnershipMatchesJob'
    OBVIOUS
  <1>0. TypeInv /\ BuildInv /\ OwnershipMatchesJob
    BY DEF CoordinationInv
  <1>1. CASE Quiet
    BY <1>0, <1>1, SameOwnership DEF Quiet
  <1>2. ASSUME NEW b \in Builds, StartBuild(b) \/ RetryBuild(b) PROVE OwnershipMatchesJob'
    <2> DEFINE jobs == AttemptJobs(b, latest[b] + 1)
    <2>1. /\ leaseJob' = leaseJob /\ leaseState' = leaseState
          /\ \A j \in Jobs : job'[j] = IF j \notin jobs THEN job[j]
                                       ELSE IF Deps[j] = {} THEN "Ready" ELSE "Blocked"
      BY <1>0, <1>2, NewJobsAreAbsent DEF Materialize, leaseVars
    <2>2. \A j \in jobs : job[j] = None
      BY <1>0, <1>2, NewJobsAreAbsent
    <2>3. None \notin OwnedJobStates
      BY NoneAssumption DEF JobStates, OwnedJobStates
    <2> HIDE DEF jobs
    <2>4. \A i \in Jobs : job'[i] \in OwnedJobStates <=> job[i] \in OwnedJobStates
      BY <2>1, <2>2, <2>3 DEF OwnedJobStates
    <2>5. \A l \in LeaseIds : IsCurrent(l)' <=> IsCurrent(l)
      BY <2>1 DEF IsCurrent
    <2> QED BY <1>0, <2>1, <2>4, <2>5, SameOwnership
  <1>3. ASSUME NEW b \in Builds, CancelBuild(b) PROVE OwnershipMatchesJob'
    <2>1. leaseJob' = leaseJob
      BY <1>3 DEF CancelBuild
    <2>2. \A i \in Jobs : job'[i] \in OwnedJobStates <=> job[i] \in OwnedJobStates
      BY <1>3 DEF CancelBuild, CancelJobState, OwnedJobStates
    <2>3. \A l \in LeaseIds : IsCurrent(l)' <=> IsCurrent(l)
      BY <1>3 DEF CancelBuild, CancellableLeases, IsCurrent, CurrentLeaseStates
    <2> QED BY <1>0, <2>1, <2>2, <2>3, SameOwnership
  <1>4. ASSUME NEW l \in LeaseIds, NEW a \in Agents, NEW p \in Pools, NEW j \in Jobs,
               ClaimJob(a, p, j, l)
        PROVE  OwnershipMatchesJob'
    <2>1. job[j] = "Ready" /\ leaseState[l] = "none"
      BY <1>4 DEF ClaimJob, IsCandidate, IsFreshLease
    <2>2. job'[j] = "Leased" /\ \A i \in Jobs : i # j => job'[i] = job[i]
      BY <1>0, <1>4 DEF ClaimJob, TypeInv, TypeOK
    <2>3. leaseJob'[l] = j /\ \A m \in LeaseIds : m # l => leaseJob'[m] = leaseJob[m]
      BY <1>0, <1>4 DEF ClaimJob, TypeInv, TypeOK
    <2>4. ~ IsCurrent(l) /\ \A m \in LeaseIds : IsCurrent(m)' <=> m = l \/ IsCurrent(m)
      BY <1>0, <1>4, <2>1 DEF ClaimJob, IsCurrent, CurrentLeaseStates, TypeInv, TypeOK
    <2>5. \A m \in LeaseIds : IsCurrent(m) => leaseJob[m] # j /\ leaseJob[m] \in Jobs
      BY <1>0, <2>1
      DEF OwnershipMatchesJob, OwnedJobStates, TypeInv, LeaseRows, IsCurrent, CurrentLeaseStates
    <2>6. \A i \in Jobs : job'[i] \in OwnedJobStates => \E m \in LeaseIds : IsCurrent(m)' /\ leaseJob'[m] = i
      BY <1>0, <2>2, <2>3, <2>4 DEF OwnershipMatchesJob
    <2>7. \A m \in LeaseIds : IsCurrent(m)' => job'[leaseJob'[m]] \in OwnedJobStates
      <3>1. job'[j] \in OwnedJobStates
        BY <2>2 DEF OwnedJobStates
      <3> QED BY <1>0, <2>2, <2>3, <2>4, <2>5, <3>1 DEF OwnershipMatchesJob
    <2>8. \A m, k \in LeaseIds : IsCurrent(m)' /\ IsCurrent(k)' /\ leaseJob'[m] = leaseJob'[k] => m = k
      BY <1>0, <2>3, <2>4, <2>5 DEF OwnershipMatchesJob
    <2> QED BY <2>6, <2>7, <2>8 DEF OwnershipMatchesJob
  <1>5. ASSUME NEW l \in LeaseIds, StartsJob(l) PROVE OwnershipMatchesJob'
    <2>1. leaseJob' = leaseJob /\ \A m \in LeaseIds : IsCurrent(m)' <=> IsCurrent(m)
      BY <1>5 DEF StartsJob, IsCurrent
    <2>2. \A i \in Jobs : job'[i] \in OwnedJobStates <=> job[i] \in OwnedJobStates
      BY <1>0, <1>5 DEF StartsJob, StartJobExecution, OwnedJobStates, TypeInv, TypeOK, LeaseRows
    <2> QED BY <1>0, <2>1, <2>2, SameOwnership
  <1>6. ASSUME NEW l \in LeaseIds, RequeuesJob(l) PROVE OwnershipMatchesJob'
    <2>1. leaseJob[l] \in Jobs
      BY <1>0, <1>6 DEF RequeuesJob, TypeInv, LeaseRows, IsCurrent, CurrentLeaseStates
    <2>2. job'[leaseJob[l]] = "Ready" /\ \A i \in Jobs : i # leaseJob[l] => job'[i] = job[i]
      BY <1>0, <1>6, <2>1 DEF RequeuesJob, TypeInv, TypeOK
    <2>3. "Ready" \notin OwnedJobStates /\ "expired" \in LeaseEnds
      BY DEF OwnedJobStates, LeaseEnds
    <2> QED BY <1>0, <1>6, <2>2, <2>3, EndOwnership DEF RequeuesJob
  <1>7. ASSUME NEW l \in LeaseIds, NEW kind \in CompletionKinds, NEW s \in LeaseEnds, EndsJob(l, kind, s)
        PROVE  OwnershipMatchesJob'
    <2> DEFINE j == leaseJob[l]
    <2>1. j \in Jobs /\ job[j] \in OwnedJobStates
      BY <1>0, <1>7 DEF EndsJob, TypeInv, LeaseRows, IsCurrent, CurrentLeaseStates
    <2>2. /\ job'[j] = kind
          /\ \A i \in Jobs : i # j /\ job[i] # "Blocked" => job'[i] = job[i]
          /\ \A i \in Jobs : job[i] = "Blocked" => job'[i] \in {"Blocked", "Ready", "Skipped"}
      BY <1>0, <1>7, <2>1, ReconcileEffect DEF EndsJob, TypeInv
    <2>3. job'[j] \notin OwnedJobStates
      BY <2>2 DEF CompletionKinds, OwnedJobStates
    <2>4. \A i \in Jobs : i # j => (job'[i] \in OwnedJobStates <=> job[i] \in OwnedJobStates)
      BY <2>2 DEF OwnedJobStates
    <2> QED BY <1>0, <1>7, <2>3, <2>4, EndOwnership DEF EndsJob
  <1> QED BY <1>1, <1>2, <1>3, <1>4, <1>5, <1>6, <1>7 DEF StepKind

-----------------------------------------------------------------------------
(* The theorems                                                            *)

\* The invariant is inductive.
LEMMA NextInv == CoordinationInv /\ [Next]_vars => CoordinationInv'
  <1> SUFFICES ASSUME CoordinationInv, [Next]_vars PROVE CoordinationInv'
    OBVIOUS
  <1>1. TypeInv'
    BY NextType DEF CoordinationInv
  <1>2. StepKind
    BY StepKinds DEF CoordinationInv
  <1> QED BY <1>1, <1>2, NextBuildInv, NextWaits, NextQueue, NextOwnership DEF CoordinationInv

\* It holds in every reachable state.
LEMMA Coordination == Spec => []CoordinationInv
  BY InitInv, NextInv, PTL DEF Spec

\* A ready Job is in the queue and a queue entry is a ready Job, whatever
\* materialization, claims, cancellations, completions and recoveries commit.
THEOREM QueueExact == Spec => []QueueMatchesReady
  <1>1. CoordinationInv => QueueMatchesReady
    BY DEF CoordinationInv
  <1> QED BY <1>1, Coordination, PTL

\* A Job is leased, running or cancelling exactly while one current lease is on
\* it: no two owners, no owner without a Job, no Job without an owner.
THEOREM OwnershipExact == Spec => []OwnershipMatchesJob
  <1>1. CoordinationInv => OwnershipMatchesJob
    BY DEF CoordinationInv
  <1> QED BY <1>1, Coordination, PTL

\* The stored Attempt and Build states are the derived ones in every reachable
\* state, and every Attempt but the latest has failed.
THEOREM AggregatesExact == Spec => []AggregatesDerived
  <1>1. CoordinationInv => AggregatesDerived
    BY DEF CoordinationInv, BuildInv
  <1> QED BY <1>1, Coordination, PTL

\* Cancellation reaches every Job, so that reconcile never refuses the graph of a
\* cancelled Build.
THEOREM CancellationReachesAll == Spec => []CancellationPropagated
  <1>1. CoordinationInv => CancellationPropagated
    BY DEF CoordinationInv, BuildInv
  <1> QED BY <1>1, Coordination, PTL

\* A Build that is not finished always has a queued Job or a current lease: its
\* Jobs never all wait for each other. Among the blocked Jobs of an Attempt one
\* waits for no other of them, so the predecessor it waits for is ready or owned.
THEOREM UnfinishedHasWork == Spec => []UnfinishedBuildHasWork
  <1>1. CoordinationInv => UnfinishedBuildHasWork
    <2> SUFFICES ASSUME CoordinationInv, NEW b \in Builds, build[b] = "Running"
                 PROVE  \E j \in AttemptJobs(b, latest[b]) :
                           j \in queue \/ \E l \in LeaseIds : IsCurrent(l) /\ leaseJob[l] = j
      BY DEF UnfinishedBuildHasWork
    <2> DEFINE jobs == AttemptJobs(b, latest[b])
               blocked == {j \in jobs : job[j] = "Blocked"}
               Unfinished(j) == job[j] # None /\ job[j] \notin TerminalJobStates
    <2>0. TypeInv /\ BuildInv /\ BlockedJobsWait /\ QueueMatchesReady /\ OwnershipMatchesJob
      BY DEF CoordinationInv
    <2>1. jobs \subseteq Jobs /\ blocked \subseteq Jobs
      BY DEF AttemptJobs
    <2>2. build[b] # None
      BY NoneAssumption DEF BuildStates
    <2>3. attempt[b][latest[b]] = DeriveAttempt(jobs, job, b \in cancelled)
      BY <2>0, <2>2 DEF BuildInv, AggregatesDerived
    <2>4. build[b] = DeriveAttempt(jobs, job, b \in cancelled)
      <3>1. build[b] = BuildStateOf(attempt[b][latest[b]])
        BY <2>0, <2>2 DEF BuildInv, AggregatesDerived
      <3> QED BY <2>3, <3>1, DeriveType
    <2>5. \E j \in jobs : job[j] \notin TerminalJobStates
      BY <2>4, DeriveType
    <2>6. \A j \in jobs : job[j] # None
      <3>1. \A j \in jobs : j \in Jobs /\ AttemptOf[j] <= latest[BuildOf[j]]
        BY GraphAssumption, BoundAssumption DEF AttemptJobs, AttemptIds
      <3> QED BY <2>0, <3>1 DEF BuildInv, Materialized
    <2>7. \E j \in jobs : Unfinished(j) /\ job[j] # "Blocked"
      <3>1. CASE blocked = {}
        BY <2>5, <2>6, <3>1
      <3>2. CASE blocked # {}
        <4>1. PICK j \in blocked : Deps[j] \cap blocked = {}
          BY <2>1, <3>2, GraphAssumption DEF Acyclic
        <4>2. PICK d \in Deps[j] : Unfinished(d)
          BY <2>0, <2>1, <4>1 DEF BlockedJobsWait
        <4>3. d \in jobs
          BY <2>1, <4>1, GraphAssumption DEF AttemptJobs
        <4> QED BY <4>1, <4>2, <4>3
      <3> QED BY <3>1, <3>2
    <2>8. PICK j \in jobs : Unfinished(j) /\ job[j] # "Blocked"
      BY <2>7
    <2>9. job[j] = "Ready" \/ job[j] \in OwnedJobStates
      BY <2>0, <2>1, <2>8 DEF TypeInv, TypeOK, JobStates, TerminalJobStates, OwnedJobStates
    <2>10. j \in queue \/ \E l \in LeaseIds : IsCurrent(l) /\ leaseJob[l] = j
      BY <2>0, <2>1, <2>9 DEF QueueMatchesReady, OwnershipMatchesJob
    <2> QED BY <2>10
  <1> QED BY <1>1, Coordination, PTL

-----------------------------------------------------------------------------
(* Agents and Pools                                                        *)

\* No lease is granted, no Agent moves to another Pool and no Pool changes its
\* drain state; leases may end.
PlacementKept ==
    /\ UNCHANGED <<leaseAgent, leasePool, agentPool, poolState>>
    /\ \A l \in LeaseIds : IsCurrent(l)' => IsCurrent(l)

\* Only a claim, a reassignment and the publication of a Pool version do more.
LEMMA PlacementKinds ==
    ASSUME TypeInv, [Next]_vars
    PROVE  \/ PlacementKept
           \/ \E l \in LeaseIds, a \in Agents, p \in Pools, j \in Jobs : ClaimJob(a, p, j, l)
           \/ \E a \in Agents, p \in Pools : ReassignAgent(a, p)
           \/ \E p \in Pools, s \in PoolTargets : PublishPool(p, s)
  <1> USE DEF PlacementKept, IsCurrent, CurrentLeaseStates
  <1>1. CASE BuildNext
    BY <1>1 DEF BuildNext, StartBuild, RetryBuild, CancelBuild, CancellableLeases, Materialize,
                leaseVars, fleetVars
  <1>2. ASSUME NEW l \in LeaseIds, NEW kind, NEW final, Finish(l, kind, final) PROVE PlacementKept
    BY <1>2 DEF Finish, fleetVars, TypeInv, TypeOK
  <1>3. ASSUME NEW l \in LeaseIds, NEW first, NEW last, Heartbeat(l) \/ AppendEvents(l, first, last)
        PROVE  PlacementKept
    BY <1>3 DEF Heartbeat, AppendEvents, leaseVars, fleetVars
  <1>4. ASSUME NEW l \in LeaseIds, NEW w \in Workers, ClaimExpired(w, l) \/ RecoverEnded(w, l)
        PROVE  PlacementKept
    BY <1>4 DEF ClaimExpired, RecoverEnded, fleetVars
  <1>5. ASSUME NEW l \in LeaseIds, NEW w \in Workers, RecoverRequeue(w, l) \/ RecoverTerminal(w, l)
        PROVE  PlacementKept
    BY <1>5 DEF RecoverRequeue, RecoverTerminal, fleetVars, TypeInv, TypeOK
  <1>6. CASE Tick
    BY <1>6 DEF Tick, fleetVars
  <1>7. ASSUME NEW a \in Agents, RegisterAgent(a) \/ LoseRegistration(a) PROVE PlacementKept
    BY <1>7 DEF RegisterAgent, LoseRegistration, leaseVars
  <1>8. ASSUME NEW a \in Agents, NEW mode, DrainAgent(a, mode) PROVE PlacementKept
    BY <1>8 DEF DrainAgent
  <1>9. CASE UNCHANGED vars
    BY <1>9 DEF vars, leaseVars, fleetVars
  <1> HIDE DEF PlacementKept
  <1>10. CASE LeaseNext
    BY <1>10, <1>2, <1>3 DEF LeaseNext, CompleteJob, FailAssignment
  <1>11. CASE RecoveryNext
    BY <1>11, <1>4, <1>5, <1>6 DEF RecoveryNext, Recover
  <1>12. CASE FleetNext
    BY <1>12, <1>7, <1>8 DEF FleetNext
  <1> QED BY <1>1, <1>9, <1>10, <1>11, <1>12 DEF Next

\* A set of leases has a size, and size zero exactly when it is empty.
LEMMA LeaseSetSize ==
    ASSUME NEW S \in SUBSET LeaseIds
    PROVE  IsFiniteSet(S) /\ Cardinality(S) \in Nat /\ (Cardinality(S) = 0 <=> S = {})
  <1>1. IsFiniteSet(LeaseIds)
    BY BoundAssumption, FS_Interval DEF LeaseIds
  <1>2. IsFiniteSet(S)
    BY <1>1, FS_Subset
  <1> QED BY <1>2, FS_CardinalityType, FS_EmptySet

\* The claim looks for a current lease of the Agent under all its registrations, and
\* so does the reassignment to another Pool.
LEMMA NextPlacement == TypeInv /\ OneLeasePerAgent /\ [Next]_vars => OneLeasePerAgent'
  <1> SUFFICES ASSUME TypeInv, OneLeasePerAgent, [Next]_vars PROVE OneLeasePerAgent'
    OBVIOUS
  <1>1. CASE PlacementKept
    BY <1>1 DEF PlacementKept, OneLeasePerAgent
  <1>2. ASSUME NEW l \in LeaseIds, NEW a \in Agents, NEW p \in Pools, NEW j \in Jobs,
               ClaimJob(a, p, j, l)
        PROVE  OneLeasePerAgent'
    <2>1. /\ leaseAgent'[l] = a /\ leasePool'[l] = p
          /\ \A m \in LeaseIds : m # l => leaseAgent'[m] = leaseAgent[m] /\ leasePool'[m] = leasePool[m]
          /\ agentPool' = agentPool
      BY <1>2 DEF ClaimJob, fleetVars, TypeInv, TypeOK
    <2>2. \A m \in LeaseIds : IsCurrent(m)' => m = l \/ IsCurrent(m)
      BY <1>2 DEF ClaimJob, IsCurrent, TypeInv, TypeOK
    <2>3. agentPool[a] = p /\ \A m \in LeaseIds : IsCurrent(m) => leaseAgent[m] # a
      BY <1>2 DEF ClaimJob, MayClaim, CurrentLeasesOf
    <2> QED BY <2>1, <2>2, <2>3 DEF OneLeasePerAgent
  <1>3. ASSUME NEW a \in Agents, NEW p \in Pools, ReassignAgent(a, p) PROVE OneLeasePerAgent'
    <2>1. \A m \in LeaseIds : IsCurrent(m) => leaseAgent[m] # a /\ leaseAgent[m] \in Agents
      BY <1>3 DEF ReassignAgent, CurrentLeasesOf, TypeInv, LeaseRows, IsCurrent, CurrentLeaseStates
    <2>2. \A b \in Agents : b # a => agentPool'[b] = agentPool[b]
      BY <1>3 DEF ReassignAgent, TypeInv, TypeOK
    <2>3. /\ UNCHANGED <<leaseAgent, leasePool>>
          /\ \A m \in LeaseIds : IsCurrent(m)' <=> IsCurrent(m)
      BY <1>3 DEF ReassignAgent, leaseVars, IsCurrent
    <2> QED BY <2>1, <2>2, <2>3 DEF OneLeasePerAgent
  <1>4. ASSUME NEW p \in Pools, NEW s \in PoolTargets, PublishPool(p, s) PROVE OneLeasePerAgent'
    <2>1. /\ UNCHANGED <<leaseAgent, leasePool, agentPool>>
          /\ \A m \in LeaseIds : IsCurrent(m)' => IsCurrent(m)
      BY <1>4 DEF PublishPool, IsCurrent, CurrentLeaseStates
    <2> QED BY <2>1 DEF OneLeasePerAgent
  <1> QED BY <1>1, <1>2, <1>3, <1>4, PlacementKinds

\* The claim of a lease and the end of a drain look at the same rows: a Pool becomes
\* drained only without current leases, and a drained Pool hands out none.
LEMMA NextDrained == TypeInv /\ DrainedPoolIsIdle /\ [Next]_vars => DrainedPoolIsIdle'
  <1> SUFFICES ASSUME TypeInv, DrainedPoolIsIdle, [Next]_vars PROVE DrainedPoolIsIdle'
    OBVIOUS
  <1> DEFINE Load(q) == {l \in LeaseIds : IsCurrent(l) /\ leasePool[l] = q}
             Idle(q) == \A l \in LeaseIds : IsCurrent(l) => leasePool[l] # q
  <1>0. \A q : PoolLoad(q) \in Nat /\ (PoolLoad(q) = 0 <=> Idle(q))
    <2> SUFFICES ASSUME NEW q PROVE PoolLoad(q) \in Nat /\ (PoolLoad(q) = 0 <=> Idle(q))
      OBVIOUS
    <2>1. Cardinality(Load(q)) \in Nat /\ (Cardinality(Load(q)) = 0 <=> Load(q) = {})
      BY LeaseSetSize
    <2> QED BY <2>1 DEF PoolLoad
  <1>1. \A q \in Pools : poolState[q] = "Drained" => Idle(q)
    BY <1>0 DEF DrainedPoolIsIdle
  <1>2. SUFFICES \A q \in Pools : poolState'[q] = "Drained" => Idle(q)'
    <2>1. ASSUME NEW q \in Pools, Idle(q)' PROVE PoolLoad(q)' = 0
      <3>1. Load(q)' = {}
        BY <2>1
      <3>2. Cardinality(Load(q)') = 0
        BY <3>1, LeaseSetSize
      <3> QED BY <3>2 DEF PoolLoad
    <2> QED BY <1>2, <2>1 DEF DrainedPoolIsIdle
  <1>3. CASE PlacementKept
    BY <1>1, <1>3 DEF PlacementKept
  <1>4. ASSUME NEW l \in LeaseIds, NEW a \in Agents, NEW p \in Pools, NEW j \in Jobs,
               ClaimJob(a, p, j, l), NEW q \in Pools, poolState'[q] = "Drained"
        PROVE  Idle(q)'
    <2>1. leasePool'[l] = p /\ \A m \in LeaseIds : m # l => leasePool'[m] = leasePool[m]
      BY <1>4 DEF ClaimJob, TypeInv, TypeOK
    <2>2. \A m \in LeaseIds : IsCurrent(m)' => m = l \/ IsCurrent(m)
      BY <1>4 DEF ClaimJob, IsCurrent, TypeInv, TypeOK
    <2>3. poolState[p] = "Accepting" /\ poolState' = poolState
      BY <1>4 DEF ClaimJob, MayClaim, fleetVars
    <2> QED BY <1>1, <1>4, <2>1, <2>2, <2>3
  <1>5. ASSUME NEW a \in Agents, NEW p \in Pools, ReassignAgent(a, p),
               NEW q \in Pools, poolState'[q] = "Drained"
        PROVE  Idle(q)'
    BY <1>1, <1>5 DEF ReassignAgent, leaseVars, IsCurrent
  <1>6. ASSUME NEW p \in Pools, NEW s \in PoolTargets, PublishPool(p, s),
               NEW q \in Pools, poolState'[q] = "Drained"
        PROVE  Idle(q)'
    <2>1. leasePool' = leasePool /\ \A m \in LeaseIds : IsCurrent(m)' => IsCurrent(m)
      BY <1>6 DEF PublishPool, IsCurrent, CurrentLeaseStates
    <2>2. CASE q = p
      <3>1. s = "Drained" /\ MayPublish(poolState[p], s, PoolLoad(p) > 0)
        BY <1>6, <2>2 DEF PublishPool, TypeInv, TypeOK
      <3>2. poolState[p] = "Drained" \/ ~ (PoolLoad(p) > 0)
        BY <3>1 DEF MayPublish
      <3>3. Idle(p)
        BY <1>0, <1>1, <3>2
      <3> QED BY <2>1, <2>2, <3>3
    <2>3. CASE q # p
      BY <1>1, <1>6, <2>1, <2>3 DEF PublishPool, TypeInv, TypeOK
    <2> QED BY <2>2, <2>3
  <1> QED BY <1>3, <1>4, <1>5, <1>6, PlacementKinds

\* An Agent holds at most one current lease over all its registrations, in the Pool it
\* is in, whatever re-registrations, drains and reassignments come between.
THEOREM OneLeaseAtATime == Spec => []OneLeasePerAgent
  <1>1. Init => OneLeasePerAgent
    BY DEF Init, OneLeasePerAgent, IsCurrent, CurrentLeaseStates
  <1> QED BY <1>1, NextPlacement, Typed, PTL DEF Spec

\* A Pool that reports drained has no current lease until it accepts work again.
THEOREM DrainedPoolsIdle == Spec => []DrainedPoolIsIdle
  <1>1. Init => DrainedPoolIsIdle
    BY DEF Init, DrainedPoolIsIdle
  <1> QED BY <1>1, NextDrained, Typed, PTL DEF Spec

-----------------------------------------------------------------------------
(* The history of a Job: its leases, its events and its completion         *)

\* A lease that was not granted refers to no Job.
FreshRows == \A l \in LeaseIds : leaseState[l] = "none" => leaseJob[l] = None

\* Leases are numbered in the order in which they are granted.
LeasesInOrder ==
    \A l, m \in LeaseIds : leaseState[m] # "none" /\ l < m => leaseState[l] # "none"

\* The current lease of a Job is the last one that was granted on it.
NewestOwns ==
    \A l, m \in LeaseIds : IsCurrent(l) /\ leaseJob[m] = leaseJob[l] => m <= l

\* The events of a Job were written by leases on that Job.
WritersHadJob == \A j \in Jobs : \A s \in 1 .. Len(events[j]) : leaseJob[events[j][s]] = j

HistoryInv ==
    /\ FreshRows
    /\ LeasesInOrder
    /\ NewestOwns
    /\ WritersHadJob
    /\ EventStreamNotInterleaved
    /\ CompletionSealsJob
    /\ ExecutionsBounded

\* No lease is granted or ended, nothing is recorded, and no Job is owned, given back
\* or completed.
HistoryKept ==
    /\ UNCHANGED <<events, completion, requeues, leaseJob>>
    /\ \A l \in LeaseIds : /\ IsCurrent(l)' <=> IsCurrent(l)
                           /\ leaseState'[l] = "none" <=> leaseState[l] = "none"
    /\ \A j \in Jobs :
          /\ job'[j] \in OwnedJobStates <=> job[j] \in OwnedJobStates
          /\ job[j] \in CompletionKinds => job'[j] = job[j]
          /\ job'[j] \in {"Succeeded", "Failed"} => job'[j] = job[j]

\* Lease l is granted on the ready Job j.
Grants(l, j) ==
    /\ IsFreshLease(l)
    /\ job[j] = "Ready" /\ job'[j] = "Leased"
    /\ \A i \in Jobs : i # j => job'[i] = job[i]
    /\ leaseJob' = [leaseJob EXCEPT ![l] = j]
    /\ \A m \in LeaseIds : /\ IsCurrent(m)' <=> m = l \/ IsCurrent(m)
                           /\ leaseState'[m] = "none" <=> m # l /\ leaseState[m] = "none"
    /\ UNCHANGED <<events, completion, requeues>>

\* The owner of lease l adds k events to the stream of its Job.
Writes(l, k) ==
    LET j == leaseJob[l]
    IN  /\ IsCurrent(l)
        /\ job[j] \in OwnedJobStates /\ job'[j] \in OwnedJobStates
        /\ \A i \in Jobs : i # j => job'[i] = job[i]
        /\ events' = [events EXCEPT ![j] = events[j] \o [s \in 1 .. k |-> l]]
        /\ UNCHANGED <<completion, requeues, leaseJob, leaseState>>

\* Lease l ends and its Job leaves the owned states; blocked Jobs behind it may move.
Releases(l) ==
    LET j == leaseJob[l]
    IN  /\ IsCurrent(l)
        /\ j \in Jobs
        /\ job[j] \in OwnedJobStates
        /\ \A i \in Jobs : i # j => \/ job'[i] = job[i]
                                    \/ job[i] = "Blocked" /\ job'[i] \in {"Blocked", "Ready", "Skipped"}
        /\ \A m \in LeaseIds : /\ IsCurrent(m)' <=> m # l /\ IsCurrent(m)
                               /\ leaseState'[m] = "none" <=> leaseState[m] = "none"
        /\ UNCHANGED <<events, leaseJob>>

\* The Job of lease l goes back to the queue and the failure is counted.
GivesBack(l) ==
    /\ Releases(l)
    /\ job'[leaseJob[l]] = "Ready"
    /\ requeues' = [requeues EXCEPT ![leaseJob[l]] = @ + 1]
    /\ requeues[leaseJob[l]] < RequeueLimit
    /\ UNCHANGED completion

\* The Job of lease l ends as `kind`; the first to end it records the completion.
Seals(l, kind) ==
    LET j == leaseJob[l]
        row == [lease |-> l, kind |-> kind, final |-> Len(events[j])]
    IN  /\ Releases(l)
        /\ job'[j] = kind
        /\ row \in Completions
        /\ completion[j] = None => completion' = [completion EXCEPT ![j] = row]
        /\ UNCHANGED requeues

HistoryStep ==
    \/ HistoryKept
    \/ \E l \in LeaseIds, j \in Jobs : Grants(l, j)
    \/ \E l \in LeaseIds, k \in Nat \ {0} : Writes(l, k)
    \/ \E l \in LeaseIds : GivesBack(l)
    \/ \E l \in LeaseIds, kind \in CompletionKinds : Seals(l, kind)

\* A lease that ends is no longer current and nobody else's is touched.
LEMMA EndedLease ==
    ASSUME TypeInv, NEW l \in LeaseIds, IsCurrent(l), NEW s \in LeaseEnds,
           leaseState' = [leaseState EXCEPT ![l] = s]
    PROVE  \A m \in LeaseIds : /\ IsCurrent(m)' <=> m # l /\ IsCurrent(m)
                               /\ leaseState'[m] = "none" <=> leaseState[m] = "none"
  BY DEF TypeInv, TypeOK, IsCurrent, CurrentLeaseStates, LeaseEnds

\* Completion, assignment failure and recovery release the Job through reconcile.
LEMMA EndReleases ==
    ASSUME TypeInv, NEW l \in LeaseIds, NEW kind \in CompletionKinds, NEW s \in LeaseEnds,
           EndsJob(l, kind, s), UNCHANGED events
    PROVE  /\ Releases(l)
           /\ job'[leaseJob[l]] = kind
           /\ [lease |-> l, kind |-> kind, final |-> Len(events[leaseJob[l]])] \in Completions
  <1> DEFINE j == leaseJob[l]
  <1>1. leaseState[l] # "none"
    BY DEF EndsJob, IsCurrent, CurrentLeaseStates
  <1>2. j \in Jobs /\ [lease |-> l, kind |-> kind, final |-> Len(events[j])] \in Completions
    BY <1>1, FinishType DEF EndsJob
  <1>3. /\ job'[j] = kind
        /\ \A i \in Jobs : i # j /\ job[i] # "Blocked" => job'[i] = job[i]
        /\ \A i \in Jobs : job[i] = "Blocked" => job'[i] \in {"Blocked", "Ready", "Skipped"}
    BY <1>2, ReconcileEffect DEF EndsJob, TypeInv
  <1>4. \A m \in LeaseIds : /\ IsCurrent(m)' <=> m # l /\ IsCurrent(m)
                            /\ leaseState'[m] = "none" <=> leaseState[m] = "none"
    BY EndedLease DEF EndsJob
  <1>5. IsCurrent(l) /\ job[j] \in OwnedJobStates /\ leaseJob' = leaseJob
    BY DEF EndsJob
  <1> QED BY <1>2, <1>3, <1>4, <1>5 DEF Releases

\* Every step is one of these.
LEMMA HistorySteps == CoordinationInv /\ [Next]_vars => HistoryStep
  <1> SUFFICES ASSUME CoordinationInv, [Next]_vars PROVE HistoryStep
    OBVIOUS
  <1>0. TypeInv /\ BuildInv
    BY DEF CoordinationInv
  <1>1. ASSUME NEW b \in Builds, StartBuild(b) \/ RetryBuild(b) PROVE HistoryKept
    <2> DEFINE jobs == AttemptJobs(b, latest[b] + 1)
    <2>1. /\ UNCHANGED <<events, completion, requeues, leaseJob, leaseState>>
          /\ \A j \in Jobs : job'[j] = IF j \notin jobs THEN job[j]
                                       ELSE IF Deps[j] = {} THEN "Ready" ELSE "Blocked"
      BY <1>0, <1>1, NewJobsAreAbsent DEF Materialize, leaseVars
    <2>2. \A j \in jobs : job[j] = None
      BY <1>0, <1>1, NewJobsAreAbsent
    <2>3. None \notin OwnedJobStates /\ None \notin CompletionKinds
      BY NoneAssumption DEF JobStates, OwnedJobStates, CompletionKinds
    <2> HIDE DEF jobs
    <2>4. \A j \in Jobs :
             /\ job'[j] \in OwnedJobStates <=> job[j] \in OwnedJobStates
             /\ job[j] \in CompletionKinds => job'[j] = job[j]
             /\ job'[j] \in {"Succeeded", "Failed"} => job'[j] = job[j]
      BY <2>1, <2>2, <2>3 DEF OwnedJobStates
    <2> QED BY <2>1, <2>4 DEF HistoryKept, IsCurrent
  <1>2. ASSUME NEW b \in Builds, CancelBuild(b) PROVE HistoryKept
    <2>1. UNCHANGED <<events, completion, requeues, leaseJob>>
      BY <1>2 DEF CancelBuild
    <2>2. \A l \in LeaseIds : /\ IsCurrent(l)' <=> IsCurrent(l)
                              /\ leaseState'[l] = "none" <=> leaseState[l] = "none"
      BY <1>2 DEF CancelBuild, CancellableLeases, IsCurrent, CurrentLeaseStates
    <2>3. \A j \in Jobs :
             /\ job'[j] \in OwnedJobStates <=> job[j] \in OwnedJobStates
             /\ job[j] \in CompletionKinds => job'[j] = job[j]
             /\ job'[j] \in {"Succeeded", "Failed"} => job'[j] = job[j]
      BY <1>2 DEF CancelBuild, CancelJobState, OwnedJobStates, CompletionKinds
    <2> QED BY <2>1, <2>2, <2>3 DEF HistoryKept
  <1>3. ASSUME NEW l \in LeaseIds, NEW a \in Agents, NEW p \in Pools, NEW j \in Jobs,
               ClaimJob(a, p, j, l)
        PROVE  HistoryStep
    <2>1. /\ job[j] = "Ready" /\ job'[j] = "Leased"
          /\ \A i \in Jobs : i # j => job'[i] = job[i]
      BY <1>0, <1>3 DEF ClaimJob, IsCandidate, TypeInv, TypeOK
    <2>2. IsFreshLease(l) /\ leaseState[l] = "none"
      BY <1>3 DEF ClaimJob, IsFreshLease
    <2>3. \A m \in LeaseIds : /\ IsCurrent(m)' <=> m = l \/ IsCurrent(m)
                              /\ leaseState'[m] = "none" <=> m # l /\ leaseState[m] = "none"
      BY <1>0, <1>3, <2>2 DEF ClaimJob, IsCurrent, CurrentLeaseStates, TypeInv, TypeOK
    <2>4. Grants(l, j)
      BY <1>3, <2>1, <2>2, <2>3 DEF ClaimJob, Grants
    <2> QED BY <2>4 DEF HistoryStep
  <1>4. ASSUME NEW l \in LeaseIds, leaseState[l] # "none",
               NEW first \in 1 .. MaxEvents, NEW last \in 1 .. MaxEvents, AppendEvents(l, first, last)
        PROVE  HistoryStep
    <2> DEFINE j == leaseJob[l]
               k == last - Len(events[j])
    <2>1. j \in Jobs /\ events[j] \in Seq(LeaseIds)
      BY <1>0, <1>4 DEF TypeInv, TypeOK, LeaseRows
    <2>2. k \in Nat \ {0}
      BY <1>4, <2>1, BoundAssumption DEF AppendEvents
    <2>3. IsCurrent(l) /\ job[j] \in OwnedJobStates
      BY <1>4 DEF AppendEvents, RequireCurrent
    <2>4. job'[j] \in OwnedJobStates /\ \A i \in Jobs : i # j => job'[i] = job[i]
      BY <1>0, <1>4, <2>1, <2>3 DEF AppendEvents, StartJobExecution, OwnedJobStates, TypeInv, TypeOK
    <2>5. /\ events' = [events EXCEPT ![j] = events[j] \o [s \in 1 .. k |-> l]]
          /\ UNCHANGED <<completion, requeues, leaseJob, leaseState>>
      BY <1>4 DEF AppendEvents, leaseVars
    <2>6. Writes(l, k)
      BY <2>3, <2>4, <2>5 DEF Writes
    <2> QED BY <2>2, <2>6 DEF HistoryStep
  <1>5. ASSUME NEW l \in LeaseIds, NEW kind \in CompletionKinds, NEW final,
               Finish(l, kind, final)
        PROVE  HistoryStep
    <2>1. EndsJob(l, kind, "completed") /\ UNCHANGED <<events, requeues>>
      BY <1>5 DEF Finish, EndsJob, RequireCurrent
    <2>2. completion' = [completion EXCEPT ![leaseJob[l]] =
                           [lease |-> l, kind |-> kind, final |-> Len(events[leaseJob[l]])]]
      BY <1>5 DEF Finish
    <2>3. "completed" \in LeaseEnds
      BY DEF LeaseEnds
    <2>4. Seals(l, kind)
      BY <1>0, <2>1, <2>2, <2>3, EndReleases DEF Seals
    <2> QED BY <2>4 DEF HistoryStep
  <1>6. ASSUME NEW l \in LeaseIds, NEW w \in Workers, RecoverTerminal(w, l) PROVE HistoryStep
    <2> DEFINE kind == IF BuildOf[leaseJob[l]] \in cancelled THEN "Cancelled" ELSE "Failed"
               row == [lease |-> l, kind |-> kind, final |-> Len(events[leaseJob[l]])]
    <2>1. EndsJob(l, kind, "expired") /\ UNCHANGED <<events, requeues>>
      BY <1>6 DEF RecoverTerminal, EndsJob
    <2>2. completion[leaseJob[l]] = None
             => completion' = [completion EXCEPT ![leaseJob[l]] = row]
      BY <1>6 DEF RecoverTerminal
    <2>3. "expired" \in LeaseEnds /\ kind \in CompletionKinds
      BY DEF LeaseEnds, CompletionKinds
    <2> HIDE DEF kind
    <2>4. Seals(l, kind)
      BY <1>0, <2>1, <2>2, <2>3, EndReleases DEF Seals
    <2> QED BY <2>3, <2>4 DEF HistoryStep
  <1>7. ASSUME NEW l \in LeaseIds, NEW w \in Workers, RecoverRequeue(w, l) PROVE HistoryStep
    <2> DEFINE j == leaseJob[l]
    <2>1. IsCurrent(l) /\ MayRequeue(j) /\ leaseState[l] # "none"
      BY <1>7 DEF RecoverRequeue, IsCurrent, CurrentLeaseStates
    <2>2. j \in Jobs /\ job[j] \in OwnedJobStates /\ requeues[j] < RequeueLimit
      BY <1>0, <2>1 DEF MayRequeue, OwnedJobStates, TypeInv, LeaseRows
    <2>3. /\ job'[j] = "Ready" /\ \A i \in Jobs : i # j => job'[i] = job[i]
          /\ UNCHANGED <<events, leaseJob, completion>>
          /\ requeues' = [requeues EXCEPT ![j] = @ + 1]
      BY <1>0, <1>7, <2>2 DEF RecoverRequeue, TypeInv, TypeOK
    <2>4. \A m \in LeaseIds : /\ IsCurrent(m)' <=> m # l /\ IsCurrent(m)
                              /\ leaseState'[m] = "none" <=> leaseState[m] = "none"
      BY <1>0, <1>7, <2>1, EndedLease DEF RecoverRequeue, LeaseEnds
    <2>5. GivesBack(l)
      BY <2>1, <2>2, <2>3, <2>4 DEF Releases, GivesBack
    <2> QED BY <2>5 DEF HistoryStep
  <1> DEFINE Unrelated ==
               /\ UNCHANGED <<job, events, completion, requeues, leaseJob>>
               /\ \A l \in LeaseIds : /\ IsCurrent(l)' <=> IsCurrent(l)
                                      /\ leaseState'[l] = "none" <=> leaseState[l] = "none"
  <1>8. Unrelated => HistoryKept
    BY DEF HistoryKept
  <1>9. ASSUME NEW l \in LeaseIds, Heartbeat(l) PROVE Unrelated
    BY <1>9 DEF Heartbeat, IsCurrent, jobVars
  <1>10. ASSUME NEW l \in LeaseIds, NEW w \in Workers, ClaimExpired(w, l) \/ RecoverEnded(w, l)
         PROVE  Unrelated
    BY <1>10 DEF ClaimExpired, RecoverEnded, IsCurrent, jobVars
  <1>11. CASE Tick
    <2>1. Unrelated
      BY <1>11 DEF Tick, IsCurrent, jobVars
    <2> QED BY <1>8, <2>1 DEF HistoryStep
  <1>12. ASSUME NEW a \in Agents, RegisterAgent(a) \/ LoseRegistration(a) PROVE Unrelated
    BY <1>12 DEF RegisterAgent, LoseRegistration, IsCurrent, jobVars, leaseVars
  <1>13. ASSUME NEW a \in Agents, NEW mode \in DrainModes, DrainAgent(a, mode) PROVE Unrelated
    BY <1>13 DEF DrainAgent, Directive, IsCurrent, CurrentLeaseStates, jobVars
  <1>14. ASSUME NEW a \in Agents, NEW p \in Pools, ReassignAgent(a, p) PROVE Unrelated
    BY <1>14 DEF ReassignAgent, IsCurrent, jobVars, leaseVars
  <1>15. ASSUME NEW p \in Pools, NEW s \in PoolTargets, PublishPool(p, s) PROVE Unrelated
    BY <1>15 DEF PublishPool, Directive, IsCurrent, CurrentLeaseStates, jobVars
  <1>16. CASE UNCHANGED vars
    <2>1. Unrelated
      BY <1>16 DEF vars, IsCurrent, jobVars, leaseVars
    <2> QED BY <1>8, <2>1 DEF HistoryStep
  <1> HIDE DEF Unrelated
  <1>17. CASE BuildNext
    BY <1>17, <1>1, <1>2 DEF BuildNext, HistoryStep
  <1>18. CASE LeaseNext
    BY <1>18, <1>3, <1>4, <1>5, <1>8, <1>9
    DEF LeaseNext, HistoryStep, CompleteJob, FailAssignment, CompletionKinds
  <1>19. CASE RecoveryNext
    BY <1>19, <1>6, <1>7, <1>8, <1>10, <1>11 DEF RecoveryNext, Recover, HistoryStep
  <1>20. CASE FleetNext
    BY <1>20, <1>8, <1>12, <1>13, <1>14, <1>15 DEF FleetNext, HistoryStep
  <1> QED BY <1>16, <1>17, <1>18, <1>19, <1>20 DEF Next

\* An owned or ready Job has no completion yet.
LEMMA OpenJobs ==
    ASSUME TypeInv, CompletionSealsJob, NEW j \in Jobs, completion[j] # None
    PROVE  job[j] \in CompletionKinds /\ job[j] \notin OwnedJobStates /\ job[j] # "Ready"
  BY DEF TypeInv, TypeOK, Completions, CompletionSealsJob, CompletionKinds, OwnedJobStates

\* Only a claim grants a lease, and it takes the next number.
LEMMA NextLeases ==
    ASSUME CoordinationInv, FreshRows, LeasesInOrder, HistoryStep
    PROVE  FreshRows' /\ LeasesInOrder'
  <1>0. leaseJob \in [LeaseIds -> Jobs \cup {None}] /\ LeaseIds \subseteq Nat
    BY BoundAssumption DEF CoordinationInv, TypeInv, TypeOK, LeaseIds
  <1>1. CASE HistoryKept
    BY <1>1 DEF HistoryKept, FreshRows, LeasesInOrder
  <1>2. ASSUME NEW l \in LeaseIds, NEW j \in Jobs, Grants(l, j) PROVE FreshRows' /\ LeasesInOrder'
    BY <1>0, <1>2 DEF Grants, IsFreshLease, FreshRows, LeasesInOrder
  <1>3. ASSUME NEW l \in LeaseIds, NEW k \in Nat \ {0}, Writes(l, k)
        PROVE  FreshRows' /\ LeasesInOrder'
    BY <1>3 DEF Writes, FreshRows, LeasesInOrder
  <1>4. ASSUME NEW l \in LeaseIds, Releases(l) PROVE FreshRows' /\ LeasesInOrder'
    BY <1>4 DEF Releases, FreshRows, LeasesInOrder
  <1> QED BY <1>1, <1>2, <1>3, <1>4 DEF HistoryStep, GivesBack, Seals

\* A claim takes a Job without an owner and a number above all that were granted.
LEMMA NextNewest ==
    ASSUME CoordinationInv, FreshRows, LeasesInOrder, NewestOwns, HistoryStep
    PROVE  NewestOwns'
  <1>0. leaseJob \in [LeaseIds -> Jobs \cup {None}] /\ LeaseIds \subseteq Nat
    BY BoundAssumption DEF CoordinationInv, TypeInv, TypeOK, LeaseIds
  <1>1. CASE HistoryKept
    BY <1>1 DEF HistoryKept, NewestOwns
  <1>2. ASSUME NEW l \in LeaseIds, NEW j \in Jobs, Grants(l, j) PROVE NewestOwns'
    <2>1. leaseState[l] = "none" /\ j # None
      BY <1>2, NoneAssumption DEF Grants, IsFreshLease
    <2>2. \A m \in LeaseIds : m <= l \/ leaseState[m] = "none"
      BY <1>0, <2>1 DEF LeasesInOrder
    <2>3. \A m \in LeaseIds : leaseJob[m] = j => m <= l
      BY <2>1, <2>2 DEF FreshRows
    <2>4. \A m \in LeaseIds : IsCurrent(m) => leaseJob[m] # j /\ leaseJob[m] # None
      <3>1. job[j] \notin OwnedJobStates
        BY <1>2 DEF Grants, OwnedJobStates
      <3> QED BY <3>1, NoneAssumption
          DEF CoordinationInv, OwnershipMatchesJob, TypeInv, LeaseRows, IsCurrent, CurrentLeaseStates
    <2>5. /\ leaseJob'[l] = j /\ \A m \in LeaseIds : m # l => leaseJob'[m] = leaseJob[m]
          /\ \A m \in LeaseIds : IsCurrent(m)' <=> m = l \/ IsCurrent(m)
      BY <1>0, <1>2 DEF Grants
    <2> QED BY <1>0, <2>3, <2>4, <2>5 DEF NewestOwns
  <1>3. ASSUME NEW l \in LeaseIds, NEW k \in Nat \ {0}, Writes(l, k) PROVE NewestOwns'
    BY <1>3 DEF Writes, NewestOwns, IsCurrent
  <1>4. ASSUME NEW l \in LeaseIds, Releases(l) PROVE NewestOwns'
    BY <1>4 DEF Releases, NewestOwns
  <1> QED BY <1>1, <1>2, <1>3, <1>4 DEF HistoryStep, GivesBack, Seals

\* Only the current lease writes, and it is the last one granted on the Job.
LEMMA NextStream ==
    ASSUME CoordinationInv, FreshRows, NewestOwns, WritersHadJob, EventStreamNotInterleaved, HistoryStep
    PROVE  WritersHadJob' /\ EventStreamNotInterleaved'
  <1>0. /\ leaseJob \in [LeaseIds -> Jobs \cup {None}] /\ LeaseIds \subseteq Nat
        /\ events \in [Jobs -> Seq(LeaseIds)]
    BY BoundAssumption DEF CoordinationInv, TypeInv, TypeOK, LeaseIds
  <1>1. ASSUME UNCHANGED <<events, leaseJob>> PROVE WritersHadJob' /\ EventStreamNotInterleaved'
    BY <1>1 DEF WritersHadJob, EventStreamNotInterleaved
  <1>2. ASSUME NEW l \in LeaseIds, NEW j \in Jobs, Grants(l, j)
        PROVE  WritersHadJob' /\ EventStreamNotInterleaved'
    <2>1. \A i \in Jobs : \A s \in 1 .. Len(events[i]) : events[i][s] \in LeaseIds /\ events[i][s] # l
      <3>1. leaseJob[l] = None /\ None \notin Jobs
        BY <1>2, NoneAssumption DEF Grants, IsFreshLease, FreshRows
      <3> QED BY <1>0, <3>1 DEF WritersHadJob
    <2>2. events' = events /\ \A m \in LeaseIds : m # l => leaseJob'[m] = leaseJob[m]
      BY <1>0, <1>2 DEF Grants
    <2> QED BY <2>1, <2>2 DEF WritersHadJob, EventStreamNotInterleaved
  <1>3. ASSUME NEW l \in LeaseIds, NEW k \in Nat \ {0}, Writes(l, k)
        PROVE  WritersHadJob' /\ EventStreamNotInterleaved'
    <2> DEFINE j == leaseJob[l]
               old == events[j]
               new == [s \in 1 .. k |-> l]
    <2>1. IsCurrent(l) /\ j \in Jobs /\ leaseJob' = leaseJob
      BY <1>3 DEF Writes, CoordinationInv, TypeInv, LeaseRows, IsCurrent, CurrentLeaseStates
    <2>2. old \in Seq(LeaseIds) /\ new \in Seq(LeaseIds) /\ Len(new) = k
      BY <1>0, <2>1
    <2>3. /\ events'[j] = old \o new
          /\ \A i \in Jobs : i # j => events'[i] = events[i]
      BY <1>0, <1>3, <2>1 DEF Writes
    <2>4. /\ Len(old \o new) = Len(old) + k
          /\ \A s \in 1 .. Len(old) : (old \o new)[s] = old[s]
          /\ \A s \in 1 .. Len(old) + k : s > Len(old) => (old \o new)[s] = l
      BY <2>2
    <2>5. \A s \in 1 .. Len(old) : leaseJob[old[s]] = j /\ old[s] \in LeaseIds
      BY <2>1, <2>2 DEF WritersHadJob
    <2>6. \A s \in 1 .. Len(old) : old[s] <= l
      BY <2>1, <2>5 DEF NewestOwns
    <2>7. \A s, t \in 1 .. Len(old) : s <= t => old[s] <= old[t]
      BY <2>1 DEF EventStreamNotInterleaved
    <2> HIDE DEF old, new, j
    <2> DEFINE all == old \o new
    <2>8. \A s \in 1 .. Len(all) : s \in 1 .. Len(old) \/ all[s] = l
      BY <2>2, <2>4
    <2>9. Len(old) \in Nat /\ Len(all) \in Nat
      BY <2>2, <2>4
    <2> HIDE DEF all
    <2>10. \A s \in 1 .. Len(all) : leaseJob[all[s]] = j
      BY <2>4, <2>5, <2>8 DEF all, j
    <2>11. \A s, t \in 1 .. Len(all) : s <= t => all[s] <= all[t]
      <3> SUFFICES ASSUME NEW s \in 1 .. Len(all), NEW t \in 1 .. Len(all), s <= t
                   PROVE  all[s] <= all[t]
        OBVIOUS
      <3>1. CASE t \in 1 .. Len(old)
        BY <2>4, <2>7, <2>9, <3>1 DEF all
      <3>2. CASE t \notin 1 .. Len(old)
        <4>1. all[t] = l /\ l <= l
          BY <1>0, <2>8, <3>2
        <4> QED BY <2>4, <2>6, <2>8, <4>1 DEF all
      <3> QED BY <3>1, <3>2
    <2>12. events'[j] = all
      BY <2>3 DEF all
    <2>13. WritersHadJob'
      BY <2>1, <2>3, <2>10, <2>12 DEF WritersHadJob
    <2>14. EventStreamNotInterleaved'
      BY <2>3, <2>11, <2>12 DEF EventStreamNotInterleaved
    <2> QED BY <2>13, <2>14
  <1>4. ASSUME NEW l \in LeaseIds, Releases(l) PROVE UNCHANGED <<events, leaseJob>>
    BY <1>4 DEF Releases
  <1> QED BY <1>1, <1>2, <1>3, <1>4 DEF HistoryStep, HistoryKept, GivesBack, Seals

\* A completion is recorded when its lease ends, and a completed Job is never moved.
LEMMA NextSeals ==
    ASSUME CoordinationInv, FreshRows, CompletionSealsJob, HistoryStep
    PROVE  CompletionSealsJob'
  <1>0. /\ TypeInv /\ leaseJob \in [LeaseIds -> Jobs \cup {None}]
        /\ completion \in [Jobs -> Completions \cup {None}]
        /\ events \in [Jobs -> Seq(LeaseIds)]
    BY DEF CoordinationInv, TypeInv, TypeOK
  <1>1. \A j \in Jobs : completion[j] # None =>
           completion[j].lease \in LeaseIds /\ completion[j].kind \in CompletionKinds
    BY <1>0 DEF Completions
  <1>2. CASE HistoryKept
    BY <1>1, <1>2 DEF HistoryKept, CompletionSealsJob
  <1>3. ASSUME NEW l \in LeaseIds, NEW j \in Jobs, Grants(l, j) PROVE CompletionSealsJob'
    <2>1. leaseJob[l] = None /\ None \notin Jobs
      BY <1>3, NoneAssumption DEF Grants, IsFreshLease, FreshRows
    <2>2. completion[j] = None
      BY <1>0, <1>3, OpenJobs DEF Grants
    <2>3. \A i \in Jobs : completion[i] # None => completion[i].lease # l
      BY <2>1 DEF CompletionSealsJob
    <2>4. \A m \in LeaseIds : m # l => leaseJob'[m] = leaseJob[m] /\ (IsCurrent(m)' <=> IsCurrent(m))
      BY <1>0, <1>3 DEF Grants
    <2> QED BY <1>1, <1>3, <2>2, <2>3, <2>4 DEF Grants, CompletionSealsJob
  <1>4. ASSUME NEW l \in LeaseIds, NEW k \in Nat \ {0}, Writes(l, k) PROVE CompletionSealsJob'
    <2> DEFINE j == leaseJob[l]
    <2>1. j \in Jobs /\ job[j] \in OwnedJobStates
      BY <1>4 DEF Writes, CoordinationInv, TypeInv, LeaseRows, IsCurrent, CurrentLeaseStates
    <2>2. completion[j] = None
      BY <1>0, <2>1, OpenJobs
    <2>3. job'[j] \notin {"Succeeded", "Failed"}
      BY <1>4 DEF Writes, OwnedJobStates
    <2>4. \A i \in Jobs : i # j => events'[i] = events[i] /\ job'[i] = job[i]
      BY <1>0, <1>4 DEF Writes
    <2>5. \A m \in LeaseIds : leaseJob'[m] = leaseJob[m] /\ (IsCurrent(m)' <=> IsCurrent(m))
      BY <1>4 DEF Writes, IsCurrent
    <2>6. completion' = completion
      BY <1>4 DEF Writes
    <2> HIDE DEF j
    <2> QED BY <1>1, <2>2, <2>3, <2>4, <2>5, <2>6 DEF CompletionSealsJob
  <1>5. ASSUME NEW l \in LeaseIds, Releases(l)
        PROVE  /\ completion[leaseJob[l]] = None
               /\ \A i \in Jobs : i # leaseJob[l] =>
                     /\ completion[i] # None => job'[i] = job[i]
                     /\ job'[i] \in {"Succeeded", "Failed"} => job'[i] = job[i]
               /\ \A m \in LeaseIds : ~ IsCurrent(m) => ~ IsCurrent(m)'
               /\ ~ IsCurrent(l)'
               /\ UNCHANGED <<events, leaseJob>>
    <2>1. completion[leaseJob[l]] = None
      BY <1>0, <1>5, OpenJobs DEF Releases
    <2>2. \A i \in Jobs : completion[i] # None => job[i] # "Blocked"
      BY <1>0, OpenJobs DEF CompletionKinds
    <2> QED BY <1>5, <2>1, <2>2 DEF Releases
  <1>6. ASSUME NEW l \in LeaseIds, GivesBack(l) PROVE CompletionSealsJob'
    <2>1. Releases(l) /\ completion' = completion /\ job'[leaseJob[l]] = "Ready"
      BY <1>6 DEF GivesBack
    <2> QED BY <1>1, <1>5, <2>1 DEF CompletionSealsJob
  <1>7. ASSUME NEW l \in LeaseIds, NEW kind \in CompletionKinds, Seals(l, kind) PROVE CompletionSealsJob'
    <2> DEFINE j == leaseJob[l]
               row == [lease |-> l, kind |-> kind, final |-> Len(events[j])]
    <2>1. Releases(l) /\ j \in Jobs /\ job'[j] = kind
      BY <1>7 DEF Seals, Releases
    <2>2. completion' = [completion EXCEPT ![j] = row] /\ row # None
      BY <1>5, <1>7, <2>1, NoneAssumption DEF Seals
    <2>3. completion'[j] = row /\ \A i \in Jobs : i # j => completion'[i] = completion[i]
      BY <1>0, <2>1, <2>2
    <2>4. row.lease = l /\ row.kind = kind /\ row.final = Len(events[j])
      OBVIOUS
    <2> HIDE DEF row
    <2> QED BY <1>1, <1>5, <2>1, <2>2, <2>3, <2>4 DEF CompletionSealsJob
  <1> QED BY <1>2, <1>3, <1>4, <1>6, <1>7 DEF HistoryStep

\* The leases on Job j, and whether its present execution is still counted as one.
LeasesOn(j) == {l \in LeaseIds : leaseJob[l] = j}
Open(j) == job[j] \in OwnedJobStates \/ completion[j] # None

\* A lease that is added to a set of leases counts once.
LEMMA OneMoreLease ==
    ASSUME NEW S \in SUBSET LeaseIds, NEW l \in LeaseIds, l \notin S
    PROVE  Cardinality(S) \in Nat /\ Cardinality(S \cup {l}) = Cardinality(S) + 1
  <1>1. IsFiniteSet(S)
    BY LeaseSetSize
  <1> QED BY <1>1, FS_CardinalityType, FS_AddElement

\* A Job gets another lease only from the ready state, which it reaches again only by
\* a counted failure.
LEMMA NextExecutions ==
    ASSUME CoordinationInv, FreshRows, CompletionSealsJob, ExecutionsBounded, HistoryStep
    PROVE  ExecutionsBounded'
  <1>0. /\ TypeInv
        /\ leaseJob \in [LeaseIds -> Jobs \cup {None}]
        /\ completion \in [Jobs -> Completions \cup {None}]
        /\ requeues \in [Jobs -> 0 .. RequeueLimit] /\ RequeueLimit \in Nat
    BY BoundAssumption DEF CoordinationInv, TypeInv, TypeOK, RequeueLimit
  <1> DEFINE Counted(j) == Cardinality(LeasesOn(j)) = requeues[j] + IF Open(j) THEN 1 ELSE 0
             Within(j)  == requeues[j] <= RequeueLimit
  <1>1. \A j \in Jobs : Within(j) /\ Counted(j)
    BY DEF ExecutionsBounded, LeasesOn, Open
  <1>2. SUFFICES \A j \in Jobs : Within(j)' /\ Counted(j)'
    BY DEF ExecutionsBounded, LeasesOn, Open
  <1>3. ASSUME NEW j \in Jobs, UNCHANGED leaseJob, requeues'[j] = requeues[j], Open(j)' <=> Open(j)
        PROVE  Within(j)' /\ Counted(j)'
    <2>1. LeasesOn(j)' = LeasesOn(j)
      BY <1>3 DEF LeasesOn
    <2> QED BY <1>1, <1>3, <2>1
  <1>4. CASE HistoryKept
    <2>1. \A j \in Jobs : requeues'[j] = requeues[j] /\ (Open(j)' <=> Open(j)) /\ leaseJob' = leaseJob
      BY <1>4 DEF HistoryKept, Open
    <2> QED BY <1>3, <2>1
  <1>5. ASSUME NEW l \in LeaseIds, NEW j \in Jobs, Grants(l, j), NEW i \in Jobs
        PROVE  Within(i)' /\ Counted(i)'
    <2>1. leaseJob[l] = None /\ None \notin Jobs
      BY <1>5, NoneAssumption DEF Grants, IsFreshLease, FreshRows
    <2>2. ~ Open(j) /\ Open(j)'
      <3>1. completion[j] = None
        BY <1>0, <1>5, OpenJobs DEF Grants
      <3> QED BY <1>5, <3>1 DEF Grants, Open, OwnedJobStates
    <2>3. requeues' = requeues /\ completion' = completion
      BY <1>5 DEF Grants
    <2>4. CASE i = j
      <3>1. LeasesOn(j)' = LeasesOn(j) \cup {l} /\ l \notin LeasesOn(j)
        BY <1>0, <1>5, <2>1 DEF Grants, LeasesOn
      <3>2. Cardinality(LeasesOn(j)') = Cardinality(LeasesOn(j)) + 1
        BY <3>1, OneMoreLease DEF LeasesOn
      <3> QED BY <1>0, <1>1, <2>2, <2>3, <2>4, <3>2
    <2>5. CASE i # j
      <3>1. LeasesOn(i)' = LeasesOn(i)
        BY <1>0, <1>5, <2>1, <2>5 DEF Grants, LeasesOn
      <3>2. Open(i)' <=> Open(i)
        BY <1>5, <2>3, <2>5 DEF Grants, Open
      <3> QED BY <1>1, <2>3, <3>1, <3>2
    <2> QED BY <2>4, <2>5
  <1>6. ASSUME NEW l \in LeaseIds, NEW k \in Nat \ {0}, Writes(l, k), NEW j \in Jobs
        PROVE  Within(j)' /\ Counted(j)'
    <2>1. Open(j)' <=> Open(j)
      BY <1>6 DEF Writes, Open
    <2> QED BY <1>3, <1>6, <2>1 DEF Writes
  <1>7. ASSUME NEW l \in LeaseIds, GivesBack(l), NEW i \in Jobs PROVE Within(i)' /\ Counted(i)'
    <2> DEFINE j == leaseJob[l]
    <2>1. Releases(l) /\ j \in Jobs /\ job[j] \in OwnedJobStates /\ leaseJob' = leaseJob
      BY <1>7 DEF GivesBack, Releases
    <2>2. completion' = completion /\ completion[j] = None
      BY <1>0, <1>7, <2>1, OpenJobs DEF GivesBack
    <2>3. CASE i = j
      <3>1. Open(i) /\ ~ Open(i)'
        BY <1>7, <2>1, <2>2, <2>3 DEF GivesBack, Open, OwnedJobStates
      <3>2. requeues'[i] = requeues[i] + 1 /\ requeues[i] < RequeueLimit
        BY <1>0, <1>7, <2>1, <2>3 DEF GivesBack
      <3>3. LeasesOn(i)' = LeasesOn(i)
        BY <2>1 DEF LeasesOn
      <3> QED BY <1>0, <1>1, <3>1, <3>2, <3>3
    <2>4. CASE i # j
      <3>1. Open(i)' <=> Open(i)
        BY <2>1, <2>2, <2>4 DEF Releases, Open, OwnedJobStates
      <3>2. requeues'[i] = requeues[i]
        BY <1>0, <1>7, <2>4 DEF GivesBack
      <3> QED BY <1>3, <2>1, <3>1, <3>2
    <2> QED BY <2>3, <2>4
  <1>8. ASSUME NEW l \in LeaseIds, NEW kind \in CompletionKinds, Seals(l, kind), NEW i \in Jobs
        PROVE  Within(i)' /\ Counted(i)'
    <2> DEFINE j == leaseJob[l]
               row == [lease |-> l, kind |-> kind, final |-> Len(events[j])]
    <2>1. /\ Releases(l) /\ j \in Jobs /\ job[j] \in OwnedJobStates
          /\ leaseJob' = leaseJob /\ requeues' = requeues
      BY <1>8 DEF Seals, Releases
    <2>2. completion' = [completion EXCEPT ![j] = row] /\ row # None
      BY <1>0, <1>8, <2>1, OpenJobs, NoneAssumption DEF Seals
    <2>3. completion'[j] # None /\ \A h \in Jobs : h # j => completion'[h] = completion[h]
      BY <1>0, <2>1, <2>2
    <2>4. Open(i)' <=> Open(i)
      BY <2>1, <2>3 DEF Releases, Open, OwnedJobStates
    <2> QED BY <1>3, <2>1, <2>4
  <1> QED BY <1>4, <1>5, <1>6, <1>7, <1>8 DEF HistoryStep

\* The empty database has no history.
LEMMA InitHistory == Init => HistoryInv
  <1> SUFFICES ASSUME Init PROVE HistoryInv
    OBVIOUS
  <1>1. \A l \in LeaseIds : leaseState[l] = "none" /\ leaseJob[l] = None /\ ~ IsCurrent(l)
    BY DEF Init, IsCurrent, CurrentLeaseStates
  <1>2. /\ \A j \in Jobs : job[j] = None /\ requeues[j] = 0 /\ completion[j] = None
        /\ \A j \in Jobs : events[j] = <<>>
    BY DEF Init
  <1>3. None \notin JobStates /\ None \notin Jobs
    BY NoneAssumption
  <1>4. FreshRows /\ LeasesInOrder /\ NewestOwns
    BY <1>1 DEF FreshRows, LeasesInOrder, NewestOwns
  <1>5. WritersHadJob /\ EventStreamNotInterleaved
    <2>1. \A j \in Jobs : 1 .. Len(events[j]) = {}
      BY <1>2
    <2> QED BY <2>1 DEF WritersHadJob, EventStreamNotInterleaved
  <1>6. CompletionSealsJob
    BY <1>2, <1>3 DEF CompletionSealsJob, JobStates
  <1>7. ExecutionsBounded
    <2> SUFFICES ASSUME NEW j \in Jobs
                 PROVE  /\ requeues[j] <= RequeueLimit
                        /\ Cardinality({l \in LeaseIds : leaseJob[l] = j}) = 0
                        /\ ~ (job[j] \in OwnedJobStates \/ completion[j] # None)
      BY <1>2 DEF ExecutionsBounded
    <2>1. {l \in LeaseIds : leaseJob[l] = j} = {}
      BY <1>1, <1>3
    <2>2. Cardinality({}) = 0
      BY FS_EmptySet
    <2>3. 0 <= RequeueLimit
      BY BoundAssumption DEF RequeueLimit
    <2> QED BY <1>2, <1>3, <2>1, <2>2, <2>3 DEF JobStates, OwnedJobStates
  <1> QED BY <1>4, <1>5, <1>6, <1>7 DEF HistoryInv

\* Every step extends the history consistently.
LEMMA NextHistory == CoordinationInv /\ HistoryInv /\ [Next]_vars => HistoryInv'
  <1> SUFFICES ASSUME CoordinationInv, HistoryInv, [Next]_vars PROVE HistoryInv'
    OBVIOUS
  <1>1. HistoryStep
    BY HistorySteps
  <1> QED BY <1>1, NextLeases, NextNewest, NextStream, NextSeals, NextExecutions DEF HistoryInv

\* It holds in every reachable state.
LEMMA History == Spec => []HistoryInv
  BY InitHistory, NextHistory, Coordination, PTL DEF Spec

\* A completion seals its Job for good: no event, requeue, cancellation, recovery or
\* second completion changes the outcome or the stream it recorded.
THEOREM CompletionsSeal == Spec => []CompletionSealsJob
  <1>1. HistoryInv => CompletionSealsJob
    BY DEF HistoryInv
  <1> QED BY <1>1, History, PTL

\* A Job is handed out once more than failures were counted for it, and at most
\* max(1, retry_max_attempts) times, however workers, Agents and operators interleave.
THEOREM ExecutionsCounted == Spec => []ExecutionsBounded
  <1>1. HistoryInv => ExecutionsBounded
    BY DEF HistoryInv
  <1> QED BY <1>1, History, PTL

\* The server accepts mutations only from the newest owner of a Job, and the event
\* streams of successive owners do not interleave.
THEOREM FormerOwnersSilenced == Spec => []FormerOwnerIsSilent
  <1>1. HistoryInv => FormerOwnerIsSilent
    <2>1. \A l \in LeaseIds : RequireCurrent(l) = "Current" => IsCurrent(l)
      BY DEF RequireCurrent
    <2> QED BY <2>1 DEF HistoryInv, NewestOwns, FormerOwnerIsSilent, OnlyNewestLeaseAccepted
  <1> QED BY <1>1, History, PTL

-----------------------------------------------------------------------------
(* What a step may never do                                                *)

\* Cancellation, Agent drain and Pool drain write directives independently, and each
\* leaves alone what is stronger: the owner of a lease is never told to go on.
THEOREM DirectivesOnlyStrengthen == Spec => DirectiveNeverWeakens
  <1> DEFINE Kept == \A l \in LeaseIds :
               /\ leaseState[l] = "cancellation_requested" =>
                     leaseState'[l] \notin {"none", "active", "drain_requested"}
               /\ leaseState[l] = "drain_requested" => leaseState'[l] \notin {"none", "active"}
               /\ leaseState[l] \in {"completed", "expired"} => leaseState'[l] = leaseState[l]
  <1>1. TypeInv /\ [Next]_vars => [Kept]_vars
    <2> SUFFICES ASSUME TypeInv, Next PROVE Kept
      OBVIOUS
    <2>0. leaseState \in [LeaseIds -> LeaseStates]
      BY DEF TypeInv, TypeOK
    <2>1. CASE UNCHANGED leaseState
      BY <2>1
    <2>2. ASSUME NEW l \in LeaseIds, NEW s \in {"completed", "expired"}, IsCurrent(l),
                 leaseState' = [leaseState EXCEPT ![l] = s]
          PROVE  Kept
      BY <2>0, <2>2 DEF IsCurrent, CurrentLeaseStates
    <2>3. ASSUME NEW b \in Builds, StartBuild(b) \/ RetryBuild(b) PROVE UNCHANGED leaseState
      BY <2>3 DEF StartBuild, RetryBuild, Materialize, leaseVars
    <2>4. ASSUME NEW b \in Builds, CancelBuild(b) PROVE Kept
      BY <2>4 DEF CancelBuild, CancellableLeases
    <2>5. ASSUME NEW l \in LeaseIds, NEW a \in Agents, NEW p \in Pools, NEW j \in Jobs,
                 ClaimJob(a, p, j, l)
          PROVE  Kept
      BY <2>0, <2>5 DEF ClaimJob, IsFreshLease
    <2>6. ASSUME NEW l \in LeaseIds, NEW first, NEW last, Heartbeat(l) \/ AppendEvents(l, first, last)
          PROVE  UNCHANGED leaseState
      BY <2>6 DEF Heartbeat, AppendEvents, leaseVars
    <2>7. ASSUME NEW l \in LeaseIds, NEW kind, NEW final, Finish(l, kind, final) PROVE Kept
      BY <2>2, <2>7 DEF Finish, RequireCurrent
    <2>8. ASSUME NEW l \in LeaseIds, NEW w \in Workers, ClaimExpired(w, l) \/ RecoverEnded(w, l) \/ Tick
          PROVE  UNCHANGED leaseState
      BY <2>8 DEF ClaimExpired, RecoverEnded, Tick
    <2>9. ASSUME NEW l \in LeaseIds, NEW w \in Workers, RecoverRequeue(w, l) \/ RecoverTerminal(w, l)
          PROVE  Kept
      BY <2>2, <2>9 DEF RecoverRequeue, RecoverTerminal
    <2>10. ASSUME NEW a \in Agents, NEW p \in Pools,
                  RegisterAgent(a) \/ LoseRegistration(a) \/ ReassignAgent(a, p)
           PROVE  UNCHANGED leaseState
      BY <2>10 DEF RegisterAgent, LoseRegistration, ReassignAgent, leaseVars
    <2>11. ASSUME NEW a \in Agents, NEW mode, DrainAgent(a, mode) PROVE Kept
      BY <2>11 DEF DrainAgent, Directive
    <2>12. ASSUME NEW p \in Pools, NEW s \in PoolTargets, PublishPool(p, s) PROVE Kept
      BY <2>12 DEF PublishPool, Directive
    <2>13. CASE Tick
      BY <2>1, <2>13 DEF Tick
    <2>14. ASSUME NEW a \in Agents, RegisterAgent(a) \/ LoseRegistration(a) PROVE UNCHANGED leaseState
      BY <2>14 DEF RegisterAgent, LoseRegistration, leaseVars
    <2> HIDE DEF Kept
    <2>15. CASE BuildNext
      BY <2>15, <2>1, <2>3, <2>4 DEF BuildNext
    <2>16. CASE LeaseNext
      BY <2>16, <2>1, <2>5, <2>6, <2>7 DEF LeaseNext, CompleteJob, FailAssignment
    <2>17. CASE RecoveryNext
      BY <2>17, <2>1, <2>8, <2>9, <2>13 DEF RecoveryNext, Recover
    <2>18. CASE FleetNext
      BY <2>18, <2>1, <2>10, <2>11, <2>12, <2>14 DEF FleetNext
    <2> QED BY <2>15, <2>16, <2>17, <2>18 DEF Next
  <1> QED BY <1>1, Typed, PTL DEF Spec, DirectiveNeverWeakens

\* The arms of JobState::transition that the transactions take.
LEMMA JobSteps ==
    /\ JobStep("Blocked", "Ready") /\ JobStep("Blocked", "Skipped")
    /\ JobStep("Blocked", "Cancelled") /\ JobStep("Ready", "Cancelled")
    /\ JobStep("Ready", "Leased") /\ JobStep("Leased", "Running")
    /\ JobStep("Leased", "Ready") /\ JobStep("Running", "Ready")
    /\ JobStep("Leased", "Cancelling") /\ JobStep("Running", "Cancelling")
    /\ \A kind \in CompletionKinds : JobStep("Running", kind) /\ JobStep("Cancelling", kind)
  <1> DEFINE Arm(s, e, t) == <<s, e, t>> \in JobTransitions
  <1>1. ASSUME NEW s, NEW e, NEW t, Arm(s, e, t) PROVE JobStep(s, t)
    BY <1>1 DEF JobStep
  <1>2. /\ Arm("Blocked", "DependenciesSatisfied", "Ready") /\ Arm("Blocked", "DependencyFailed", "Skipped")
        /\ Arm("Ready", "LeaseGranted", "Leased") /\ Arm("Leased", "ExecutionStarted", "Running")
    BY DEF JobTransitions
  <1>3. /\ Arm("Blocked", "CancellationRequested", "Cancelled") /\ Arm("Ready", "CancellationRequested", "Cancelled")
        /\ Arm("Leased", "CancellationRequested", "Cancelling") /\ Arm("Running", "CancellationRequested", "Cancelling")
        /\ Arm("Leased", "LeaseLost", "Ready") /\ Arm("Running", "LeaseLost", "Ready")
    BY DEF JobTransitions
  <1>4. /\ Arm("Running", "Succeed", "Succeeded") /\ Arm("Running", "Fail", "Failed") /\ Arm("Running", "Cancel", "Cancelled")
        /\ Arm("Cancelling", "Succeed", "Succeeded") /\ Arm("Cancelling", "Fail", "Failed")
        /\ Arm("Cancelling", "Cancel", "Cancelled")
    BY DEF JobTransitions
  <1> HIDE DEF Arm
  <1> QED BY <1>1, <1>2, <1>3, <1>4 DEF CompletionKinds

\* Whatever a transaction writes to the state column of a Job is one transition of the
\* Job state machine, or the two of a completion that also starts the Job.
THEOREM JobsMoveByTheMachine == Spec => JobsFollowStateMachine
  <1> DEFINE Lawful(s, t) ==
               \/ t = s
               \/ s = None
               \/ JobStep(s, t)
               \/ \E u \in JobStates : JobStep(s, u) /\ JobStep(u, t)
             Moves == \A j \in Jobs :
               \/ job'[j] = job[j]
               \/ job[j] = None
               \/ JobStep(job[j], job'[j])
               \/ \E s \in JobStates : JobStep(job[j], s) /\ JobStep(s, job'[j])
  <1>0. \A kind \in CompletionKinds, s \in OwnedJobStates : Lawful(s, kind)
    <2>1. "Running" \in JobStates
      BY DEF JobStates
    <2> QED BY <2>1, JobSteps DEF OwnedJobStates
  <1>1. ASSUME CoordinationInv, StepKind PROVE Moves
    <2>0. TypeInv /\ BuildInv /\ job \in [Jobs -> JobStates \cup {None}]
      BY <1>1 DEF CoordinationInv, TypeInv, TypeOK
    <2>1. CASE Quiet
      BY <2>1 DEF Quiet
    <2>2. ASSUME NEW b \in Builds, StartBuild(b) \/ RetryBuild(b) PROVE Moves
      <3>1. Materialize(b, latest[b] + 1) /\ \A j \in AttemptJobs(b, latest[b] + 1) : job[j] = None
        BY <2>0, <2>2, NewJobsAreAbsent
      <3> QED BY <3>1 DEF Materialize
    <2>3. ASSUME NEW b \in Builds, CancelBuild(b) PROVE Moves
      <3>1. \A j \in Jobs : job'[j] = job[j] \/ job'[j] = CancelJobState(job[j])
        BY <2>3 DEF CancelBuild
      <3>2. \A s : CancelJobState(s) = s \/ JobStep(s, CancelJobState(s))
        BY JobSteps DEF CancelJobState
      <3> QED BY <3>1, <3>2
    <2>4. ASSUME NEW l \in LeaseIds, NEW a \in Agents, NEW p \in Pools, NEW j \in Jobs,
                 ClaimJob(a, p, j, l)
          PROVE  Moves
      <3>1. /\ job[j] = "Ready" /\ job'[j] = "Leased"
            /\ \A i \in Jobs : i # j => job'[i] = job[i]
        BY <2>0, <2>4 DEF ClaimJob, IsCandidate
      <3> QED BY <3>1, JobSteps
    <2>5. ASSUME NEW l \in LeaseIds, StartsJob(l) PROVE Moves
      <3>1. \A i \in Jobs : job'[i] = job[i] \/ job'[i] = StartJobExecution(job[i])
        BY <2>0, <2>5 DEF StartsJob
      <3>2. \A s : StartJobExecution(s) = s \/ JobStep(s, StartJobExecution(s))
        BY JobSteps DEF StartJobExecution
      <3> QED BY <3>1, <3>2
    <2>6. ASSUME NEW l \in LeaseIds, RequeuesJob(l) PROVE Moves
      <3>1. \A i \in Jobs : job'[i] = job[i] \/ (job'[i] = "Ready" /\ job[i] \in {"Leased", "Running"})
        <4>1. job[leaseJob[l]] \in {"Leased", "Running"} /\ job' = [job EXCEPT ![leaseJob[l]] = "Ready"]
          BY <2>6 DEF RequeuesJob, MayRequeue
        <4>2. \A i \in Jobs : job'[i] = IF i = leaseJob[l] THEN "Ready" ELSE job[i]
          BY <2>0, <4>1
        <4> QED BY <4>1, <4>2
      <3> QED BY <3>1, JobSteps
    <2>7. ASSUME NEW l \in LeaseIds, NEW kind \in CompletionKinds, NEW s \in LeaseEnds, EndsJob(l, kind, s)
          PROVE  Moves
      <3> DEFINE j == leaseJob[l]
      <3>1. j \in Jobs /\ job[j] \in OwnedJobStates
        BY <2>0, <2>7 DEF EndsJob, TypeInv, LeaseRows, IsCurrent, CurrentLeaseStates
      <3>2. /\ job'[j] = kind
            /\ \A i \in Jobs : i # j /\ job[i] # "Blocked" => job'[i] = job[i]
            /\ \A i \in Jobs : job[i] = "Blocked" => job'[i] \in {"Blocked", "Ready", "Skipped"}
        BY <2>0, <2>7, <3>1, ReconcileEffect DEF EndsJob, TypeInv
      <3>3. Lawful(job[j], job'[j])
        BY <1>0, <3>1, <3>2
      <3>4. \A t \in {"Blocked", "Ready", "Skipped"} : Lawful("Blocked", t)
        BY JobSteps
      <3> HIDE DEF j, Lawful
      <3>5. \A i \in Jobs : Lawful(job[i], job[i])
        BY DEF Lawful
      <3>6. \A i \in Jobs : Lawful(job[i], job'[i])
        BY <3>2, <3>3, <3>4, <3>5
      <3> QED BY <3>6 DEF Lawful
    <2> HIDE DEF Moves
    <2> QED BY <1>1, <2>1, <2>2, <2>3, <2>4, <2>5, <2>6, <2>7 DEF StepKind
  <1>2. CoordinationInv /\ [Next]_vars => [Moves]_vars
    BY <1>1, StepKinds DEF CoordinationInv
  <1> QED BY <1>2, Coordination, PTL DEF Spec, JobsFollowStateMachine

-----------------------------------------------------------------------------
(* Refinement                                                              *)

\* Every step is a step of the Build's life cycle or changes none of its parts.
LEMMA LifecycleStep ==
    CoordinationInv /\ StepKind => [Lifecycle!Next]_(Lifecycle!lifecycleVars)
  <1> SUFFICES ASSUME CoordinationInv, StepKind PROVE [Lifecycle!Next]_(Lifecycle!lifecycleVars)
    OBVIOUS
  <1>0. TypeInv /\ BuildInv
    BY DEF CoordinationInv
  <1>1. ASSUME UNCHANGED <<build, latest, cancelled>> PROVE UNCHANGED Lifecycle!lifecycleVars
    BY <1>1 DEF Lifecycle!lifecycleVars
  <1>2. ASSUME NEW b \in Builds, StartBuild(b) PROVE Lifecycle!Start(b)
    <2>1. latest[b] = 0
      BY <1>0, <1>2 DEF StartBuild, BuildInv, Materialized
    <2> QED BY <1>2, <2>1 DEF StartBuild, Materialize, Lifecycle!Start
  <1>3. ASSUME NEW b \in Builds, RetryBuild(b) PROVE Lifecycle!Retry(b)
    <2>1. b \notin cancelled
      BY <1>0, <1>3, AttemptBegins
    <2> QED BY <1>3, <2>1 DEF RetryBuild, Materialize, Lifecycle!Retry
  <1>4. ASSUME NEW b \in Builds, CancelBuild(b) PROVE Lifecycle!Cancel(b)
    <2>1. build[b] # None /\ build[b] \in {"Queued", "Running"}
      BY <1>4, NoneAssumption DEF CancelBuild, BuildStates
    <2>2. build[b] = "Running"
      BY <1>0, <2>1 DEF BuildInv, AggregatesDerived, BuildStateOf
    <2>3. PICK next \in {"Running", "Cancelled"} : build' = [build EXCEPT ![b] = next]
      BY <1>4 DEF CancelBuild, CancelledAggregate
    <2>4. b \notin cancelled /\ cancelled' = cancelled \cup {b} /\ latest' = latest
      BY <1>4 DEF CancelBuild
    <2> QED BY <2>2, <2>3, <2>4 DEF Lifecycle!Cancel
  <1>5. ASSUME NEW l \in LeaseIds, NEW kind \in CompletionKinds, NEW s \in LeaseEnds, EndsJob(l, kind, s)
        PROVE  [Lifecycle!Next]_(Lifecycle!lifecycleVars)
    <2> DEFINE j == leaseJob[l]
               b == BuildOf[j]
               a == DeriveAttempt(AttemptJobs(b, AttemptOf[j]), job', b \in cancelled)
    <2>1. j \in Jobs /\ job[j] \in OwnedJobStates
      BY <1>0, <1>5 DEF EndsJob, TypeInv, LeaseRows, IsCurrent, CurrentLeaseStates
    <2>2. b \in Builds /\ build[b] = "Running"
      <3>1. job[j] # None /\ job[j] \notin TerminalJobStates
        BY <2>1, NoneAssumption DEF OwnedJobStates, JobStates, TerminalJobStates
      <3> QED BY <1>0, <2>1, <3>1, UnfinishedIsLatest
    <2>3. build' = [build EXCEPT ![b] = a] /\ latest' = latest /\ cancelled' = cancelled
      BY <1>0, <1>5, <2>1, ReconcileEffect DEF EndsJob, TypeInv
    <2>4. /\ a \in {"Running", "Succeeded", "Failed", "Cancelled"}
          /\ b \in cancelled => a \in {"Running", "Cancelled"}
      BY DeriveType
    <2> HIDE DEF a, b
    <2>5. CASE a = "Running"
      <3>1. build' = build
        BY <1>0, <2>2, <2>3, <2>5 DEF TypeInv, TypeOK
      <3> QED BY <1>1, <2>3, <3>1
    <2>6. CASE a # "Running"
      <3>1. a \in {"Succeeded", "Failed", "Cancelled"} /\ Lifecycle!Finish(b, a)
        BY <2>2, <2>3, <2>4, <2>6 DEF Lifecycle!Finish
      <3> QED BY <2>2, <3>1 DEF Lifecycle!Next
    <2> QED BY <2>5, <2>6
  <1>6. ASSUME NEW l \in LeaseIds, NEW a \in Agents, NEW p \in Pools, NEW j \in Jobs,
               ClaimJob(a, p, j, l)
        PROVE  UNCHANGED Lifecycle!lifecycleVars
    BY <1>1, <1>6 DEF ClaimJob, buildVars
  <1>7. ASSUME NEW l \in LeaseIds, StartsJob(l) \/ RequeuesJob(l)
        PROVE  UNCHANGED Lifecycle!lifecycleVars
    BY <1>1, <1>7 DEF StartsJob, RequeuesJob
  <1>8. CASE Quiet
    BY <1>1, <1>8 DEF Quiet
  <1>9. CASE \E b \in Builds : StartBuild(b) \/ RetryBuild(b) \/ CancelBuild(b)
    BY <1>2, <1>3, <1>4, <1>9 DEF Lifecycle!Next
  <1> QED BY <1>5, <1>6, <1>7, <1>8, <1>9 DEF StepKind

\* The coordination transactions implement the life cycle that callers of the
\* server see: a Build ends once per Attempt, an accepted cancellation is final,
\* and only a failed Build is run again.
THEOREM ImplementsLifecycle == Spec => RefinesLifecycle
  <1>1. Init => Lifecycle!Init
    BY DEF Init, Lifecycle!Init
  <1>2. CoordinationInv /\ [Next]_vars => [Lifecycle!Next]_(Lifecycle!lifecycleVars)
    BY LifecycleStep, StepKinds DEF CoordinationInv
  <1> QED BY <1>1, <1>2, Coordination, PTL DEF Spec, RefinesLifecycle, Lifecycle!Spec
=============================================================================
