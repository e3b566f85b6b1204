------------------------------ MODULE JobGraph ------------------------------
(***************************************************************************)
(* The pure decisions of the server core about one Attempt's Job graph:    *)
(* the Job state machine, the dependency policies, the fixed point that    *)
(* `reconcile` computes, and the aggregate states derived from it.         *)
(*                                                                         *)
(* A graph is a function from Jobs to Job states together with `deps` (the *)
(* direct predecessors of each Job) and `policy` (its fan-in policy).      *)
(* Nothing here is recursive: the fixed point is given by the relation     *)
(* Settled, and module ReconcileLoop shows that the loop of reconcile.rs   *)
(* computes exactly the graph that relation describes.                     *)
(***************************************************************************)
EXTENDS Naturals, FiniteSets

-----------------------------------------------------------------------------
(* The Job state machine of octacity-server-job.                           *)

JobStates == {"Blocked", "Ready", "Leased", "Running", "Cancelling",
              "Succeeded", "Failed", "Cancelled", "Skipped"}

TerminalJobStates == {"Succeeded", "Failed", "Cancelled", "Skipped"}

\* The states of a Job that owns a current lease.
OwnedJobStates == {"Leased", "Running", "Cancelling"}

\* JobState::transition as the set of its <<state, event, next state>> arms.
JobTransitions ==
    {<<"Blocked", "DependenciesSatisfied", "Ready">>,
     <<"Blocked", "DependencyFailed", "Skipped">>,
     <<"Ready", "LeaseGranted", "Leased">>,
     <<"Leased", "ExecutionStarted", "Running">>}
    \cup ({"Blocked", "Ready"} \X {"CancellationRequested"} \X {"Cancelled"})
    \cup ({"Leased", "Running"} \X {"CancellationRequested"} \X {"Cancelling"})
    \cup ({"Leased", "Running"} \X {"LeaseLost"} \X {"Ready"})
    \cup ({"Cancelling"} \X {"LeaseLost", "Cancel"} \X {"Cancelled"})
    \cup ({"Running", "Cancelling"} \X {"Succeed"} \X {"Succeeded"})
    \cup ({"Running", "Cancelling"} \X {"Fail"} \X {"Failed"})
    \cup ({"Running"} \X {"Cancel"} \X {"Cancelled"})

-----------------------------------------------------------------------------
(* Dependency policies of octacity-server-pipeline.                        *)

Policies == {"AllSucceeded", "AllCompleted", "AnySucceeded"}

\* dependency_outcome: what a predecessor in state s contributes.
DependencyOutcome(s) == IF s \in TerminalJobStates THEN s ELSE "Pending"

\* Mutant: AllCompleted counts only successful predecessors as completed.
DecideWaitsForFailed(p, outcomes) ==
    IF outcomes = {"Succeeded"} THEN "Ready" ELSE "Blocked"

\* DependencyPolicy::decide over the set of direct predecessor outcomes.
Decide(p, outcomes) ==
    LET pending      == "Pending" \in outcomes
        succeeded    == "Succeeded" \in outcomes
        unsuccessful == \E o \in outcomes : o \in {"Failed", "Cancelled", "Skipped"}
        wait(decided) == IF pending THEN "Blocked" ELSE decided
    IN  IF outcomes = {} THEN "Blocked"
        ELSE IF p = "AllSucceeded" THEN IF unsuccessful THEN "Skipped" ELSE wait("Ready")
        ELSE IF p = "AllCompleted" THEN wait("Ready")
        ELSE IF succeeded THEN "Ready" ELSE wait("Skipped")

\* The decision for Job j when the graph's states are g. The result names the
\* Job state that JobState::transition gives for the chosen event.
JobDecision(deps, policy, g, j) ==
    Decide(policy[j], {DependencyOutcome(g[d]) : d \in deps[j]})

-----------------------------------------------------------------------------
(* The result of `reconcile` on the Jobs of one Attempt.                   *)

\* g is a fixed point reached from g0: only blocked Jobs moved, and every Job
\* that was blocked stands where its policy puts it in g itself.
Settled(jobs, deps, policy, g0, g) ==
    \A j \in jobs :
        IF g0[j] = "Blocked" THEN g[j] = JobDecision(deps, policy, g, j)
                             ELSE g[j] = g0[j]

\* reconcile refuses a cancelled graph in which some Job was not targeted.
CancellationPropagatedIn(jobs, g) ==
    \A j \in jobs : g[j] \notin {"Blocked", "Ready", "Leased", "Running"}

\* validate_graph: no blocked root.
NoBlockedRoot(jobs, deps, g) ==
    \A j \in jobs : deps[j] = {} => g[j] # "Blocked"

\* validate_graph's acyclicity, as a property of the dependency relation: every
\* non-empty set of Jobs has a member without predecessor in the set.
Acyclic(jobs, deps) ==
    \A S \in SUBSET jobs : S # {} => \E j \in S : deps[j] \cap S = {}

\* Mutant: a failed Job outweighs the cancellation of the Build.
DeriveAttemptFailureFirst(jobs, g, cancellationRequested) ==
    IF \E j \in jobs : g[j] \notin TerminalJobStates THEN "Running"
    ELSE IF \E j \in jobs : g[j] = "Failed" THEN "Failed"
    ELSE IF cancellationRequested \/ \E j \in jobs : g[j] = "Cancelled" THEN "Cancelled"
    ELSE "Succeeded"

\* derive_attempt_state.
DeriveAttempt(jobs, g, cancellationRequested) ==
    IF \E j \in jobs : g[j] \notin TerminalJobStates THEN "Running"
    ELSE IF cancellationRequested THEN "Cancelled"
    ELSE IF \E j \in jobs : g[j] = "Failed" THEN "Failed"
    ELSE IF \E j \in jobs : g[j] = "Cancelled" THEN "Cancelled"
    ELSE "Succeeded"

AttemptStates == {"Created", "Running", "Succeeded", "Failed", "Cancelled"}

BuildStates == {"Queued", "Running", "Succeeded", "Failed", "Cancelled"}

\* The Build state that follows from the current Attempt's state.
BuildStateOf(a) == IF a \in {"Succeeded", "Failed", "Cancelled"} THEN a ELSE "Running"

-----------------------------------------------------------------------------
(* Cancellation and completion decisions on a single Job.                  *)

\* cancel_job_states: the next state of a Job of an active Attempt.
CancelJobState(s) ==
    IF s \in {"Blocked", "Ready"} THEN "Cancelled"
    ELSE IF s \in {"Leased", "Running"} THEN "Cancelling"
    ELSE s

\* Mutant: an accepted cancellation ends the Build although owners still run.
CancelledAggregateAtOnce(jobs, g) == "Cancelled"

\* cancel_job_states: the Attempt and Build state once the Jobs stand at g.
CancelledAggregate(jobs, g) ==
    IF \E j \in jobs : g[j] = "Cancelling" THEN "Running" ELSE "Cancelled"

\* Mutant: the first event also restarts a Job that is being cancelled.
StartJobExecutionAlways(s) == "Running"

\* start_job_execution: the first persisted event starts a leased Job.
StartJobExecution(s) == IF s = "Leased" THEN "Running" ELSE s

CompletionKinds == {"Succeeded", "Failed", "Cancelled"}
=============================================================================
