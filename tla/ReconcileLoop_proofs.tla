----------------------- MODULE ReconcileLoop_proofs -----------------------
(***************************************************************************)
(* The loops of reconcile are correct for every finite or infinite set of  *)
(* Jobs, every dependency relation and every input: what they return is    *)
(* the fixed point, and they accept exactly the acyclic graphs.            *)
(***************************************************************************)
EXTENDS ReconcileLoop, TLAPS

-----------------------------------------------------------------------------
(* Dependency decisions and their fixed point, for graphs of any size      *)

\* A decision is a Job state again, and one that a blocked Job can move to.
LEMMA DecideType ==
    ASSUME NEW p \in Policies, NEW outcomes
    PROVE  Decide(p, outcomes) \in {"Blocked", "Ready", "Skipped"}
  BY DEF Decide, Policies

\* A fan-in whose predecessors have all ended is decided (policy.rs:47-84): only
\* a Job without predecessor, or with one that is still pending, stays blocked.
LEMMA BlockedNeedsPending ==
    ASSUME NEW needs, NEW rules, NEW g, NEW j,
           rules[j] \in Policies,
           needs[j] # {},
           \A d \in needs[j] : g[d] \in TerminalJobStates
    PROVE  JobDecision(needs, rules, g, j) # "Blocked"
  <1> DEFINE outcomes == {DependencyOutcome(g[d]) : d \in needs[j]}
  <1>1. "Pending" \notin outcomes
    BY DEF DependencyOutcome, TerminalJobStates
  <1>2. outcomes # {}
    OBVIOUS
  <1>3. Decide(rules[j], outcomes) # "Blocked"
    <2> HIDE DEF outcomes
    <2> QED BY <1>1, <1>2 DEF Decide, Policies
  <1> QED BY <1>3 DEF JobDecision

\* Two graphs that agree on the predecessors of j decide j alike.
LEMMA DecisionIsLocal ==
    ASSUME NEW needs, NEW rules, NEW g, NEW h, NEW j,
           \A d \in needs[j] : g[d] = h[d]
    PROVE  JobDecision(needs, rules, g, j) = JobDecision(needs, rules, h, j)
  <1>1. {DependencyOutcome(g[d]) : d \in needs[j]} = {DependencyOutcome(h[d]) : d \in needs[j]}
    OBVIOUS
  <1> QED BY <1>1 DEF JobDecision

\* The settle loop never has to revisit a decision it has made
\* (reconcile.rs:218-261): when a blocked Job k becomes ready or skipped, a Job
\* that was already ready or skipped by its policy still is.
LEMMA DecisionIsStable ==
    ASSUME NEW jobs, NEW needs \in [jobs -> SUBSET jobs], NEW rules \in [jobs -> Policies],
           NEW g \in [jobs -> JobStates], NEW j \in jobs, NEW k \in jobs,
           NEW h,
           g[k] = "Blocked",
           h[k] \in {"Ready", "Skipped"},
           \A d \in jobs : d # k => h[d] = g[d],
           JobDecision(needs, rules, g, j) \in {"Ready", "Skipped"}
    PROVE  JobDecision(needs, rules, h, j) = JobDecision(needs, rules, g, j)
  <1> DEFINE old == {DependencyOutcome(g[d]) : d \in needs[j]}
             new == {DependencyOutcome(h[d]) : d \in needs[j]}
  <1>1. DependencyOutcome(g[k]) = "Pending" /\ DependencyOutcome(h[k]) \in {"Pending", "Skipped"}
    BY DEF DependencyOutcome, TerminalJobStates
  <1>2. \A d \in needs[j] : d # k => h[d] = g[d]
    OBVIOUS
  <1>3. \A o \in {"Succeeded", "Failed", "Cancelled", "Skipped"} : o \in old => o \in new
    <2> SUFFICES ASSUME NEW o \in {"Succeeded", "Failed", "Cancelled", "Skipped"},
                        NEW d \in needs[j], o = DependencyOutcome(g[d])
                 PROVE  o \in new
      OBVIOUS
    <2>1. d # k
      BY <1>1
    <2> QED BY <2>1, <1>2
  <1>4. "Pending" \notin old => new = old
    <2> SUFFICES ASSUME "Pending" \notin old PROVE new = old
      OBVIOUS
    <2>1. k \notin needs[j]
      BY <1>1
    <2>2. \A d \in needs[j] : h[d] = g[d]
      BY <2>1, <1>2
    <2> QED BY <2>2
  <1>5. old # {} => new # {}
    OBVIOUS
  <1>6. rules[j] \in Policies
    OBVIOUS
  <1>7. ASSUME Decide(rules[j], old) \in {"Ready", "Skipped"}
        PROVE  Decide(rules[j], new) = Decide(rules[j], old)
    <2> HIDE DEF old, new
    <2> QED BY <1>3, <1>4, <1>5, <1>6, <1>7 DEF Decide, Policies
  <1> QED BY <1>7 DEF JobDecision

\* The result of reconcile is determined by the persisted facts: an acyclic graph
\* has at most one fixed point over the same input.
THEOREM SettledIsUnique ==
    ASSUME NEW jobs, NEW needs \in [jobs -> SUBSET jobs], NEW rules,
           Acyclic(jobs, needs),
           NEW g0, NEW g, NEW h,
           Settled(jobs, needs, rules, g0, g),
           Settled(jobs, needs, rules, g0, h)
    PROVE  \A j \in jobs : g[j] = h[j]
  <1> DEFINE S == {j \in jobs : g[j] # h[j]}
  <1> SUFFICES ASSUME S # {} PROVE FALSE
    OBVIOUS
  <1>1. PICK j \in S : needs[j] \cap S = {}
    BY DEF Acyclic
  <1>2. \A d \in needs[j] : g[d] = h[d]
    BY <1>1
  <1>3. JobDecision(needs, rules, g, j) = JobDecision(needs, rules, h, j)
    BY <1>2, DecisionIsLocal
  <1> QED BY <1>3 DEF Settled

\* In a settled acyclic graph without blocked roots, a Job that waits is in the
\* end waiting for one that somebody can work on: ready or owned by a lease.
THEOREM SettledHasWork ==
    ASSUME NEW jobs, NEW needs \in [jobs -> SUBSET jobs], NEW rules \in [jobs -> Policies],
           Acyclic(jobs, needs),
           NEW g0, NEW g \in [jobs -> JobStates],
           Settled(jobs, needs, rules, g0, g),
           NoBlockedRoot(jobs, needs, g0),
           \E j \in jobs : g[j] \notin TerminalJobStates
    PROVE  \E j \in jobs : g[j] \in {"Ready"} \cup OwnedJobStates
  <1> DEFINE S == {j \in jobs : g[j] = "Blocked"}
  <1> SUFFICES ASSUME \A j \in jobs : g[j] \notin {"Ready"} \cup OwnedJobStates
               PROVE  FALSE
    OBVIOUS
  <1>1. \A j \in jobs : g[j] \in TerminalJobStates \/ g[j] = "Blocked"
    BY DEF JobStates, TerminalJobStates, OwnedJobStates
  <1>2. PICK j \in S : needs[j] \cap S = {}
    <2>1. S # {} /\ S \in SUBSET jobs
      BY <1>1
    <2> QED BY <2>1 DEF Acyclic
  <1>3. \A d \in needs[j] : g[d] \in TerminalJobStates
    BY <1>1, <1>2
  <1>4. g0[j] = "Blocked" /\ JobDecision(needs, rules, g, j) = "Blocked"
    BY <1>2 DEF Settled
  <1>5. needs[j] # {}
    BY <1>2, <1>4 DEF NoBlockedRoot
  <1> QED BY <1>3, <1>4, <1>5, BlockedNeedsPending

-----------------------------------------------------------------------------
(* The inductive invariant of the loops                                    *)

Accepted == {"validated", "settle", "done", "CancellationNotPropagated"}

\* What the validation loop knows: the visited Jobs are closed under
\* predecessors and acyclic, and a Job that a pass without progress has looked
\* at has an unvisited predecessor.
ValidationInv ==
    /\ \A i \in visited : deps[i] \subseteq visited
    /\ Acyclic(visited, deps)
    /\ pc = "validate" /\ ~ changed => \A i \in Jobs \ (visited \cup todo) : ~ (deps[i] \subseteq visited)
    /\ pc = "CyclicGraph" => /\ visited # Jobs
                             /\ \A i \in Jobs \ visited : ~ (deps[i] \subseteq visited)
    /\ pc \in Accepted => visited = Jobs
    /\ (pc = "validate" /\ todo # Jobs) \/ pc \in Accepted => NoBlockedRoot(Jobs, deps, input)

\* What the settle loop knows: every Job that left Blocked stands where its
\* policy puts it now, and a pass without change has found the Jobs it looked at
\* rightly blocked.
SettleInv ==
    /\ pc \in {"validate", "validated"} => graph = input
    /\ \A j \in Jobs : input[j] # "Blocked" => graph[j] = input[j]
    /\ \A j \in Jobs : input[j] = "Blocked" /\ graph[j] # "Blocked" =>
          /\ graph[j] \in {"Ready", "Skipped"}
          /\ graph[j] = JobDecision(deps, policy, graph, j)
    /\ pc = "settle" => todo \subseteq Blocked(graph)
    /\ pc = "settle" /\ ~ changed => \A j \in Blocked(graph) \ todo :
                                        JobDecision(deps, policy, graph, j) = "Blocked"
    /\ pc = "done" => \A j \in Blocked(graph) : JobDecision(deps, policy, graph, j) = "Blocked"

-----------------------------------------------------------------------------
(* Type correctness                                                        *)

\* A decision for a Job of the graph is a Job state.
LEMMA DecisionType ==
    ASSUME TypeOK, NEW j \in Jobs
    PROVE  JobDecision(deps, policy, graph, j) \in {"Blocked", "Ready", "Skipped"}
  BY DecideType DEF TypeOK, JobDecision

\* The parameters reconcile starts from have their types.
LEMMA InitType == Init => TypeOK
  BY InputStatesAreJobStates DEF Init, TypeOK, Errors

\* Every step of the two loops keeps the types.
LEMMA NextType == TypeOK /\ [Next]_vars => TypeOK'
  <1> SUFFICES ASSUME TypeOK, [Next]_vars PROVE TypeOK'
    OBVIOUS
  <1>1. CASE RejectBlockedRoot
    BY <1>1 DEF RejectBlockedRoot, TypeOK, facts, Errors
  <1>2. ASSUME NEW j \in Jobs, ValidateNode(j) PROVE TypeOK'
    BY <1>2 DEF ValidateNode, TypeOK, facts, IsNext
  <1>3. ASSUME NEW j \in Jobs, SettleJob(j) PROVE TypeOK'
    <2>1. JobDecision(deps, policy, graph, j) \in JobStates
      BY DecisionType DEF JobStates
    <2> QED BY <1>3, <2>1 DEF SettleJob, TypeOK, facts
  <1>4. CASE EndValidatePass
    BY <1>4 DEF EndValidatePass, TypeOK, facts, Errors
  <1>5. CASE CheckCancellation
    BY <1>5 DEF CheckCancellation, TypeOK, facts, Errors, Blocked
  <1>6. CASE EndSettlePass
    BY <1>6 DEF EndSettlePass, TypeOK, facts, Blocked
  <1>7. CASE UNCHANGED vars
    BY <1>7 DEF vars, TypeOK
  <1> QED BY <1>1, <1>2, <1>3, <1>4, <1>5, <1>6, <1>7 DEF Next

\* Every variable of the reconcile loops keeps its type: the decisions written to
\* the graph are Job states.
THEOREM TypeCorrect == Spec => []TypeOK
  BY InitType, NextType, PTL DEF Spec

-----------------------------------------------------------------------------
(* Validation                                                              *)

\* Visiting one more Job whose predecessors are visited keeps the visited Jobs
\* acyclic.
LEMMA AcyclicExtends ==
    ASSUME NEW V, NEW D, NEW k, k \notin V,
           \A i \in V : D[i] \subseteq V,
           D[k] \subseteq V,
           Acyclic(V, D)
    PROVE  Acyclic(V \cup {k}, D)
  <1> SUFFICES ASSUME NEW S \in SUBSET (V \cup {k}), S # {}
               PROVE  \E j \in S : D[j] \cap S = {}
    BY DEF Acyclic
  <1>1. CASE S \cap V = {}
    BY <1>1
  <1>2. CASE S \cap V # {}
    <2>1. PICK j \in S \cap V : D[j] \cap (S \cap V) = {}
      BY <1>2 DEF Acyclic
    <2> QED BY <2>1
  <1> QED BY <1>1, <1>2

\* validate_graph starts with nothing visited.
LEMMA InitValidation == Init => ValidationInv
  BY DEF Init, ValidationInv, Acyclic, Accepted

\* Every step keeps the visited Jobs acyclic and closed under predecessors, and
\* remembers whether a pass has made progress.
LEMMA NextValidation == TypeOK /\ ValidationInv /\ SettleInv /\ [Next]_vars => ValidationInv'
  <1> SUFFICES ASSUME TypeOK, ValidationInv, SettleInv, [Next]_vars PROVE ValidationInv'
    OBVIOUS
  <1>1. CASE RejectBlockedRoot
    BY <1>1 DEF RejectBlockedRoot, ValidationInv, facts, Accepted
  <1>2. ASSUME NEW j \in Jobs, ValidateNode(j) PROVE ValidationInv'
    <2> USE <1>2 DEF ValidateNode, facts
    <2> DEFINE fresh == j \notin visited /\ deps[j] \subseteq visited
    <2>1. deps' = deps /\ input' = input /\ pc' = "validate" /\ pc = "validate"
      OBVIOUS
    <2>2. NoBlockedRoot(Jobs, deps, input)
      BY DEF SettleInv
    <2>3. CASE fresh
      <3>1. visited' = visited \cup {j} /\ changed'
        BY <2>3
      <3>2. Acyclic(visited \cup {j}, deps)
        BY <2>3, AcyclicExtends DEF ValidationInv
      <3>3. \A i \in visited' : deps'[i] \subseteq visited'
        BY <3>1, <2>1, <2>3 DEF ValidationInv
      <3> QED BY <2>1, <2>2, <3>1, <3>2, <3>3 DEF ValidationInv, Accepted
    <2>4. CASE ~ fresh
      <3>1. visited' = visited /\ changed' = changed /\ todo' = todo \ {j}
        BY <2>4 DEF TypeOK
      <3>2. pc' = "validate" /\ ~ changed'
               => \A i \in Jobs' \ (visited' \cup todo') : ~ (deps'[i] \subseteq visited')
        BY <2>1, <2>4, <3>1 DEF ValidationInv
      <3> QED BY <2>1, <2>2, <3>1, <3>2 DEF ValidationInv, Accepted
    <2> QED BY <2>3, <2>4
  <1>3. ASSUME NEW j \in Jobs, SettleJob(j) PROVE ValidationInv'
    BY <1>3 DEF SettleJob, ValidationInv, facts, Accepted
  <1>4. CASE EndValidatePass
    <2>1. todo # Jobs
      BY <1>4, JobsAreOrdered DEF EndValidatePass
    <2>2. NoBlockedRoot(Jobs, deps, input)
      BY <1>4, <2>1 DEF EndValidatePass, ValidationInv
    <2> QED BY <1>4, <2>2 DEF EndValidatePass, ValidationInv, facts, Accepted
  <1>5. CASE CheckCancellation
    BY <1>5 DEF CheckCancellation, ValidationInv, facts, Accepted
  <1>6. CASE EndSettlePass
    BY <1>6 DEF EndSettlePass, ValidationInv, facts, Accepted
  <1>7. CASE UNCHANGED vars
    BY <1>7 DEF vars, ValidationInv
  <1> QED BY <1>1, <1>2, <1>3, <1>4, <1>5, <1>6, <1>7 DEF Next

-----------------------------------------------------------------------------
(* The settle loop                                                         *)

\* The graph is the input before any Job was moved.
LEMMA InitSettle == Init => SettleInv
  BY DEF Init, SettleInv

\* Every step keeps what is known of the Jobs that were moved or passed over.
LEMMA NextSettle == TypeOK /\ SettleInv /\ [Next]_vars => SettleInv'
  <1> SUFFICES ASSUME TypeOK, SettleInv, [Next]_vars PROVE SettleInv'
    OBVIOUS
  <1>1. CASE RejectBlockedRoot
    BY <1>1 DEF RejectBlockedRoot, SettleInv, facts, Blocked
  <1>2. ASSUME NEW j \in Jobs, ValidateNode(j) PROVE SettleInv'
    BY <1>2 DEF ValidateNode, SettleInv, facts, Blocked
  <1>3. ASSUME NEW k \in Jobs, SettleJob(k) PROVE SettleInv'
    <2> DEFINE s == JobDecision(deps, policy, graph, k)
    <2>1. pc = "settle" /\ pc' = pc /\ deps' = deps /\ policy' = policy /\ input' = input
          /\ graph' = [graph EXCEPT ![k] = s] /\ todo' = todo \ {k}
          /\ changed' = (changed \/ s # "Blocked")
      BY <1>3 DEF SettleJob, facts
    <2>2. k \in todo /\ graph[k] = "Blocked"
      BY <1>3, <2>1 DEF SettleJob, IsNext, SettleInv, Blocked
    <2>3. s \in {"Blocked", "Ready", "Skipped"}
      BY DecisionType
    <2> HIDE DEF s
    <2>4. input[k] = "Blocked"
      BY <2>2 DEF SettleInv
    <2>5. CASE s = "Blocked"
      <3>1. graph' = graph
        BY <2>1, <2>2, <2>5 DEF TypeOK
      <3>2. changed' = changed
        BY <2>1, <2>5 DEF TypeOK
      <3>3. ~ changed => \A j \in Blocked(graph) \ todo' : JobDecision(deps, policy, graph, j) = "Blocked"
        BY <2>1, <2>5 DEF SettleInv, s
      <3> QED BY <2>1, <3>1, <3>2, <3>3 DEF SettleInv, Blocked
    <2>6. CASE s # "Blocked"
      <3>1. s \in {"Ready", "Skipped"}
        BY <2>3, <2>6
      <3>2. changed'
        BY <2>1, <2>6
      <3>3. \A j \in Jobs : j # k => graph'[j] = graph[j]
        BY <2>1 DEF TypeOK
      <3>4. graph'[k] = s
        BY <2>1 DEF TypeOK
      <3>5. \A j \in Jobs : JobDecision(deps, policy, graph, j) \in {"Ready", "Skipped"}
               => JobDecision(deps, policy, graph', j) = JobDecision(deps, policy, graph, j)
        <4> SUFFICES ASSUME NEW j \in Jobs, JobDecision(deps, policy, graph, j) \in {"Ready", "Skipped"}
                     PROVE  JobDecision(deps, policy, graph', j) = JobDecision(deps, policy, graph, j)
          OBVIOUS
        <4>1. deps \in [Jobs -> SUBSET Jobs] /\ policy \in [Jobs -> Policies] /\ graph \in [Jobs -> JobStates]
          BY DEF TypeOK
        <4> QED BY <4>1, <2>2, <3>1, <3>3, <3>4, DecisionIsStable
      <3>6. ASSUME NEW j \in Jobs, input[j] = "Blocked", graph'[j] # "Blocked"
            PROVE  /\ graph'[j] \in {"Ready", "Skipped"}
                   /\ graph'[j] = JobDecision(deps, policy, graph', j)
        <4>1. CASE j = k
          BY <4>1, <3>1, <3>5, <3>4 DEF s
        <4>2. CASE j # k
          BY <4>2, <3>5, <3>3, <3>6 DEF SettleInv
        <4> QED BY <4>1, <4>2
      <3>7. \A j \in Jobs : input[j] # "Blocked" => graph'[j] = input[j]
        BY <2>4, <3>3 DEF SettleInv
      <3>8. todo' \subseteq Blocked(graph')
        BY <2>1, <3>3 DEF SettleInv, Blocked, TypeOK
      <3> QED BY <2>1, <3>2, <3>6, <3>7, <3>8 DEF SettleInv, Blocked
    <2> QED BY <2>5, <2>6
  <1>4. CASE EndValidatePass
    BY <1>4 DEF EndValidatePass, SettleInv, facts, Blocked
  <1>5. CASE CheckCancellation
    BY <1>5 DEF CheckCancellation, SettleInv, facts, Blocked
  <1>6. CASE EndSettlePass
    BY <1>6 DEF EndSettlePass, SettleInv, facts, Blocked
  <1>7. CASE UNCHANGED vars
    BY <1>7 DEF vars, SettleInv, Blocked
  <1> QED BY <1>1, <1>2, <1>3, <1>4, <1>5, <1>6, <1>7 DEF Next

-----------------------------------------------------------------------------
(* What reconcile returns                                                  *)

\* The inductive invariant of both loops.
LEMMA LoopInvariant == Spec => [](TypeOK /\ ValidationInv /\ SettleInv)
  <1>1. Init => TypeOK /\ ValidationInv /\ SettleInv
    BY InitType, InitValidation, InitSettle
  <1>2. TypeOK /\ ValidationInv /\ SettleInv /\ [Next]_vars => (TypeOK /\ ValidationInv /\ SettleInv)'
    BY NextType, NextValidation, NextSettle
  <1> QED BY <1>1, <1>2, PTL DEF Spec

\* A pass without changes leaves a fixed point.
LEMMA DoneIsSettled ==
    ASSUME SettleInv, pc = "done"
    PROVE  Settled(Jobs, deps, policy, input, graph)
  BY DEF SettleInv, Settled, Blocked

\* What validate_graph has visited decides whether the graph has a cycle.
LEMMA ValidationInvIsExact ==
    ASSUME TypeOK, ValidationInv
    PROVE  ValidationIsExact
  <1>1. pc \in Accepted => Acyclic(Jobs, deps)
    BY DEF ValidationInv
  <1>2. ASSUME pc = "CyclicGraph" PROVE ~ Acyclic(Jobs, deps)
    <2> DEFINE S == Jobs \ visited
    <2>1. S # {} /\ S \in SUBSET Jobs
      BY <1>2 DEF ValidationInv, TypeOK
    <2>2. \A i \in S : deps[i] \cap S # {}
      BY <1>2 DEF ValidationInv, TypeOK
    <2> QED BY <2>1, <2>2 DEF Acyclic
  <1> QED BY <1>1, <1>2 DEF ValidationIsExact, Accepted

\* reconcile returns a fixed point of the dependency policies, for every graph:
\* the same persisted facts reconciled again change nothing.
THEOREM FixedPointReturned == Spec => []ReturnsFixedPoint
  <1>1. SettleInv => ReturnsFixedPoint
    BY DoneIsSettled DEF ReturnsFixedPoint
  <1> QED BY <1>1, LoopInvariant, PTL

\* validate_graph accepts a graph if and only if it has no cycle, for every
\* dependency relation without self-dependencies or with them.
THEOREM ValidationExact == Spec => []ValidationIsExact
  BY ValidationInvIsExact, LoopInvariant, PTL

\* The graph returned is the only fixed point over the persisted facts, so the
\* outcome does not depend on the order in which the loop visits Jobs.
THEOREM OutcomeUnique == Spec => []OutcomeIsUnique
  <1>1. TypeOK /\ ValidationInv /\ SettleInv => OutcomeIsUnique
    <2> SUFFICES ASSUME TypeOK, ValidationInv, SettleInv, pc = "done",
                        NEW d \in [Blocked(input) -> {"Blocked", "Ready", "Skipped"}]
                 PROVE  LET h == [j \in Jobs |-> IF j \in Blocked(input) THEN d[j] ELSE input[j]]
                        IN  Settled(Jobs, deps, policy, input, h) => h = graph
      BY DEF OutcomeIsUnique
    <2> DEFINE h == [j \in Jobs |-> IF j \in Blocked(input) THEN d[j] ELSE input[j]]
    <2> SUFFICES ASSUME Settled(Jobs, deps, policy, input, h) PROVE h = graph
      OBVIOUS
    <2>1. Acyclic(Jobs, deps)
      BY ValidationInvIsExact DEF ValidationIsExact
    <2>2. Settled(Jobs, deps, policy, input, graph)
      BY DoneIsSettled
    <2>3. deps \in [Jobs -> SUBSET Jobs] /\ graph \in [Jobs -> JobStates]
      BY DEF TypeOK
    <2>4. \A j \in Jobs : h[j] = graph[j]
      <3> HIDE DEF h
      <3> QED BY <2>1, <2>2, <2>3, SettledIsUnique
    <2> QED BY <2>3, <2>4
  <1> QED BY <1>1, LoopInvariant, PTL

\* An Attempt that reconcile leaves running has a Job that is ready or owned by a
\* lease, for every graph and policy: it cannot wait for ever on itself.
THEOREM AttemptHasWork == Spec => []RunningAttemptHasWork
  <1>1. TypeOK /\ ValidationInv /\ SettleInv => RunningAttemptHasWork
    <2> SUFFICES ASSUME TypeOK, ValidationInv, SettleInv, pc = "done",
                        DeriveAttempt(Jobs, graph, cancelled) = "Running"
                 PROVE  \E j \in Jobs : graph[j] \in {"Ready"} \cup OwnedJobStates
      BY DEF RunningAttemptHasWork
    <2>1. \E j \in Jobs : graph[j] \notin TerminalJobStates
      BY DEF DeriveAttempt
    <2>2. Acyclic(Jobs, deps) /\ NoBlockedRoot(Jobs, deps, input)
      BY ValidationInvIsExact DEF ValidationIsExact, ValidationInv, Accepted
    <2>3. Settled(Jobs, deps, policy, input, graph)
      BY DoneIsSettled
    <2>4. /\ deps \in [Jobs -> SUBSET Jobs] /\ policy \in [Jobs -> Policies]
          /\ graph \in [Jobs -> JobStates]
      BY DEF TypeOK
    <2> QED BY <2>1, <2>2, <2>3, <2>4, SettledHasWork
  <1> QED BY <1>1, LoopInvariant, PTL
=============================================================================
