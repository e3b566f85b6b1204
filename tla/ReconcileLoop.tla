--------------------------- MODULE ReconcileLoop ---------------------------
(***************************************************************************)
(* The algorithm `reconcile` of octacity-server-orchestrator, step by      *)
(* step: graph validation by repeated passes over the nodes, the refusal   *)
(* of a cancelled graph with untargeted Jobs, and the outer loop that      *)
(* visits the blocked Jobs in identity order, changing the graph in place, *)
(* until a whole pass changes nothing.                                     *)
(*                                                                         *)
(* Jobs are numbers because the code's BTreeMap iterates in identity order *)
(* and a pass sees the changes it has already made.                        *)
(***************************************************************************)
EXTENDS JobGraph

CONSTANTS
    Jobs,          \* the Job identities of the Attempt graph
    InputStates    \* the Job states the input graphs are built from

ASSUME JobsAreOrdered == Jobs \subseteq Nat /\ Jobs # {}
ASSUME InputStatesAreJobStates == InputStates \subseteq JobStates

VARIABLES
    deps, policy, input, cancelled,  \* the persisted facts handed to reconcile
    graph,      \* the mutable graph: current state of every Job
    visited,    \* validate_graph: nodes whose predecessors are all visited
    todo,       \* nodes the current pass has still to look at
    changed,    \* whether the current pass changed anything
    pc          \* "validate", "validated", "settle", "done" or the error that was returned

facts == <<deps, policy, input, cancelled>>
vars  == <<deps, policy, input, cancelled, graph, visited, todo, changed, pc>>

Errors == {"BlockedRoot", "CyclicGraph", "CancellationNotPropagated"}

Blocked(g) == {j \in Jobs : g[j] = "Blocked"}

\* The next node of a pass: BTreeMap order.
IsNext(j) == j \in todo /\ \A i \in todo : j <= i

\* Any graph that JobGraphNode::new accepts: no Job depends on itself, and a
\* set of predecessors has no duplicates. A root carries a policy that is never
\* consulted, so one value stands for all of them.
Init ==
    /\ deps \in [Jobs -> SUBSET Jobs]
    /\ \A j \in Jobs : j \notin deps[j]
    /\ policy \in [Jobs -> Policies]
    /\ \A j \in Jobs : deps[j] = {} => policy[j] = "AllSucceeded"
    /\ input \in [Jobs -> InputStates]
    /\ cancelled \in BOOLEAN
    /\ graph = input
    /\ visited = {}
    /\ todo = Jobs
    /\ changed = FALSE
    /\ pc = "validate"

\* The structural check at the head of validate_graph.
RejectBlockedRoot ==
    /\ pc = "validate"
    /\ visited = {} /\ todo = Jobs
    /\ ~ NoBlockedRoot(Jobs, deps, graph)
    /\ pc' = "BlockedRoot"
    /\ UNCHANGED <<facts, graph, visited, todo, changed>>

\* One iteration of the for loop of validate_graph.
ValidateNode(j) ==
    /\ pc = "validate"
    /\ NoBlockedRoot(Jobs, deps, graph)
    /\ IsNext(j)
    /\ LET fresh == j \notin visited /\ deps[j] \subseteq visited
       IN  /\ visited' = IF fresh THEN visited \cup {j} ELSE visited
           /\ changed' = (changed \/ fresh)
    /\ todo' = todo \ {j}
    /\ UNCHANGED <<facts, graph, pc>>

\* Mutant: a pass without progress is taken for success.
EndValidatePassAcceptsCycle ==
    /\ pc = "validate"
    /\ todo = {}
    /\ IF changed THEN todo' = Jobs /\ pc' = pc
                  ELSE todo' = {} /\ pc' = "validated"
    /\ changed' = FALSE
    /\ UNCHANGED <<facts, graph, visited>>

\* The end of a validation pass: accepted, another pass, or a cycle.
EndValidatePass ==
    /\ pc = "validate"
    /\ todo = {}
    /\ \/ /\ visited = Jobs
          /\ pc' = "validated"
          /\ todo' = {}
       \/ /\ visited # Jobs /\ changed
          /\ todo' = Jobs
          /\ pc' = pc
       \/ /\ visited # Jobs /\ ~ changed
          /\ pc' = "CyclicGraph"
          /\ todo' = {}
    /\ changed' = FALSE
    /\ UNCHANGED <<facts, graph, visited>>

\* The check between validation and the settle loop.
CheckCancellation ==
    /\ pc = "validated"
    /\ IF cancelled /\ ~ CancellationPropagatedIn(Jobs, graph)
       THEN pc' = "CancellationNotPropagated" /\ todo' = {}
       ELSE pc' = "settle" /\ todo' = Blocked(graph)
    /\ UNCHANGED <<facts, graph, visited, changed>>

\* One iteration over a Job that was blocked when the pass began.
SettleJob(j) ==
    /\ pc = "settle"
    /\ IsNext(j)
    /\ LET d == JobDecision(deps, policy, graph, j)
       IN  /\ graph' = [graph EXCEPT ![j] = d]
           /\ changed' = (changed \/ d # "Blocked")
    /\ todo' = todo \ {j}
    /\ UNCHANGED <<facts, visited, pc>>

\* Mutant: a single pass over the blocked Jobs, without the outer loop.
EndSettlePassOnce ==
    /\ pc = "settle"
    /\ todo = {}
    /\ pc' = "done"
    /\ changed' = FALSE
    /\ UNCHANGED <<facts, graph, visited, todo>>

\* Mutant: `changed` is not reset between passes.
EndSettlePassKeepsChanged ==
    /\ pc = "settle"
    /\ todo = {}
    /\ pc' = IF changed THEN pc ELSE "done"
    /\ todo' = Blocked(graph)
    /\ UNCHANGED <<facts, graph, visited, changed>>

\* The end of a pass: stop when nothing changed, otherwise start another.
EndSettlePass ==
    /\ pc = "settle"
    /\ todo = {}
    /\ \/ /\ changed
          /\ todo' = Blocked(graph)
          /\ pc' = pc
       \/ /\ ~ changed
          /\ todo' = {}
          /\ pc' = "done"
    /\ changed' = FALSE
    /\ UNCHANGED <<facts, graph, visited>>

Next ==
    \/ RejectBlockedRoot
    \/ \E j \in Jobs : ValidateNode(j) \/ SettleJob(j)
    \/ EndValidatePass
    \/ CheckCancellation
    \/ EndSettlePass

Spec == Init /\ [][Next]_vars

\* The function runs to its end: nothing it calls can block.
FairSpec == Spec /\ WF_vars(Next)

-----------------------------------------------------------------------------
(* Properties                                                              *)

\* Every variable keeps its type; the input facts are never written.
TypeOK ==
    /\ deps \in [Jobs -> SUBSET Jobs]
    /\ policy \in [Jobs -> Policies]
    /\ input \in [Jobs -> JobStates]
    /\ cancelled \in BOOLEAN
    /\ graph \in [Jobs -> JobStates]
    /\ visited \subseteq Jobs
    /\ todo \subseteq Jobs
    /\ changed \in BOOLEAN
    /\ pc \in {"validate", "validated", "settle", "done"} \cup Errors

\* When reconcile returns, its graph is a fixed point of the policies reached
\* from the persisted facts, so replaying the same facts is a no-op
\* (reconcile.rs:166-172): no blocked Job is left that its policy would move.
ReturnsFixedPoint == pc = "done" => Settled(Jobs, deps, policy, input, graph)

\* The graph returned does not depend on the order of visits: it is the only
\* fixed point there is. Concurrent completions of two predecessors therefore
\* lead to the same graph whichever commits first.
OutcomeIsUnique ==
    pc = "done" =>
        \A d \in [Blocked(input) -> {"Blocked", "Ready", "Skipped"}] :
            LET h == [j \in Jobs |-> IF j \in Blocked(input) THEN d[j] ELSE input[j]]
            IN  Settled(Jobs, deps, policy, input, h) => h = graph

\* validate_graph accepts exactly the acyclic graphs.
ValidationIsExact ==
    /\ pc \in {"validated", "settle", "done", "CancellationNotPropagated"} => Acyclic(Jobs, deps)
    /\ pc = "CyclicGraph" => ~ Acyclic(Jobs, deps)

\* An Attempt that is still running after reconcile has a Job that somebody can
\* work on: ready, or owned by a lease (attempt.rs:10-11). It never consists of
\* finished Jobs and Jobs that wait for each other.
RunningAttemptHasWork ==
    pc = "done" /\ DeriveAttempt(Jobs, graph, cancelled) = "Running"
        => \E j \in Jobs : graph[j] \in {"Ready"} \cup OwnedJobStates

\* reconcile always returns, with a decision or an error.
Terminates == <>(pc \in {"done"} \cup Errors)
=============================================================================
