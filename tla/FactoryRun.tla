----------------------------- MODULE FactoryRun -----------------------------
(***************************************************************************)
(* One Factory Run: a chain of nodes that the reconciliation workers of    *)
(* several server processes advance under a claim, while operators cancel  *)
(* it, retry a failed node or answer a gate. A worker claims the Run, reads *)
(* a snapshot, calls the ordinary Build application and commits what it has *)
(* seen; these are separate transactions, and a claim can be lost between   *)
(* any two of them.                                                         *)
(*                                                                         *)
(* Abstractions. Claim windows are not counted: lapsed says that the window *)
(* of the current claim is over, spent that the one of the claim under      *)
(* which the last Attempt was opened is. All windows have one length, so    *)
(* the later of two ends last. A worker process has a new owner name after  *)
(* a restart and reconciles one claim of the Run at a time, so the owner    *)
(* identifies the claim. The graph is a chain, of which Kind tells Builds   *)
(* from human gates; profiles, budgets, inputs and outputs are left out.    *)
(***************************************************************************)
EXTENDS Naturals, Sequences, FiniteSets

CONSTANTS
    Workers,     \* reconciliation workers, one per server process
    Mortal,      \* the workers whose process may end
    Kind,        \* Kind[n]: "Build" or "HumanGate", for every node of the chain
    MaxRetries,  \* max_execution_retries of a node
    None

ASSUME ConstantsAreValid ==
    /\ Mortal \subseteq Workers
    /\ None \notin Workers
    /\ Kind \in Seq({"Build", "HumanGate"}) /\ Len(Kind) > 0
    /\ MaxRetries \in Nat

VARIABLES
    state,       \* factory_runs.state
    cancelling,  \* cancellation_requested of the current checkpoint
    claim,       \* owner of the current claim, or None
    lapsed,      \* the window of the current claim is over
    touched,     \* the Run was updated since it was claimed
    follows,     \* the claim was made after the window of the last Attempt's claim
    attempts,    \* the Node Attempts, oldest first
    last,        \* of the last Attempt, what matters until the next one
    builds,      \* builds[i]: the ordinary Build of Attempt i
    answers,     \* the calls of the output source that succeed for the last Attempt
    pc,          \* where each worker is in its pass
    fresh,       \* the workers whose snapshot has the current factory_runs.version
    plan         \* what each is about to commit

runVars    == <<state, cancelling, attempts>>
claimVars  == <<claim, lapsed, touched, follows>>
buildVars  == <<builds, answers>>
workerVars == <<pc, fresh, plan>>
vars       == <<runVars, last, claimVars, buildVars, workerVars>>

RunStates   == {"admitted", "running", "waiting", "cancelled", "completed"}
Ends        == {"open", "completed", "failed", "cancelled"}
\* cancelling: asked to stop, or terminal with Jobs that have not stopped yet.
BuildStates == {"none", "running", "cancelling", "succeeded", "stopped"}
Finished    == {"succeeded", "stopped"}  \* stopped: failed or cancelled
Plans       == {"open", "execution", "wait", "await", "complete", "fail", "expire", "stop",
                "void", "resolved", "cancelled"}

\* FactoryNodeBuildOutputSource: what a stopped Build has used, and what a succeeded
\* one has published, in a form that the node can be ended with.
Calls == {"terminal_usage", "published_outputs"}

\* execution: the identity of its Build is in the journal.
Attempt == [node : 1 .. Len(Kind), end : Ends, execution : BOOLEAN]

\* Who opened the Attempt; the window of that claim and the deadline are over; a
\* retry of it was accepted, or the answer to its gate.
LastFacts == [owner : Workers \cup {None}, spent : BOOLEAN, late : BOOLEAN,
              retry : BOOLEAN, response : BOOLEAN]

NewFacts(w, spent) ==
    [owner |-> w, spent |-> spent, late |-> FALSE, retry |-> FALSE, response |-> FALSE]

\* No two Attempts of a Run are open, so only the last one can be.
Latest == Len(attempts)
Last == attempts[Latest]
Active == state \notin {"cancelled", "completed"}
IsBuild(i) == Kind[attempts[i].node] = "Build"
LastIsOpen == Latest > 0 /\ Last.end = "open"

Init ==
    /\ state = "admitted" /\ cancelling = FALSE
    /\ claim = None /\ lapsed = FALSE /\ touched = FALSE /\ follows = FALSE
    /\ attempts = <<>> /\ last = NewFacts(None, FALSE) /\ builds = <<>> /\ answers = {}
    /\ pc = [w \in Workers |-> "idle"]
    /\ fresh = {}
    /\ plan = [w \in Workers |-> None]

-----------------------------------------------------------------------------
(* The claim of the Run                                                    *)

\* Mutant: a claim is only taken over when its owner has left it.
ClaimRunUnclaimed(w) ==
    /\ pc[w] = "idle"
    /\ Active
    /\ claim = None \/ (claim = w /\ touched)
    /\ claim' = w /\ lapsed' = FALSE /\ touched' = FALSE
    /\ follows' = last.spent
    /\ pc' = [pc EXCEPT ![w] = "claimed"]
    /\ UNCHANGED <<runVars, last, buildVars, fresh, plan>>

\* claim_batch: an owner takes a Run nobody holds, one whose window is over, or
\* again the one it holds when the Run has moved on since.
ClaimRun(w) ==
    /\ pc[w] = "idle"
    /\ Active
    /\ claim = None \/ lapsed \/ (claim = w /\ touched)
    /\ claim' = w /\ lapsed' = FALSE /\ touched' = FALSE
    /\ follows' = last.spent
    /\ pc' = [pc EXCEPT ![w] = "claimed"]
    /\ UNCHANGED <<runVars, last, buildVars, fresh, plan>>

\* Mutant: an Attempt belongs to the owner that opened it.
VerifyOpener(w) == last.owner = w

\* NodeAttempt::verify_observer: the owner that opened the Attempt, or one whose
\* claim started when the window of that owner's claim was over.
VerifyObserver(w) == last.owner = w \/ follows

\* verify_fence before and after a call: a worker stops when its window is over.
FenceHolds(w) == ~ (claim = w /\ lapsed)

-----------------------------------------------------------------------------
(* One pass of a worker                                                    *)

GoTo(w, place) == pc' = [pc EXCEPT ![w] = place]

\* The pass is over: it waits, has failed or has lost the claim.
Leave(w) ==
    /\ GoTo(w, "idle")
    /\ fresh' = fresh \ {w} /\ plan' = [plan EXCEPT ![w] = None]

Commit(w, p) == GoTo(w, "commit") /\ plan' = [plan EXCEPT ![w] = p] /\ UNCHANGED fresh

\* Where reconcile_flow and run_once go from a snapshot in which the Run is not
\* being cancelled: the place of the next step, or what to commit.
NextStep(w) ==
    CASE LastIsOpen /\ ~ VerifyObserver(w) -> "idle"
      [] LastIsOpen /\ VerifyObserver(w) /\ IsBuild(Latest) -> "observe"
      [] LastIsOpen /\ VerifyObserver(w) /\ ~ IsBuild(Latest) ->
            IF last.response THEN "complete" ELSE IF state # "waiting" THEN "wait" ELSE "idle"
      [] Latest > 0 /\ Last.end = "failed" -> IF last.retry THEN "open" ELSE "idle"
      [] Latest > 0 /\ Last.end = "completed" /\ Last.node = Len(Kind) -> "resolved"
      [] OTHER -> "open"

\* cancel: where it goes from a snapshot of a Run that is being cancelled.
CancelStep(w) ==
    IF LastIsOpen /\ IsBuild(Latest)
    THEN IF VerifyObserver(w) THEN "cancel" ELSE "idle"
    ELSE "cancelled"

\* reconcile_one, reconcile_flow and run_once read the snapshot and check that it
\* is the claimed one. Only the claim's holder and a control change the version,
\* and a control removes the claim, so the three reads are one.
ReadSnapshot(w) ==
    /\ pc[w] = "claimed"
    /\ LET next == IF claim # w \/ lapsed \/ ~ Active THEN "idle"
                   ELSE IF cancelling THEN CancelStep(w) ELSE NextStep(w)
       IN IF next = "idle" THEN Leave(w)
          ELSE /\ fresh' = fresh \cup {w}
               /\ IF next \in Plans
                  THEN GoTo(w, "commit") /\ plan' = [plan EXCEPT ![w] = next]
                  ELSE GoTo(w, next) /\ UNCHANGED plan
    /\ UNCHANGED <<runVars, last, claimVars, buildVars>>

\* What is committed when the Build is still at work: its identity, once.
RetainExecution(w) == IF Last.execution THEN Leave(w) ELSE Commit(w, "execution")

\* observe_or_dispatch for an Attempt without a Build: the deadline has passed, or
\* create_factory_build checks the Run once more and materializes the Build.
ObserveMissing(w) ==
    /\ builds[Latest] = "none"
    /\ IF last.late THEN Commit(w, "expire")
       ELSE IF cancelling \/ ~ Active \/ claim # w THEN Leave(w)
       ELSE GoTo(w, "dispatch") /\ UNCHANGED <<fresh, plan>>

\* The same for one that has a Build. What a succeeded one has published is verified,
\* or found to be a technical failure; what a stopped one has used may be unavailable,
\* which is waited for. Any other error of these calls ends the pass.
ObserveBuild(w) ==
    \/ builds[Latest] \in {"running", "cancelling"} /\ RetainExecution(w)
    \/ /\ builds[Latest] = "succeeded"
       /\ IF "published_outputs" \in answers THEN Commit(w, "complete") \/ Commit(w, "fail") ELSE Leave(w)
    \/ /\ builds[Latest] = "stopped"
       /\ IF "terminal_usage" \in answers THEN Commit(w, "fail")
          ELSE \/ Leave(w)
               \/ ~ (state = "waiting" /\ Last.execution) /\ Commit(w, "await")

\* executor.observe: the Build is looked up now, whatever the snapshot said, and
\* the window is checked when the answer is there.
Observe(w) ==
    /\ pc[w] = "observe"
    /\ IF LastIsOpen /\ FenceHolds(w) THEN ObserveMissing(w) \/ ObserveBuild(w) ELSE Leave(w)
    /\ UNCHANGED <<runVars, last, claimVars, buildVars>>

\* Mutant: the transaction trusts the check that was made before materialization.
VerifyNodeDispatchEarlier(w) == LastIsOpen

\* verify_node_dispatch, under the lock of the Run. The time it compares was read
\* before the lock was there.
VerifyNodeDispatch(w) == ~ cancelling /\ Active /\ claim = w /\ LastIsOpen

\* accept_factory_build: the one Build of this operation. The answer may be lost, and
\* there is no Build after a conflict, a failure or when the deadline was over.
Dispatch(w) ==
    /\ pc[w] = "dispatch"
    /\ \/ /\ VerifyNodeDispatch(w) /\ builds[Latest] = "none"
          /\ builds' = [builds EXCEPT ![Latest] = "running"]
          /\ Leave(w) \/ Commit(w, "execution")
       \/ Leave(w) /\ UNCHANGED builds
    /\ UNCHANGED <<runVars, last, claimVars, answers>>

\* executor.cancel up to its second call: without a Build there is nothing to stop; one
\* at work is to be cancelled; one whose Jobs are stopping is waited for; and a finished
\* one is stopped when its usage is known, waited for when that is unavailable, and left
\* as it is after any other error.
CancelNode(w) ==
    /\ pc[w] = "cancel"
    /\ \/ ~ (LastIsOpen /\ FenceHolds(w)) /\ Leave(w)
       \/ /\ LastIsOpen /\ FenceHolds(w)
          /\ \/ builds[Latest] = "none" /\ Commit(w, "void")
             \/ /\ builds[Latest] \in {"running", "cancelling"}
                /\ GoTo(w, "withdraw") /\ UNCHANGED <<fresh, plan>>
             \/ builds[Latest] = "cancelling" /\ RetainExecution(w)
             \/ /\ builds[Latest] \in Finished
                /\ IF "terminal_usage" \in answers THEN Commit(w, "stop")
                   ELSE Leave(w) \/ RetainExecution(w)
    /\ UNCHANGED <<runVars, last, claimVars, buildVars>>

\* Mutant: the stop is recorded as soon as the cancellation was accepted.
WithdrawAtOnce(w) ==
    /\ pc[w] = "withdraw"
    /\ LastIsOpen /\ claim = w /\ builds[Latest] = "running"
    /\ builds' = [builds EXCEPT ![Latest] = "cancelling"]
    /\ Commit(w, "stop")
    /\ UNCHANGED <<runVars, last, claimVars, answers>>

\* cancel_factory_build for a Build at work: accepted under the claim of the Run.
Withdraw(w) ==
    /\ pc[w] = "withdraw"
    /\ LastIsOpen /\ claim = w /\ builds[Latest] = "running"
    /\ builds' = [builds EXCEPT ![Latest] = "cancelling"]
    /\ Leave(w) \/ (FenceHolds(w) /\ RetainExecution(w))
    /\ UNCHANGED <<runVars, last, claimVars, answers>>

\* The same for one that was cancelled before, which is answered from the record, and
\* every refusal: the claim is lost, the Build has ended, or one of its leases was told
\* to stop by a drain.
WithdrawNothing(w) ==
    /\ pc[w] = "withdraw"
    /\ \/ Leave(w)
       \/ LastIsOpen /\ builds[Latest] \notin {"none", "running"} /\ FenceHolds(w) /\ RetainExecution(w)
    /\ UNCHANGED <<runVars, last, claimVars, buildVars>>

-----------------------------------------------------------------------------
(* commit_transition                                                       *)

\* The Attempt that a worker opens: the next node, or the failed one again.
NewAttempt ==
    [node |-> IF Latest = 0 THEN 1 ELSE IF Last.end = "failed" THEN Last.node ELSE Last.node + 1,
     end |-> "open", execution |-> FALSE]

\* The receipt names the Build that the pass has seen, if it has seen one.
EndAttempt(end, execution) ==
    attempts' = [attempts EXCEPT ![Latest].end = end, ![Latest].execution = @ \/ execution]

\* append_history and update_run, by what the pass has found.
Apply(w) ==
    \/ /\ plan[w] = "open"
       /\ attempts' = Append(attempts, NewAttempt) /\ last' = NewFacts(w, lapsed)
       /\ builds' = Append(builds, "none") /\ answers' = {}
       /\ state' = "running"
    \/ /\ \/ /\ plan[w] \in {"execution", "await"}
             /\ attempts' = [attempts EXCEPT ![Latest].execution = TRUE]
             /\ state' = IF plan[w] = "await" THEN "waiting" ELSE "running"
          \/ plan[w] = "complete" /\ EndAttempt("completed", IsBuild(Latest)) /\ state' = "running"
          \/ /\ plan[w] \in {"fail", "expire"}
             /\ EndAttempt("failed", plan[w] = "fail") /\ state' = "waiting"
          \/ /\ plan[w] \in {"stop", "void"}
             /\ EndAttempt("cancelled", plan[w] = "stop") /\ state' = "running"
          \/ plan[w] = "wait" /\ state' = "waiting" /\ UNCHANGED attempts
          \/ plan[w] = "resolved" /\ state' = "completed" /\ UNCHANGED attempts
          \/ plan[w] = "cancelled" /\ state' = "cancelled" /\ UNCHANGED attempts
       /\ UNCHANGED <<last, buildVars>>

\* validate_transition: the version of the snapshot and the claim it was read under.
MayCommit(w) == w \in fresh /\ claim = w

\* The window is compared with a time that the worker has read before, so that a late
\* commit may pass or be refused.
CommitTransition(w) ==
    /\ pc[w] = "commit"
    /\ \/ MayCommit(w) /\ Apply(w) /\ touched' = TRUE /\ fresh' = {}
       \/ /\ ~ MayCommit(w) \/ lapsed
          /\ fresh' = fresh \ {w} /\ UNCHANGED <<runVars, last, buildVars, touched>>
    /\ GoTo(w, "idle") /\ plan' = [plan EXCEPT ![w] = None]
    /\ UNCHANGED <<cancelling, claim, lapsed, follows>>

\* The process of a worker ends; its successor has another owner name.
Crash(w) ==
    /\ w \in Mortal /\ pc[w] # "dead"
    /\ GoTo(w, "dead")
    /\ fresh' = fresh \ {w} /\ plan' = [plan EXCEPT ![w] = None]
    /\ UNCHANGED <<runVars, last, claimVars, buildVars>>

-----------------------------------------------------------------------------
(* Operators: apply_control                                                *)

\* Every control moves the version and takes the claim away from its owner.
Control ==
    /\ Active /\ ~ cancelling
    /\ claim' = None /\ lapsed' = FALSE /\ touched' = FALSE /\ follows' = FALSE
    /\ fresh' = {}
    /\ UNCHANGED <<state, attempts, buildVars, pc, plan>>

CancelRun == Control /\ cancelling' = TRUE /\ UNCHANGED last

\* How often the node of the last Attempt was retried.
Retries == Cardinality({i \in 1 .. Latest : attempts[i].node = Last.node}) - 1

\* validate_factory_node_retry.
RetryNode ==
    /\ Latest > 0 /\ Last.end = "failed" /\ ~ last.retry /\ Retries < MaxRetries
    /\ Control
    /\ last' = [last EXCEPT !.retry = TRUE]
    /\ UNCHANGED cancelling

\* factory_node_response_contract.
ResolveNode ==
    /\ LastIsOpen /\ ~ IsBuild(Latest) /\ ~ last.response /\ ~ last.late
    /\ Control
    /\ last' = [last EXCEPT !.response = TRUE]
    /\ UNCHANGED cancelling

-----------------------------------------------------------------------------
(* Time and the ordinary Builds                                            *)

\* The window of the current claim ends, and with it every earlier one.
ClaimLapses ==
    /\ claim # None /\ ~ lapsed
    /\ lapsed' = TRUE
    /\ last' = [last EXCEPT !.spent = Latest > 0]
    /\ UNCHANGED <<runVars, claim, touched, follows, buildVars, workerVars>>

\* The window of the claim under which the last Attempt was opened ends.
WindowEnds ==
    /\ LastIsOpen /\ ~ last.spent
    /\ last' = [last EXCEPT !.spent = TRUE]
    /\ UNCHANGED <<runVars, claimVars, buildVars, workerVars>>

\* Nobody asks for the deadline once there is a Build or an answer.
DeadlinePasses ==
    /\ LastIsOpen /\ ~ last.late /\ builds[Latest] = "none" /\ ~ last.response
    /\ last' = [last EXCEPT !.late = TRUE]
    /\ UNCHANGED <<runVars, claimVars, buildVars, workerVars>>

\* An operator cancels a Build directly, or it is decided while Jobs are stopping.
BuildStops(i) ==
    /\ builds[i] = "running"
    /\ builds' = [builds EXCEPT ![i] = "cancelling"]
    /\ UNCHANGED <<runVars, last, claimVars, answers, workerVars>>

\* A Build and all its Jobs end, in any way.
BuildEnds(i) ==
    /\ builds[i] \in {"running", "cancelling"}
    /\ \E s \in Finished : builds' = [builds EXCEPT ![i] = s]
    /\ UNCHANGED <<runVars, last, claimVars, answers, workerVars>>

\* A Build that is stopping ends.
CancelledBuildEnds(i) == builds[i] = "cancelling" /\ BuildEnds(i)

\* The call that the Attempt of a finished Build waits for.
Asked == IF builds[Latest] = "succeeded" /\ ~ cancelling THEN "published_outputs" ELSE "terminal_usage"

\* The answers of the output source come and go, and nothing says that they ever come:
\* a Job that was cancelled while it was queued has no assignment to measure.
AnswersChange ==
    /\ LastIsOpen /\ builds[Latest] \in Finished
    /\ answers' = IF Asked \in answers THEN answers \ {Asked} ELSE answers \cup {Asked}
    /\ UNCHANGED <<runVars, last, claimVars, builds, workerVars>>

-----------------------------------------------------------------------------
Pass(w) ==
    \/ ReadSnapshot(w) \/ Observe(w) \/ Dispatch(w)
    \/ CancelNode(w) \/ Withdraw(w) \/ WithdrawNothing(w)
    \/ CommitTransition(w)

Next ==
    \/ \E w \in Workers : ClaimRun(w) \/ Pass(w) \/ Crash(w)
    \/ CancelRun \/ RetryNode \/ ResolveNode
    \/ ClaimLapses \/ WindowEnds \/ DeadlinePasses
    \/ AnswersChange \/ \E i \in DOMAIN builds : BuildStops(i) \/ BuildEnds(i)

\* The window of a claim ends while its owner is in the middle of a pass.
CutShort == lapsed /\ pc[claim] \notin {"idle", "dead"}

\* A worker that does not end keeps polling, time passes and a Build that is stopping
\* ends (BuildCoordination!CancelledBuildEnds). The cancellation of a Build at work is
\* not refused for ever: only a lease that a drain has told to stop makes it fail, such
\* leases end (BuildCoordination!UnwantedLeaseEnds), and a Job has finitely many
\* (ExecutionsBounded). Windows are many times longer than a pass: they do not cut
\* passes short for ever. Of the output source nothing is assumed.
Fairness ==
    /\ \A w \in Workers : WF_vars(ClaimRun(w)) /\ WF_vars(Pass(w)) /\ SF_vars(Withdraw(w))
    /\ WF_vars(ClaimLapses)
    /\ WF_vars(\E i \in DOMAIN builds : CancelledBuildEnds(i))
    /\ <>[] ~ CutShort

Spec == Init /\ [][Next]_vars /\ Fairness

-----------------------------------------------------------------------------
TypeOK ==
    /\ state \in RunStates /\ cancelling \in BOOLEAN
    /\ claim \in Workers \cup {None}
    /\ lapsed \in BOOLEAN /\ touched \in BOOLEAN /\ follows \in BOOLEAN
    /\ attempts \in Seq(Attempt) /\ last \in LastFacts
    /\ builds \in Seq(BuildStates) /\ Len(builds) = Latest
    /\ answers \subseteq Calls
    /\ pc \in [Workers -> {"idle", "claimed", "observe", "dispatch", "cancel", "withdraw", "commit", "dead"}]
    /\ fresh \subseteq Workers
    /\ plan \in [Workers -> Plans \cup {None}]

\* A stop receipt is true and stays true: no Build of the Attempt is at work, and when
\* the receipt names none, none was ever accepted. A cancelled Run has no Attempt
\* without a receipt, whoever was still dispatching when it was cancelled.
StopReceiptIsTruthful ==
    /\ \A i \in 1 .. Latest : attempts[i].end \in {"failed", "cancelled"} =>
          IF attempts[i].execution THEN builds[i] \in Finished ELSE builds[i] = "none"
    /\ state = "cancelled" =>
          \A i \in 1 .. Latest : IsBuild(i) => attempts[i].end # "open"

\* After an accepted cancellation nothing starts and nothing is decided any more: no
\* Build is accepted, no Attempt is opened, completed or failed, and the Run does not
\* complete, however far a worker had come.
CancellationIsFinal ==
    [][cancelling =>
         /\ cancelling' /\ state' # "completed" /\ Latest' = Latest
         /\ \A i \in 1 .. Latest :
               /\ builds[i] = "none" => builds'[i] = "none"
               /\ attempts'[i].end # attempts[i].end => attempts'[i].end = "cancelled"]_vars

\* The Build of the open Attempt has ended and what it has used is not to be had.
Held == LastIsOpen /\ builds[Latest] \in Finished /\ "terminal_usage" \notin answers

\* A Run whose cancellation was accepted ends as cancelled, although a control hands it
\* to workers that may not observe its open Attempt yet, workers end and the cancellation
\* of its Build is refused. It is held only as long as the usage of its stopped Build is
\* unknown (local-compose-stack specification, lines 179-182: "its exact execution and
\* budget reservation remain waiting").
CancelledRunEnds == cancelling ~> (state = "cancelled" \/ Held)

\* The Build of the open Attempt has ended, and the output source has what it takes to
\* end the Attempt: the outputs of a success, the usage of anything else.
Recordable == LastIsOpen /\ builds[Latest] \in Finished /\ Asked \in answers

\* A Build that has ended is recorded in the Run: its Attempt ends as long as the output
\* source answers, although the worker that dispatched the Build is gone and the Run may
\* have waited for the answer.
FinishedBuildIsRecorded == Recordable ~> ~ Recordable
=============================================================================
