--------------------------- MODULE BuildLifecycle ---------------------------
(***************************************************************************)
(* What the server promises about a Build to the callers that start, watch *)
(* and cancel it, with no mention of Jobs, leases or Agents:               *)
(*                                                                         *)
(*  - an accepted Build runs and ends once per Attempt;                    *)
(*  - an accepted cancellation is final: the Build ends as cancelled and   *)
(*    in no other way, and is not run again;                               *)
(*  - only a failed Build is run again, and as the next Attempt.           *)
(*                                                                         *)
(* Module BuildCoordination implements this specification.                 *)
(***************************************************************************)
EXTENDS Naturals

CONSTANTS Builds, None, MaxAttempts

VARIABLES
    state,       \* None, "Running", or how the Build ended
    attempts,    \* number of Attempts begun
    cancelled    \* Builds whose cancellation was accepted

lifecycleVars == <<state, attempts, cancelled>>

Init ==
    /\ state = [b \in Builds |-> None]
    /\ attempts = [b \in Builds |-> 0]
    /\ cancelled = {}

\* A trigger is accepted.
Start(b) ==
    /\ state[b] = None
    /\ state' = [state EXCEPT ![b] = "Running"]
    /\ attempts' = [attempts EXCEPT ![b] = 1]
    /\ UNCHANGED cancelled

\* The current Attempt ends.
Finish(b, outcome) ==
    /\ state[b] = "Running"
    /\ (b \in cancelled) => (outcome = "Cancelled")
    /\ state' = [state EXCEPT ![b] = outcome]
    /\ UNCHANGED <<attempts, cancelled>>

\* Cancellation is accepted; it ends the Build at once when nothing is running.
Cancel(b) ==
    /\ state[b] = "Running"
    /\ b \notin cancelled
    /\ cancelled' = cancelled \cup {b}
    /\ \E next \in {"Running", "Cancelled"} : state' = [state EXCEPT ![b] = next]
    /\ UNCHANGED attempts

\* A failed Build is retried.
Retry(b) ==
    /\ state[b] = "Failed"
    /\ b \notin cancelled
    /\ attempts[b] < MaxAttempts
    /\ state' = [state EXCEPT ![b] = "Running"]
    /\ attempts' = [attempts EXCEPT ![b] = @ + 1]
    /\ UNCHANGED cancelled

Next ==
    \E b \in Builds :
        \/ Start(b)
        \/ \E outcome \in {"Succeeded", "Failed", "Cancelled"} : Finish(b, outcome)
        \/ Cancel(b)
        \/ Retry(b)

Spec == Init /\ [][Next]_lifecycleVars
=============================================================================
