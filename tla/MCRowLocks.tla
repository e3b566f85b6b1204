----------------------------- MODULE MCRowLocks -----------------------------
(* Instances of RowLocks: two Jobs and one transaction of each operation.    *)
EXTENDS RowLocks, TLC

CONSTANTS j1, j2, claim, heartbeat, append, complete, cancel, recover, drain

TwoJobs == <<j1, j2>>
TwoLeases == <<First, claim>>

Operations ==
    (claim :> "claim") @@ (heartbeat :> "heartbeat") @@ (append :> "append") @@
    (complete :> "complete") @@ (cancel :> "cancel") @@ (recover :> "recover") @@ (drain :> "drain")

Everything == {Tx}

\* What is done to a Build and its Jobs; and what is done to a lease and its Agent.
OwnershipAndFleet == {{claim, append, complete, cancel, recover}, {heartbeat, append, cancel, recover, drain}}
=============================================================================
