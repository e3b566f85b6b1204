CONSTANTS
    None = None
    First = First
    j1 = j1
    j2 = j2
    claim = claim
    heartbeat = heartbeat
    append = append
    complete = complete
    cancel = cancel
    recover = recover
    drain = drain
    JobOrder <- TwoJobs
    LeaseOrder <- TwoLeases
    Owned = j1
    KindOf <- Operations
    MaxRequeues = 1
    Tx = {claim, heartbeat, append, complete, cancel, recover, drain}
    Together <- OwnershipAndFleet
SPECIFICATION FairSpec
CHECK_DEADLOCK FALSE
INVARIANTS
    OverlapIsHarmless
    CycleLeavesLockOrder
PROPERTY TransactionsEnd
