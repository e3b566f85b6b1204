CONSTANTS
    Builds = {1}
    Jobs = {1, 2, 3}
    Agents = {a1}
    Pools = {1}
    Workers = {w1}
    None = None
    BuildOf <- OneBuild
    AttemptOf <- OneAttempt
    Deps <- FanIn
    Policy <- WhenAnySucceeded
    AllowedPools <- AnyPool
    ProjectOf <- OneScope
    ConfigurationOf <- OneScope
    ProjectLimit <- Limit2
    ConfigurationLimit <- Limit2
    PoolLimit <- PoolTwo
    RetryMaxAttempts = 2
    RetriesInfrastructure = TRUE
    DrainModes = {"Forced"}
    PoolTargets = {}
    FastWorkers = {}
    Ttl = 2
    MaxAttempts = 1
    MaxLeases = 3
    MaxEvents = 0
    MaxEpoch = 2
SPECIFICATION FairSpec
INVARIANTS
    QueueMatchesReady
    CancellationPropagated
    UnfinishedBuildHasWork
    OneLeasePerAgent
PROPERTIES
    CancelledBuildEnds
    UnwantedLeaseEnds
CHECK_DEADLOCK FALSE
