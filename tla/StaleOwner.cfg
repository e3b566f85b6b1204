CONSTANTS
    Builds = {1}
    Jobs = {1}
    Agents = {a1, a2}
    Pools = {1}
    Workers = {w1}
    None = None
    BuildOf <- OneBuild
    AttemptOf <- OneAttempt
    Deps <- Independent
    Policy <- WhenAllSucceeded
    AllowedPools <- AnyPool
    ProjectOf <- OneScope
    ConfigurationOf <- OneScope
    ProjectLimit <- Limit2
    ConfigurationLimit <- Limit2
    PoolLimit <- PoolTwo
    RetryMaxAttempts = 2
    RetriesInfrastructure = TRUE
    DrainModes = {}
    PoolTargets = {}
    FastWorkers = {}
    Ttl = 1
    MaxAttempts = 1
    MaxLeases = 2
    MaxEvents = 0
    MaxEpoch = 1
SPECIFICATION Spec
SYMMETRY AgentSymmetry
INVARIANT
    StaleOwnerIsFenced
CHECK_DEADLOCK FALSE
