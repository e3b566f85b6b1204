CONSTANTS
    Builds = {1}
    Jobs = {1, 2}
    Agents = {a1, a2}
    Pools = {1}
    Workers = {w1, w2}
    None = None
    BuildOf <- OneBuild
    AttemptOf <- AttemptPerJob
    Deps <- Independent
    Policy <- WhenAllSucceeded
    AllowedPools <- AnyPool
    ProjectOf <- OneScope
    ConfigurationOf <- OneScope
    ProjectLimit <- Limit2
    ConfigurationLimit <- Limit2
    PoolLimit <- PoolTwo
    RetryMaxAttempts = 3
    RetriesInfrastructure = TRUE
    DrainModes = {}
    PoolTargets = {}
    FastWorkers = {w2}
    Ttl = 1
    MaxAttempts = 2
    MaxLeases = 3
    MaxEvents = 2
    MaxEpoch = 2
SPECIFICATION Spec
SYMMETRY AgentSymmetry
INVARIANTS
    OwnershipMatchesJob
    CompletionSealsJob
    ExecutionsBounded
    FormerOwnerIsSilent
    AggregatesDerived
PROPERTIES
    JobsFollowStateMachine
    RefinesLifecycle
CHECK_DEADLOCK FALSE
