CONSTANTS
    None = None
    j1 = j1
    j2 = j2
    j3 = j3
    j4 = j4
    c1 = c1
    c2 = c2
    c3 = c3
    p1 = p1
    p2 = p2
    a = a
    b = b
    x = x
    y = y
    z = z
    JobOrder <- FourJobs
    Claims = {c1, c2, c3}
    PoolOf <- ClaimPools
    ProjectOf <- JobProjects
    ConfigurationOf <- JobConfigurations
    PoolLimit <- Capacity
    ProjectLimit <- ProjectLimits
    ConfigurationLimit <- ConfigurationLimits
SPECIFICATION FairSpec
CHECK_DEADLOCK FALSE
INVARIANTS
    PlacementsAreAllowed
PROPERTY ClaimIsAnswered
