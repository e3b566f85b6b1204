CONSTANTS
    None = None
    b1 = b1
    b2 = b2
    c1 = c1
    c2 = c2
    Builds = {b1}
    Chunks = {c1, c2}
    BuildOf <- OneBuild
    IndexWorkers = {w1}
    RetentionWorkers = {r1, r2}
    MaxAttempts = 2
    ObjectLimit = 1
    MaxDisturbances = 1
SPECIFICATION FairSpec
CHECK_DEADLOCK FALSE
INVARIANTS
    FreshnessIsTruthful
    ReachableIsReadable
PROPERTIES
    HiddenLogsAreDeleted
    ProjectionCatchesUp
