CONSTANTS
    None = None
    b1 = b1
    b2 = b2
    c1 = c1
    c2 = c2
    Builds = {b1}
    Chunks = {c1, c2}
    BuildOf <- OneBuild
    IndexWorkers = {w1, w2}
    RetentionWorkers = {r1}
    MaxAttempts = 2
    ObjectLimit = 1
    MaxDisturbances = 0
SPECIFICATION Spec
SYMMETRY Symmetry
CHECK_DEADLOCK FALSE
INVARIANT DeadLetterIsFailure
