CONSTANTS
    None = None
    MaxLeases = 2
    MaxEvents = 2
    MaxSends = 2
    BatchRecords = 2
    Output = {}
SPECIFICATION Spec
INVARIANT
    RequeuedJobCanBeReported
CHECK_DEADLOCK FALSE
