CONSTANTS
    None = None
    MaxLeases = 1
    MaxEvents = 2
    MaxSends = 2
    BatchRecords = 2
    Output = {1}
SPECIFICATION Spec
INVARIANT
    RepeatedBatchIsAcknowledged
CHECK_DEADLOCK FALSE
