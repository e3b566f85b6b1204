CONSTANTS
    None = None
    MaxLeases = 2
    MaxEvents = 3
    MaxSends = 2
    BatchRecords = 3
    Output = {2}
SPECIFICATION Spec
INVARIANTS
    AcknowledgedIsStored
    OwnStreamIsAccepted
CHECK_DEADLOCK FALSE
