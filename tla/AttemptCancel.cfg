CONSTANTS
    None = None
    MaxRecords = 1
    BatchRecords = 1
    ChannelCapacity = 1
    MaxItems = 1
SPECIFICATION Spec
INVARIANT
    CancellationStillFlushes
CHECK_DEADLOCK FALSE
