CONSTANTS
    None = None
    MaxRecords = 1
    BatchRecords = 1
    ChannelCapacity = 1
    MaxItems = 1
SPECIFICATION LossSpec
PROPERTY
    CoordinatorLossEndsAttempt
CHECK_DEADLOCK FALSE
