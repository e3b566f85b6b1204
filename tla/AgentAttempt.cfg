CONSTANTS
    None = None
    MaxRecords = 1
    BatchRecords = 1
    ChannelCapacity = 1
    MaxItems = 1
SPECIFICATION FairSpec
INVARIANTS
    CompletionIsFinal
    EventsFollowJournal
PROPERTY
    AttemptEnds
CHECK_DEADLOCK FALSE
