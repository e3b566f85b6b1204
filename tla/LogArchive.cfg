CONSTANTS
    None = None
    Appends = {h1, h2, h3}
    Cleaners = {k1, k2}
    OrphanAttempts = 2
    MaxFaults = 2
SPECIFICATION ArchiveFairSpec
CHECK_DEADLOCK FALSE
PROPERTIES
    CommittedStaysStored
    AnnouncedOrphanIsRemoved
