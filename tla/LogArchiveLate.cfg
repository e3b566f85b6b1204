CONSTANTS
    None = None
    Appends = {h1, h2}
    Cleaners = {k1, k2}
    OrphanAttempts = 2
    MaxFaults = 2
SPECIFICATION ArchiveSpec
CHECK_DEADLOCK FALSE
INVARIANT CommittedIsStored
