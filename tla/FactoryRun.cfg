CONSTANTS
    Workers = {w1, w2}
    Mortal = {w2}
    Kind <- BuildThenGate
    MaxRetries = 1
    None = None
SPECIFICATION Spec
INVARIANTS
    StopReceiptIsTruthful
PROPERTIES
    CancellationIsFinal
    CancelledRunEnds
    FinishedBuildIsRecorded
CHECK_DEADLOCK FALSE
