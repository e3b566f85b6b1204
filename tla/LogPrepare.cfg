CONSTANTS
    None = None
    MaxLeases = 1
    MaxEvents = 2
    MaxSends = 2
    BatchRecords = 2
    Output = {1, 2}
SPECIFICATION Spec
INVARIANT
    PreparationStaysValid
CHECK_DEADLOCK FALSE
