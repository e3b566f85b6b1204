CONSTANTS
    Jobs = {1, 2, 3}
    InputStates = {"Blocked", "Ready", "Cancelling", "Succeeded", "Failed"}
SPECIFICATION FairSpec
INVARIANTS
    ReturnsFixedPoint
    ValidationIsExact
PROPERTY
    Terminates
CHECK_DEADLOCK FALSE
