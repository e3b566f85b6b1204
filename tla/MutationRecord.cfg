CONSTANTS
    None = None
    Declined = Declined
    c1 = c1
    c2 = c2
    c3 = c3
    c4 = c4
    c5 = c5
    q1 = q1
    q2 = q2
    Calls = {c1, c2, c3, c4, c5}
    RequestOf <- SameKey
    Sealed = {q1}
    MaxVersion = 3
    RejectedAt = {1}
SPECIFICATION MutationFairSpec
CHECK_DEADLOCK FALSE
PROPERTIES
    ImplementsOnceOnly
    EveryCallIsAnswered
