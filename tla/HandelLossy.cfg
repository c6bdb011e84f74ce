CONSTANTS
    N = 2
    Offline = {}
    Contributions = 2
    UpdateCount = 1
    FastPath = 2
    LinearTimeout = TRUE
    Shuffles = FALSE
    MaxQueued = 2
SPECIFICATION LossySpec
PROPERTY EventuallyAggregated
CHECK_DEADLOCK FALSE
