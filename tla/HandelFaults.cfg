CONSTANTS
    N = 3
    Offline = {1}
    Contributions = 2
    UpdateCount = 1
    FastPath = 2
    LinearTimeout = TRUE
    Shuffles = TRUE
    MaxQueued = 2
    MaxFaults = 1
SPECIFICATION FSpec
INVARIANTS
    OutputUpToDate
    CompletedIsComplete
PROPERTIES
    AggregatedUnlessLost
    EventuallyQuiescent
CHECK_DEADLOCK FALSE
