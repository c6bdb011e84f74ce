CONSTANTS
    N = 5
    Offline = {2, 3}
    Contributions = 3
    UpdateCount = 2
    FastPath = 2
    LinearTimeout = TRUE
    Shuffles = FALSE
    MaxQueued = 2
    Interleaved = {}
SPECIFICATION MCSpec
INVARIANTS
    QuietAfterAllContacted
    RestsOnlyWhenAggregated
PROPERTY HandelIsAggregation
CHECK_DEADLOCK FALSE
