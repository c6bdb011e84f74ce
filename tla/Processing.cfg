CONSTANTS
    Id = 0
    N = 4
    MaxAdds = 3
    OutCap = 1
SPECIFICATION FairSpec
INVARIANTS
    NothingBetterDiscarded
PROPERTIES
    EventuallyDrained
    StopEndsLoops
CHECK_DEADLOCK FALSE
