CONSTANTS
    NLevels = 3
    MaxSigs = 2
    ChanCap = 1
SPECIFICATION Spec
INVARIANTS
    NeverSendsOnClosedOut
    LittleAfterStop
PROPERTY StopEndsRoutines
CHECK_DEADLOCK FALSE
