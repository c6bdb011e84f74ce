CONSTANTS
    Slave = {a, b}
    Master = Master
    ID = {0, 1}
    Permille = {500, 995}
SPECIFICATION Spec
INVARIANT RaceNeedsStraggler
PROPERTIES
    SyncIsBarrier
    AllAreReleased
CHECK_DEADLOCK FALSE
