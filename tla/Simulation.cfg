CONSTANTS
    Proc = {0, 1}
    Master = Master
    ID = {0, 1, 2, 3}
    Permille = {500, 995}
    Nodes <- Few
    Allocators = {"round"}
    Platforms = {"localhost", "aws"}
    Runs = 3
SPECIFICATION Spec
CONSTRAINT Bounded
INVARIANTS
    EndMeansRecorded
    CleanFinish
    RowsAreOfTheirRun
PROPERTY
    PortKeptByAnEarlierRun
CHECK_DEADLOCK FALSE
