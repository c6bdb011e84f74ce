CONSTANTS
    Origin = {"0", "1", "2"}
    Zero = "0"
    Nil = "nil"
    Threshold = 2
    MaxPending = 2
SPECIFICATION Spec
INVARIANTS
    TroubleOnlyAfterOutput
    GivenOutIsValid
PROPERTY EventuallyOutput
CHECK_DEADLOCK FALSE
