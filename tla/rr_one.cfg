SPECIFICATION TSpec
CONSTANTS
    NumThreads = 3
    QueueSize = 1
    Iterations = 2
    Policy = "rr"
    CreateMayFail = FALSE
INVARIANTS
    RrVerdict
PROPERTIES
    RrEndsOrLate
CHECK_DEADLOCK FALSE
