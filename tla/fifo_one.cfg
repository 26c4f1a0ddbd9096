SPECIFICATION TSpec
CONSTANTS
    NumThreads = 3
    QueueSize = 1
    Iterations = 1
    Policy = "fifo"
    CreateMayFail = FALSE
INVARIANTS
    TypeOK
    CountExact
    NothingFreedInUse
    FifoVerdict
PROPERTIES
    LineSpec
    Terminates
