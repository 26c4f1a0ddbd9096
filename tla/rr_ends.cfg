SPECIFICATION FairSpec
CONSTANTS
    NumThreads = 2
    QueueSize = 3
    Iterations = 1
    Policy = "rr"
    CreateMayFail = FALSE
CHECK_DEADLOCK FALSE
PROPERTIES
    SchedulerReturns
