SPECIFICATION BSpec
CONSTANTS
    NumThreads = 3
    QueueSize = 2
    Iterations = 1
    Policy = "rr"
    CreateMayFail = TRUE
CHECK_DEADLOCK FALSE
INVARIANTS
    SlotAccounting
    NeverDoneEarly
    GrantAccounting
    AtMostQueueSizeOnCpu
    WaitersStayQueued
    BoundedBypass
PROPERTIES
    SlotsSpec
    SomeWorkerFinishes
