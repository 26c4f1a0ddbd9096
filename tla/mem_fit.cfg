CONSTANTS
    Strategies = {"first", "best", "worst"}
    PoolSizes = {3, 6}
    Requests = {1, 2, 3, 4, 7}
    MaxBlocks = 7
    MaxPtr = 6
SPECIFICATION Spec
INVARIANTS Tiling StatusExact
PROPERTIES Placement PoolSpec
CHECK_DEADLOCK FALSE
