CONSTANTS
    Strategies = {"next"}
    PoolSizes = {5}
    Requests = {1, 2, 3, 6}
    MaxBlocks = 5
    MaxPtr = 18
SPECIFICATION Spec
INVARIANTS CursorReachesFree
CHECK_DEADLOCK FALSE
