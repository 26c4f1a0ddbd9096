SPECIFICATION FairSpec
CONSTANTS
    NumProducers = 2
    NumConsumers = 2
    BufferSize = 3
    Items = {i1, i2}
    NoItem = NoItem
    CreateMayFail = TRUE
INVARIANTS
    MutualExclusion
    Contiguous
    FreedLast
PROPERTIES
    BufferSpec
    Shutdown
