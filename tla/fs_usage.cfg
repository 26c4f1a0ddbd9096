SPECIFICATION Spec
CONSTANTS
    NumFiles = 1
    OpenFiles = 1
    MetaBlocks = 4
    DataBlocks = 2
    BlockSize = 2
    ByteBase = 256
    Names = {"a"}
    Values = {1}
    MaxBytes = 2
    Calls = {"remount"}
CHECK_DEADLOCK FALSE
INVARIANTS UsageLoaded
