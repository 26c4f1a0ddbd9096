SPECIFICATION Spec
CONSTANTS
    NumFiles = 2
    OpenFiles = 1
    MetaBlocks = 4
    DataBlocks = 2
    BlockSize = 1
    ByteBase = 4
    Names = {"a"}
    Values = {1}
    MaxBytes = 2
    Calls = {"remount", "truncate", "straddle", "delete_open", "kill"}
CHECK_DEADLOCK FALSE
INVARIANTS TypeOK WriteThrough
