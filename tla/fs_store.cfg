SPECIFICATION Spec
CONSTANTS
    NumFiles = 2
    OpenFiles = 2
    MetaBlocks = 4
    DataBlocks = 2
    BlockSize = 2
    ByteBase = 256
    Names = {"a"}
    Values = {x, y}
    MaxBytes = 2
    Calls = {}
SYMMETRY Interchangeable
INVARIANTS BlocksOwned
PROPERTIES StoreSpec
