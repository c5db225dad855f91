CONSTANTS
    Maps <- MCMaps
    RamSize = 3
    PAGE = 2
    Images <- MCImages
    Capacity = 3
    BLOCK = 2
    BadBlocks = {2}
    DiskImages <- MCDiskImages
    Txns = {1, 2}
    MemRequests <- MCMemRequests
    DiskRequests <- MCDiskRequests
    MaxRequests = 3
    AddrMax = 15
SPECIFICATION Spec
INVARIANT Served
INVARIANT RestoreAccepts
PROPERTY Answered
CHECK_DEADLOCK FALSE
