CONSTANTS
    CpuConfig <- MCCpuConfig
    DmaConfig <- MCDmaConfig
    MemorySize = 4
    Values = {1}
SPECIFICATION Spec
INVARIANT RestoredShadowIsMemory
PROPERTY AllDone
CHECK_DEADLOCK FALSE
