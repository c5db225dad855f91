SPECIFICATION Spec
CONSTANTS
    VpnBits = 2
    Registers = {1}
    TxnSpace = 26
    Configs <- MCConfigs
    Ptes <- MCPtes
    LoadData <- MCLoadData
INVARIANT OneEventPending
INVARIANT RestoreAccepts
INVARIANT WalkIsReference
PROPERTY ReturnsWhereInterrupted
PROPERTY PrivilegeConfined
