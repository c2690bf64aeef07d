SPECIFICATION Spec
CONSTANTS
    MaxBlockRows = 2
    MaxBlockColumns = 1
    MaxDynamicItems = 2
    MaxStringBytes = 1
    TypeTable <- MCTypeTable
    MaxFrameSize = 11
    MaxBlockBytes = 10
    MaxPartUuids = 1
    MaxChainDepth = 2
    MaxResponseSize = 2
    Revisions = {54459, 54461, 54464, 54483}
    LaterTypes = {1, 5}
    MaxPackets = 3
    MaxBytes = 102
INVARIANTS
    SyncReadersAgree
    AsyncReadersAgree
    DrainsEndWhereReadersEnd
    ClientsAgree
    StructureEndsBehindFirstBlock
    StreamAgrees
CHECK_DEADLOCK FALSE
