SPECIFICATION Spec
CONSTANTS
    MaxBlockRows = 2
    MaxBlockColumns = 2
    MaxDynamicItems = 2
    MaxStringBytes = 1
    TypeTable <- MCTypeTable
    Types <- MCTypes
    MaxRows = 2
    MaxBytes = 60
    MaxJsonBytes = 28
    MaxHeaderBytes = 16
INVARIANTS
    SkipEndsWhereReadersEnd
    DiscardEndsWhereReadEnds
    RawReadersAgree
    SameData
    BlockReadersAgree
    TypedReadsColumn
    DecodersAgree
CHECK_DEADLOCK FALSE
