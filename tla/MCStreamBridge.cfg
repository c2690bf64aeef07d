SPECIFICATION Spec
CONSTANTS
    NBlocks = 3
    ChanCap = 2
    QueueCap = 1
    MaxRetries = 1
CHECK_DEADLOCK FALSE
INVARIANTS ReusedIsClean NothingMissing
PROPERTIES StreamEnds ReaderExits
