SPECIFICATION Spec
CONSTANTS
    NBlocks = 2
    ChanCap = 1
    QueueCap = 1
    MaxRetries = 1
CHECK_DEADLOCK FALSE
INVARIANT EachBlockOnce
