SPECIFICATION Spec
CONSTANTS
    NumAddrs = 2
    MaxCalls = 3
    MaxBlocks = 2
    Budget = 1
INVARIANT OwnReply
INVARIANT InsertUndisturbed
INVARIANT CacheFresh
INVARIANT EscapesAlive
PROPERTY SetupEnds
CHECK_DEADLOCK FALSE
