SPECIFICATION FairSpec

CONSTANTS
    Tasks = {t1, t2}
    NumSlots = 2
    MaxGen = 1
    MaxPending = 1
    MidResponseErrors = TRUE
    PollAfterAbort = TRUE

INVARIANT CurrentConfig
INVARIANT InUseCountsGuards
INVARIANT StreamMutDefined

PROPERTY WaitEnds
