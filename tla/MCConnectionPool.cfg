SPECIFICATION FairSpec
CONSTANTS
    Threads = {t1, t2}
    Slots = {s1, s2, s3}
    Clients = {c1, c2, c3}
    NoSlot = NoSlot
    MinSize = 1
    MaxSize = 2
    StaleReleases = FALSE
INVARIANTS
    TypeOK
    LendingState
    BoundedGrowth
    ClosedIsEmpty
    NeverLentTwice
    NoLostWakeup
PROPERTIES
    AcquireEnds
    CreatingDrains
