SPECIFICATION CallSpec
CONSTANTS
    Threads = {t1, t2}
    Slots = {s1, s2}
    Clients = {c1, c2, c3}
    NoSlot = NoSlot
    NoClient = NoClient
    MinSize = 0
    MaxSize = 1
    StaleReleases = TRUE
SYMMETRY Symmetry
INVARIANTS
    OneTaskPerClient
    NoSlotLeaks
PROPERTY KeepsDiscipline
