SPECIFICATION Spec

CONSTANTS
    Tasks = {t1, t2}
    NumSlots = 2
    MaxGen = 1
    MaxPending = 2
    MidResponseErrors = TRUE
    PollAfterAbort = FALSE

SYMMETRY TaskSymmetry

INVARIANT NoPoisonedReuse
