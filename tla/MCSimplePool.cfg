SPECIFICATION Spec

CONSTANTS
    Tasks = {t1, t2, t3}
    NumSlots = 2
    MaxGen = 0
    MaxPending = 2
    MidResponseErrors = FALSE
    PollAfterAbort = FALSE

SYMMETRY TaskSymmetry

INVARIANT TypeOK
INVARIANT NoPoisonedReuse
INVARIANT ReadsOwnReply
