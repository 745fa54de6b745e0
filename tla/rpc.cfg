CONSTANTS
    c1 = c1
    c2 = c2
    Call <- TwoCalls
    SockCap = 1
    MaxNotes = 1
SPECIFICATION FairSpec
INVARIANTS
    NoCallForgotten
    OwnReply
    NoOrphanPending
    ClosedOnce
PROPERTIES
    AbandonedReturns
    EveryCallReturns
\* Calls are bounded: when all have returned nothing is left to do.
CHECK_DEADLOCK FALSE
