CONSTANTS
    s1 = s1
    Stream <- OneStream
    ChCap = 1
    SockCap = 1
    MaxLines <- TwoLines
SPECIFICATION FairSpec
INVARIANTS
    AuditsInTime
    HonestPlugin
    CancelNotLost
PROPERTIES
    CancelEnds
    TimeLimitEnds
    KeepsPromise
\* Requests are bounded: when all are served nothing is left to do.
CHECK_DEADLOCK FALSE
