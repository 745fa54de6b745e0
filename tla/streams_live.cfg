CONSTANTS
    s1 = s1
    s2 = s2
    Stream <- TwoStreams
    Cap = 1
    MaxEvents <- TwoAndOne
    MaxEarly = 1
    MaxGen = 1
    Faults <- NoFaults
SPECIFICATION FairSpec
INVARIANTS
    PendingHygiene
PROPERTIES
    Promised
    GoneEnds
    EndedEnds
\* Requests are bounded: when all are served nothing is left to do.
CHECK_DEADLOCK FALSE
