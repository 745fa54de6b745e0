CONSTANTS
    s1 = s1
    s2 = s2
    Stream <- OneStream
    Cap = 1
    MaxEvents <- TwoEach
    MaxEarly = 1
    MaxGen = 2
    Faults <- CrashOnly
SPECIFICATION FairSpec
PROPERTIES
    CrashEnds
\* Requests are bounded: when all are served nothing is left to do.
CHECK_DEADLOCK FALSE
