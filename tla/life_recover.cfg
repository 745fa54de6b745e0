CONSTANTS
    MaxProc = 2
    EnvFails = FALSE
SPECIFICATION FairSpec
PROPERTIES
    Recovers
\* Restarts are bounded, and Stop ends everything.
CHECK_DEADLOCK FALSE
