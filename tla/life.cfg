CONSTANTS
    MaxProc = 3
    EnvFails = TRUE
SPECIFICATION FairSpec
INVARIANTS
    OneProcess
    Supervised
    StopLeavesNothing
PROPERTIES
    Supervises
    HealthSettles
    StopReturns
\* Restarts are bounded, and Stop ends everything.
CHECK_DEADLOCK FALSE
