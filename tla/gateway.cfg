CONSTANTS
    r1 = r1
    Request <- OneRequest
    Hours <- HourStrings
    Retention = 0
    FullRetention = 0
    Files <- AllFiles
    Asks <- AllAsks
    MaxEvents = 1
    MaxBoots = 2
    MaxFails = 1
    MaxAge = 1
SPECIFICATION FairSpec
INVARIANTS
    ServesReady
    RowKept
    NoOrphans
PROPERTIES
    ReadWhole
    OldGoes
\* A gateway that is down may stay down.
CHECK_DEADLOCK FALSE
