SPECIFICATION FairSpec
CONSTANTS
    a1 = a1
    a2 = a2
    Cs = Cs
    App <- Apps
    KnownApps <- Apps
    CsOnDo = TRUE
    DeleteCs = TRUE
    CsInConfig = FALSE
    MaxAttempts = 3
    Pool = 2
    EndFaults = TRUE
    MaxInterrupts = 2
INVARIANTS
    PreparedIsComplete
    PrepareErrorKept
PROPERTIES
    ImplementsLease
    DoEnds
