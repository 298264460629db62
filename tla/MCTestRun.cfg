SPECIFICATION FairSpec
CONSTANTS
    s1 = s1
    s2 = s2
    r1 = r1
    r2 = r2
    Sandbox <- MCSandbox
    Resource <- MCResource
    ResourceNames <- MCResourceNames
    RunTests <- MCRunTests
    OsAccess = TRUE
    MaxTests = 1
    SandboxPool = 2
    ResourcePool = 1
    MaxInterrupts = 2
INVARIANTS
    TypeOK
    ReportComplete
    NoFalseSuccess
    LogsKeptOnFailure
    CleanupAfterThreads
PROPERTIES
    CutShortIsNotReported
    RunEnds
    FailureSurfaces
