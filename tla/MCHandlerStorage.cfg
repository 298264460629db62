SPECIFICATION FairSpec
CONSTANTS
    s1 = s1
    s2 = s2
    s3 = s3
    r1 = r1
    r2 = r2
    r3 = r3
    h1 = h1
    h2 = h2
    Sandbox <- MCSandbox
    Resource <- MCResource
    Shell <- MCShell
    ResourceNames <- MCResourceNames
    RunTests <- MCRunTests
    ShellMaps <- MCShellMaps
    NoShell = noShell
    MainThread = main
    Nobody = nobody
    DescriptorLock = TRUE
    CreateFaults = TRUE
    DeleteFaults = TRUE
    MaxInterrupts = 1
INVARIANTS
    LookupComplete
    NoDeleteUnderTest
    OnlyAbandonedStays
PROPERTIES
    StorageRunEnds
