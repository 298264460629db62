SPECIFICATION FairSpec
CONSTANTS
    s1 = s1
    s2 = s2
    r1 = r1
    r2 = r2
    d = d
    Sandbox <- BorrowedSandbox
    Resource <- BorrowedResource
    ResourceNames <- BorrowedNames
    RunTests <- BorrowedTests
    Connectivity <- BorrowedTests
    SetupCommands = {r1}
    TeardownCommands = {r1}
    NoSandbox = NoSandbox
    Nobody = Nobody
INVARIANTS
    OneAutoload
    ConnectedIsSound
    PartnerReturned
    StaysAttached
PROPERTIES
    JobsEnd
