SPECIFICATION Spec
CONSTANTS
    s1 = s1
    s2 = s2
    r1 = r1
    r2 = r2
    d = d
    Sandbox <- TestedSandbox
    Resource <- TestedResource
    ResourceNames <- TestedNames
    RunTests <- TestedTests
    Connectivity <- TestedTests
    SetupCommands = {r1}
    TeardownCommands = {r1}
    NoSandbox = NoSandbox
    Nobody = Nobody
INVARIANTS
    StaysAttached
