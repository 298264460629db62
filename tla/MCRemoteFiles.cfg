SPECIFICATION Spec
CONSTANTS
    j1 = j1
    j2 = j2
    c1 = c1
    c2 = c2
    c3 = c3
    c4 = c4
    Job = {j1, j2}
    Suite <- SeparateSuite
    Conn = {c1, c2, c3, c4}
    NoConn = NoConn
    MaxAttempts = 2
    FtpLogin = TRUE
    Faults = TRUE
INVARIANTS
    PassedLeavesNoFile
    RestoreCleansUp
    FailureHasCause
