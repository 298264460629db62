SPECIFICATION Spec
CONSTANTS
    j1 = j1
    j2 = j2
    c1 = c1
    c2 = c2
    c3 = c3
    c4 = c4
    Job = {j1, j2}
    Suite <- SharedSuite
    Conn = {c1, c2, c3, c4}
    NoConn = NoConn
    MaxAttempts = 10
    FtpLogin = TRUE
    Faults = FALSE
INVARIANTS
    FailureHasCause
