SPECIFICATION Spec
CONSTANTS
    j1 = j1
    j2 = j2
    c1 = c1
    c2 = c2
    c3 = c3
    c4 = c4
    Job = {j1}
    Suite <- LoneSuite
    Conn = {c1, c2, c3, c4}
    NoConn = NoConn
    MaxAttempts = 10
    FtpLogin = FALSE
    Faults = FALSE
INVARIANTS
    DeadSessionIsReplaced
