SPECIFICATION ShareSpec
CONSTANTS
    h1 = h1
    h2 = h2
    h3 = h3
    Shell = {h1, h2, h3}
    Packages <- MCPackages
    Standards <- MCStandards
    t1 = t1
    t2 = t2
    Thread = {t1, t2}
    Calls <- MCCalls
    Clearing = 2
    Nobody = Nobody
    MaxAttempts = 2
    MaxFaults = 2
    SmbFaults = TRUE
    CsFaults = TRUE
INVARIANTS
    PackagesInPlace
    PypiIsCleared
    SessionIsConnected
    SmbFailureHasCause
