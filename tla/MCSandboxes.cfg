SPECIFICATION FairSpec
CONSTANTS
    s1 = s1
    s2 = s2
    r1 = r1
    r2 = r2
    None = None
    Sandbox = {s1, s2}
    WithBlueprint = {s1, s2}
    Gap = {s2}
    Resource = {r1, r2}
    UsedBy <- MCUsedBy
    MaxStartPolls = 2
    MaxEndPolls = 2
INVARIANTS
    TestedIsSetUp
    HeldExists
    OthersAreEnded
PROPERTIES
    SandboxesImplementLease
    SandboxRunEnds
