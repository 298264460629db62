SPECIFICATION Spec
CONSTANTS
    None = None
    t1 = t1
    why = why
    because = because
    Absent = Absent
    Version <- MCVersions
    ShellConf <- MCShells
    MaxShells = 2
    ResourceConf <- MCResourceConf
    Test = {t1}
    Reason = {why, because}
    Family <- MCFamilies
    Command <- MCCommands
    ServerSets <- MCServers
    MaxCommands = 3
    Vcenter = Vcenter
    Aws = Aws
    Web = Web
    Db = Db
    Small = Small
    Large = Large
    Unknown = Unknown
    Resources <- MCResources
    Apps <- MCApps
    Conf <- MCConf
    ModelOf <- MCModelOf
    Blueprints <- MCBlueprints
    Grid <- MCGrid
    p1 = p1
    p2 = p2
    Template = {p1, p2}
    MaxChecks = 3
    r1 = r1
    r2 = r2
    f1 = f1
    Resource = {r1, r2}
    Foreign = {f1}
    ConfName <- MCConfName
    ForeignName <- MCForeignName
    NewName <- MCNewName
    AdditionalPorts <- MCAdditionalPorts
    ChildrenConf <- MCChildrenConf
    MaxAutoloads <- MCMaxAutoloads
INVARIANTS
    MergedTests
    FilesAreRemoved
    SuiteIsExact
    BlueprintsAreDeployable
    TestedIsRequested
    ForeignIsSafe
    LoadedIsComplete
