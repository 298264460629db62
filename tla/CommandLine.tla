----------------------------- MODULE CommandLine -----------------------------
(***************************************************************************)
(* The command line (cli.py): a process reads its configuration and runs   *)
(* one command.  ConfigFile is the whole process with the run of its       *)
(* command as a single step; TestPlan is the choice of test cases inside   *)
(* run-tests, PrepareEnv the run of prepare-env, ShellfoundryCheck that of *)
(* check_shellfoundry_templates, and ResourceSetup what the threads of     *)
(* run-tests and prepare-env do to the resources on CloudShell.  A         *)
(* behaviour follows one of the five parts, from any configuration the     *)
(* part may be given: the parts share the program counter and the          *)
(* configuration, nothing else.                                            *)
(***************************************************************************)

CONSTANTS
    Version, ShellConf, MaxShells, ResourceConf, Test, Reason, Absent, \* ConfigFile
    Family, Command, ServerSets, MaxCommands,                          \* TestPlan
    Resources, Apps, Blueprints, ModelOf, Conf, Grid,                  \* PrepareEnv
    Template, MaxChecks,                                               \* ShellfoundryCheck
    Resource, ConfName, Foreign, ForeignName, NewName,                 \* ResourceSetup
    AdditionalPorts, ChildrenConf, MaxAutoloads,
    None                                                               \* no value

VARIABLES
    part,   \* the part of the program that the behaviour follows
    pc,     \* where the process is; in ResourceSetup, where each handler is
    conf,   \* the configuration that TestPlan and PrepareEnv are given
    errors, version, do, cs, shells, resources, heap, merged, deployments,
    disk, downloaded, exc, refused,
    family, servers, seen, testCases,
    phase, next, loaded, file, entries, xml, driverIn, created, csApps, csBps,
    sandboxes, debugRes,
    asked, folder, zip, inFolder, tested, checks, aborted,
    name, newName, success, broken, loads, renumber, passes, todo, at, origin,
    adopted, driver, tree, configured

Parsing == INSTANCE ConfigFile
Planning == INSTANCE TestPlan
Preparing == INSTANCE PrepareEnv
Checking == INSTANCE ShellfoundryCheck
Setup == INSTANCE ResourceSetup

ASSUME CommandAssumption ==
    /\ Parsing!ConfAssumption
    /\ Planning!PlanAssumption
    /\ Preparing!PrepareAssumption
    /\ Checking!CheckAssumption
    /\ Setup!NamesAreProper

parseVars == <<errors, version, do, cs, shells, resources, heap, merged, deployments,
               disk, downloaded, exc, refused>>
planVars == <<family, servers, seen, testCases>>
prepareVars == <<phase, next, loaded, file, entries, xml, driverIn, created, csApps,
                 csBps, sandboxes, debugRes>>
checkVars == <<asked, folder, zip, inFolder, tested, checks, aborted>>
setupVars == <<name, newName, success, broken, loads, renumber, passes, todo, at,
               origin, adopted, driver, tree, configured>>
vars == <<part, pc, conf, parseVars, planVars, prepareVars, checkVars, setupVars>>

\* Nothing of a part exists while the process is in another one.
NoParsing ==
    /\ errors = None /\ version = None /\ do = None /\ cs = None
    /\ shells = None /\ resources = None /\ heap = None /\ merged = None
    /\ deployments = None /\ disk = None /\ downloaded = None /\ exc = None
    /\ refused = None
NoPlanning ==
    /\ family = None /\ servers = None /\ seen = None /\ testCases = None
NoPreparing ==
    /\ phase = None /\ next = None /\ loaded = None /\ file = None
    /\ entries = None /\ xml = None /\ driverIn = None /\ created = None
    /\ csApps = None /\ csBps = None /\ sandboxes = None /\ debugRes = None
NoChecking ==
    /\ asked = None /\ folder = None /\ zip = None /\ inFolder = None
    /\ tested = None /\ checks = None /\ aborted = None
NoSetup ==
    /\ name = None /\ newName = None /\ success = None /\ broken = None
    /\ loads = None /\ renumber = None /\ passes = None /\ todo = None
    /\ at = None /\ origin = None /\ adopted = None
    /\ driver = None /\ tree = None /\ configured = None

Init ==
    \/ /\ part = "configuration" /\ conf = None
       /\ Parsing!Init /\ NoPlanning /\ NoPreparing /\ NoChecking /\ NoSetup
    \/ /\ part = "run-tests"
       /\ Planning!Init /\ NoParsing /\ NoPreparing /\ NoChecking /\ NoSetup
    \/ /\ part = "prepare-env"
       /\ Preparing!Init /\ NoParsing /\ NoPlanning /\ NoChecking /\ NoSetup
    \/ /\ part = "check_shellfoundry_templates" /\ conf = None
       /\ Checking!Init /\ NoParsing /\ NoPlanning /\ NoPreparing /\ NoSetup
    \/ /\ part = "resources" /\ conf = None
       /\ Setup!Init /\ NoParsing /\ NoPlanning /\ NoPreparing /\ NoChecking

ReadConfiguration ==
    /\ part = "configuration"
    /\ Parsing!Next
    /\ UNCHANGED <<part, conf, planVars, prepareVars, checkVars, setupVars>>

SelectTests ==
    /\ part = "run-tests"
    /\ Planning!Next
    /\ UNCHANGED <<part, parseVars, prepareVars, checkVars, setupVars>>

PrepareEnvironment ==
    /\ part = "prepare-env"
    /\ Preparing!Next
    /\ UNCHANGED <<part, parseVars, planVars, checkVars, setupVars>>

CheckTemplates ==
    /\ part = "check_shellfoundry_templates"
    /\ Checking!Next
    /\ UNCHANGED <<part, conf, parseVars, planVars, prepareVars, setupVars>>

SetUpResources ==
    /\ part = "resources"
    /\ Setup!Next
    /\ UNCHANGED <<part, conf, parseVars, planVars, prepareVars, checkVars>>

Next == \/ ReadConfiguration \/ SelectTests \/ PrepareEnvironment \/ CheckTemplates
        \/ SetUpResources

Spec == Init /\ [][Next]_vars

-----------------------------------------------------------------------------
(* The properties of the parts *)

\* The type invariant of the part that the process is in.
TypeOK ==
    /\ part = "configuration" => Parsing!TypeOK
    /\ part = "run-tests" => Planning!TypeOK
    /\ part = "prepare-env" => Preparing!TypeOK
    /\ part = "check_shellfoundry_templates" => Checking!TypeOK
    /\ part = "resources" => Setup!TypeOK

\* Every resource has the tests configuration of itself and of its own shell
\* (TestsConfig.__iadd__ changes the object in place).
MergedTests == part = "configuration" => Parsing!MergedTests

\* No file that the process makes for itself outlives it, whichever step failed:
\* neither a downloaded shell nor the temporary package of PackageApi, unless its
\* own removal was refused or interrupted, or it is what a failed download left.
FilesAreRemoved ==
    /\ part = "configuration" => Parsing!DownloadsAreRemoved
    /\ part = "prepare-env" => Preparing!NoFileLeft

\* Whatever the order of the commands, a suite has each test case once, the
\* autoload test case in front, and none whose file server is not configured,
\* TestSaveConfigWithoutDevice excepted.
SuiteIsExact == part = "run-tests" => Planning!SuiteIsExact

\* A blueprint on CloudShell has only apps that are there, of a provider that is
\* there and loaded unless the storage has deleted the resources.
BlueprintsAreDeployable == part = "prepare-env" => Preparing!BlueprintsAreDeployable

\* The shell that is tested is made from the template that was asked for.
TestedIsRequested ==
    part = "check_shellfoundry_templates" => Checking!TestedIsRequested

\* A resource of another user is renamed or deleted only if create_resource took
\* it over, or by the second finish() after a creation that failed.
ForeignIsSafe == part = "resources" => Setup!ForeignIsSafe

\* After a successful autoload() the additional ports and the attributes of the
\* children are there, whatever an earlier call left or CloudShell dropped.
LoadedIsComplete == part = "resources" => Setup!LoadedIsComplete
=============================================================================
