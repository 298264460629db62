---------------------------- MODULE MCCommandLine ----------------------------
(***************************************************************************)
(* TLC instance of CommandLine.  Configuration: versions around both       *)
(* limits, shells a and b, from a local file, one URL or two, and          *)
(* resources of them.  run-tests: all families, and the commands of the    *)
(* tables that behave differently.  prepare-env: two cloud providers and   *)
(* two apps, whose deployment paths name the model in front, alone, twice, *)
(* elsewhere or not at all, and a blueprint with more apps than default    *)
(* positions.  Templates: three checks of two templates in one folder.     *)
(* Resources: two whose names collide once an index is added, and a        *)
(* resource of another user on the same names.                             *)
(***************************************************************************)
EXTENDS CommandLine, TLC

CONSTANTS t1, why, because, Vcenter, Aws, Web, Db, Small, Large, Unknown, p1, p2, r1, r2, f1

Ef(r) == [t \in Test |-> r]

MCVersions == {<<>>, <<0, 9>>, <<0, 16>>, <<0, 16, 1>>, <<1, 14>>, <<0, 13>>}

ShellTests == {[ef |-> Ef(Absent), run |-> Absent], [ef |-> Ef(why), run |-> FALSE]}

MCShells == [name : {"a"}, file : {"local", "http"}, tests : ShellTests]
            \cup [name : {"b"}, file : {"http", "https"}, tests : ShellTests]

ResourceTests ==
    {[section |-> FALSE, ef |-> Ef(Absent), run |-> Absent],
     [section |-> TRUE, ef |-> Ef(because), run |-> Absent],
     [section |-> TRUE, ef |-> Ef(Absent), run |-> TRUE]}

MCResourceConf == [shell_name : {"a", "b"}, tests : ResourceTests]

MCFamilies ==
    {"CS_Firewall", "CS_LoadBalancer", "CS_Router", "CS_Switch",
     "CS_TrafficGeneratorChassis", "CS_VirtualTrafficGeneratorChassis",
     "CS_TrafficGeneratorController", "CS_GenericAppFamily", "CS_GenericResource"}

MCCommands ==
    {"autoload", "run_custom_command", "run_custom_config_command", "save",
     "orchestration_save", "restore", "applyconnectivitychanges", "load_config",
     "get_statistics", "health_check"}

MCServers == {{}, {"ftp"}, {"scp", "tftp"}, {"ftp", "scp", "tftp"}}

MCResources == <<Vcenter, Aws>>
MCApps == <<Web, Db>>
MCBlueprints == <<Small, Large>>
MCModelOf == (Vcenter :> "VC") @@ (Aws :> "AWS")

CpOf == {(Web :> Vcenter) @@ (Db :> p) : p \in {Vcenter, Aws, Unknown}}
Deployment == {(Web :> <<"VC", "clone">>) @@ (Db :> d) :
                    d \in {<<"image">>, <<"AWS", "image">>, <<"AWS">>, <<"AWS", "AWS">>,
                           <<"AMI", "AWS">>}}
AppNames == {(Small :> <<Web>>) @@ (Large :> n) :
                n \in {<<>>, <<Web, Db, Web, Db, Web>>, <<Web, Unknown>>}}

MCConf == [cpOf : CpOf, deployment : Deployment, appNames : AppNames]
MCGrid == {<<0, 0>>, <<20, 0>>, <<600, 340>>, <<1100, 340>>}

MCConfName == (r1 :> <<"a">>) @@ (r2 :> <<"a", 1>>)
MCForeignName == {<<"a">>, <<"b">>, <<"b", 1>>}
MCNewName == {<<"b">>}
MCAdditionalPorts == (r1 :> <<"p1", "p2">>) @@ (r2 :> <<>>)
MCMaxAutoloads == (r1 :> 2) @@ (r2 :> 0)
MCChildrenConf == (r1 :> {<<"Chassis 1", "p2">>}) @@ (r2 :> {})
=============================================================================
