---------------------------- MODULE PrepareEnv ----------------------------
(***************************************************************************)
(* AutomatedPrepareEnv.run, which leaves an environment on CloudShell for  *)
(* work by hand: the debug log level, the resources and their autoload,    *)
(* the apps and the blueprints, each imported as a package that is built   *)
(* in a temporary file (PackageApi), and the sandboxes.  Every step may    *)
(* raise; what is undone then are the package, by its with statement, and  *)
(* the resources and sandboxes, by the finish() of the handler storage.    *)
(***************************************************************************)
EXTENDS Naturals, Sequences, FiniteSets

CONSTANTS
    Resources,     \* conf.resources_conf: a sequence
    Apps,          \* conf.apps_conf: a sequence of app names
    Blueprints,    \* conf.blueprints_conf: a sequence of blueprint names
    ModelOf,       \* the model of each resource
    Conf,          \* the rest of the configurations to prepare: records with
                   \* cpOf (cp_resource_name of each app), deployment (of each
                   \* app, split at the dots), appNames (of each blueprint)
    Grid           \* the positions _generate_random may return

Members(s) == {s[i] : i \in DOMAIN s}

\* Assumed by CommandLine.
PrepareAssumption ==
    /\ \A c \in Conf : \A a \in Members(Apps) :
          c.deployment[a] \in Seq(STRING) \ {<<>>}
    /\ Resources \in Seq(Members(Resources))
    /\ Apps \in Seq(Members(Apps)) /\ Blueprints \in Seq(Members(Blueprints))
    /\ Cardinality(Members(Apps)) = Len(Apps)
    /\ Cardinality(Members(Blueprints)) = Len(Blueprints)

VARIABLES
    conf,       \* the configuration
    pc,
    phase,      \* "apps" or "blueprints": which package is made
    next,       \* index in the loop of the current step
    loaded,     \* the resources on CloudShell that are autoloaded
    \* PackageApi
    file,       \* the temporary file exists
    entries,    \* the names in the zip file, in the order of writing
    xml,        \* the apps or blueprints written to it
    driverIn,   \* _driver_added
    \* CloudShell
    created,    \* the resources
    csApps,     \* the apps
    csBps,      \* the blueprints
    sandboxes,  \* the sandboxes are started
    debugRes    \* the reservation of set_debug_level_via_blueprint is there

pkgVars == <<file, entries, xml, driverIn>>
csVars == <<created, csApps, csBps, sandboxes, debugRes>>
vars == <<conf, pc, phase, next, loaded, pkgVars, csVars>>

Init ==
    /\ conf \in Conf
    /\ pc = "start"
    /\ phase = "apps"
    /\ next = 1
    /\ loaded = {}
    /\ file = FALSE
    /\ entries = <<>>
    /\ xml = {}
    /\ driverIn = FALSE
    /\ created = {}
    /\ csApps = {}
    /\ csBps = {}
    /\ sandboxes = FALSE
    /\ debugRes = FALSE

-----------------------------------------------------------------------------
(* Before the packages. *)

\* check_all_resources_is_alive, DoHandler.prepare and the log-in.
Begin ==
    /\ pc = "start"
    /\ pc' \in {"debug", "failed"}
    /\ UNCHANGED <<conf, phase, next, loaded, pkgVars, csVars>>

\* set_debug_level_via_blueprint: import the scripts, reserve their topology,
\* run the command.  The reservation is not ended.
SetDebugLevel ==
    /\ pc = "debug"
    /\ \E calls \in 0 .. 3 :    \* how many of the three calls return
        /\ debugRes' = (calls >= 2)
        /\ pc' = IF calls = 3 THEN "resources" ELSE "failed"
    /\ UNCHANGED <<conf, phase, next, loaded, pkgVars, created, csApps, csBps, sandboxes>>

\* handler_storage.resource_handlers: all of them; after a failure finish()
\* deletes what it can (HandlerStorage has the details).
CreateResources ==
    /\ pc = "resources"
    /\ \/ created' = Members(Resources) /\ pc' = "autoload"
       \/ created' \in SUBSET Members(Resources) /\ pc' = "failed"
    /\ UNCHANGED <<conf, phase, next, loaded, pkgVars, csApps, csBps, sandboxes, debugRes>>

LoadRaises == pc' = "failed"

\* for rh in resource_handlers: rh.autoload()
AutoloadNext ==
    /\ pc = "autoload"
    /\ next <= Len(Resources)
    /\ next' = next + 1
    /\ \/ loaded' = loaded \cup {Resources[next]} /\ UNCHANGED pc
       \/ LoadRaises /\ UNCHANGED loaded
    /\ UNCHANGED <<conf, phase, pkgVars, csVars>>

\* Mutant: the blueprints are imported before the apps.
BlueprintsFirst == <<"blueprints", "apps">>

\* create_apps, then create_blueprints.
Phases == <<"apps", "blueprints">>

AutoloadDone ==
    /\ pc = "autoload"
    /\ next > Len(Resources)
    /\ phase' = Phases[1]
    /\ pc' = "models"
    /\ UNCHANGED <<conf, next, loaded, pkgVars, csVars>>

-----------------------------------------------------------------------------
(* The models of apps and blueprints. *)

\* _get_app_models: KeyError for a cloud provider that is not configured.
AppModels ==
    /\ pc = "models"
    /\ pc' = IF \A a \in Members(Apps) : conf.cpOf[a] \in Members(Resources)
             THEN "package" ELSE "failed"
    /\ UNCHANGED <<conf, phase, next, loaded, pkgVars, csVars>>

\* DeploymentPath.to_xml_dict: a path of one name, or that does not start with
\* the model, is put behind it.
Qualified(model, dp) ==
    IF Len(dp) > 1 /\ dp[1] = model THEN dp ELSE <<model>> \o dp

\* App.to_xml_dict; is_default is set by a blueprint only.
AppXml(a, default) ==
    [app |-> a, cp |-> conf.cpOf[a], default |-> default,
     service |-> Qualified(ModelOf[conf.cpOf[a]], conf.deployment[a])]

DEFAULT_POSITIONS == << <<600, 240>>, <<600, 340>>, <<1100, 340>>, <<1100, 340>> >>

\* get_random_position draws until the position is not in _used_positions.
FreePositions(f, i) == Grid \ {f[j] : j \in 1 .. i - 1}

\* get_new_position for n apps: _app_num starts at 1 and indexes from 0, so
\* that the first default is never used; after the last one it is random.
Positions(n) ==
    {f \in [1 .. n -> Grid \cup Members(DEFAULT_POSITIONS)] :
        \A i \in 1 .. n :
            IF i + 1 <= Len(DEFAULT_POSITIONS) THEN f[i] = DEFAULT_POSITIONS[i + 1]
                                               ELSE f[i] \in FreePositions(f, i)}

\* Blueprint.get_xml: each app with its position and a default path.
BlueprintXml(b, position) ==
    [name |-> b, position |-> position,
     apps |-> [i \in DOMAIN conf.appNames[b] |-> AppXml(conf.appNames[b][i], TRUE)]]

-----------------------------------------------------------------------------
(* PackageApi. *)

\* create_package removes the file when the empty zip file or the metadata
\* cannot be written.  The file stays when that is refused, and when Ctrl-C ends
\* the call: KeyboardInterrupt is not an Exception.
FileRemoved == file' = FALSE

CreatePackage ==
    /\ pc = "package"
    /\ next' = 1
    /\ driverIn' = FALSE
    /\ xml' = {}
    /\ \/ file' = TRUE /\ entries' = << <<"metadata">> >> /\ pc' = "add"
       \/ FileRemoved /\ entries' = <<>> /\ pc' = "failed"
       \/ file' = TRUE /\ entries' = <<>> /\ pc' \in {"interrupted", "removeRefused"}
    /\ UNCHANGED <<conf, phase, loaded, csVars>>

\* The conditions under which one turn of the loop raises KeyError.
Raises == phase = "blueprints"
          /\ ~(Members(conf.appNames[Blueprints[next]]) \subseteq Members(Apps))

ToAdd == IF phase = "apps" THEN Apps ELSE Blueprints

\* add_python_driver
Driver == IF driverIn THEN <<>> ELSE << <<"driver">> >>

\* add_app or add_blueprint
AddNext ==
    /\ pc = "add"
    /\ next <= Len(ToAdd)
    /\ ~Raises
    /\ next' = next + 1
    /\ IF phase = "apps"
       THEN /\ entries' = Append(entries, <<"app", Apps[next]>>)
            /\ xml' = xml \cup {AppXml(Apps[next], FALSE)}
            /\ UNCHANGED driverIn
       ELSE /\ entries' = entries \o Driver \o << <<"blueprint", Blueprints[next]>> >>
            /\ \E position \in Positions(Len(conf.appNames[Blueprints[next]])) :
                  xml' = xml \cup {BlueprintXml(Blueprints[next], position)}
            /\ driverIn' = TRUE
    /\ UNCHANGED <<conf, pc, phase, loaded, file, csVars>>

\* import_package: CloudShell has what is in the file; its answer may be lost.
ImportPackage ==
    /\ pc = "add"
    /\ next > Len(ToAdd)
    /\ IF phase = "apps" THEN csApps' = csApps \cup xml /\ UNCHANGED csBps
                         ELSE csBps' = csBps \cup xml /\ UNCHANGED csApps
    /\ pc' \in {"exit", "exitFailed"}
    /\ UNCHANGED <<conf, phase, next, loaded, pkgVars, created, sandboxes, debugRes>>

\* The with block raises: the loop, the disk, the import, or Ctrl-C.
PackageRaises ==
    /\ pc = "add"
    /\ pc' = "exitFailed"
    /\ UNCHANGED <<conf, phase, next, loaded, pkgVars, csVars>>

\* __exit__ deletes the file and lets the exception pass.
ExitPackage ==
    /\ pc \in {"exit", "exitFailed"}
    /\ file' = FALSE
    /\ entries' = <<>> /\ xml' = {}
    /\ pc' = IF pc = "exitFailed" THEN "failed"
             ELSE IF phase = Phases[1] THEN "models" ELSE "sandboxes"
    /\ phase' = Phases[2]
    /\ UNCHANGED <<conf, next, loaded, driverIn, csVars>>

\* __exit__ suppresses FileNotFoundError only; the disk may refuse, and Ctrl-C
\* come before, the deletion.
ExitRaises ==
    /\ pc \in {"exit", "exitFailed"}
    /\ pc' \in {"interrupted", "removeRefused"}
    /\ UNCHANGED <<conf, phase, next, loaded, pkgVars, csVars>>

\* handler_storage.sandbox_handlers: all, or after a failure finish() of the
\* storage deletes the sandboxes and what it can of the resources.
CreateSandboxes ==
    /\ pc = "sandboxes"
    /\ \/ sandboxes' = TRUE /\ pc' = "prepared" /\ UNCHANGED <<created, loaded>>
       \/ /\ created' \in SUBSET created
          /\ loaded' = loaded \cap created'
          /\ pc' = "undone" /\ UNCHANGED sandboxes
    /\ UNCHANGED <<conf, phase, next, pkgVars, csApps, csBps, debugRes>>

Terminated ==
    /\ pc \in {"prepared", "failed", "undone", "interrupted", "removeRefused"}
    /\ UNCHANGED vars

Next ==
    \/ Begin \/ SetDebugLevel \/ CreateResources
    \/ AutoloadNext \/ AutoloadDone
    \/ AppModels \/ CreatePackage \/ AddNext \/ ImportPackage
    \/ PackageRaises \/ ExitPackage \/ ExitRaises \/ CreateSandboxes
    \/ Terminated

Spec == Init /\ [][Next]_vars

-----------------------------------------------------------------------------
(* Properties. *)

\* The file of PackageApi exists inside the with statement only.
TypeOK ==
    /\ phase \in {"apps", "blueprints"}
    /\ next \in 1 .. Len(Resources) + Len(Apps) + Len(Blueprints) + 1
    /\ loaded \subseteq Members(Resources) /\ created \subseteq Members(Resources)
    /\ file \in BOOLEAN /\ driverIn \in BOOLEAN
    /\ \A a \in csApps : a.app \in Members(Apps) /\ ~a.default
    /\ \A b \in csBps : b.name \in Members(Blueprints)

\* Whatever fails while the package is created, filled or imported, the
\* temporary file does not outlive the with statement, unless its deletion is
\* refused or Ctrl-C comes before it.
NoFileLeft ==
    file => pc \in {"add", "exit", "exitFailed", "interrupted", "removeRefused"}

\* A blueprint on CloudShell has only apps that are there, with the same
\* deployment, a service that is a path below the model of their provider, and
\* that provider is on CloudShell and loaded, until a failure to create the
\* sandboxes makes the storage delete the resources and not the blueprints.
BlueprintsAreDeployable ==
    \A b \in csBps : \A i \in DOMAIN b.apps :
        /\ b.apps[i].default
        /\ pc # "undone" => b.apps[i].cp \in created \cap loaded
        /\ \E a \in csApps : a.app = b.apps[i].app /\ a.service = b.apps[i].service
        /\ b.apps[i].service[1] = ModelOf[b.apps[i].cp] /\ Len(b.apps[i].service) > 1
=============================================================================
