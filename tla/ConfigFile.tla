----------------------------- MODULE ConfigFile -----------------------------
(***************************************************************************)
(* From the command line to the first call of CloudShell: MainConfig is    *)
(* parsed field by field (errors are collected, other exceptions leave at  *)
(* once), the files of the shells are downloaded on the way, the tests     *)
(* configuration of each resource is merged with that of its shell, the    *)
(* hosts are pinged and Do supplies a CloudShell; the downloaded files are *)
(* removed when the process exits.                                         *)
(***************************************************************************)
EXTENDS Naturals, Sequences, SequencesExt

CONSTANTS
    Version,      \* versions in the file, as tuples; <<>> does not parse
    ShellConf,    \* what one entry of Shells may be: name, file, tests
    MaxShells,    \* bound: shells in the file
    ResourceConf, \* what one entry of Resources may be: shell_name, tests
    Test, Reason, \* names and reasons of expected failures
    Absent        \* a value that is not given

\* What the program takes for granted of its inputs (assumed by CommandLine).
ConfAssumption ==
    /\ Version \subseteq Seq(Nat)
    /\ MaxShells \in Nat
    /\ Absent \notin Reason
    /\ \A c \in ResourceConf : c.tests.ef \in [Test -> Reason \cup {Absent}]

InFile == 1..2  \* the resources of the file, in their order

VARIABLES
    pc,          \* the field or step that comes next
    errors,      \* pydantic has collected an error
    version, do, \* the fields of MainConfig
    cs,          \* conf.cs_conf: "none", or where it is from, "file" or "do"
    shells,      \* conf.shells_conf
    resources,   \* conf.resources_conf
    heap,        \* the TestsConfig objects of the resources
    merged,      \* the resources whose tests configuration is merged
    deployments, \* the file has deployment resources
    disk,        \* the files in the temporary directory: "whole" or "partial"
    downloaded,  \* DownloadFile.downloaded_files
    exc,         \* the exception that ended the program
    refused      \* history: the files whose removal was refused

vars == <<pc, errors, version, do, cs, shells, resources, heap, merged, deployments,
          disk, downloaded, exc, refused>>
fileVars == <<disk, downloaded, refused>>
confVars == <<version, do, shells, resources, deployments>>

Url == {s.file : s \in ShellConf} \ {"local"}

Init ==
    /\ pc = "version" /\ errors = FALSE /\ exc = "none"
    /\ version = <<>> /\ do = "none" /\ cs = "none"
    /\ shells = <<>> /\ resources = <<>> /\ heap = <<>> /\ merged = {}
    /\ deployments = FALSE
    /\ disk = [u \in Url |-> "none"] /\ downloaded = {} /\ refused = {}

-----------------------------------------------------------------------------
(* The fields of MainConfig in the order of their validation *)

Raise(e) == pc' = "exit" /\ exc' = e
Goto(step) == pc' = step /\ UNCHANGED exc
Collect(wrong) == errors' = (errors \/ wrong)

MIN_COMPATIBLE_CONF_VER == <<0, 13>>
MAX_COMPATIBLE_CONF_VER == <<0, 16>>

\* Comparison of tuples of integers.
Less(a, b) ==
    \/ IsStrictPrefix(a, b)
    \/ \E i \in DOMAIN a \cap DOMAIN b :
          a[i] < b[i] /\ \A j \in 1..(i - 1) : a[j] = b[j]

IsCompatible(v) ==
    /\ v # <<>>
    /\ ~Less(v, MIN_COMPATIBLE_CONF_VER)
    /\ ~Less(MAX_COMPATIBLE_CONF_VER, v)

ReadVersion ==
    /\ pc = "version"
    /\ version' \in Version
    /\ Collect(~IsCompatible(version'))
    /\ Goto("cs")
    /\ UNCHANGED <<do, cs, shells, resources, heap, merged, deployments, fileVars>>

\* _check_cs_conf_or_do: a CloudShell section, or a CloudShell on Do
CsConfOrDo(d, given) == given \/ d = "with CS"

ReadDoAndCs ==
    /\ pc = "cs"
    /\ do' \in {"none", "without CS", "with CS"}
    /\ \E given \in BOOLEAN :
          /\ cs' = IF given THEN "file" ELSE "none"
          /\ Collect(~CsConfOrDo(do', given))
    /\ Goto("shells")
    /\ UNCHANGED <<version, shells, resources, heap, merged, deployments, fileVars>>

DownloadRaises == Raise("URLError")

\* ShellConfig: the validator downloads the file, and urllib's error is not a
\* ValueError, so that it leaves at once; the file may be there in part.
ReadShell ==
    /\ pc = "shells"
    /\ Len(shells) < MaxShells
    /\ \E s \in ShellConf :
          /\ shells' = Append(shells, s)
          /\ \/ s.file = "local" /\ Goto(pc) /\ UNCHANGED fileVars
             \/ /\ s.file # "local"
                /\ \/ /\ disk' = [disk EXCEPT ![s.file] = "whole"]
                      /\ downloaded' = downloaded \cup {s.file}
                      /\ Goto(pc)
                   \/ /\ disk' \in {disk, [disk EXCEPT ![s.file] = "partial"]}
                      /\ UNCHANGED downloaded
                      /\ DownloadRaises
                /\ UNCHANGED refused
    /\ UNCHANGED <<errors, version, do, cs, resources, heap, merged, deployments>>

\* Mutant: all resources without a Tests section share the default object.
SharedDefault(confs, i) == IF confs[i].tests.section THEN i ELSE 0

\* pydantic copies the default for each object.
ObjectOf(confs, i) == i

NewObject(tests) ==
    [ef |-> tests.ef, original |-> tests.run,
     run |-> IF tests.run = Absent THEN TRUE ELSE tests.run]

ReadResources ==
    /\ pc = "shells"
    /\ resources' \in [InFile -> ResourceConf]
    /\ heap' = [o \in InFile \cup {0} |->
                  LET i == IF o = 0 THEN 1 ELSE o IN NewObject(resources'[i].tests)]
    /\ Goto("merge")
    /\ UNCHANGED <<errors, version, do, cs, shells, merged, deployments, fileVars>>

\* TestsConfig.__iadd__
IAdd(own, other) ==
    [own EXCEPT
        !.ef = [t \in Test |-> IF own.ef[t] # Absent THEN own.ef[t] ELSE other.ef[t]],
        !.run = IF own.original # Absent THEN own.original
                ELSE IF other.run # Absent THEN other.run ELSE @]

\* The shells that a resource names; the loop stops at the first.
ShellsOf(i) == {k \in DOMAIN shells : shells[k].name = resources[i].shell_name}
FirstOf(S) == CHOOSE k \in S : \A j \in S : k <= j

\* _merge_tests_config, item after item
MergeTestsConfig(i) ==
    /\ pc = "merge"
    /\ merged = 1..(i - 1)
    /\ merged' = merged \cup {i}
    /\ LET o == ObjectOf(resources, i)
       IN  IF ShellsOf(i) = {} THEN UNCHANGED heap
           ELSE heap' = [heap EXCEPT ![o] = IAdd(@, shells[FirstOf(ShellsOf(i))].tests)]
    /\ Goto(pc)
    /\ UNCHANGED <<errors, cs, confVars, fileVars>>

\* The same validator for the deployment resources reads conf.shell_name, which
\* they do not have; AttributeError is not collected.  Then parse_obj returns or
\* raises what was collected.
ReadDeployments ==
    /\ pc = "merge"
    /\ merged = InFile
    /\ deployments' \in BOOLEAN
    /\ \/ deployments' /\ shells # <<>> /\ Raise("AttributeError")
       \/ ~(deployments' /\ shells # <<>>) /\ errors /\ Raise("ValidationError")
       \/ ~(deployments' /\ shells # <<>>) /\ ~errors /\ Goto("cli")
    /\ UNCHANGED <<errors, version, do, cs, shells, resources, heap, merged, fileVars>>

-----------------------------------------------------------------------------
(* cli.run_tests and cli.prepare_env *)

Stays == UNCHANGED <<errors, confVars, heap, merged, fileVars>>

\* update_from_cli_params: the option names the first shell, if there is one.
UpdateFromCli ==
    /\ pc = "cli"
    /\ \/ Goto("alive")
       \/ shells = <<>> /\ Raise("IndexError")
    /\ UNCHANGED cs /\ Stays

\* check_all_resources_is_alive pings the resources, the file servers and Do or,
\* without it, conf.cs_conf.host.
CheckAlive ==
    /\ pc = "alive"
    /\ Goto("do") \/ Raise("ResourceIsNotAliveError")
    /\ UNCHANGED cs /\ Stays

\* DoHandler.prepare sets conf.cs_conf when it makes a CloudShell.
PrepareDo ==
    /\ pc = "do"
    /\ \/ do = "none" /\ Goto("run") /\ UNCHANGED cs
       \/ do # "none" /\ Goto("run") /\ cs' = IF do = "with CS" THEN "do" ELSE cs
       \/ do # "none" /\ Raise("prepare") /\ UNCHANGED cs
    /\ Stays

\* The run with its CloudShellHandler(conf.cs_conf), which may raise.
Run ==
    /\ pc = "run"
    /\ Raise("none") \/ Raise("run")
    /\ UNCHANGED cs /\ Stays

\* Mutant: the downloads of a program that failed are kept.
RemoveAfterSuccess == IF exc = "none" THEN downloaded ELSE {}

\* remove_downloaded_files, registered with atexit
ToRemove == downloaded

\* A file in use is skipped: its PermissionError is suppressed.
Exit ==
    /\ pc = "exit"
    /\ Goto("exited")
    /\ refused' \in SUBSET ToRemove
    /\ disk' = [u \in Url |-> IF u \in ToRemove \ refused' THEN "none" ELSE disk[u]]
    /\ UNCHANGED <<errors, cs, confVars, heap, merged, downloaded>>

Ended == pc = "exited" /\ UNCHANGED vars

Next ==
    \/ ReadVersion \/ ReadDoAndCs \/ ReadShell \/ ReadResources
    \/ \E i \in InFile : MergeTestsConfig(i)
    \/ ReadDeployments \/ UpdateFromCli \/ CheckAlive \/ PrepareDo \/ Run
    \/ Exit \/ Ended

Spec == Init /\ [][Next]_vars

-----------------------------------------------------------------------------
(* Properties *)

\* Type invariant of the program from its start to its exit.
TypeOK ==
    /\ pc \in {"version", "cs", "shells", "merge", "cli", "alive", "do", "run",
               "exit", "exited"}
    /\ errors \in BOOLEAN
    /\ version \in Version \cup {<<>>}
    /\ do \in {"none", "without CS", "with CS"}
    /\ cs \in {"none", "file", "do"}
    /\ Len(shells) <= MaxShells /\ ToSet(shells) \subseteq ShellConf
    /\ merged \in {{}, {1}, InFile}
    /\ \A o \in DOMAIN heap : heap[o].run \in BOOLEAN
    /\ disk \in [Url -> {"none", "partial", "whole"}]
    /\ downloaded \subseteq Url /\ refused \subseteq downloaded

\* What the tests configuration of a resource should be (test_config.py): its
\* own expected failures before those of its shell, its own Run Tests before
\* the one of the shell, and TRUE when neither is given.
Wanted(i) ==
    LET own == resources[i].tests
        of == [ef |-> [t \in Test |-> Absent], run |-> Absent]
        other == IF ShellsOf(i) = {} THEN of ELSE shells[FirstOf(ShellsOf(i))].tests
        Given(v, w) == IF v # Absent THEN v ELSE w
    IN  [ef |-> [t \in Test |-> Given(own.ef[t], other.ef[t])],
         run |-> Given(Given(own.run, other.run), TRUE)]

\* The merge in place gives every resource the configuration of itself and of
\* its own shell, and never that of a resource or shell merged before it.
MergedTests ==
    merged = InFile =>
        \A i \in InFile :
            LET o == heap[ObjectOf(resources, i)]
            IN  o.ef = Wanted(i).ef /\ o.run = Wanted(i).run

\* Whatever happens in between, also an error in a later download, in a later
\* field or in the run: of the files that the program made, none is left when it
\* has exited but one whose own removal was refused, and the part of the file
\* whose own, only download ended the program.
DownloadsAreRemoved ==
    pc = "exited" =>
        \A u \in Url : disk[u] # "none" =>
            \/ u \in refused
            \/ disk[u] = "partial" /\ exc = "URLError" /\ u \notin downloaded
=============================================================================
