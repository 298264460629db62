-------------------------- MODULE ShellfoundryCheck --------------------------
(***************************************************************************)
(* check_shellfoundry_templates: a shell is generated from a template and  *)
(* packed in the folder of the process, and the tests run with it.  The    *)
(* exit codes of the shellfoundry commands are not looked at, the folder   *)
(* has the same name for every template, and it is removed only when the   *)
(* tests have returned, so that one check meets what the one before left.  *)
(***************************************************************************)
EXTENDS Naturals

CONSTANTS
    Template,   \* the templates that are checked
    None,
    MaxChecks   \* bound: calls of the command line in the same folder

\* Assumed by CommandLine.
CheckAssumption == None \notin Template /\ MaxChecks \in Nat

VARIABLES
    pc,       \* the step of check_shellfoundry_templates that comes next
    asked,    \* template_path of this check
    folder,   \* the template the folder was generated from, None without one
    zip,      \* the template of the shell in its dist directory
    inFolder, \* the process has changed to the folder
    tested,   \* the template of the shell that the tests installed
    checks,   \* the checks so far
    aborted   \* a check before this one did not come to its end

vars == <<pc, asked, folder, zip, inFolder, tested, checks, aborted>>

Init ==
    /\ pc = "start" /\ asked = None
    /\ folder = None /\ zip = None /\ inFolder = FALSE
    /\ tested = None /\ checks = 0 /\ aborted = FALSE

\* A new process of the command line.
Begin(t) ==
    /\ pc \in {"start", "returned", "raised"}
    /\ checks < MaxChecks
    /\ checks' = checks + 1
    /\ asked' = t /\ tested' = None /\ inFolder' = FALSE
    /\ aborted' = (aborted \/ pc = "raised")
    /\ pc' = "new"
    /\ UNCHANGED <<folder, zip>>

\* run_command itself raises when the command cannot be started.
CommandRaises ==
    /\ pc \in {"new", "pack"}
    /\ pc' = "raised"
    /\ UNCHANGED <<asked, folder, zip, inFolder, tested, checks, aborted>>

\* shellfoundry new: refused for a folder that is there, and it may fail; the
\* program goes on in either case.
New ==
    /\ pc = "new"
    /\ pc' = "enter"
    /\ \/ folder = None /\ folder' = asked
       \/ UNCHANGED folder
    /\ UNCHANGED <<asked, zip, inFolder, tested, checks, aborted>>

\* os.chdir(shell_folder)
EnterFolder ==
    /\ pc = "enter"
    /\ \/ folder # None /\ inFolder' = TRUE /\ pc' = "pack"
       \/ folder = None /\ pc' = "raised" /\ UNCHANGED inFolder
    /\ UNCHANGED <<asked, folder, zip, tested, checks, aborted>>

\* shellfoundry pack: makes the zip file or fails, and the program goes on.
Pack ==
    /\ pc = "pack"
    /\ zip' \in {folder, zip}
    /\ inFolder' = FALSE
    /\ pc' = "find"
    /\ UNCHANGED <<asked, folder, tested, checks, aborted>>

\* get_path_to_zip: StopIteration without a file.  Then the configuration is
\* written with its path.
FindZip ==
    /\ pc = "find"
    /\ pc' = IF zip = None THEN "raised" ELSE "tests"
    /\ UNCHANGED <<asked, folder, zip, inFolder, tested, checks, aborted>>

\* _run_tests: the report, good or bad, is dropped; an exception is not.
RunTests ==
    /\ pc = "tests"
    /\ tested' = zip
    /\ pc' \in {"clean", "raised"}
    /\ UNCHANGED <<asked, folder, zip, inFolder, checks, aborted>>

\* Mutant: only the zip file is removed.
RemoveZip == zip' = None /\ UNCHANGED folder

\* shutil.rmtree(shell_name)
RemoveFolder == folder' = None /\ zip' = None

CleanUp ==
    /\ pc = "clean"
    /\ \/ RemoveFolder /\ pc' = "returned"
       \/ pc' = "raised" /\ UNCHANGED <<folder, zip>>
    /\ UNCHANGED <<asked, inFolder, tested, checks, aborted>>

Ended == pc \in {"returned", "raised"} /\ checks = MaxChecks /\ UNCHANGED vars

Next ==
    \/ \E t \in Template : Begin(t)
    \/ CommandRaises \/ New \/ EnterFolder \/ Pack \/ FindZip \/ RunTests \/ CleanUp
    \/ Ended

Spec == Init /\ [][Next]_vars

-----------------------------------------------------------------------------
(* Properties *)

\* Type invariant; the folder and the zip file are named relative to the folder
\* the process started in, where it is again when it looks for them.
TypeOK ==
    /\ pc \in {"start", "new", "enter", "pack", "find", "tests", "clean",
               "returned", "raised"}
    /\ {asked, folder, zip, tested} \subseteq Template \cup {None}
    /\ checks \in 0..MaxChecks
    /\ aborted \in BOOLEAN
    /\ inFolder => pc \in {"pack", "raised"}

\* The shell that is tested is made from the template that was asked for, as
\* long as no earlier check was aborted: although the exit codes of shellfoundry
\* are ignored, a check that returned leaves nothing that a later check whose
\* own generation fails could take for its shell.
TestedIsRequested == ~aborted /\ tested # None => tested = asked
=============================================================================
