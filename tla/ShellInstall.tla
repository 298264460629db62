---------------------------- MODULE ShellInstall ----------------------------
(***************************************************************************)
(* ShellHandler over CloudShellSmbHandler: the shells of a run are         *)
(* prepared in parallel by the pool of HandlerStorage.shell_handlers, each *)
(* one storing the packages of its dependencies file in the one offline    *)
(* PyPI and its extra standards on CloudShell before it is installed.  A   *)
(* shell that fails removes itself and clears the whole PyPI at once,      *)
(* while the others go on; HandlerStorage.finish clears it again.          *)
(*                                                                         *)
(* Packages are numbers: a listing comes in the order of the names.        *)
(***************************************************************************)
EXTENDS Naturals, Sequences, FiniteSets

CONSTANTS
    Shell,         \* conf.shells_conf
    Packages,      \* shell |-> the sequence of files of its dependencies zip
    Standards,     \* shell |-> the set of its extra standards
    Nobody,        \* no thread holds CloudShellSmbHandler._lock
    MaxAttempts,   \* RETRY_STOP_MAX_ATTEMPT_NUM, and the one of install_shell
    SmbFaults,     \* the file share may refuse, time out or be gone
    CsFaults       \* CloudShell may refuse to install or remove a shell

Package == UNION {{Packages[s][i] : i \in 1..Len(Packages[s])} : s \in Shell}
Standard == UNION {Standards[s] : s \in Shell}
HasDependencies(s) == Packages[s] # <<>>

ASSUME ShellAssumption ==
    /\ Packages \in [Shell -> Seq(Nat)]
    /\ \A s \in Shell : IsFiniteSet(Standards[s])
    /\ Nobody \notin Shell
    /\ MaxAttempts \in Nat \ {0}
    /\ SmbFaults \in BOOLEAN
    /\ CsFaults \in BOOLEAN

VARIABLES
    pc,         \* where the thread of each shell is, or its turn in finish()
    next,       \* the package its thread stores
    attempts,   \* how often the call under way was tried
    unread,     \* its file object is still at the start
    known,      \* the standards it saw on CloudShell
    listing,    \* the packages its clear_offline_pypi has still to remove
    lock,       \* the holder of _lock
    pypi,       \* package |-> its file in the offline PyPI
    standards,  \* the standards on CloudShell
    installed,  \* the shells on CloudShell
    cut,        \* packages whose transfer ran into a timeout
    refused,    \* a removal failed
    mpc,        \* where the thread that asked for the shells is
    handlers    \* the prepared shells that finish() has still to pass

smbVars == <<pypi, standards, cut>>
mainVars == <<mpc, handlers>>
vars == <<pc, next, attempts, unread, known, listing, lock, smbVars, installed,
          refused, mainVars>>

Init ==
    /\ pc = [s \in Shell |-> "deps"]
    /\ next = [s \in Shell |-> 1]
    /\ attempts = [s \in Shell |-> 1]
    /\ unread = [s \in Shell |-> TRUE]
    /\ known = [s \in Shell |-> {}]
    /\ listing = [s \in Shell |-> {}]
    /\ lock = Nobody
    /\ pypi = [p \in Package |-> "absent"]
    /\ standards = {}
    /\ installed = {}
    /\ cut = {}
    /\ refused = FALSE
    /\ mpc = "pool"
    /\ handlers = {}

Goto(s, label) == pc' = [pc EXCEPT ![s] = label]

AttemptsLeft(s) == attempts[s] < MaxAttempts

-----------------------------------------------------------------------------
(* ShellHandler._store_extra_files *)

ReleaseLock(s) == lock' = IF lock = s THEN Nobody ELSE lock

\* Mutant: prepare() raises without finish().
LeaveUnfinished(s) == Goto(s, "failed")

\* prepare() catches the exception and calls finish().
CleanUp(s) == Goto(s, "remove")

\* The loop over the zip file: the next file, or on to the standards.
NextPackage(s) ==
    /\ pc[s] = "deps"
    /\ \/ /\ next[s] <= Len(Packages[s])
          /\ lock = Nobody
          /\ lock' = s
          /\ Goto(s, "put")
       \/ /\ next[s] > Len(Packages[s])
          /\ Goto(s, IF Standards[s] = {} THEN "install" ELSE "standards")
          /\ UNCHANGED lock
    /\ UNCHANGED <<next, attempts, unread, known, listing, smbVars, installed,
                   refused, mainVars>>

\* put_file_obj under the lock.  A timeout may have read from the file object,
\* which the next attempt goes on reading where it is.
PutPackage(s) ==
    LET p == Packages[s][next[s]]
    IN  /\ pc[s] = "put"
        /\ \/ /\ pypi' = [pypi EXCEPT ![p] = IF unread[s] THEN "whole"
                                                         ELSE "part"]
              /\ next' = [next EXCEPT ![s] = @ + 1]
              /\ attempts' = [attempts EXCEPT ![s] = 1]
              /\ unread' = [unread EXCEPT ![s] = TRUE]
              /\ ReleaseLock(s)
              /\ Goto(s, "deps")
              /\ UNCHANGED cut
           \* NotReadyError or SMBTimeout, retried
           \/ /\ SmbFaults
              /\ AttemptsLeft(s)
              /\ attempts' = [attempts EXCEPT ![s] = @ + 1]
              /\ \/ UNCHANGED <<pypi, unread, cut>>
                 \/ /\ pypi' = [pypi EXCEPT ![p] = "part"]
                    /\ unread' = [unread EXCEPT ![s] = FALSE]
                    /\ cut' = cut \cup {p}
              /\ UNCHANGED <<pc, next, lock>>
           \* another error, or the last attempt
           \/ /\ SmbFaults
              /\ \/ UNCHANGED <<pypi, cut>>
                 \/ /\ pypi' = [pypi EXCEPT ![p] = "part"]
                    /\ cut' = cut \cup {p}
              /\ attempts' = [attempts EXCEPT ![s] = 1]
              /\ ReleaseLock(s)
              /\ CleanUp(s)
              /\ unread' = [unread EXCEPT ![s] = TRUE]
              /\ UNCHANGED next
        /\ UNCHANGED <<known, listing, standards, installed, refused, mainVars>>

\* get_tosca_standards_file_names
ListStandards(s) ==
    /\ pc[s] = "standards"
    /\ \/ /\ known' = [known EXCEPT ![s] = standards]
          /\ Goto(s, "extra")
       \/ /\ SmbFaults
          /\ CleanUp(s)
          /\ UNCHANGED known
    /\ UNCHANGED <<next, attempts, unread, listing, lock, smbVars, installed,
                   refused, mainVars>>

\* add_extra_standards stores those that were not listed, without the lock.
PutStandards(s) ==
    /\ pc[s] = "extra"
    /\ \/ /\ standards' = standards \cup (Standards[s] \ known[s])
          /\ Goto(s, "install")
       \/ /\ SmbFaults
          /\ \E some \in SUBSET (Standards[s] \ known[s]) :
               standards' = standards \cup some
          /\ CleanUp(s)
    /\ known' = [known EXCEPT ![s] = {}]
    /\ UNCHANGED <<next, attempts, unread, listing, lock, pypi, cut, installed,
                   refused, mainVars>>

-----------------------------------------------------------------------------
(* ShellHandler.install_shell and finish *)

\* add_shell, or update_shell for one that exists; "invalid driver" is retried.
InstallShell(s) ==
    /\ pc[s] = "install"
    /\ \/ /\ installed' = installed \cup {s}
          /\ Goto(s, "prepared")
          /\ attempts' = [attempts EXCEPT ![s] = 1]
       \/ /\ CsFaults
          /\ AttemptsLeft(s)
          /\ attempts' = [attempts EXCEPT ![s] = @ + 1]
          /\ UNCHANGED <<pc, installed>>
       \/ /\ CsFaults
          /\ installed' \in {installed, installed \cup {s}}
          /\ CleanUp(s)
          /\ attempts' = [attempts EXCEPT ![s] = 1]
    /\ UNCHANGED <<next, unread, known, listing, lock, smbVars, refused, mainVars>>

\* finish() of a shell returns or raises: to prepare(), which raises either
\* way, or to HandlerStorage.finish, which an exception leaves.
FinishShell(s, raises) ==
    \/ /\ mpc = "pool"
       /\ Goto(s, "failed")
       /\ UNCHANGED mainVars
    \/ /\ mpc # "pool"
       /\ Goto(s, "prepared")
       /\ handlers' = IF raises THEN {} ELSE handlers \ {s}
       /\ UNCHANGED mpc

\* A missing shell and one in use are passed over; any other error leaves
\* finish() before the PyPI is cleared.
RemoveShell(s) ==
    /\ pc[s] = "remove"
    /\ \/ /\ installed' \in {installed \ {s}} \cup (IF CsFaults THEN {installed}
                                                            ELSE {})
          /\ \/ /\ HasDependencies(s)
                /\ Goto(s, "list")
                /\ UNCHANGED mainVars
             \/ /\ ~HasDependencies(s)
                /\ FinishShell(s, FALSE)
          /\ UNCHANGED refused
       \/ /\ CsFaults
          /\ refused' = TRUE
          /\ FinishShell(s, TRUE)
          /\ UNCHANGED installed
    /\ UNCHANGED <<next, attempts, unread, known, listing, lock, smbVars>>

\* get_file_names_from_offline_pypi: whatever is there, whoever stored it.
ListPypi(s) ==
    /\ pc[s] = "list"
    /\ \/ /\ listing' = [listing EXCEPT ![s] =
                           {p \in Package : pypi[p] # "absent"}]
          /\ Goto(s, "clear")
          /\ UNCHANGED <<refused, mainVars>>
       \/ /\ SmbFaults
          /\ refused' = TRUE
          /\ FinishShell(s, TRUE)
          /\ UNCHANGED listing
    /\ UNCHANGED <<next, attempts, unread, known, lock, smbVars, installed>>

\* remove_file_from_offline_pypi for the next name of the listing.  The share
\* may refuse, also because another thread was faster.
ClearPypi(s) ==
    /\ pc[s] = "clear"
    /\ \/ /\ listing[s] = {}
          /\ FinishShell(s, FALSE)
          /\ UNCHANGED <<listing, pypi, refused>>
       \/ \E p \in listing[s] :
            /\ \A q \in listing[s] : p <= q
            /\ \/ /\ pypi' = [pypi EXCEPT ![p] = "absent"]
                  /\ listing' = [listing EXCEPT ![s] = @ \ {p}]
                  /\ UNCHANGED <<pc, refused, mainVars>>
               \/ /\ SmbFaults \/ pypi[p] = "absent"
                  /\ refused' = TRUE
                  /\ listing' = [listing EXCEPT ![s] = {}]
                  /\ FinishShell(s, TRUE)
                  /\ UNCHANGED pypi
    /\ UNCHANGED <<next, attempts, unread, known, lock, standards, cut, installed>>

-----------------------------------------------------------------------------
(* HandlerStorage.shell_handlers and finish *)

\* Mutant: the exceptions of the pool are only logged.
FailureLogged == FALSE

PreparationFailed == \E s \in Shell : pc[s] = "failed"

\* The pool is left.  A failure calls finish() for the prepared shells.
PoolEnds ==
    /\ mpc = "pool"
    /\ \A s \in Shell : pc[s] \in {"prepared", "failed"}
    /\ \/ /\ PreparationFailed
          /\ mpc' = "cleanup"
          /\ handlers' = {s \in Shell : pc[s] = "prepared"}
       \/ /\ ~PreparationFailed
          /\ mpc' = "use"
          /\ UNCHANGED handlers
    /\ UNCHANGED <<pc, next, attempts, unread, known, listing, lock, smbVars,
                   installed, refused>>

Finishing == mpc \in {"cleanup", "finish"}

\* The loop of finish() calls the next shell after the one before returned.
FinishNext(s) ==
    /\ Finishing
    /\ s \in handlers
    /\ \A u \in Shell : pc[u] \in {"prepared", "failed"}
    /\ Goto(s, "remove")
    /\ UNCHANGED <<next, attempts, unread, known, listing, lock, smbVars,
                   installed, refused, mainVars>>

\* The finally clause of the run calls finish() after the tests, and once more
\* after a failed preparation.
EnterFinish ==
    /\ \/ mpc = "use"
       \/ mpc = "cleanup" /\ handlers = {}
    /\ mpc' = "finish"
    /\ handlers' = {s \in Shell : pc[s] = "prepared"}
    /\ UNCHANGED <<pc, next, attempts, unread, known, listing, lock, smbVars,
                   installed, refused>>

FinishEnds ==
    /\ mpc = "finish"
    /\ handlers = {}
    /\ \A s \in Shell : pc[s] \in {"prepared", "failed"}
    /\ mpc' = "ended"
    /\ UNCHANGED <<pc, next, attempts, unread, known, listing, lock, smbVars,
                   installed, refused, handlers>>

Terminated == mpc = "ended" /\ UNCHANGED vars

ShellStep(s) ==
    \/ NextPackage(s)
    \/ PutPackage(s)
    \/ ListStandards(s)
    \/ PutStandards(s)
    \/ InstallShell(s)
    \/ RemoveShell(s)
    \/ ListPypi(s)
    \/ ClearPypi(s)
    \/ FinishNext(s)

MainStep == PoolEnds \/ EnterFinish \/ FinishEnds

Next ==
    \/ \E s \in Shell : ShellStep(s)
    \/ MainStep
    \/ Terminated

Spec == Init /\ [][Next]_vars

-----------------------------------------------------------------------------
(* Properties *)

TypeOK ==
    /\ pc \in [Shell -> {"deps", "put", "standards", "extra", "install", "remove",
                         "list", "clear", "prepared", "failed"}]
    /\ next \in [Shell -> Nat \ {0}]
    /\ \A s \in Shell : next[s] <= Len(Packages[s]) + 1
    /\ attempts \in [Shell -> 1..MaxAttempts]
    /\ unread \in [Shell -> BOOLEAN]
    /\ known \in [Shell -> SUBSET Standard]
    /\ listing \in [Shell -> SUBSET Package]
    /\ lock \in Shell \cup {Nobody}
    /\ pypi \in [Package -> {"absent", "whole", "part"}]
    /\ standards \subseteq Standard
    /\ installed \subseteq Shell
    /\ cut \subseteq Package
    /\ refused \in BOOLEAN
    /\ mpc \in {"pool", "cleanup", "use", "finish", "ended"}
    /\ handlers \subseteq Shell

\* When the shells are handed out for tests, the packages and standards of all
\* of them are on CloudShell: none was cleared by a shell that failed, and none
\* is truncated unless its own transfer timed out and was retried.
PackagesInPlace ==
    mpc = "use" =>
        /\ \A p \in Package : pypi[p] = "whole" \/ (pypi[p] = "part" /\ p \in cut)
        /\ Standard \subseteq standards
        /\ installed = Shell

\* At the end the offline PyPI is empty, unless the share or CloudShell refused
\* a removal (to remove what another thread has just removed counts): each shell
\* clears it after its own last transfer, although the others go on storing.
PypiIsCleared ==
    mpc = "ended" /\ ~refused => \A p \in Package : pypi[p] = "absent"
=============================================================================
