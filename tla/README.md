# Formal models of cloudshell-shell-automation-tests

The program tests CloudShell shells. It optionally creates a CloudShell and
networking apps on "Do" (another CloudShell), installs shells, creates
resources and sandboxes on the CloudShell under test, runs `unittest` suites
for the resources of every sandbox in parallel threads, downloads the logs,
deletes what it made, and returns a report.

What makes it hard is not the single calls but that they run in nested thread
pools that share handlers, lists built on first use, a stop flag and two kinds
of lock; that every call to CloudShell may fail; that Ctrl-C reaches only the
main thread; and that everything created must be given back on every path.

## Inventory

| Part | State it keeps | Operations | Interacts with | Hard behaviour |
|---|---|---|---|---|
| Test runner (`run_tests.py`) | futures of the sandboxes, stop flag, report | run, wait for futures, download logs, finish | Do handler (context), storage, sandbox threads | Ctrl-C in either wait or in the join; failures that spread as KeyboardInterrupt |
| Sandbox thread (`run_tests_for_sandbox.py`) | cached resource handlers, sandbox report | look up and reserve resources, run jobs, append report | storage, resource threads | stop flag read between steps |
| Resource thread (same file, `automation_tests/base.py`) | suite position | setup commands, suite, teardown, autoload | resource handler | broken dependencies, stop flag |
| Reports (`report_result.py`) | lists of reports | append, `is_success` | all threads under REPORT_LOCK | completeness |
| Handler storage (`helpers/handler_storage.py`) | three lists built on first use | build a list in a pool, finish | sandbox, resource, shell handlers | no lock of its own; finish() runs inside a failed build and again at the end |
| Resource handler (`handlers/resource_handler.py`) | two events, a lock and the result of autoload; attached sandbox; broken flag | create, autoload, autoload_if_needed, commands, finish | CloudShell API | check-then-act; wait without timeout |
| Connectivity test (`automation_tests/test_connectivity.py`) | one class-wide lock | borrow a device, connect, disconnect, return | two resource handlers, sandbox handler | the borrowed device has a job of its own |
| Sandbox handler (`handlers/sandbox_handler.py`) | reservation id | create, add/remove resource, end | CloudShell API | clean-up inside create |
| Do handler (`handlers/do_handler.py`) | one CloudShell sandbox handler, set of app handlers | prepare, finish, retry | CloudShell API of Do, configuration | one of several workers fails; retries; Ctrl-C in prepare |
| Shell handler (`handlers/shell_handler.py`), SMB handler (`handlers/smb_handler.py`) | offline PyPI and standards on CloudShell | store extra files, install, remove, clear | CloudShell, file share | the offline PyPI is shared by all shells; retries of transfers |
| CloudShell API handler (`handlers/cs_handler.py`) | session | polling loops, search for a free name, thin wrappers | CloudShell | bounded polling; names that others take |
| Remote file handlers (`handlers/ftp_handler.py`, `scp_handler.py`, `tftp_handler.py`), save and restore tests | one cached session per server; files on the servers | save, restore, read, delete | resource handler, file servers | one session for all threads; stale sessions; clean-up after failure |
| Configuration (`configs.py`, `cli.py`), downloads | the configuration, downloaded files | validate, merge, ping, remove files at exit | Do handler, runner | which errors are collected and which leave at once; merging in place |
| Suite selection (`helpers/tests_helpers.py`) | the list of test cases | select by family, kind of device, command, server | resource thread | combinations without an entry |
| Environment preparation (`prepare_env.py`), package API | temporary package; apps and blueprints on CloudShell | create resources, autoload, import apps and blueprints, create sandboxes | storage, CloudShell | failure at every step |
| Shellfoundry check (`oop_shellfoundry.py`) | a folder that outlives the process | generate, pack, test, remove | command line, runner | ignored exit codes |

What makes each part correct: the report is complete and honest; the run ends
and failures surface; nothing is deleted under a running test; nothing created
is forgotten; autoloads of one resource exclude each other; ports are connected
only where both devices are; reservations on Do do not outlive a clean run.
`PROJECT.json` lists every component with its status, and the hazards at their
lines.

## Modules

### TestRun — the run and its threads

`mpc` is where `AutomatedTestsRunner` is: `create` (sandbox handlers),
`submit`, `wait`/`drain` (the two waits of `_wait_for_futures` in the try
block), `rewait`/`redrain` (the same in the except clause), `join`
(`ThreadPoolExecutor.__exit__`), `logs`, `finish`, `returned`/`raised`. `spc`
and `jpc` are where the sandbox and resource futures are, `sexc` and `jexc`
their exceptions (`KeyboardInterrupt` or any other). Each statement that another
thread can get between is an action: `StartJob`, `RunSetup`, `StartTeardown`
end in the code's `_is_stop_set`, `CallTestMethod` is `_callTestMethod` with the
broken-dependencies test before the stop flag. `Interrupt` is Ctrl-C wherever
the main thread is. A suite is a number of test methods each of which passes,
fails, or breaks the dependencies.

The list of reports is a count per report: its order is not read by anything.

### HandlerStorage — lists built on first use, and finish()

Main thread and sandbox threads build lists through `CheckList`, `InitList`,
`Submit`, `CollectItem`, `CollectEnds`, each reading or writing the shared list
where the code does; the futures of the creation pools are `CreateItem`. A
handler is the pair of building thread and item, so double creation is visible.
`finish()` is a loop per list (`FinishHandler`, `FinishLoopEnds`) that any thread
may be in. CloudShell is the set `live`; it may refuse to create or to delete,
and refuses to delete what is gone (a missing shell is ignored by the code).
`abandoned` records what a create() made without handing over a handler: a
resource whose attributes were refused (`ResourceHandler.create` has no
clean-up), a sandbox whose future Ctrl-C cut off.

`shellOf` is the configuration: a resource may name a shell that is not there,
whose KeyError leaves the comprehension while the pool still creates the
resources before it. `DescriptorLock` is the lock inside
`functools.cached_property` (external): Python 3.10 and 3.11 have it, 3.12
removed it.

### ResourceJobs — autoload, attachment, connectivity

`started`, `finished`, `success`, `autoloadLock` are the fields of
`ResourceHandler`; `attached` is `_sandbox_handler`, `reserved` what each
reservation holds. `AutoloadIfNeeded` reads the events and acts in a later step.
The connectivity test takes `LOCK`, chooses another resource of its sandbox,
waits (with a timeout, so the wait may always end), adds it, checks both autoload
results, connects, disconnects, and returns it in the finally clause. A suite is
abstracted to autoload, then connectivity and one command in any order. Every
command, those of setup and teardown included, may find the dependencies broken,
which marks the resource (`MayBreak`).

### DoHandler and ReservationLease — reservations on Do

Workers of one pool create the CloudShell (with up to `MaxAttempts` attempts) and
the networking apps; the main thread collects results, drains the pool, runs the
body and finishes. A reservation is named by worker and attempt. `ReservationLease`
is the abstract promise: a reservation is taken once and ended once, and the user
closes cleanly only when none is active; a user that was interrupted or refused
abandons the rest. `ImplementsLease` maps `status` to the lease and the end of the
main thread to closing or abandoning.

### RemoteFiles — save and restore tests and their file servers

Each resource thread runs the tests of its `Suite` one after another: `Save`,
then `read_file` (save tests) or `Restore`, then `delete_file`. The file handlers
are `ScpCommand`, `TftpCommand` and, for FTP, one action per statement that
another thread can get between: `OpenFtp` and `ListReply` are the test of the
cached session, `ConnectFtp` assigns the new one before `SendLogin`, and
`SendLogin` and `SendCommand` read `_session` again, as the code does. `conn` is
what the server makes of a connection; two commands at once leave it `mixed`, and
from then on a reply may be anybody's. The file of a test is `pending` from the
end of the command until it shows up on the server, which nothing guarantees; a
save that raises may have copied it or not. `FtpLogin` says whether a user and a
password are configured; without them there is no login. The FTP server may close
a connection with a reply (`closed`) or without one (`eof`), where ftplib raises
EOFError, which the test of the session does not catch. Each exception has a
`Reason`: `caused` records the tests during which a device, a server or the
network failed, `stale` those that met a session that had died before them and
that the handler keeps, an `eof` one or a dead SCP session.

### ShellInstall — shells over one offline PyPI

The thread of a shell stores its packages one by one under the lock of the SMB
handler (`NextPackage`, `PutPackage` with its retries), then its standards without
it, installs the shell, and on any exception runs `finish()`: `RemoveShell`,
`ListPypi`, `ClearPypi` file by file, while the other threads go on. The thread
that asked for the shells leaves the pool (`PoolEnds`), and `finish()` of the
storage calls the same three actions for the prepared shells, twice after a
failure. A retried transfer whose file object was already read stores a `part`.
The SMB handler is configured; without it the code only warns.

### SmbSession — the SMB session that all shell threads share

ShellInstall takes each SMB call as one step; this module opens it up. The
property `session` is an action per statement that another thread can get
between: `Probe` (echo), `Drop`, `Check`, `Create`, `Connect`, `Return`, each
reading `_session` anew as the code does. Package transfers hold the lock over
all their attempts (`"locked"` calls), the standards and the clearing of the
PyPI do not (`"free"`); a thread whose call raises goes on to clear the PyPI
(`Clear`) without the lock, beside the transfers of the others. `disturbed` records the
calls during which a fault happened, and `crossed` those during which another thread
wrote the session while not both held the lock, so that a failure can be traced to
either.

### ShellShare — the file share from both sides

The composition of the two: ShellInstall, whose requests are single steps, and
SmbSession as the instance `Smb` that shares with it the place of a thread (`pc`,
`next`, `attempts`) and the lock. A behaviour of `ShareSpec` follows one `view`:
`"files"`, which is ShellInstall, or `"session"`, which is SmbSession; the variables
of the other one are left alone.

### Sandboxes — reservations and their polling

`SandboxHandler.create` in one thread for each sandbox (`Request`, `Answer`,
`PollStart`, `CreateFails`), then the tests, then `HandlerStorage.finish` with
`EndNext`, `PollEnd`, `DeleteResource`. CloudShell is a process of its own that
starts, sets up, tears down and completes reservations whenever it likes, or
never. A blueprint of `Gap` is shown as Started before its setup begins
(`BeginSetup`), which `wait_reservation_is_started` cannot tell from a reservation
without a setup; with the others the two are one step. The module refines what
HandlerStorage and DoHandler take as single steps, and implements the same
`ReservationLease` as DoHandler: `stranded` are the
reservations whose id was lost, whose end was refused, or that came after such a
one in the loop of finish(). The lease lets a user with a stranded reservation
abandon the rest; `OthersAreEnded` says that it keeps no other one.

### ResourceSetup — names, autoload and children of a resource

`create_resource` and `rename_resource` are one turn of their loops; a name is
the sequence of its base and index. `at` is who has which name on CloudShell, so
that a handler whose name was taken by another user holds that user's resource.
`_autoload` is `AutoLoadFinds`, `UpdateDriver` and the errors at its two
attempts; `AddAdditionalPorts` and `SetChildrenAttributes` complete autoload().
`BeginFinish` and `Finish` are the passes of finish() over the handlers there are:
one, or two after a creation that failed, and other users create resources in
between. `adopted` records what `create_resource` took over.
The locking of autoload is in ResourceJobs. `NamesAreProper` is what is assumed of
the configuration: names differ, and have one index at most, as
`generate_new_resource_name` reads them.

### TestPlan — which test cases a resource gets

The tables of `tests_helpers.py` as operators that give the entry of a family, a
kind of device and a command: a sequence of test cases with the server each of them
needs, empty if there is none. `get_test_suite` takes the commands one by one in any
order; `OfferAll` is its loop over an entry, at most three turns since no entry has
more. `SuiteIsExact` is the reference definition of the list.

### ConfigFile — from the command line to the run and the exit

One action per validated field, in pydantic's order: errors of validators are
collected in `errors`, exceptions that are not ValueErrors leave at once
(`Raise`). `ReadShell` downloads. `heap` holds the TestsConfig objects, since the
merge works in place; `Wanted` is the reference definition of its result. Then
the arguments, the pings, Do and the run, by their outcome, and the atexit
handler, which the disk may refuse any of its removals (`refused`).

### PrepareEnv — prepare-env and the package API

The steps of `AutomatedPrepareEnv.run`; `create_apps` and `create_blueprints` are
the two `Phases` over the same actions, from `CreatePackage` to `ExitPackage`. A
deployment path is the sequence of its parts, an XML document the record of what
it says. The file of a package stays when its deletion is refused or Ctrl-C comes
before it (`CreatePackage`, `ExitRaises`), an import may take effect although its
answer is lost, and a failure to create the sandboxes deletes the resources, loaded
or not, but neither apps nor blueprints (`undone`). Positions are drawn from a small
`Grid` instead of 60 by 25 points.

### ShellfoundryCheck — check_shellfoundry_templates

Several calls of the command in one folder: `folder` and `zip` are what is on
disk between the processes. The shellfoundry commands are external; their failure
does not stop the program.

### CommandLine — the parts of one process

`cli.py` as a composition: ConfigFile, TestPlan, PrepareEnv, ShellfoundryCheck
and ResourceSetup as instances that share the program counter and the
configuration. ConfigFile is the whole process with the run of its command as
one step; the other four are what happens inside that step, ResourceSetup in its
threads. A behaviour follows one `part` from any configuration it may be given;
the variables of the others are `None`.

The models meet at these points: ConfigFile's `Run` is TestRun or PrepareEnv,
and its `PrepareDo` is DoHandler; `GetTestSuite` of TestRun is TestPlan; the
creation of sandboxes in HandlerStorage is Sandboxes, that of resources is
ResourceSetup; `PutPackage` and `ListPypi` of ShellInstall are calls of SmbSession;
TestRun's `CreateSandboxes`, `SubmitJobs` and `Finish` are the places where
HandlerStorage runs; TestRun's `CallTestMethod` and `AutoloadOnly` are the places
where ResourceJobs and RemoteFiles run; `CreateItem` of a shell in HandlerStorage
is ShellInstall; TestRun as a whole is `BodyEnds` of DoHandler. Each of them is
nondeterministic about the outcome there, so it allows whatever the other one
does.

## Runs

| Run | Instance | Result |
|---|---|---|
| `testrun` | 2 sandboxes at the same time that share a tested resource, one of them with an untested one queued in its single resource thread; 1 test method; 2 Ctrl-C; fair | `ReportComplete`, `NoFalseSuccess`, `LogsKeptOnFailure`, `CleanupAfterThreads`, `RunEnds`, `FailureSurfaces`, `CutShortIsNotReported` hold |
| `storage` | 3 sandboxes, 3 resources, 2 shells, creation and deletion refused anywhere, 1 Ctrl-C, lock present; the shell of one resource is configured or not | `LookupComplete`, `NoDeleteUnderTest`, `OnlyAbandonedStays`, `StorageRunEnds` hold |
| `resource_jobs` | 2 sandboxes each test one resource and borrow the same third one | `OneAutoload`, `ConnectedIsSound`, `PartnerReturned`, `StaysAttached`, `JobsEnd` hold |
| `resource_jobs_tested` | 2 tested resources of one sandbox borrow each other | `StaysAttached` violated (finding 1) |
| `do_handler` | 2 apps, CloudShell with 3 attempts, 2 workers, ends refused, 2 Ctrl-C, `delete_cs` on | `ImplementsLease`, `PreparedIsComplete`, `PrepareErrorKept`, `DoEnds` hold |
| `remote_files` | 2 threads, one with FTP and SCP, one with SCP and TFTP tests, everything may fail | `PassedLeavesNoFile`, `RestoreCleansUp`, `FailureHasCause` hold |
| `remote_files_shared` | 2 threads with an FTP test each, nothing fails | `FailureHasCause` violated (finding 2) |
| `remote_files_eof` | 1 thread with 2 FTP tests; only the server may close an idle connection | `DeadSessionIsReplaced` violated (finding 3) |
| `shell_share`, files | 3 shells, 2 of them with a package in common, 2 with the same standard, transfers, installations and removals fail | `PackagesInPlace`, `PypiIsCleared` hold, and no deadlock |
| `shell_share`, session | 2 threads, one with a package and a standard, one with 2 packages; each clears the PyPI with 2 requests when it fails; 2 faults | `SessionIsConnected`, `SmbFailureHasCause` hold, and no deadlock |
| `shell_share_unlocked` | the same | `SessionReturnsConnection` violated (finding 4) |
| `sandboxes` | 2 sandboxes from blueprints, one of them in `Gap`, sharing a resource; CloudShell slow, failing and refusing | `TestedIsSetUp`, `HeldExists`, `OthersAreEnded`, `SandboxesImplementLease`, `SandboxRunEnds` hold |
| `command_line`, configuration | 6 versions around the limits, up to 2 shells, from 2 URLs or from the disk, 2 resources, with and without each section | `MergedTests`, `FilesAreRemoved` hold |
| `command_line`, run-tests | all 9 families, all kinds of device, 4 combinations of servers, up to 3 of 10 commands in every order | `SuiteIsExact` holds |
| `command_line`, prepare-env | 2 cloud providers, 2 apps, 2 blueprints, unknown names, deployment paths with the model in front, nowhere, inside and alone, failure at every call | `FilesAreRemoved`, `BlueprintsAreDeployable` hold |
| `command_line`, templates | 3 checks of 2 templates in one folder | `TestedIsRequested` holds |
| `command_line`, resources | resources "a" and "a-1", another user, renames to "b", 2 autoloads with 2 additional ports, one or two passes of finish() | `ForeignIsSafe`, `LoadedIsComplete` hold |

Each module states its types as `TypeOK`; the one of TestRun is checked by
`testrun`, and those of TestRun, Sandboxes, DoHandler, ResourceJobs,
HandlerStorage, ShellInstall, SmbSession and RemoteFiles are proved. The
others hold in the same instances (add `TypeOK` to the cfg to see it).

The two refinements say more than a list of invariants would: a retry of the
CloudShell on Do that did not end the attempt before, or a sandbox whose creation
failed and whose reservation stayed, would leave an active lease when the user
closes cleanly. `shell_share` and `remote_files` check safety
and deadlock: their retries are counted, and a lock that was not given back would
stop every thread.

Every property of a passing run has a mutant of the code under which it fails;
the mutants are the operators commented "Mutant:" next to the definition they
would replace.

### Bounds

- `SandboxPool` 2 (5 in the code) and `ResourcePool` 1: the sandboxes interleave
  and the jobs of one of them queue. The proofs need no bound: the invariants
  hold for every pool, also when sandboxes queue.
- `MaxInterrupts` 2: the code tells the first Ctrl-C (caught) from a later one
  (not caught); a third one finds the same places as the second.
- `MaxTests` 1 together with 0: a suite that is stopped before its last method,
  and an empty one. The proofs need no bound.
- Three items per kind in `storage`: two threads that race plus one that comes
  late; two shells so that the refused one is not everybody's.
- Two borrowers and one device in `resource_jobs`: the lock serialises all
  others the same way; the device has two jobs of its own, the smallest number
  that can race in `autoload_if_needed`.
- `MaxAttempts` of `do_handler` 3 (5 in the code): a first, a middle and a last
  attempt. In `remote_files` and `shell_share` 2 (10 and 7 in the code): an
  attempt that is followed by another one, and a last one; nothing else depends
  on the number.
- Connections in RemoteFiles are names that are used again once nobody holds
  them, so their number bounds nothing.
- Two shells with packages and one without: one fails and clears while another
  stores; the package in common is stored, removed and stored again.
- `MaxStartPolls` and `MaxEndPolls` 2 (60 and 30 in the code): a poll that is
  followed by another one, and the last one. Two sandboxes, so that one fails or
  is refused while the other is held; the shared resource is held by both.
- `MaxCommands` 3 in `command_line`: the longest chain that matters is a command, a
  second one that leads to the same test case, and a third in between.
- Configuration files: two resources, since the merge of one could only disturb the
  other; two shells with the same or different names; versions below, at, between
  and above both limits, with two and three parts.
- Resources: the index makes "a" collide with "a-1"; the other user takes
  "a", "b" or "b-1". The second autoload meets what the first one left.
- `MaxFaults` 2 in `shell_share`: enough to fail both ways to connect, or to lose a
  connection and time out, in one thread or in two. `MaxAttempts` 2 as above (10 in
  the code), `Clearing` 2: the listing and one removal. The proofs need none of these.
- Two URLs in the configuration: a download that fails after one that was whole.
- `prepare-env`: five apps on a blueprint use the three defaults that are reached
  and two random positions, on a grid of four points two of which are defaults.
- Templates: a check that leaves something, one that meets it, and one
  more.

Three instances leave out a case on purpose, because a property is false in it:
in `remote_files` only one thread uses FTP (finding 2), in `resource_jobs` the
borrowed device has no tests of its own (finding 1), and `do_handler` has
`DeleteCs = TRUE` (see below). Where a case is in a run and excepted in the
property instead, the comment of the property says so: `crossed` calls, `stale`
sessions, `Gap`, `undone`, the second finish(), an aborted check. No run uses
symmetry.

### Fairness

Weak fairness of each thread: the interpreter schedules every runnable thread,
and each call to CloudShell returns or raises. For locks weak fairness is enough,
because a thread takes each of them a bounded number of times. Ctrl-C is never
fair: nobody has to press it. Without a fair `CreateItem` the pools could hang,
which the code does not guard against either: its waits have no timeout except
the 600 s one of the connectivity test and the 30 s of an FTP connection. Of
devices, file servers and networks nothing is assumed: a file need never arrive.
In Sandboxes only the threads of the runner are fair (`FairSpec`), CloudShell is
not: the run ends because every poll is counted. RemoteFiles, ShellInstall
and SmbSession state safety only, and so do the sequential ConfigFile,
PrepareEnv, TestPlan and ShellfoundryCheck, and ResourceSetup.

## Findings

1. A connectivity test detaches the resource it borrowed even if that resource
   runs tests of its own; its next command or its teardown raises and the run is
   aborted (`resource_jobs_tested`).
2. All resource threads share the FTP session, which is probed, replaced and
   logged in without a lock: with two of them, a save test fails on a connection
   that another thread is logging in or using (`remote_files_shared`).
3. An FTP connection that the server closes without a reply raises EOFError, which
   `_is_session_alive` does not catch: the test fails, the session stays, and every
   later FTP test fails too (`remote_files_eof`).
4. The property `session` of the SMB handler returns None to a thread while another
   one, which stores a standard or clears the PyPI without the lock, drops the session
   (`shell_share_unlocked`).

The models show more behaviour of the code that its maintainers should know of.
With other constants, TLC gives a counterexample for each of these:

- `DescriptorLock = FALSE` (Python 3.12 and later, which `setup.py` admits):
  `LookupComplete` fails, since a second sandbox thread finds a half-built list
  of resource handlers and raises KeyError.
- `DeleteCs = FALSE`, `CsInConfig = FALSE`: `PrepareErrorKept` fails, since
  finish() reads the host of None after a failed `prepare()`, so that
  AttributeError replaces the error and the networking apps stay reserved.
- A tested resource that two sandboxes name: `ConnectedIsSound`, `PartnerReturned`
  and `StaysAttached` fail, since its one handler points to the sandbox that added
  it last.
- `DeleteCs = FALSE` with a CloudShell on Do: `ImplementsLease` fails, as it is meant
  to; the reservation is left for the user.

These are part of the models, which describe them as they are:

- A dead SCP session is never replaced (`ScpCommand`).
- A blueprint that CloudShell shows as Started with its setup "Not Run" is taken for
  ready (`cs_handler.py:151-153`), and the tests run while it is set up.
- A file with a shell and a deployment resource ends in AttributeError
  (`ReadDeployments`): the merging validator reads `shell_name`, which deployment
  resources do not have.
- A simulator of a traffic generator controller, a virtual chassis, a generic app
  or a generic resource has no entry in the tables (`Lookup`): KeyError aborts the
  run. A fake device gets a save test case that reads the FTP section, configured
  or not.
- Broken dependencies that show up after the driver update do not mark the
  resource (`DependenciesBroken`).
- One refused deletion skips the rest of `finish()`; Ctrl-C during
  `DoHandler.prepare` leaves its reservations on Do; a resource whose attributes
  are refused stays.
- A save test whose read fails leaves its file on the server, and so does a save or
  restore test whose save command raises after the copy; a TFTP file is never
  deleted.
- A package whose transfer timed out half-way is stored truncated by the retry;
  two failing shells that clear the PyPI at the same time may stop each other and
  leave packages there.
- A resource of another user with the name of a configured one is taken over and
  deleted at the end. After a creation that failed, the second finish() deletes what
  another user has created meanwhile under the name of a handler.
- When prepare-env cannot create its sandboxes the storage deletes the resources, and
  the apps and blueprints that refer to them stay on CloudShell.
- A deployment path that has the model of its provider inside, or consists of it, gets
  it in front a second time (`Qualified`).
- Ctrl-C while a package is created, or before it is deleted, leaves its file.
- The reservation of the debug-level scripts is never ended; the first default
  position of an app is never used and two of the others are equal.
- A download that failed half-way stays in the temporary directory; an aborted
  shellfoundry check leaves a folder whose shell the next check may test.

## Proofs

Each proof module extends the module of its component and proves, for every value
of the constants (sets of sandboxes, resources, shells, apps and threads, pool
sizes, attempts, polls, commands, Ctrl-C presses), what the runs show on one
instance. Assumptions are the named ASSUMEs of the component's module, which TLC
evaluates on every run, and, where the table says so, a hypothesis of the theorem.

Two proof modules are about a composition. ShellInstallProofs extends ShellShare:
its theorems about files are theorems of ShellInstall's `Spec`, those about the
session theorems of `ShareSpec`, from `ShareAssumption`. PreparationProofs extends
CommandLine and proves the properties of its five parts, each by an invariant of its
own, from `CommandAssumption`, which collects what the parts assume.

| Module | Theorems | Hypothesis |
|---|---|---|
| TestRunProofs | `TypeCorrect`, `CleanupIsLast`, `LogsAreKept`, `ReportIsComplete`, `SuccessIsReal`, `CutShortStaysUnreported` | none |
| SandboxesProofs | `SandboxTypes`, `TestedSandboxesAreSetUp`, `HeldResourcesExist`, `OtherSandboxesAreEnded`, `SandboxesRefineLease` | none |
| DoHandlerProofs | `DoTypes`, `TestsStartPrepared` | none |
| | `PrepareKeepsTheError` | `DeleteCs \/ CsInConfig` |
| | `DoImplementsLease` | `CsOnDo => DeleteCs` |
| ResourceJobsProofs | `ResourceJobTypes`, `AutoloadsAreSerialised` | none |
| | `ConnectionsAreSound`, `PartnersAreReturned` | `OwnSandbox` |
| | `TestedResourcesStay` | `OwnSandbox`, `UntestedPartners` |
| HandlerStorageProofs | `StorageTypes` | none |
| | `LookupsAreComplete`, `TestsAreUndisturbed`, `NothingElseStays` | `DescriptorLock` |
| ShellInstallProofs | `InstallTypes`, `ShellsAreComplete`, `PypiEndsEmpty` | none |
| | `SmbTypes`, `SessionConnected`, `SmbFailureCaused` | none |
| RemoteFilesProofs | `RemoteFileTypes`, `PassedTestsCleanUp`, `FailedRestoresCleanUp` | none |
| | `FailuresHaveCauses` | `OneFtpUser` |
| PreparationProofs | `CommandInvariant`, `TestsAreMerged`, `NoFileOutlives`, `SuitesAreExact`, `BlueprintsDeploy`, `RequestedIsTested`, `ForeignResourcesAreSafe`, `LoadsAreComplete` | none |

The hypotheses are conditions on the configuration or the Python version that the
code does not check, and each is needed: without it the models have a
counterexample (the findings and the list after them). They are satisfied by the
instance of the run that checks the property, so no theorem is empty.

- `DescriptorLock`: Python 3.10 or 3.11.
- `OwnSandbox`: no two sandboxes test the same resource; there is one
  `_sandbox_handler` for each resource, and the second sandbox would overwrite it.
- `UntestedPartners`: a sandbox with a connectivity test tests no other resource
  (finding 1).
- `OneFtpUser`: only one resource thread has tests that use FTP (finding 2).
- `DeleteCs \/ CsInConfig`: finish() does not have to read the host of a CloudShell
  that was never made. `CsOnDo => DeleteCs`: a CloudShell the user wants to keep is
  not a lease that ends.

### The inductive invariants

No property but the types is inductive alone. What each proof adds:

- TestRun, `Inv`. `MainInv`: what the main thread's place says about the futures and
  Ctrl-C; an active sandbox at `join` means Ctrl-C, and leaving the waits without
  exception means all futures are ok. `ExcInv`: a future has a KeyboardInterrupt
  only if the stop flag is set, and the flag is set only after Ctrl-C or after a
  sandbox failed with another exception; this is why the logs are kept. `ReportInv`:
  the report counts follow the places of the threads. `CutShortIsNotReported` is
  temporal: `Doomed(s)` (the flag is set, and a job of s has failed or has a stop
  check ahead) is stable and excludes a report.
- Sandboxes, `Inv`. `CreateInv`: the state of a reservation at each place of
  create(), with `Gap` as the one way to be created before the setup. `MainInv`:
  finish() ends only what was created, in turn. `LiveInv`: a reservation that finish()
  is through with, or whose creation failed, is not live unless it is stranded, which
  is `OthersAreEnded` before the end.
  `HoldInv`: a reservation that is completed, or that finish() is through with, holds
  nothing; without it `HeldExists` says nothing about the deletion to come. For the
  lease, each action is shown to be a Take, an End, a Close, an Abandon or a
  stutter; the fairness of `FairSpec` plays no part.
- DoHandler, `Inv`. `AttemptInv` (earlier attempts have ended, later ones have no
  reservation) and `CurrentInv` (the state of the current one along the worker's
  steps, and that a handler stands for it unless Do refused to end it) are what the
  retry loop keeps. `HandlerInv`, `PoolInv` and `MainInv` tie them to the main
  thread: it leaves prepare() only with a drained pool. `ErrorInv` follows the
  exception through finish(); `CleanInv` says that what finish() has passed is not
  active, which is the refinement's clean end.
- ResourceJobs. `LocksInv`: who loads or connects has the lock. `SharingInv`: where
  each handler points, that a borrowed device is another one of the same sandbox,
  and that while one is borrowed every other untested device is free.
- HandlerStorage, in layers. `ThreadInv`: the thread inside the cached property
  holds its lock, the main thread builds and finishes alone, and nobody passes the
  lookup while the list is built. `FutureInv`: an item has one future, whose owner
  waits for it, and the list has what was collected. `CompleteInv`: the list is
  complete or there is a reason why not. `LiveInv`: what exists has a handler on its
  way or is abandoned. `FinishInv`: a pass of finish() either goes through lists that
  are all there, removing them in order, or finds everything gone; so a second pass
  that stops at its first item has missed nothing.
- SmbSession, `SmbInv`. `LockInv`: a thread inside a locked call has the lock.
  `SessionInv`, `GotInv`: in a call that nobody crossed, after the probe the
  connection is gone, or good, or was lost during this very call. A step of another
  thread either crosses the call, or both are locked and there is no such step.
- ShellInstall. `StoredInv`: until some shell fails, what was stored stays. `OwedInv`:
  each package on the share has a shell that has still to clear it, by a listing it
  has yet to make or that has the package.
- RemoteFiles. `StepEffect` says that each step of a thread continues its test, fails
  it or passes it, and what it may change; `TestInv` relates results and files to the
  place in the suite. `SessionInv`: no connection is mixed, and after the probe or the
  login it is as the thread thinks unless it was dropped since, which is then
  the cause of the failure; a session that was dropped before the probe is found by
  it, or raises as a `dead session`.
- CommandLine, `CommandInv`: the invariant of the part that the process is in.
  `DownloadInv`: a file that DownloadFile does not know is the part that the download
  which ended the program left; this is per file, so one failed download excuses no
  other.
  `MergeInv`: a resource has an object of its own, new until its merge; so what is
  merged into one never shows up in another. `SuiteInv`: after each command the list
  is already the suite of the commands so far (`IsSuite`), and an autoload test case
  that a command leads to is the one in front, so it is never appended. What the
  tables hold is a lemma by cases over the families (`TableShape`, `AutoloadEntry`);
  the loop over an entry is three applications of one lemma (`OfferKeepsSuite`), so
  nothing needs an induction. `PrepareInv`: the resources are loaded before the first
  package and are there (`LoadingInv`), the apps of a package are there before it is
  imported, and it is imported before the blueprints are made (`PackageInv`), so that
  with a blueprint the apps and providers are there until the storage deletes them
  (`BlueprintsInv`). `CheckInv`: as long
  as no check was aborted a check starts in an empty folder.
- ResourceSetup, `SetupInv`. `PassInv`: the passes of finish() begin when no handler is
  used any more. `NamesInv`: CloudShell has a name once. `CreatingInv`: nothing is
  renamed as long as a resource is created, since the handlers are all created before
  the first test. `HoldingInv`: the name of a handler is that of no other handler, and
  as long as the handler holds a resource, up to its deletion, that resource is its
  own or one that create_resource took over; after its deletion the name may be
  another user's. Without it `ForeignIsSafe` says nothing about the deletion to come.
  `LoadedInv`: the ports are there before the children are configured, on the
  resource that now has the handler's name.

Every property was checked with TLC on the instance of its run before it was proved.

Of a deployment path PrepareEnv assumes only that it is not empty.

Only model-checked:

- All liveness properties (`RunEnds`, `FailureSurfaces`, `StorageRunEnds`, `JobsEnd`,
  `DoEnds`, `SandboxRunEnds`): the prover has neither fairness nor
  ENABLED.
- The properties that runs show to be violated, and the same properties without
  the hypotheses above.
- `CommandLine!TypeOK` and `ResourceSetup!TypeOK`: the invariants above have the types
  that their proofs need and no more.

## Not modelled, and why

- The download of the logs from the file share: every error in it is caught and
  logged, and nothing reads the result.
- `set_debug_log_level` and the patching of dependencies: no code calls them.
- Service and deployment resource handlers and their tests, the vCenter handler
  and the VM tests: read from the configuration, but never run by the runner.
- Queries of the CloudShell API that only read, the traffic generator and custom
  command tests, the checks of the autoload structure: single calls whose outcome
  is a choice in ResourceJobs.
- pydantic's own type checks, setup and teardown commands as text, log and report
  formatting, XML layout, thread names.
- Two resources with the same name in one configuration.

## What is left

Every safety invariant and every refinement that a run checks is a theorem. What
could be added: the configuration file with any number of resources (ConfigFile has
two, and its merge is proved for those); service handlers and vCenter tests, once
the runner calls them; and liveness by hand, by a ranking of the steps each thread has
left, for which the prover has no rules.
