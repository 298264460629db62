---------------------------- MODULE ResourceJobs ----------------------------
(***************************************************************************)
(* What the jobs of the resource threads do to the resource handlers they  *)
(* share: the autoload protocol of ResourceHandler (lock, started and      *)
(* finished events, result), the sandbox a handler is attached to, and the *)
(* connectivity test, which borrows another resource of the sandbox (the   *)
(* device under test, DUT) while that resource has a job of its own.       *)
(*                                                                         *)
(* A job is the pair of a sandbox and a resource its config names.  The    *)
(* suite is abstracted to the three kinds of test that touch this state:   *)
(* autoload (first), connectivity, and a command of the resource.          *)
(***************************************************************************)
EXTENDS Naturals, FiniteSets

CONSTANTS
    Sandbox,
    Resource,
    ResourceNames,    \* sandbox |-> the resources its config names
    RunTests,         \* the resources whose tests_conf.run_tests is True
    Connectivity,     \* the tested resources with a connectivity test
    SetupCommands,    \* the resources with setup commands
    TeardownCommands, \* the resources with teardown commands
    NoSandbox,        \* _sandbox_handler is None
    Nobody            \* no job holds the lock

ASSUME ConfigAssumption ==
    /\ ResourceNames \in [Sandbox -> SUBSET Resource]
    /\ RunTests \subseteq Resource
    /\ Connectivity \subseteq RunTests
    /\ SetupCommands \subseteq Resource
    /\ TeardownCommands \subseteq Resource
    /\ NoSandbox \notin Sandbox

Job == {j \in Sandbox \X Resource : j[2] \in ResourceNames[j[1]]}

ASSUME LockAssumption == Nobody \notin Job

VARIABLES
    pc,           \* where each job is
    todo,         \* the tests of a job's suite that are still to run
    dut,          \* the device a job's connectivity test has borrowed
    attached,     \* ResourceHandler._sandbox_handler
    reserved,     \* sandbox |-> the resources in its reservation
    started,      \* _autoload_started
    finished,     \* autoload_finished
    success,      \* is_autoload_success, "None" before the first autoload
    autoloadLock, \* _autoload_lock of each handler
    connLock,     \* TestConnectivity.LOCK
    broken,       \* the handlers with dependencies_are_broken
    stranded      \* DUTs CloudShell has refused to remove from a reservation

autoloadVars == <<started, finished, success, autoloadLock>>
sandboxVars == <<attached, reserved, stranded>>
vars == <<pc, todo, dut, sandboxVars, autoloadVars, connLock, broken>>

Goto(j, label) == pc' = [pc EXCEPT ![j] = label]

-----------------------------------------------------------------------------
Init ==
    /\ pc = [j \in Job |-> "new"]
    /\ todo = [j \in Job |-> {}]
    /\ dut = [j \in Job |-> j[2]]
    /\ attached = [r \in Resource |-> NoSandbox]
    /\ reserved = [s \in Sandbox |-> {}]
    /\ started = [r \in Resource |-> FALSE]
    /\ finished = [r \in Resource |-> FALSE]
    /\ success = [r \in Resource |-> "None"]
    /\ autoloadLock = [r \in Resource |-> Nobody]
    /\ connLock = Nobody
    /\ broken = {}
    /\ stranded = {}

-----------------------------------------------------------------------------
(* The sandbox thread *)

Tested(s) == ResourceNames[s] \cap RunTests

\* RunTestsForSandbox.resource_handlers adds the tested resources, then run()
\* submits the jobs.
StartSandbox(s) ==
    /\ \A r \in ResourceNames[s] : pc[<<s, r>>] = "new"
    /\ reserved' = [reserved EXCEPT ![s] = @ \cup Tested(s)]
    /\ attached' = [r \in Resource |-> IF r \in Tested(s) THEN s
                                                           ELSE attached[r]]
    /\ pc' = [j \in Job |-> IF j[1] = s THEN "setup" ELSE pc[j]]
    /\ UNCHANGED <<todo, dut, stranded, autoloadVars, connLock, broken>>

-----------------------------------------------------------------------------
(* Commands of the resource *)

\* ResourceHandler.execute_command goes to the reservation the handler is
\* attached to, which must hold the resource.
CanExecute(r) == attached[r] \in Sandbox /\ r \in reserved[attached[r]]

\* A command that fails may do so with DependenciesBrokenError, which
\* execute_command notes.
MayBreak(r) == UNCHANGED broken \/ (CanExecute(r) /\ broken' = broken \cup {r})

\* get_test_suite: the tests that follow the autoload test.
SuiteTests(r) ==
    {"command"} \cup (IF r \in Connectivity THEN {"connectivity"} ELSE {})

\* run_resource_commands(setup_commands), then the suite or the autoload.
RunSetup(j) ==
    /\ pc[j] = "setup"
    /\ \/ /\ j[2] \notin SetupCommands \/ CanExecute(j[2])
          /\ \/ /\ j[2] \in RunTests
                /\ Goto(j, "autoload")
                /\ todo' = [todo EXCEPT ![j] = SuiteTests(j[2])]
             \/ /\ j[2] \notin RunTests
                /\ Goto(j, "ifNeeded")
                /\ UNCHANGED todo
          /\ UNCHANGED broken
       \/ /\ j[2] \in SetupCommands
          /\ MayBreak(j[2])
          /\ Goto(j, "failed")
          /\ UNCHANGED todo
    /\ UNCHANGED <<dut, sandboxVars, autoloadVars, connLock>>

\* A tested resource with broken dependencies: _callTestMethod fails every
\* test of the suite, the autoload test too, before it does anything.
SkipBroken(j) ==
    /\ pc[j] \in {"autoload", "suite"}
    /\ j[2] \in broken \cap RunTests
    /\ pc[j] = "suite" => todo[j] # {}
    /\ todo' = [todo EXCEPT ![j] = {}]
    /\ Goto(j, "suite")
    /\ UNCHANGED <<dut, sandboxVars, autoloadVars, connLock, broken>>

\* A test of the suite that executes a command; it passes or fails.
CommandTest(j) ==
    /\ pc[j] = "suite"
    /\ "command" \in todo[j]
    /\ j[2] \notin broken
    /\ todo' = [todo EXCEPT ![j] = @ \ {"command"}]
    /\ MayBreak(j[2])
    /\ UNCHANGED <<pc, dut, sandboxVars, autoloadVars, connLock>>

\* The report is appended and the teardown commands run.
RunTeardown(j) ==
    /\ pc[j] = "suite"
    /\ todo[j] = {}
    /\ \/ /\ j[2] \notin TeardownCommands \/ CanExecute(j[2])
          /\ Goto(j, "done")
          /\ UNCHANGED broken
       \/ j[2] \in TeardownCommands /\ MayBreak(j[2]) /\ Goto(j, "failed")
    /\ UNCHANGED <<todo, dut, sandboxVars, autoloadVars, connLock>>

-----------------------------------------------------------------------------
(* ResourceHandler.autoload and autoload_if_needed *)

\* autoload_if_needed of a resource without tests.
AutoloadIfNeeded(j) ==
    /\ pc[j] = "ifNeeded"
    /\ \/ finished[j[2]] /\ Goto(j, "done")
       \/ ~finished[j[2]] /\ started[j[2]] /\ Goto(j, "wait")
       \/ ~finished[j[2]] /\ ~started[j[2]] /\ Goto(j, "autoload")
    /\ UNCHANGED <<todo, dut, sandboxVars, autoloadVars, connLock, broken>>

\* autoload_finished.wait() without a timeout.
WaitFinished(j) ==
    /\ pc[j] = "wait"
    /\ finished[j[2]]
    /\ Goto(j, "done")
    /\ UNCHANGED <<todo, dut, sandboxVars, autoloadVars, connLock, broken>>

StartAutoload(j) ==
    /\ pc[j] = "autoload"
    /\ j[2] \notin broken \cap RunTests
    /\ started' = [started EXCEPT ![j[2]] = TRUE]
    /\ Goto(j, "acquire")
    /\ UNCHANGED <<todo, dut, sandboxVars, finished, success, autoloadLock,
                   connLock, broken>>

\* Mutant: autoload does not wait for the lock.
AutoloadNotLocked(r) == TRUE

AutoloadLockFree(r) == autoloadLock[r] = Nobody

AcquireAutoloadLock(j) ==
    /\ pc[j] = "acquire"
    /\ AutoloadLockFree(j[2])
    /\ autoloadLock' = [autoloadLock EXCEPT ![j[2]] = j]
    /\ Goto(j, "loading")
    /\ UNCHANGED <<todo, dut, sandboxVars, started, finished, success, connLock,
                   broken>>

\* _autoload, the additional ports and the children attributes succeed or
\* raise, DependenciesBrokenError included; the result is stored.
Autoload(j) ==
    /\ pc[j] = "loading"
    /\ \/ /\ success' = [success EXCEPT ![j[2]] = "True"]
          /\ UNCHANGED broken
       \/ /\ success' = [success EXCEPT ![j[2]] = "False"]
          /\ broken' \in {broken, broken \cup {j[2]}}
    /\ Goto(j, "loaded")
    /\ UNCHANGED <<todo, dut, sandboxVars, started, finished, autoloadLock,
                   connLock>>

\* A tested resource goes on with its suite, another one is done: its
\* exception is logged.
AfterAutoload(j) == Goto(j, IF j[2] \in RunTests THEN "suite" ELSE "done")

\* Mutant: only a successful autoload sets the event.
SignalOnSuccess(r) == success[r] = "True"

\* Both outcomes set the event.
Signals(r) == success[r] \in {"True", "False"}

\* autoload_finished.set() and the end of the with block; an exception leaves
\* before _autoload_started is cleared.
FinishAutoload(j) ==
    /\ pc[j] = "loaded"
    /\ finished' = [finished EXCEPT ![j[2]] = @ \/ Signals(j[2])]
    /\ autoloadLock' = [autoloadLock EXCEPT ![j[2]] = Nobody]
    /\ \/ success[j[2]] = "True" /\ Goto(j, "clear")
       \/ success[j[2]] = "False" /\ AfterAutoload(j)
    /\ UNCHANGED <<todo, dut, sandboxVars, started, success, connLock, broken>>

ClearStarted(j) ==
    /\ pc[j] = "clear"
    /\ started' = [started EXCEPT ![j[2]] = FALSE]
    /\ AfterAutoload(j)
    /\ UNCHANGED <<todo, dut, sandboxVars, finished, success, autoloadLock,
                   connLock, broken>>

-----------------------------------------------------------------------------
(* TestConnectivity *)

\* Mutant: the connectivity tests are not serialised.
ConnNotLocked == TRUE

ConnLockFree == connLock = Nobody

AcquireConnLock(j) ==
    /\ pc[j] = "suite"
    /\ "connectivity" \in todo[j]
    /\ j[2] \notin broken
    /\ ConnLockFree
    /\ connLock' = j
    /\ todo' = [todo EXCEPT ![j] = @ \ {"connectivity"}]
    /\ Goto(j, "choose")
    /\ UNCHANGED <<dut, sandboxVars, autoloadVars, broken>>

ReleaseConnLock(j) ==
    /\ connLock' = Nobody
    /\ Goto(j, "suite")

\* Mutant: the tested resource is not told apart from the others.
AnyDevice(r) == ResourceNames[attached[r]]

OtherDevice(r) == ResourceNames[attached[r]] \ {r}

\* get_other_device_for_connectivity: another resource of the sandbox the
\* handler is attached to; an error if it is detached or alone.
ChooseDut(j) ==
    /\ pc[j] = "choose"
    /\ \/ /\ attached[j[2]] \in Sandbox
          /\ \E d \in OtherDevice(j[2]) :
               dut' = [dut EXCEPT ![j] = d]
          /\ Goto(j, "waitDut")
          /\ UNCHANGED connLock
       \/ /\ attached[j[2]] \in Sandbox => OtherDevice(j[2]) = {}
          /\ ReleaseConnLock(j)
          /\ UNCHANGED dut
    /\ UNCHANGED <<todo, sandboxVars, autoloadVars, broken>>

\* dut_handler: the wait for the DUT's autoload ends with the event or after
\* 600 s; then the DUT is added to the reservation of the tested resource.
AddDut(j) ==
    /\ pc[j] = "waitDut"
    /\ \/ /\ attached[j[2]] \in Sandbox
          /\ reserved' = [reserved EXCEPT ![attached[j[2]]] = @ \cup {dut[j]}]
          /\ attached' = [attached EXCEPT ![dut[j]] = attached[j[2]]]
          /\ Goto(j, "connect")
          /\ UNCHANGED connLock
       \* detached meanwhile, or CloudShell refuses
       \/ /\ ReleaseConnLock(j)
          /\ UNCHANGED <<attached, reserved>>
    /\ UNCHANGED <<todo, dut, stranded, autoloadVars, broken>>

Autoloaded(r) == finished[r] /\ success[r] = "True"

\* _test_connectivity checks both devices, then connects their ports; every
\* outcome reaches the finally clause.
Connect(j) ==
    /\ pc[j] = "connect"
    /\ \/ /\ Autoloaded(j[2])
          /\ Autoloaded(dut[j])
          /\ attached[j[2]] \in Sandbox
          /\ Goto(j, "connected")
       \/ Goto(j, "remove")
    /\ UNCHANGED <<todo, dut, sandboxVars, autoloadVars, connLock, broken>>

Disconnect(j) ==
    /\ pc[j] = "connected"
    /\ Goto(j, "remove")
    /\ UNCHANGED <<todo, dut, sandboxVars, autoloadVars, connLock, broken>>

\* Mutant: the DUT stays in the reservation.
DetachForgotten(r, d) == UNCHANGED <<attached, reserved>>

\* remove_resource_from_reservation of the sandbox r is attached to.
Detach(r, d) ==
    /\ attached[r] \in Sandbox
    /\ reserved' = [reserved EXCEPT ![attached[r]] = @ \ {d}]
    /\ attached' = [attached EXCEPT ![d] = NoSandbox]

\* The finally clause of dut_handler and the end of the with block.
RemoveDut(j) ==
    /\ pc[j] = "remove"
    /\ \/ Detach(j[2], dut[j]) /\ UNCHANGED stranded
       \* CloudShell refuses, or the tested resource is detached itself
       \/ stranded' = stranded \cup {dut[j]} /\ UNCHANGED <<attached, reserved>>
    /\ ReleaseConnLock(j)
    /\ UNCHANGED <<todo, dut, autoloadVars, broken>>

-----------------------------------------------------------------------------
JobDone(j) == pc[j] \in {"done", "failed"}

Terminated == (\A j \in Job : JobDone(j)) /\ UNCHANGED vars

ConnectivityStep(j) ==
    \/ ChooseDut(j)
    \/ AddDut(j)
    \/ Connect(j)
    \/ Disconnect(j)
    \/ RemoveDut(j)

JobStep(j) ==
    \/ RunSetup(j)
    \/ CommandTest(j)
    \/ RunTeardown(j)
    \/ AutoloadIfNeeded(j)
    \/ WaitFinished(j)
    \/ StartAutoload(j)
    \/ AcquireAutoloadLock(j)
    \/ Autoload(j)
    \/ FinishAutoload(j)
    \/ ClearStarted(j)
    \/ SkipBroken(j)
    \/ AcquireConnLock(j)
    \/ ConnectivityStep(j)

Next ==
    \/ \E s \in Sandbox : StartSandbox(s)
    \/ \E j \in Job : JobStep(j)
    \/ Terminated

Spec == Init /\ [][Next]_vars

\* Every runnable job is scheduled and every CloudShell call returns.  A job
\* takes each lock a bounded number of times, so weak fairness is enough.
Fairness ==
    /\ \A s \in Sandbox : WF_vars(StartSandbox(s))
    /\ \A j \in Job : WF_vars(JobStep(j))

FairSpec == Spec /\ Fairness

-----------------------------------------------------------------------------
(* Properties *)

TypeOK ==
    /\ pc \in [Job -> {"new", "setup", "suite", "ifNeeded", "wait", "autoload",
                       "acquire", "loading", "loaded", "clear", "choose",
                       "waitDut", "connect", "connected", "remove", "done",
                       "failed"}]
    /\ todo \in [Job -> SUBSET {"command", "connectivity"}]
    /\ dut \in [Job -> Resource]
    /\ attached \in [Resource -> Sandbox \cup {NoSandbox}]
    /\ reserved \in [Sandbox -> SUBSET Resource]
    /\ started \in [Resource -> BOOLEAN]
    /\ finished \in [Resource -> BOOLEAN]
    /\ success \in [Resource -> {"None", "True", "False"}]
    /\ autoloadLock \in [Resource -> Job \cup {Nobody}]
    /\ connLock \in Job \cup {Nobody}
    /\ broken \subseteq Resource
    /\ stranded \subseteq Resource

\* CloudShell never runs two autoloads of one resource at a time, although
\* autoload_if_needed checks the events before it acts and two sandboxes may
\* name the same resource.
OneAutoload ==
    \A i, j \in Job : i[2] = j[2] /\ pc[i] = "loading" /\ pc[j] = "loading"
                        => i = j

\* Ports are connected only in the reservation of the sandbox that runs the
\* test, while it holds both devices and both handlers point to it, although
\* two sandboxes borrow the same device.
ConnectedIsSound ==
    \A j \in Job : pc[j] = "connected" =>
        /\ {j[2], dut[j]} \subseteq reserved[j[1]]
        /\ attached[j[2]] = j[1]
        /\ attached[dut[j]] = j[1]

\* Between connectivity tests no reservation keeps a borrowed device: each
\* way out of the test returns it, unless CloudShell refused.
PartnerReturned ==
    connLock = Nobody =>
        \A d \in Resource \ (RunTests \cup stranded) :
            attached[d] = NoSandbox /\ \A s \in Sandbox : d \notin reserved[s]

\* From the moment its sandbox thread adds it until its job ends, a resource
\* under test stays in the reservation of its sandbox, so that its tests and
\* teardown commands have one to run in.
StaysAttached ==
    \A j \in Job : j[2] \in RunTests /\ pc[j] \notin {"new", "done", "failed"} =>
        attached[j[2]] = j[1] /\ j[2] \in reserved[j[1]]

\* Every job ends: neither the unbounded wait for another thread's autoload
\* nor the two locks block it for ever, whichever autoload fails.
JobsEnd == <>(\A j \in Job : JobDone(j))
=============================================================================
