------------------------------ MODULE TestRun ------------------------------
(***************************************************************************)
(* The test run itself: AutomatedTestsRunner._run_cs_tests (main thread),  *)
(* one RunTestsForSandbox.run per sandbox (a pool of SandboxPool threads)  *)
(* and one _execute_resource_tests per resource of the sandbox (a pool of  *)
(* ResourcePool threads inside each sandbox thread).  The threads share    *)
(* the stop flag, the reports and the resource handlers; Ctrl-C reaches    *)
(* the main thread only.                                                   *)
(*                                                                         *)
(* A list of reports is abstracted to how often each report was appended:  *)
(* its order is the order in which threads won REPORT_LOCK and nothing     *)
(* reads it.  An exception is abstracted to the only distinction the code  *)
(* makes: KeyboardInterrupt or any other.                                  *)
(***************************************************************************)
EXTENDS Naturals, FiniteSets

CONSTANTS
    Sandbox,        \* conf.sandboxes_conf
    Resource,       \* conf.resources_conf
    ResourceNames,  \* sandbox |-> the resources its config names
    RunTests,       \* the resources whose tests_conf.run_tests is True
    OsAccess,       \* cs_conf has os_user and os_password (cs_smb_handler)
    MaxTests,       \* bound: test methods in the suite of one resource
    SandboxPool,    \* max_workers of the sandbox pool (5 in the code)
    ResourcePool,   \* max_workers of a sandbox's resource pool
    MaxInterrupts   \* bound: how often the user presses Ctrl-C

ASSUME ConfigAssumption ==
    /\ ResourceNames \in [Sandbox -> SUBSET Resource]
    /\ RunTests \subseteq Resource
    /\ OsAccess \in BOOLEAN

ASSUME BoundAssumption ==
    /\ MaxTests \in Nat
    /\ MaxInterrupts \in Nat
    /\ SandboxPool \in Nat \ {0}
    /\ ResourcePool \in Nat \ {0}

\* One future of a sandbox's resource pool.
Job == {j \in Sandbox \X Resource : j[2] \in ResourceNames[j[1]]}

JobsOf(s) == {j \in Job : j[1] = s}

VARIABLES
    mpc,             \* where the main thread is
    exc,             \* the exception the main thread is unwinding with
    stopFlag,        \* the Event shared by every thread
    spc,             \* where the future of each sandbox is
    sexc,            \* the exception of each sandbox future
    jpc,             \* where the future of each resource job is
    jexc,            \* the exception of each resource future
    testsLeft,       \* test methods the suite of a job has still to call
    testsFailed,     \* whether a test method of the job's suite failed
    broken,          \* the resources with dependencies_are_broken
    resourceReports, \* how often the job's report is in its SandboxReport
    sandboxReports,  \* how often the sandbox's report is in Reporting
    logsDownloaded,  \* whether download_logs was called
    interrupts       \* Ctrl-C presses so far

mainVars == <<mpc, exc, logsDownloaded, interrupts>>
sandboxVars == <<spc, sexc, sandboxReports>>
jobVars == <<jpc, jexc>>
suiteVars == <<testsLeft, testsFailed, broken, resourceReports>>
vars == <<mainVars, stopFlag, sandboxVars, jobVars, suiteVars>>

Exc == {"none", "KeyboardInterrupt", "Error"}

-----------------------------------------------------------------------------
(* Threads and futures *)

SandboxRunning(s) == spc[s] \in {"resources", "waiting"}

SandboxActive(s) == spc[s] = "queued" \/ SandboxRunning(s)

SandboxDone(s) == spc[s] \in {"ok", "failed"}

JobRunning(j) == jpc[j] \notin {"new", "queued", "ok", "failed"}

JobDone(j) == jpc[j] \in {"ok", "failed"}

FailedSandboxes == {s \in Sandbox : spc[s] = "failed"}

\* Mutant: future.result() is never called on the resource futures.
FailedJobsIgnored(s) == {}

\* The resource futures whose result() raises.
FailedJobs(s) == {j \in JobsOf(s) : jpc[j] = "failed"}

AllFuturesDone == \A s \in Sandbox : SandboxDone(s)

JobGoto(j, label) ==
    /\ jpc' = [jpc EXCEPT ![j] = label]
    /\ UNCHANGED jexc

JobRaise(j, e) ==
    /\ jpc' = [jpc EXCEPT ![j] = "failed"]
    /\ jexc' = [jexc EXCEPT ![j] = e]

\* Mutant: a job does not look at the stop flag.
IsStopSetIgnored(j, label) == JobGoto(j, label)

\* RunTestsForSandbox._is_stop_set followed by the next statement of a job.
IsStopSet(j, label) ==
    \/ stopFlag /\ JobRaise(j, "KeyboardInterrupt")
    \/ ~stopFlag /\ JobGoto(j, label)

-----------------------------------------------------------------------------
Init ==
    /\ mpc = "create"
    /\ exc = "none"
    /\ stopFlag = FALSE
    /\ spc = [s \in Sandbox |-> "new"]
    /\ sexc = [s \in Sandbox |-> "none"]
    /\ jpc = [j \in Job |-> "new"]
    /\ jexc = [j \in Job |-> "none"]
    /\ testsLeft = [j \in Job |-> 0]
    /\ testsFailed = [j \in Job |-> FALSE]
    /\ broken = {}
    /\ resourceReports = [j \in Job |-> 0]
    /\ sandboxReports = [s \in Sandbox |-> 0]
    /\ logsDownloaded = FALSE
    /\ interrupts = 0

-----------------------------------------------------------------------------
(* The main thread *)

\* handler_storage.sandbox_handlers creates the sandboxes or raises.
CreateSandboxes ==
    /\ mpc = "create"
    /\ \/ mpc' = "submit" /\ UNCHANGED exc
       \/ mpc' = "logs" /\ exc' = "Error"
    /\ UNCHANGED <<stopFlag, logsDownloaded, interrupts, sandboxVars, jobVars,
                   suiteVars>>

SubmitSandbox(s) ==
    /\ mpc = "submit"
    /\ spc[s] = "new"
    /\ spc' = [spc EXCEPT ![s] = "queued"]
    /\ UNCHANGED <<mainVars, stopFlag, sexc, sandboxReports, jobVars, suiteVars>>

AllSubmitted ==
    /\ mpc = "submit"
    /\ \A s \in Sandbox : spc[s] # "new"
    /\ mpc' = "wait"
    /\ UNCHANGED <<exc, logsDownloaded, interrupts, stopFlag, sandboxVars,
                   jobVars, suiteVars>>

\* _wait_for_futures: ft.wait(FIRST_EXCEPTION) returns.  "wait"/"drain" is the
\* call in the try block, "rewait"/"redrain" the call in its except clause,
\* which ends in a bare raise when no future failed.
FirstException ==
    /\ mpc \in {"wait", "rewait"}
    /\ \/ /\ FailedSandboxes # {}
          /\ stopFlag' = TRUE
          /\ mpc' = IF mpc = "wait" THEN "drain" ELSE "redrain"
          /\ UNCHANGED exc
       \/ /\ AllFuturesDone
          /\ FailedSandboxes = {}
          /\ mpc' = "join"
          /\ exc' = IF mpc = "wait" THEN "none" ELSE "KeyboardInterrupt"
          /\ UNCHANGED stopFlag
    /\ UNCHANGED <<logsDownloaded, interrupts, sandboxVars, jobVars, suiteVars>>

\* Mutant: one KeyboardInterrupt among the exceptions is enough.
AnyKeyboardInterrupt ==
    \E s \in FailedSandboxes : sexc[s] = "KeyboardInterrupt"

\* The exceptions of all futures are one KeyboardInterrupt.
LoneKeyboardInterrupt ==
    \E s \in Sandbox : FailedSandboxes = {s} /\ sexc[s] = "KeyboardInterrupt"

\* Mutant: the exceptions of the sandbox threads are only logged.
RaisedExceptionLogged ==
    IF LoneKeyboardInterrupt THEN "KeyboardInterrupt" ELSE "none"

\* The exception _wait_for_futures ends with when a future failed.
RaisedException ==
    IF LoneKeyboardInterrupt THEN "KeyboardInterrupt" ELSE "Error"

\* Mutant: the wait is repeated as long as it ends in KeyboardInterrupt.
CaughtInLoop == RaisedException = "KeyboardInterrupt"

\* Raised in the try block, a KeyboardInterrupt reaches the except clause.
CaughtOnce == mpc = "drain" /\ RaisedException = "KeyboardInterrupt"

\* _wait_for_futures: the second ft.wait returns and the exceptions are raised.
RaiseExceptions ==
    /\ mpc \in {"drain", "redrain"}
    /\ AllFuturesDone
    /\ \/ CaughtOnce /\ mpc' = "rewait" /\ UNCHANGED exc
       \/ ~CaughtOnce /\ mpc' = "join" /\ exc' = RaisedException
    /\ UNCHANGED <<logsDownloaded, interrupts, stopFlag, sandboxVars, jobVars,
                   suiteVars>>

\* Mutant: the pool is left without waiting for its threads.
PoolNotJoined == TRUE

PoolIsIdle == \A s \in Sandbox : ~SandboxActive(s)

\* ThreadPoolExecutor.__exit__ waits for every submitted future.
JoinPool ==
    /\ mpc = "join"
    /\ PoolIsIdle
    /\ mpc' = "logs"
    /\ UNCHANGED <<exc, logsDownloaded, interrupts, stopFlag, sandboxVars,
                   jobVars, suiteVars>>

\* _download_logs in the finally clause; download_logs logs what it raises.
DownloadLogs ==
    /\ mpc = "logs"
    /\ logsDownloaded' = (OsAccess /\ exc # "KeyboardInterrupt")
    /\ mpc' = "finish"
    /\ UNCHANGED <<exc, interrupts, stopFlag, sandboxVars, jobVars, suiteVars>>

\* handler_storage.finish() succeeds or raises.
Finish ==
    /\ mpc = "finish"
    /\ \/ /\ mpc' = IF exc = "none" THEN "returned" ELSE "raised"
          /\ UNCHANGED exc
       \/ /\ mpc' = "raised"
          /\ exc' = "Error"
    /\ UNCHANGED <<logsDownloaded, interrupts, stopFlag, sandboxVars, jobVars,
                   suiteVars>>

\* Ctrl-C: KeyboardInterrupt is raised wherever the main thread is.
CaughtByExcept == {"wait", "drain"}

InterruptTarget ==
    CASE mpc = "create" -> "logs"
      [] mpc \in {"submit", "rewait", "redrain"} -> "join"
      [] mpc \in CaughtByExcept -> "rewait"
      [] mpc = "join" -> "logs"
      [] OTHER -> "raised"

Interrupt ==
    /\ mpc \notin {"returned", "raised"}
    /\ interrupts < MaxInterrupts
    /\ interrupts' = interrupts + 1
    /\ mpc' = InterruptTarget
    /\ stopFlag' = (stopFlag \/ mpc \in CaughtByExcept)
    /\ exc' = IF mpc \in CaughtByExcept THEN exc ELSE "KeyboardInterrupt"
    /\ UNCHANGED <<logsDownloaded, sandboxVars, jobVars, suiteVars>>

-----------------------------------------------------------------------------
(* RunTestsForSandbox.run, in a thread of the sandbox pool *)

RunSandbox(s) ==
    /\ spc[s] = "queued"
    /\ Cardinality({t \in Sandbox : SandboxRunning(t)}) < SandboxPool
    /\ \/ /\ stopFlag
          /\ spc' = [spc EXCEPT ![s] = "failed"]
          /\ sexc' = [sexc EXCEPT ![s] = "KeyboardInterrupt"]
       \/ /\ ~stopFlag
          /\ spc' = [spc EXCEPT ![s] = "resources"]
          /\ UNCHANGED sexc
    /\ UNCHANGED <<mainVars, stopFlag, sandboxReports, jobVars, suiteVars>>

\* self.resource_handlers is looked up (and added to the reservation) before
\* the first job is submitted; either may raise.
SubmitJobs(s) ==
    /\ spc[s] = "resources"
    /\ \/ /\ spc' = [spc EXCEPT ![s] = "failed"]
          /\ sexc' = [sexc EXCEPT ![s] = "Error"]
          /\ UNCHANGED jpc
       \/ /\ spc' = [spc EXCEPT ![s] = "waiting"]
          /\ jpc' = [j \in Job |-> IF j[1] = s THEN "queued" ELSE jpc[j]]
          /\ UNCHANGED sexc
    /\ UNCHANGED <<mainVars, stopFlag, sandboxReports, jexc, suiteVars>>

\* ft.wait, future.result() for each future, then the report is appended.
CollectJobs(s) ==
    /\ spc[s] = "waiting"
    /\ \A j \in JobsOf(s) : JobDone(j)
    /\ \/ /\ FailedJobs(s) = {}
          /\ spc' = [spc EXCEPT ![s] = "ok"]
          /\ sandboxReports' = [sandboxReports EXCEPT ![s] = @ + 1]
          /\ UNCHANGED sexc
       \/ \E j \in FailedJobs(s) :
          /\ spc' = [spc EXCEPT ![s] = "failed"]
          /\ sexc' = [sexc EXCEPT ![s] = jexc[j]]
          /\ UNCHANGED sandboxReports
    /\ UNCHANGED <<mainVars, stopFlag, jobVars, suiteVars>>

-----------------------------------------------------------------------------
(* RunTestsForSandbox._execute_resource_tests, in a resource thread *)

StartJob(j) ==
    /\ jpc[j] = "queued"
    /\ Cardinality({k \in JobsOf(j[1]) : JobRunning(k)}) < ResourcePool
    /\ IsStopSet(j, "setup")
    /\ UNCHANGED <<mainVars, stopFlag, sandboxVars, suiteVars>>

\* Setup commands; a command may raise, DependenciesBrokenError included.
RunSetup(j) ==
    /\ jpc[j] = "setup"
    /\ \/ JobRaise(j, "Error") /\ broken' \in {broken, broken \cup {j[2]}}
       \/ /\ IsStopSet(j, IF j[2] \in RunTests THEN "suite" ELSE "autoload")
          /\ UNCHANGED broken
    /\ UNCHANGED <<mainVars, stopFlag, sandboxVars, testsLeft, testsFailed,
                   resourceReports>>

\* get_test_suite raises or returns a suite of some test methods.
GetTestSuite(j) ==
    /\ jpc[j] = "suite"
    /\ \/ JobRaise(j, "Error") /\ UNCHANGED testsLeft
       \/ /\ JobGoto(j, "testing")
          /\ \E n \in 0..MaxTests : testsLeft' = [testsLeft EXCEPT ![j] = n]
    /\ UNCHANGED <<mainVars, stopFlag, sandboxVars, testsFailed, broken,
                   resourceReports>>

\* Mutant: off by one in the number of test methods.
SuiteIsDoneEarly(j) == testsLeft[j] = 1

SuiteIsDone(j) == testsLeft[j] = 0

\* BaseResourceServiceTestCase._callTestMethod: broken dependencies fail the
\* test before the stop flag is looked at; KeyboardInterrupt leaves the suite.
CallTestMethod(j) ==
    /\ jpc[j] = "testing"
    /\ ~SuiteIsDone(j)
    /\ \/ /\ j[2] \in broken
          /\ testsFailed' = [testsFailed EXCEPT ![j] = TRUE]
          /\ testsLeft' = [testsLeft EXCEPT ![j] = @ - 1]
          /\ UNCHANGED <<jobVars, broken>>
       \/ /\ j[2] \notin broken
          /\ stopFlag
          /\ JobRaise(j, "KeyboardInterrupt")
          /\ UNCHANGED <<testsLeft, testsFailed, broken>>
       \/ /\ j[2] \notin broken
          /\ ~stopFlag
          /\ \/ UNCHANGED <<testsFailed, broken>>
             \/ /\ testsFailed' = [testsFailed EXCEPT ![j] = TRUE]
                /\ broken' \in {broken, broken \cup {j[2]}}
          /\ testsLeft' = [testsLeft EXCEPT ![j] = @ - 1]
          /\ UNCHANGED jobVars
    /\ UNCHANGED <<mainVars, stopFlag, sandboxVars, resourceReports>>

AppendResourceReport(j) ==
    /\ jpc[j] = "testing"
    /\ SuiteIsDone(j)
    /\ resourceReports' = [resourceReports EXCEPT ![j] = @ + 1]
    /\ JobGoto(j, "reported")
    /\ UNCHANGED <<mainVars, stopFlag, sandboxVars, testsLeft, testsFailed,
                   broken>>

StartTeardown(j) ==
    /\ jpc[j] = "reported"
    /\ IsStopSet(j, "teardown")
    /\ UNCHANGED <<mainVars, stopFlag, sandboxVars, suiteVars>>

RunTeardown(j) ==
    /\ jpc[j] = "teardown"
    /\ \/ JobRaise(j, "Error") /\ broken' \in {broken, broken \cup {j[2]}}
       \/ JobGoto(j, "ok") /\ UNCHANGED broken
    /\ UNCHANGED <<mainVars, stopFlag, sandboxVars, testsLeft, testsFailed,
                   resourceReports>>

\* autoload_if_needed of a resource without tests; its exceptions are logged.
AutoloadOnly(j) ==
    /\ jpc[j] = "autoload"
    /\ broken' \in {broken, broken \cup {j[2]}}
    /\ JobGoto(j, "ok")
    /\ UNCHANGED <<mainVars, stopFlag, sandboxVars, testsLeft, testsFailed,
                   resourceReports>>

-----------------------------------------------------------------------------
Ended == mpc \in {"returned", "raised"}

\* The process ends: nothing left to do.
Terminated ==
    /\ Ended
    /\ \A s \in Sandbox : ~SandboxActive(s)
    /\ UNCHANGED vars

Main ==
    \/ CreateSandboxes
    \/ \E s \in Sandbox : SubmitSandbox(s)
    \/ AllSubmitted
    \/ FirstException
    \/ RaiseExceptions
    \/ JoinPool
    \/ DownloadLogs
    \/ Finish

SandboxThread(s) == RunSandbox(s) \/ SubmitJobs(s) \/ CollectJobs(s)

ResourceThread(j) ==
    \/ StartJob(j)
    \/ RunSetup(j)
    \/ GetTestSuite(j)
    \/ CallTestMethod(j)
    \/ AppendResourceReport(j)
    \/ StartTeardown(j)
    \/ RunTeardown(j)
    \/ AutoloadOnly(j)

Next ==
    \/ Main
    \/ Interrupt
    \/ \E s \in Sandbox : SandboxThread(s)
    \/ \E j \in Job : ResourceThread(j)
    \/ Terminated

Spec == Init /\ [][Next]_vars

\* Every thread that can run is scheduled; nobody has to press Ctrl-C.
Fairness ==
    /\ WF_vars(Main)
    /\ \A s \in Sandbox : WF_vars(SandboxThread(s))
    /\ \A j \in Job : WF_vars(ResourceThread(j))

FairSpec == Spec /\ Fairness

-----------------------------------------------------------------------------
(* What the run reports *)

\* SandboxReport.is_success
SandboxIsSuccess(s) ==
    /\ \E j \in JobsOf(s) : resourceReports[j] > 0
    /\ \A j \in JobsOf(s) : resourceReports[j] > 0 => ~testsFailed[j]

\* Mutant: one successful sandbox is enough.
ReportingAnySuccess ==
    \E s \in Sandbox : sandboxReports[s] > 0 /\ SandboxIsSuccess(s)

\* Reporting.is_success
ReportingIsSuccess ==
    \A s \in Sandbox : sandboxReports[s] > 0 => SandboxIsSuccess(s)

-----------------------------------------------------------------------------
(* Properties *)

TypeOK ==
    /\ mpc \in {"create", "submit", "wait", "drain", "rewait", "redrain",
                "join", "logs", "finish", "returned", "raised"}
    /\ exc \in Exc
    /\ stopFlag \in BOOLEAN
    /\ spc \in [Sandbox -> {"new", "queued", "resources", "waiting", "ok",
                            "failed"}]
    /\ sexc \in [Sandbox -> Exc]
    /\ jpc \in [Job -> {"new", "queued", "setup", "suite", "testing",
                        "reported", "teardown", "autoload", "ok", "failed"}]
    /\ jexc \in [Job -> Exc]
    /\ testsLeft \in [Job -> 0..MaxTests]
    /\ testsFailed \in [Job -> BOOLEAN]
    /\ broken \subseteq Resource
    /\ resourceReports \in [Job -> Nat]
    /\ sandboxReports \in [Sandbox -> Nat]
    /\ logsDownloaded \in BOOLEAN
    /\ interrupts \in 0..MaxInterrupts

\* A Reporting that run() returns holds exactly one report per sandbox and,
\* in it, exactly one report per resource whose tests were to run, whatever
\* the threads' order, the stop flag or Ctrl-C did on the way.
ReportComplete ==
    mpc = "returned" =>
        /\ \A s \in Sandbox : sandboxReports[s] = 1
        /\ \A j \in Job :
             resourceReports[j] = IF j[2] \in RunTests THEN 1 ELSE 0

\* A returned report counts as successful only if every sandbox tested at
\* least one resource and every suite ran to its end without a failure: a
\* stopped or broken suite never shows up as a success.
NoFalseSuccess ==
    mpc = "returned" /\ ReportingIsSuccess =>
        \A s \in Sandbox :
            /\ \E j \in JobsOf(s) : j[2] \in RunTests
            /\ \A j \in JobsOf(s) :
                 jpc[j] = "ok" /\ testsLeft[j] = 0 /\ ~testsFailed[j]

\* Without Ctrl-C the CloudShell logs are always asked for: the
\* KeyboardInterrupt that the stop flag raises in the threads of the other
\* sandboxes never masks the failure that set the flag.
LogsKeptOnFailure ==
    OsAccess /\ mpc \in {"finish", "returned", "raised"} /\ interrupts = 0
        => logsDownloaded

\* The reservations, resources and shells are cleaned up only after every
\* sandbox thread has ended; one Ctrl-C cannot change that, only a second one
\* that reaches the main thread while it joins the pool.
CleanupAfterThreads ==
    mpc \in {"logs", "finish", "returned", "raised"}
      /\ (\E s \in Sandbox : SandboxActive(s))
        => interrupts >= 2

\* Once the stop flag is set, a sandbox with a job that has a stop check ahead
\* of it is never reported, so no report shows a sandbox cut short.
HasCheckAhead(s) ==
    \E j \in JobsOf(s) :
        jpc[j] \in {"queued", "setup", "suite", "testing", "reported"}

CutShortIsNotReported ==
    \A s \in Sandbox :
        [](stopFlag /\ HasCheckAhead(s) => [](sandboxReports[s] = 0))

\* The run ends: the main thread leaves run() and no thread is left behind,
\* however often the tests fail or the user presses Ctrl-C.
RunEnds == <>[](Ended /\ \A s \in Sandbox : ~SandboxActive(s))

\* A sandbox thread that raised makes run() raise and stay so: neither the
\* aggregation of the exceptions, nor Ctrl-C, nor the clean-up turns a failed
\* sandbox into a returned report.
FailureSurfaces ==
    \A s \in Sandbox : spc[s] = "failed" ~> [](mpc = "raised")
=============================================================================
