--------------------------- MODULE TestRunProofs ---------------------------
(***************************************************************************)
(* Proofs about TestRun, for every set of sandboxes and resources, every   *)
(* pool size and every number of Ctrl-C presses.                           *)
(***************************************************************************)
EXTENDS TestRun, TLAPS

(* The inductive invariant, part by part. *)

\* What the main thread's place says about the sandbox futures and Ctrl-C.
MainInv ==
    /\ mpc = "create" => \A s \in Sandbox : spc[s] = "new"
    /\ mpc \in {"wait", "drain", "rewait", "redrain"}
         => \A s \in Sandbox : spc[s] # "new"
    /\ mpc \in {"create", "submit", "wait", "drain"}
         => exc = "none" /\ interrupts = 0
    /\ mpc \in {"rewait", "redrain"} => interrupts >= 1
    /\ mpc = "join" /\ (\E s \in Sandbox : SandboxActive(s))
         => interrupts >= 1
    /\ exc = "none" /\ mpc \in {"join", "logs", "finish", "returned"}
         => \A s \in Sandbox : spc[s] = "ok"
    /\ mpc = "returned" => exc = "none"

\* Where a KeyboardInterrupt and the stop flag come from.
ExcInv ==
    /\ \A s \in Sandbox : spc[s] = "failed" <=> sexc[s] # "none"
    /\ \A s \in Sandbox : sexc[s] = "KeyboardInterrupt" => stopFlag
    /\ \A j \in Job : jpc[j] = "failed" <=> jexc[j] # "none"
    /\ \A j \in Job : jexc[j] = "KeyboardInterrupt" => stopFlag
    /\ stopFlag => \/ interrupts >= 1
                   \/ \E s \in Sandbox : sexc[s] = "Error"
    /\ exc = "KeyboardInterrupt" => interrupts >= 1

\* How the reports follow the threads.
ReportInv ==
    /\ \A s \in Sandbox : sandboxReports[s] = IF spc[s] = "ok" THEN 1 ELSE 0
    /\ \A j \in Job :
        /\ spc[j[1]] \in {"new", "queued", "resources"} => jpc[j] = "new"
        /\ spc[j[1]] = "ok" => jpc[j] = "ok"
        /\ jpc[j] \in {"suite", "testing", "reported", "teardown"}
             => j[2] \in RunTests
        /\ jpc[j] = "autoload" => j[2] \notin RunTests
        /\ jpc[j] \in {"new", "queued", "setup", "suite", "testing", "autoload"}
             => resourceReports[j] = 0
        /\ jpc[j] \in {"reported", "teardown"} => resourceReports[j] = 1
        /\ jpc[j] = "ok"
             => resourceReports[j] = IF j[2] \in RunTests THEN 1 ELSE 0
        /\ jpc[j] \notin {"testing", "failed"} => testsLeft[j] = 0
        /\ jpc[j] \in {"new", "queued", "setup", "suite", "autoload"}
             \/ j[2] \notin RunTests
               => ~testsFailed[j]

Inv ==
    /\ TypeOK
    /\ MainInv
    /\ ExcInv
    /\ ReportInv
    /\ CleanupAfterThreads
    /\ LogsKeptOnFailure

-----------------------------------------------------------------------------
\* The two parts of a job.
LEMMA JobParts ==
    \A j \in Job : j[1] \in Sandbox /\ j[2] \in Resource
  BY DEF Job

\* Init satisfies every part of the invariant.
LEMMA InitInv == Init => Inv
  <1> SUFFICES ASSUME Init PROVE Inv
    OBVIOUS
  <1>1. TypeOK
    <2>1. testsFailed \in [Job -> BOOLEAN]
      BY Zenon DEF Init
    <2>2. testsLeft \in [Job -> 0..MaxTests] /\ interrupts \in 0..MaxInterrupts
      BY BoundAssumption DEF Init
    <2> QED
      BY <2>1, <2>2 DEF Init, TypeOK, Exc
  <1>2. MainInv /\ CleanupAfterThreads /\ LogsKeptOnFailure
    BY DEF Init, MainInv, CleanupAfterThreads, LogsKeptOnFailure
  <1>3. ExcInv
    BY DEF Init, ExcInv
  <1>4. ReportInv
    BY JobParts DEF Init, ReportInv
  <1> QED
    BY <1>1, <1>2, <1>3, <1>4 DEF Inv

\* Every step keeps every variable in its type.
LEMMA TypeStep == TypeOK /\ [Next]_vars => TypeOK'
  <1> SUFFICES ASSUME TypeOK, [Next]_vars PROVE TypeOK'
    OBVIOUS
  <1> USE BoundAssumption, JobParts DEF TypeOK, Exc, mainVars, sandboxVars,
          jobVars, suiteVars
  <1>1. CASE CreateSandboxes
    BY <1>1 DEF CreateSandboxes
  <1>2. ASSUME NEW s \in Sandbox, SubmitSandbox(s) PROVE TypeOK'
    BY <1>2 DEF SubmitSandbox
  <1>3. CASE AllSubmitted
    BY <1>3 DEF AllSubmitted
  <1>4. CASE FirstException
    BY <1>4 DEF FirstException
  <1>5. CASE RaiseExceptions
    BY <1>5 DEF RaiseExceptions, RaisedException
  <1>6. CASE JoinPool
    BY <1>6 DEF JoinPool
  <1>7. CASE DownloadLogs
    BY <1>7 DEF DownloadLogs
  <1>8. CASE Finish
    BY <1>8 DEF Finish
  <1>9. CASE Interrupt
    BY <1>9 DEF Interrupt, InterruptTarget, CaughtByExcept
  <1>10. ASSUME NEW s \in Sandbox, RunSandbox(s) PROVE TypeOK'
    BY <1>10 DEF RunSandbox
  <1>11. ASSUME NEW s \in Sandbox, SubmitJobs(s) PROVE TypeOK'
    BY <1>11 DEF SubmitJobs
  <1>12. ASSUME NEW s \in Sandbox, CollectJobs(s) PROVE TypeOK'
    BY <1>12 DEF CollectJobs, FailedJobs, JobsOf
  <1>13. ASSUME NEW j \in Job, StartJob(j) PROVE TypeOK'
    BY <1>13 DEF StartJob, IsStopSet, JobRaise, JobGoto
  <1>14. ASSUME NEW j \in Job, RunSetup(j) PROVE TypeOK'
    BY <1>14 DEF RunSetup, IsStopSet, JobRaise, JobGoto
  <1>15. ASSUME NEW j \in Job, GetTestSuite(j) PROVE TypeOK'
    BY <1>15 DEF GetTestSuite, JobRaise, JobGoto
  <1>16. ASSUME NEW j \in Job, CallTestMethod(j) PROVE TypeOK'
    <2>1. testsLeft' \in [Job -> 0..MaxTests]
      <3>1. testsLeft[j] - 1 \in 0..MaxTests
        BY <1>16 DEF CallTestMethod, SuiteIsDone
      <3>2. \/ UNCHANGED testsLeft
            \/ testsLeft' = [testsLeft EXCEPT ![j] = testsLeft[j] - 1]
        BY <1>16 DEF CallTestMethod
      <3> QED
        BY <3>1, <3>2
    <2>2. testsFailed' \in [Job -> BOOLEAN]
      BY <1>16 DEF CallTestMethod
    <2>3. broken' \subseteq Resource
      BY <1>16 DEF CallTestMethod
    <2> QED
      BY <1>16, <2>1, <2>2, <2>3 DEF CallTestMethod, JobRaise
  <1>17. ASSUME NEW j \in Job, AppendResourceReport(j) PROVE TypeOK'
    BY <1>17 DEF AppendResourceReport, JobGoto
  <1>18. ASSUME NEW j \in Job, StartTeardown(j) PROVE TypeOK'
    BY <1>18 DEF StartTeardown, IsStopSet, JobRaise, JobGoto
  <1>19. ASSUME NEW j \in Job, RunTeardown(j) PROVE TypeOK'
    BY <1>19 DEF RunTeardown, JobRaise, JobGoto
  <1>20. ASSUME NEW j \in Job, AutoloadOnly(j) PROVE TypeOK'
    BY <1>20 DEF AutoloadOnly, JobGoto
  <1>21. CASE UNCHANGED vars
    BY <1>21 DEF vars
  <1> QED
    BY <1>1, <1>2, <1>3, <1>4, <1>5, <1>6, <1>7, <1>8, <1>9, <1>10, <1>11, <1>12,
       <1>13, <1>14, <1>15, <1>16, <1>17, <1>18, <1>19, <1>20, <1>21
       DEF Next, Main, SandboxThread, ResourceThread, Terminated

\* Every step keeps MainInv.
LEMMA MainStep == Inv /\ [Next]_vars => MainInv'
  <1> SUFFICES ASSUME Inv, [Next]_vars PROVE MainInv'
    OBVIOUS
  <1> USE JobParts DEF Inv, TypeOK, Exc, MainInv, ExcInv, SandboxActive,
     SandboxRunning, mainVars, sandboxVars, jobVars, suiteVars
  <1>1. CASE CreateSandboxes
    BY <1>1 DEF CreateSandboxes
  <1>2. ASSUME NEW s \in Sandbox, SubmitSandbox(s) PROVE MainInv'
    BY <1>2 DEF SubmitSandbox
  <1>3. CASE AllSubmitted
    BY <1>3 DEF AllSubmitted
  <1>4. CASE FirstException
    BY <1>4 DEF FirstException, FailedSandboxes, AllFuturesDone, SandboxDone
  <1>5. CASE RaiseExceptions
    BY <1>5 DEF RaiseExceptions, CaughtOnce, RaisedException,
       LoneKeyboardInterrupt, FailedSandboxes, AllFuturesDone, SandboxDone
  <1>6. CASE JoinPool
    BY <1>6 DEF JoinPool, PoolIsIdle
  <1>7. CASE DownloadLogs
    BY <1>7 DEF DownloadLogs
  <1>8. CASE Finish
    BY <1>8 DEF Finish
  <1>9. CASE Interrupt
    BY <1>9 DEF Interrupt, InterruptTarget, CaughtByExcept
  <1>10. ASSUME NEW s \in Sandbox, RunSandbox(s) PROVE MainInv'
    BY <1>10 DEF RunSandbox, SandboxRunning
  <1>11. ASSUME NEW s \in Sandbox, SubmitJobs(s) PROVE MainInv'
    BY <1>11 DEF SubmitJobs, SandboxRunning
  <1>12. ASSUME NEW s \in Sandbox, CollectJobs(s) PROVE MainInv'
    BY <1>12 DEF CollectJobs, FailedJobs, JobsOf, JobDone, SandboxRunning
  <1>13. ASSUME NEW j \in Job, StartJob(j) PROVE MainInv'
    BY <1>13 DEF StartJob, IsStopSet, JobRaise, JobGoto
  <1>14. ASSUME NEW j \in Job, RunSetup(j) PROVE MainInv'
    BY <1>14 DEF RunSetup, IsStopSet, JobRaise, JobGoto
  <1>15. ASSUME NEW j \in Job, GetTestSuite(j) PROVE MainInv'
    BY <1>15 DEF GetTestSuite, IsStopSet, JobRaise, JobGoto
  <1>16. ASSUME NEW j \in Job, CallTestMethod(j) PROVE MainInv'
    BY <1>16 DEF CallTestMethod, IsStopSet, JobRaise, JobGoto, SuiteIsDone
  <1>17. ASSUME NEW j \in Job, AppendResourceReport(j) PROVE MainInv'
    BY <1>17 DEF AppendResourceReport, IsStopSet, JobRaise, JobGoto,
       SuiteIsDone
  <1>18. ASSUME NEW j \in Job, StartTeardown(j) PROVE MainInv'
    BY <1>18 DEF StartTeardown, IsStopSet, JobRaise, JobGoto
  <1>19. ASSUME NEW j \in Job, RunTeardown(j) PROVE MainInv'
    BY <1>19 DEF RunTeardown, IsStopSet, JobRaise, JobGoto
  <1>20. ASSUME NEW j \in Job, AutoloadOnly(j) PROVE MainInv'
    BY <1>20 DEF AutoloadOnly, IsStopSet, JobRaise, JobGoto
  <1>21. CASE UNCHANGED vars
    BY <1>21 DEF vars
  <1> QED
    BY <1>1, <1>2, <1>3, <1>4, <1>5, <1>6, <1>7, <1>8, <1>9, <1>10, <1>11,
       <1>12, <1>13, <1>14, <1>15, <1>16, <1>17, <1>18, <1>19, <1>20, <1>21
       DEF Next, Main, SandboxThread, ResourceThread, Terminated

\* Every step keeps ExcInv.
LEMMA ExcStep == Inv /\ [Next]_vars => ExcInv'
  <1> SUFFICES ASSUME Inv, [Next]_vars PROVE ExcInv'
    OBVIOUS
  <1> USE JobParts DEF Inv, TypeOK, Exc, MainInv, ExcInv, mainVars,
     sandboxVars, jobVars, suiteVars
  <1>1. CASE CreateSandboxes
    BY <1>1 DEF CreateSandboxes
  <1>2. ASSUME NEW s \in Sandbox, SubmitSandbox(s) PROVE ExcInv'
    BY <1>2 DEF SubmitSandbox
  <1>3. CASE AllSubmitted
    BY <1>3 DEF AllSubmitted
  <1>4. CASE FirstException
    BY <1>4 DEF FirstException, FailedSandboxes, AllFuturesDone, SandboxDone
  <1>5. CASE RaiseExceptions
    BY <1>5 DEF RaiseExceptions, CaughtOnce, RaisedException,
       LoneKeyboardInterrupt, FailedSandboxes, AllFuturesDone, SandboxDone
  <1>6. CASE JoinPool
    BY <1>6 DEF JoinPool, PoolIsIdle
  <1>7. CASE DownloadLogs
    BY <1>7 DEF DownloadLogs
  <1>8. CASE Finish
    BY <1>8 DEF Finish
  <1>9. CASE Interrupt
    BY <1>9 DEF Interrupt, InterruptTarget, CaughtByExcept
  <1>10. ASSUME NEW s \in Sandbox, RunSandbox(s) PROVE ExcInv'
    BY <1>10 DEF RunSandbox, SandboxRunning
  <1>11. ASSUME NEW s \in Sandbox, SubmitJobs(s) PROVE ExcInv'
    <2>1. \A j \in Job : jpc'[j] = "failed" <=> jpc[j] = "failed"
      BY <1>11 DEF SubmitJobs, ReportInv
    <2> QED
      BY <1>11, <2>1 DEF SubmitJobs
  <1>12. ASSUME NEW s \in Sandbox, CollectJobs(s) PROVE ExcInv'
    BY <1>12 DEF CollectJobs, FailedJobs, JobsOf, JobDone, SandboxRunning
  <1>13. ASSUME NEW j \in Job, StartJob(j) PROVE ExcInv'
    BY <1>13 DEF StartJob, IsStopSet, JobRaise, JobGoto
  <1>14. ASSUME NEW j \in Job, RunSetup(j) PROVE ExcInv'
    BY <1>14 DEF RunSetup, IsStopSet, JobRaise, JobGoto
  <1>15. ASSUME NEW j \in Job, GetTestSuite(j) PROVE ExcInv'
    BY <1>15 DEF GetTestSuite, IsStopSet, JobRaise, JobGoto
  <1>16. ASSUME NEW j \in Job, CallTestMethod(j) PROVE ExcInv'
    BY <1>16 DEF CallTestMethod, IsStopSet, JobRaise, JobGoto, SuiteIsDone
  <1>17. ASSUME NEW j \in Job, AppendResourceReport(j) PROVE ExcInv'
    BY <1>17 DEF AppendResourceReport, IsStopSet, JobRaise, JobGoto,
       SuiteIsDone
  <1>18. ASSUME NEW j \in Job, StartTeardown(j) PROVE ExcInv'
    BY <1>18 DEF StartTeardown, IsStopSet, JobRaise, JobGoto
  <1>19. ASSUME NEW j \in Job, RunTeardown(j) PROVE ExcInv'
    BY <1>19 DEF RunTeardown, IsStopSet, JobRaise, JobGoto
  <1>20. ASSUME NEW j \in Job, AutoloadOnly(j) PROVE ExcInv'
    BY <1>20 DEF AutoloadOnly, IsStopSet, JobRaise, JobGoto
  <1>21. CASE UNCHANGED vars
    BY <1>21 DEF vars
  <1> QED
    BY <1>1, <1>2, <1>3, <1>4, <1>5, <1>6, <1>7, <1>8, <1>9, <1>10, <1>11,
       <1>12, <1>13, <1>14, <1>15, <1>16, <1>17, <1>18, <1>19, <1>20, <1>21
       DEF Next, Main, SandboxThread, ResourceThread, Terminated

\* Every step keeps ReportInv.
LEMMA ReportStep == Inv /\ [Next]_vars => ReportInv'
  <1> SUFFICES ASSUME Inv, [Next]_vars PROVE ReportInv'
    OBVIOUS
  <1> USE JobParts DEF Inv, TypeOK, Exc, ExcInv, ReportInv, mainVars,
     sandboxVars, jobVars, suiteVars
  <1>1. CASE CreateSandboxes
    BY <1>1 DEF CreateSandboxes
  <1>2. ASSUME NEW s \in Sandbox, SubmitSandbox(s) PROVE ReportInv'
    BY <1>2 DEF SubmitSandbox
  <1>3. CASE AllSubmitted
    BY <1>3 DEF AllSubmitted
  <1>4. CASE FirstException
    BY <1>4 DEF FirstException, FailedSandboxes, AllFuturesDone, SandboxDone
  <1>5. CASE RaiseExceptions
    BY <1>5 DEF RaiseExceptions, CaughtOnce, RaisedException,
       LoneKeyboardInterrupt, FailedSandboxes, AllFuturesDone, SandboxDone
  <1>6. CASE JoinPool
    BY <1>6 DEF JoinPool, PoolIsIdle
  <1>7. CASE DownloadLogs
    BY <1>7 DEF DownloadLogs
  <1>8. CASE Finish
    BY <1>8 DEF Finish
  <1>9. CASE Interrupt
    BY <1>9 DEF Interrupt, InterruptTarget, CaughtByExcept
  <1>10. ASSUME NEW s \in Sandbox, RunSandbox(s) PROVE ReportInv'
    BY <1>10 DEF RunSandbox, SandboxRunning
  <1>11. ASSUME NEW s \in Sandbox, SubmitJobs(s) PROVE ReportInv'
    BY <1>11 DEF SubmitJobs, SandboxRunning
  <1>12. ASSUME NEW s \in Sandbox, CollectJobs(s) PROVE ReportInv'
    BY <1>12 DEF CollectJobs, FailedJobs, JobsOf, JobDone, SandboxRunning
  <1>13. ASSUME NEW j \in Job, StartJob(j) PROVE ReportInv'
    BY <1>13 DEF StartJob, IsStopSet, JobRaise, JobGoto
  <1>14. ASSUME NEW j \in Job, RunSetup(j) PROVE ReportInv'
    BY <1>14 DEF RunSetup, IsStopSet, JobRaise, JobGoto
  <1>15. ASSUME NEW j \in Job, GetTestSuite(j) PROVE ReportInv'
    BY <1>15 DEF GetTestSuite, IsStopSet, JobRaise, JobGoto
  <1>16. ASSUME NEW j \in Job, CallTestMethod(j) PROVE ReportInv'
    BY <1>16 DEF CallTestMethod, IsStopSet, JobRaise, JobGoto, SuiteIsDone
  <1>17. ASSUME NEW j \in Job, AppendResourceReport(j) PROVE ReportInv'
    BY <1>17 DEF AppendResourceReport, IsStopSet, JobRaise, JobGoto,
       SuiteIsDone
  <1>18. ASSUME NEW j \in Job, StartTeardown(j) PROVE ReportInv'
    BY <1>18 DEF StartTeardown, IsStopSet, JobRaise, JobGoto
  <1>19. ASSUME NEW j \in Job, RunTeardown(j) PROVE ReportInv'
    BY <1>19 DEF RunTeardown, IsStopSet, JobRaise, JobGoto
  <1>20. ASSUME NEW j \in Job, AutoloadOnly(j) PROVE ReportInv'
    BY <1>20 DEF AutoloadOnly, IsStopSet, JobRaise, JobGoto
  <1>21. CASE UNCHANGED vars
    BY <1>21 DEF vars
  <1> QED
    BY <1>1, <1>2, <1>3, <1>4, <1>5, <1>6, <1>7, <1>8, <1>9, <1>10, <1>11,
       <1>12, <1>13, <1>14, <1>15, <1>16, <1>17, <1>18, <1>19, <1>20, <1>21
       DEF Next, Main, SandboxThread, ResourceThread, Terminated

\* Every step keeps CleanupAfterThreads.
LEMMA CleanupStep == Inv /\ [Next]_vars => CleanupAfterThreads'
  <1> SUFFICES ASSUME Inv, [Next]_vars PROVE CleanupAfterThreads'
    OBVIOUS
  <1> USE JobParts DEF Inv, TypeOK, MainInv, CleanupAfterThreads,
     SandboxActive, SandboxRunning, mainVars, sandboxVars, jobVars, suiteVars
  <1>1. CASE CreateSandboxes
    BY <1>1 DEF CreateSandboxes
  <1>2. ASSUME NEW s \in Sandbox, SubmitSandbox(s) PROVE CleanupAfterThreads'
    BY <1>2 DEF SubmitSandbox
  <1>3. CASE AllSubmitted
    BY <1>3 DEF AllSubmitted
  <1>4. CASE FirstException
    BY <1>4 DEF FirstException, FailedSandboxes, AllFuturesDone, SandboxDone
  <1>5. CASE RaiseExceptions
    BY <1>5 DEF RaiseExceptions, CaughtOnce, RaisedException,
       LoneKeyboardInterrupt, FailedSandboxes, AllFuturesDone, SandboxDone
  <1>6. CASE JoinPool
    BY <1>6 DEF JoinPool, PoolIsIdle
  <1>7. CASE DownloadLogs
    BY <1>7 DEF DownloadLogs
  <1>8. CASE Finish
    BY <1>8 DEF Finish
  <1>9. CASE Interrupt
    BY <1>9 DEF Interrupt, InterruptTarget, CaughtByExcept
  <1>10. ASSUME NEW s \in Sandbox, RunSandbox(s) PROVE CleanupAfterThreads'
    BY <1>10 DEF RunSandbox, SandboxRunning
  <1>11. ASSUME NEW s \in Sandbox, SubmitJobs(s) PROVE CleanupAfterThreads'
    BY <1>11 DEF SubmitJobs, SandboxRunning
  <1>12. ASSUME NEW s \in Sandbox, CollectJobs(s) PROVE CleanupAfterThreads'
    BY <1>12 DEF CollectJobs, FailedJobs, JobsOf, JobDone, SandboxRunning
  <1>13. ASSUME NEW j \in Job, StartJob(j) PROVE CleanupAfterThreads'
    BY <1>13 DEF StartJob, IsStopSet, JobRaise, JobGoto
  <1>14. ASSUME NEW j \in Job, RunSetup(j) PROVE CleanupAfterThreads'
    BY <1>14 DEF RunSetup, IsStopSet, JobRaise, JobGoto
  <1>15. ASSUME NEW j \in Job, GetTestSuite(j) PROVE CleanupAfterThreads'
    BY <1>15 DEF GetTestSuite, IsStopSet, JobRaise, JobGoto
  <1>16. ASSUME NEW j \in Job, CallTestMethod(j) PROVE CleanupAfterThreads'
    BY <1>16 DEF CallTestMethod, IsStopSet, JobRaise, JobGoto, SuiteIsDone
  <1>17. ASSUME NEW j \in Job, AppendResourceReport(j) PROVE CleanupAfterThreads'
    BY <1>17 DEF AppendResourceReport, IsStopSet, JobRaise, JobGoto,
       SuiteIsDone
  <1>18. ASSUME NEW j \in Job, StartTeardown(j) PROVE CleanupAfterThreads'
    BY <1>18 DEF StartTeardown, IsStopSet, JobRaise, JobGoto
  <1>19. ASSUME NEW j \in Job, RunTeardown(j) PROVE CleanupAfterThreads'
    BY <1>19 DEF RunTeardown, IsStopSet, JobRaise, JobGoto
  <1>20. ASSUME NEW j \in Job, AutoloadOnly(j) PROVE CleanupAfterThreads'
    BY <1>20 DEF AutoloadOnly, IsStopSet, JobRaise, JobGoto
  <1>21. CASE UNCHANGED vars
    BY <1>21 DEF vars
  <1> QED
    BY <1>1, <1>2, <1>3, <1>4, <1>5, <1>6, <1>7, <1>8, <1>9, <1>10, <1>11,
       <1>12, <1>13, <1>14, <1>15, <1>16, <1>17, <1>18, <1>19, <1>20, <1>21
       DEF Next, Main, SandboxThread, ResourceThread, Terminated

\* Every step keeps LogsKeptOnFailure.
LEMMA LogsStep == Inv /\ [Next]_vars => LogsKeptOnFailure'
  <1> SUFFICES ASSUME Inv, [Next]_vars PROVE LogsKeptOnFailure'
    OBVIOUS
  <1> USE DEF Inv, TypeOK, MainInv, ExcInv, LogsKeptOnFailure, mainVars,
     sandboxVars, jobVars, suiteVars
  <1>1. CASE CreateSandboxes
    BY <1>1 DEF CreateSandboxes
  <1>2. ASSUME NEW s \in Sandbox, SubmitSandbox(s) PROVE LogsKeptOnFailure'
    BY <1>2 DEF SubmitSandbox
  <1>3. CASE AllSubmitted
    BY <1>3 DEF AllSubmitted
  <1>4. CASE FirstException
    BY <1>4 DEF FirstException, FailedSandboxes, AllFuturesDone, SandboxDone
  <1>5. CASE RaiseExceptions
    BY <1>5 DEF RaiseExceptions, CaughtOnce, RaisedException,
       LoneKeyboardInterrupt, FailedSandboxes, AllFuturesDone, SandboxDone
  <1>6. CASE JoinPool
    BY <1>6 DEF JoinPool, PoolIsIdle
  <1>7. CASE DownloadLogs
    <2>1. interrupts' = 0 => exc # "KeyboardInterrupt"
      BY <1>7 DEF DownloadLogs
    <2>2. logsDownloaded' = (OsAccess /\ exc # "KeyboardInterrupt")
      BY <1>7 DEF DownloadLogs
    <2> QED
      BY <2>1, <2>2, Zenon DEF LogsKeptOnFailure
  <1>8. CASE Finish
    BY <1>8 DEF Finish
  <1>9. CASE Interrupt
    BY <1>9 DEF Interrupt, InterruptTarget, CaughtByExcept
  <1>10. ASSUME NEW s \in Sandbox, RunSandbox(s) PROVE LogsKeptOnFailure'
    BY <1>10 DEF RunSandbox, SandboxRunning
  <1>11. ASSUME NEW s \in Sandbox, SubmitJobs(s) PROVE LogsKeptOnFailure'
    BY <1>11 DEF SubmitJobs, SandboxRunning
  <1>12. ASSUME NEW s \in Sandbox, CollectJobs(s) PROVE LogsKeptOnFailure'
    BY <1>12 DEF CollectJobs, FailedJobs, JobsOf, JobDone, SandboxRunning
  <1>13. ASSUME NEW j \in Job, StartJob(j) PROVE LogsKeptOnFailure'
    BY <1>13 DEF StartJob, IsStopSet, JobRaise, JobGoto
  <1>14. ASSUME NEW j \in Job, RunSetup(j) PROVE LogsKeptOnFailure'
    BY <1>14 DEF RunSetup, IsStopSet, JobRaise, JobGoto
  <1>15. ASSUME NEW j \in Job, GetTestSuite(j) PROVE LogsKeptOnFailure'
    BY <1>15 DEF GetTestSuite, IsStopSet, JobRaise, JobGoto
  <1>16. ASSUME NEW j \in Job, CallTestMethod(j) PROVE LogsKeptOnFailure'
    BY <1>16 DEF CallTestMethod, IsStopSet, JobRaise, JobGoto, SuiteIsDone
  <1>17. ASSUME NEW j \in Job, AppendResourceReport(j) PROVE LogsKeptOnFailure'
    BY <1>17 DEF AppendResourceReport, IsStopSet, JobRaise, JobGoto,
       SuiteIsDone
  <1>18. ASSUME NEW j \in Job, StartTeardown(j) PROVE LogsKeptOnFailure'
    BY <1>18 DEF StartTeardown, IsStopSet, JobRaise, JobGoto
  <1>19. ASSUME NEW j \in Job, RunTeardown(j) PROVE LogsKeptOnFailure'
    BY <1>19 DEF RunTeardown, IsStopSet, JobRaise, JobGoto
  <1>20. ASSUME NEW j \in Job, AutoloadOnly(j) PROVE LogsKeptOnFailure'
    BY <1>20 DEF AutoloadOnly, IsStopSet, JobRaise, JobGoto
  <1>21. CASE UNCHANGED vars
    BY <1>21 DEF vars
  <1> QED
    BY <1>1, <1>2, <1>3, <1>4, <1>5, <1>6, <1>7, <1>8, <1>9, <1>10, <1>11,
       <1>12, <1>13, <1>14, <1>15, <1>16, <1>17, <1>18, <1>19, <1>20, <1>21
       DEF Next, Main, SandboxThread, ResourceThread, Terminated

-----------------------------------------------------------------------------
\* The invariant is inductive and so holds in every reachable state.
THEOREM Invariance == Spec => []Inv
  <1>1. Inv /\ [Next]_vars => Inv'
    BY TypeStep, MainStep, ExcStep, ReportStep, CleanupStep, LogsStep DEF Inv
  <1> QED
    BY InitInv, <1>1, PTL DEF Spec

\* Type correctness of the run for every configuration.
THEOREM TypeCorrect == Spec => []TypeOK
  <1>1. Inv => TypeOK
    BY DEF Inv
  <1> QED
    BY Invariance, <1>1, PTL

\* One Ctrl-C never lets the clean-up of handler_storage.finish overlap a
\* sandbox thread, whatever the number of sandboxes and the pool size.
THEOREM CleanupIsLast == Spec => []CleanupAfterThreads
  <1>1. Inv => CleanupAfterThreads
    BY DEF Inv
  <1> QED
    BY Invariance, <1>1, PTL

\* A run nobody interrupts downloads the logs, also when it fails: the
\* KeyboardInterrupt of stopped threads never hides the failure that stopped
\* them.
THEOREM LogsAreKept == Spec => []LogsKeptOnFailure
  <1>1. Inv => LogsKeptOnFailure
    BY DEF Inv
  <1> QED
    BY Invariance, <1>1, PTL

\* A returned report has each sandbox once and each tested resource once.
THEOREM ReportIsComplete == Spec => []ReportComplete
  <1>1. Inv => ReportComplete
    BY JobParts DEF Inv, MainInv, ReportInv, ReportComplete
  <1> QED
    BY Invariance, <1>1, PTL

\* A returned report is successful only if every suite ran to its end without
\* a failed test and every sandbox tested some resource.
THEOREM SuccessIsReal == Spec => []NoFalseSuccess
  <1>1. Inv => NoFalseSuccess
    <2> SUFFICES ASSUME Inv, mpc = "returned", ReportingIsSuccess,
                        NEW s \in Sandbox
                 PROVE  /\ \E j \in JobsOf(s) : j[2] \in RunTests
                        /\ \A j \in JobsOf(s) :
                             /\ jpc[j] = "ok"
                             /\ testsLeft[j] = 0
                             /\ ~testsFailed[j]
      BY DEF NoFalseSuccess
    <2>1. \A j \in JobsOf(s) : j \in Job /\ j[1] = s
      BY DEF JobsOf
    <2>2. spc[s] = "ok" /\ sandboxReports[s] = 1
      BY DEF Inv, MainInv, ReportInv
    <2>3. SandboxIsSuccess(s)
      BY <2>2 DEF ReportingIsSuccess
    <2>4. \A j \in JobsOf(s) : jpc[j] = "ok" /\ testsLeft[j] = 0
      BY <2>1, <2>2 DEF Inv, ReportInv
    <2>5. \A j \in JobsOf(s) : resourceReports[j] > 0 <=> j[2] \in RunTests
      BY <2>1, <2>4 DEF Inv, ReportInv
    <2>6. \A j \in JobsOf(s) : ~testsFailed[j]
      <3> SUFFICES ASSUME NEW j \in JobsOf(s) PROVE ~testsFailed[j]
        OBVIOUS
      <3>1. CASE j[2] \in RunTests
        BY <2>3, <2>5, <3>1 DEF SandboxIsSuccess
      <3>2. CASE j[2] \notin RunTests
        BY <2>1, <3>2 DEF Inv, ReportInv
      <3> QED
        BY <3>1, <3>2
    <2>7. \E j \in JobsOf(s) : j[2] \in RunTests
      BY <2>3, <2>5 DEF SandboxIsSuccess
    <2> QED
      BY <2>4, <2>6, <2>7
  <1> QED
    BY Invariance, <1>1, PTL

-----------------------------------------------------------------------------
(* A sandbox that the stop flag cuts short *)

\* One of its jobs has failed or will fail at the next look at the stop flag.
Doomed(s) ==
    /\ stopFlag
    /\ \E j \in JobsOf(s) :
         jpc[j] \in {"queued", "setup", "suite", "testing", "reported", "failed"}

\* No step saves such a job: each way on passes _is_stop_set, and a suite whose
\* dependencies are broken, which does not look at the flag, meets it afterwards.
LEMMA DoomedStep ==
    ASSUME NEW s \in Sandbox
    PROVE  Inv /\ Doomed(s) /\ [Next]_vars => Doomed(s)'
  <1> SUFFICES ASSUME Inv, Doomed(s), [Next]_vars
               PROVE  Doomed(s)'
    OBVIOUS
  <1> DEFINE Check == {"queued", "setup", "suite", "testing", "reported", "failed"}
  <1>1. PICK j \in Job : j[1] = s /\ jpc[j] \in Check
    BY DEF Doomed, JobsOf
  <1>2. stopFlag /\ jpc \in [Job -> {"new", "queued", "setup", "suite", "testing", "reported",
                                     "teardown", "autoload", "ok", "failed"}]
    BY DEF Doomed, Inv, TypeOK
  <1>3. ASSUME stopFlag', jpc'[j] \in Check
        PROVE  Doomed(s)'
    BY <1>1, <1>3 DEF Doomed, JobsOf
  <1>4. CASE Main \/ Interrupt \/ Terminated \/ UNCHANGED vars
    <2>1. UNCHANGED jpc /\ stopFlag'
      BY <1>2, <1>4
         DEF Main, CreateSandboxes, SubmitSandbox, AllSubmitted, FirstException,
         RaiseExceptions, JoinPool, DownloadLogs, Finish, Interrupt, Terminated, vars, jobVars
    <2> QED
      BY <1>1, <1>3, <2>1
  <1>5. ASSUME NEW r \in Sandbox, SandboxThread(r)
        PROVE  Doomed(s)'
    <2>1. CASE SubmitJobs(r)
      <3>1. jpc'[j] \in {jpc[j], "queued"} /\ stopFlag'
        BY <1>2, <2>1 DEF SubmitJobs
      <3> QED
        BY <1>1, <1>3, <3>1
    <2>2. CASE RunSandbox(r) \/ CollectJobs(r)
      <3>1. UNCHANGED jpc /\ stopFlag'
        BY <1>2, <2>2 DEF RunSandbox, CollectJobs, jobVars
      <3> QED
        BY <1>1, <1>3, <3>1
    <2> QED
      BY <1>5, <2>1, <2>2 DEF SandboxThread
  <1>6. ASSUME NEW k \in Job, ResourceThread(k)
        PROVE  Doomed(s)'
    <2> USE DEF IsStopSet, JobRaise, JobGoto
    <2>1. stopFlag'
      BY <1>2, <1>6 DEF ResourceThread, StartJob, RunSetup, GetTestSuite, CallTestMethod,
         AppendResourceReport, StartTeardown, RunTeardown, AutoloadOnly
    <2>2. CASE k # j
      <3>1. jpc'[j] = jpc[j]
        BY <1>2, <1>6, <2>2 DEF ResourceThread, StartJob, RunSetup, GetTestSuite,
           CallTestMethod, AppendResourceReport, StartTeardown, RunTeardown, AutoloadOnly,
           jobVars
      <3> QED
        BY <1>1, <1>3, <2>1, <3>1
    <2>3. CASE k = j
      <3>1. jpc'[j] \in {"testing", "reported", "failed"}
        BY <1>1, <1>2, <1>6, <2>3 DEF ResourceThread, StartJob, RunSetup, GetTestSuite,
           CallTestMethod, AppendResourceReport, StartTeardown, RunTeardown, AutoloadOnly,
           jobVars
      <3> QED
        BY <1>3, <2>1, <3>1
    <2> QED
      BY <2>2, <2>3
  <1> QED
    BY <1>4, <1>5, <1>6 DEF Next

\* Once the stop flag is set, a sandbox with a job that still has to pass
\* _is_stop_set never gets a report.
THEOREM CutShortStaysUnreported == Spec => CutShortIsNotReported
  <1> SUFFICES ASSUME NEW s \in Sandbox
               PROVE  Spec => [](stopFlag /\ HasCheckAhead(s) => [](sandboxReports[s] = 0))
    BY DEF CutShortIsNotReported
  <1>1. stopFlag /\ HasCheckAhead(s) => Doomed(s)
    BY DEF HasCheckAhead, Doomed
  <1>2. Inv /\ Doomed(s) => sandboxReports[s] = 0
    BY DEF Inv, ReportInv, Doomed, JobsOf
  <1>3. Inv /\ Doomed(s) /\ [Next]_vars => Doomed(s)'
    BY DoomedStep
  <1> QED
    BY Invariance, <1>1, <1>2, <1>3, PTL DEF Spec
=============================================================================
