----------------------------- MODULE DoHandler -----------------------------
(***************************************************************************)
(* DoHandler: the reservations on Do, one for the CloudShell under test    *)
(* (CSCreator, up to MaxAttempts attempts) and one per networking app      *)
(* (NetworkingAppsHandler), each made by a worker of one thread pool; the  *)
(* main thread collects the results (_prepare), and finish() ends them.    *)
(***************************************************************************)
EXTENDS Naturals, FiniteSets

CONSTANTS
    App,           \* do_conf.networking_apps
    Cs,            \* the worker that creates the CloudShell
    CsOnDo,        \* do_conf.cs_on_do_conf is not None
    DeleteCs,      \* cs_on_do_conf.delete_cs
    CsInConfig,    \* the config file has a CloudShell section of its own
    KnownApps,     \* the apps some resource config refers to
    MaxAttempts,   \* stop_max_attempt_number of the retry (5 in the code)
    Pool,          \* max_workers of the pool (5 in the code)
    EndFaults,     \* Do may refuse to end a reservation
    MaxInterrupts  \* bound: Ctrl-C presses

ASSUME ConfigAssumption ==
    /\ Cs \notin App
    /\ CsOnDo \in BOOLEAN
    /\ DeleteCs \in BOOLEAN
    /\ CsInConfig \in BOOLEAN
    /\ CsOnDo \/ CsInConfig   \* MainConfig._check_cs_conf_or_do
    /\ KnownApps \subseteq App

ASSUME BoundAssumption ==
    /\ MaxAttempts \in Nat \ {0}
    /\ Pool \in Nat \ {0}
    /\ EndFaults \in BOOLEAN
    /\ MaxInterrupts \in Nat

Worker == App \cup (IF CsOnDo THEN {Cs} ELSE {})

\* A reservation is named by the worker and the attempt that made it.
Reservation == Worker \X (1..MaxAttempts)

VARIABLES
    mpc,         \* where the main thread is
    exc,         \* the exception that leaves prepare() or the with block
    wpc,         \* where each worker is
    attempt,     \* the attempt the worker is in
    status,      \* reservation |-> its state on Do
    csHandler,   \* CSCreator._cs_on_do_sandbox_handler: an attempt, 0 is None
    appHandlers, \* NetworkingAppsHandler._sandbox_handlers
    collected,   \* the apps whose result _prepare has used
    csConf,      \* conf.cs_conf is set
    ended,       \* the apps finish() has ended
    endFailed,   \* Do has refused to end a reservation
    interrupts

vars == <<mpc, exc, wpc, attempt, status, csHandler, appHandlers, collected,
          csConf, ended, endFailed, interrupts>>
workerVars == <<wpc, attempt, status, csHandler, appHandlers, endFailed>>
mainVars == <<mpc, exc, collected, csConf, ended, interrupts>>

-----------------------------------------------------------------------------
Init ==
    /\ mpc = "apps"
    /\ exc = "none"
    /\ wpc = [w \in Worker |-> "queued"]
    /\ attempt = [w \in Worker |-> 1]
    /\ status = [r \in Reservation |-> "none"]
    /\ csHandler = 0
    /\ appHandlers = {}
    /\ collected = {}
    /\ csConf = CsInConfig
    /\ ended = {}
    /\ endFailed = FALSE
    /\ interrupts = 0

Current(w) == <<w, attempt[w]>>

WorkerDone(w) == wpc[w] \in {"ok", "failed"}

WorkerRunning(w) == ~WorkerDone(w) /\ wpc[w] # "queued"

Goto(w, label) == wpc' = [wpc EXCEPT ![w] = label]

\* EndReservation without waiting for its completion.
EndReservation(r) == status' = [status EXCEPT ![r] = "ended"]

EndRefused ==
    /\ EndFaults
    /\ endFailed' = TRUE
    /\ UNCHANGED status

-----------------------------------------------------------------------------
(* The workers: CSCreator._create_cloudshell, NetworkingAppsHandler._create_app *)

StartWorker(w) ==
    /\ wpc[w] = "queued"
    /\ Cardinality({v \in Worker : WorkerRunning(v)}) < Pool
    /\ Goto(w, "create")
    /\ UNCHANGED <<mainVars, attempt, status, csHandler, appHandlers, endFailed>>

\* The topology is looked up and reserved (SandboxHandler.create).
CreateReservation(w) ==
    /\ wpc[w] = "create"
    /\ \/ /\ status' = [status EXCEPT ![Current(w)] = "active"]
          /\ Goto(w, "starting")
       \/ Goto(w, "failed") /\ UNCHANGED status
    /\ UNCHANGED <<mainVars, attempt, csHandler, appHandlers, endFailed>>

\* The reservation starts and its handler is stored.
ReservationStarted(w) ==
    /\ wpc[w] = "starting"
    /\ \/ w = Cs /\ csHandler' = attempt[w] /\ UNCHANGED appHandlers
       \/ w # Cs /\ appHandlers' = appHandlers \cup {w} /\ UNCHANGED csHandler
    /\ Goto(w, "resource")
    /\ UNCHANGED <<mainVars, attempt, status, endFailed>>

\* wait_reservation_is_started raises: SandboxHandler.create ends the
\* reservation, which no handler will name.
ReservationNotStarted(w) ==
    /\ wpc[w] = "starting"
    /\ \/ EndReservation(Current(w)) /\ UNCHANGED endFailed
       \/ EndRefused
    /\ Goto(w, "failed")
    /\ UNCHANGED <<mainVars, attempt, csHandler, appHandlers>>

\* _get_app_resource, _get_cs_config: any exception leaves the reservation to
\* DoHandler.finish.
GetResource(w) ==
    /\ wpc[w] = "resource"
    /\ \/ w = Cs /\ Goto(w, "alive")
       \/ w # Cs /\ Goto(w, "ok")
       \/ Goto(w, "failed")
    /\ UNCHANGED <<mainVars, attempt, status, csHandler, appHandlers, endFailed>>

\* wait_for_cs_is_started: the API answers, or raises another error.
CsAnswers ==
    /\ CsOnDo
    /\ wpc[Cs] = "alive"
    /\ Goto(Cs, "ok") \/ Goto(Cs, "failed")
    /\ UNCHANGED <<mainVars, attempt, status, csHandler, appHandlers, endFailed>>

RetryAllowed == attempt[Cs] < MaxAttempts

\* Mutant: the attempts are not counted.
AttemptNotCounted(n) == n

NextAttempt(n) == n + 1

\* CSIsNotAliveError after ten tries: CSCreator.finish, then the next attempt.
CsIsNotAlive ==
    /\ CsOnDo
    /\ wpc[Cs] = "alive"
    /\ \/ /\ EndReservation(<<Cs, csHandler>>)
          /\ UNCHANGED endFailed
          /\ \/ /\ RetryAllowed
                /\ attempt' = [attempt EXCEPT ![Cs] = NextAttempt(@)]
                /\ Goto(Cs, "create")
             \/ /\ ~RetryAllowed
                /\ Goto(Cs, "failed")
                /\ UNCHANGED attempt
       \* another exception than the one the retry is for
       \/ EndRefused /\ Goto(Cs, "failed") /\ UNCHANGED attempt
    /\ UNCHANGED <<mainVars, csHandler, appHandlers>>

-----------------------------------------------------------------------------
(* DoHandler._prepare and prepare, in the main thread *)

\* Mutant: the exception is swallowed after the clean-up.
RaiseSwallowed(label, e) ==
    /\ mpc' = label
    /\ UNCHANGED exc

Raise(label, e) ==
    /\ mpc' = label
    /\ exc' = e

\* Mutant: the future's exception is not asked for.
AnyResult(a) == WorkerDone(a)

\* The future has a result and some resource refers to the app.
UsableResult(a) == wpc[a] = "ok" /\ a \in KnownApps

\* as_completed(app_futures): the result updates the config of the resource
\* that refers to the app; a missing resource, an error of the worker, or an
\* error while the address is read is raised.
CollectApp(a) ==
    /\ mpc = "apps"
    /\ a \notin collected
    /\ WorkerDone(a)
    /\ \/ /\ UsableResult(a)
          /\ collected' = collected \cup {a}
          /\ UNCHANGED <<mpc, exc>>
       \/ wpc[a] = "ok" /\ Raise("drain", "config") /\ UNCHANGED collected
       \/ wpc[a] = "failed" /\ Raise("drain", "worker") /\ UNCHANGED collected
    /\ UNCHANGED <<workerVars, csConf, ended, interrupts>>

\* Every app is there; without a CloudShell on Do, prepare() returns.
AppsCollected ==
    /\ mpc = "apps"
    /\ collected = App
    /\ mpc' = IF CsOnDo THEN "cs" ELSE "body"
    /\ UNCHANGED <<workerVars, exc, collected, csConf, ended, interrupts>>

CollectCs ==
    /\ mpc = "cs"
    /\ WorkerDone(Cs)
    /\ \/ wpc[Cs] = "ok" /\ csConf' = TRUE /\ mpc' = "body" /\ UNCHANGED exc
       \/ wpc[Cs] = "failed" /\ Raise("drain", "worker") /\ UNCHANGED csConf
    /\ UNCHANGED <<workerVars, collected, ended, interrupts>>

\* Mutant: the pool is left while workers are still running.
PoolNotDrained == TRUE

PoolDrained == \A w \in Worker : WorkerDone(w)

\* The executor's __exit__ has waited for every worker; "except Exception"
\* calls finish(), a KeyboardInterrupt passes by it.
DrainPool ==
    /\ mpc = "drain"
    /\ PoolDrained
    /\ mpc' = IF exc = "interrupt" THEN "ended" ELSE "finishCs"
    /\ UNCHANGED <<workerVars, exc, collected, csConf, ended, interrupts>>

\* Ctrl-C in _prepare; a second one also leaves the executor's __exit__, and
\* one in finish() leaves the rest of it undone.
Interrupt ==
    /\ mpc \in {"apps", "cs", "drain", "finishCs", "finishApps"}
    /\ interrupts < MaxInterrupts
    /\ interrupts' = interrupts + 1
    /\ Raise(IF mpc \in {"apps", "cs"} THEN "drain" ELSE "ended", "interrupt")
    /\ UNCHANGED <<workerVars, collected, csConf, ended>>

\* The body of the with statement returns or raises; __exit__ calls finish().
BodyEnds ==
    /\ mpc = "body"
    /\ mpc' = "finishCs"
    /\ exc' \in {"none", "body"}
    /\ UNCHANGED <<workerVars, collected, csConf, ended, interrupts>>

-----------------------------------------------------------------------------
(* DoHandler.finish *)

FinishCs ==
    /\ mpc = "finishCs"
    /\ \/ /\ ~CsOnDo \/ (DeleteCs /\ csHandler = 0) \/ (~DeleteCs /\ csConf)
          /\ mpc' = "finishApps"
          /\ UNCHANGED <<exc, status, endFailed>>
       \/ /\ CsOnDo /\ DeleteCs /\ csHandler # 0
          /\ EndReservation(<<Cs, csHandler>>)
          /\ mpc' = "finishApps"
          /\ UNCHANGED <<exc, endFailed>>
       \/ /\ CsOnDo /\ DeleteCs /\ csHandler # 0
          /\ EndRefused
          /\ Raise("ended", "end")
       \* conf.cs_conf.host of a CloudShell that was never created
       \/ /\ CsOnDo /\ ~DeleteCs /\ ~csConf
          /\ Raise("ended", "attribute")
          /\ UNCHANGED <<status, endFailed>>
    /\ UNCHANGED <<wpc, attempt, csHandler, appHandlers, collected, csConf,
                   ended, interrupts>>

FinishApp(a) ==
    /\ mpc = "finishApps"
    /\ a \in appHandlers \ ended
    /\ \/ /\ EndReservation(<<a, 1>>)
          /\ ended' = ended \cup {a}
          /\ UNCHANGED <<mpc, exc, endFailed>>
       \/ /\ EndRefused
          /\ Raise("ended", "end")
          /\ UNCHANGED ended
    /\ UNCHANGED <<wpc, attempt, csHandler, appHandlers, collected, csConf,
                   interrupts>>

AppsFinished ==
    /\ mpc = "finishApps"
    /\ appHandlers \subseteq ended
    /\ mpc' = "ended"
    /\ UNCHANGED <<workerVars, exc, collected, csConf, ended, interrupts>>

-----------------------------------------------------------------------------
Terminated == mpc = "ended" /\ PoolDrained /\ UNCHANGED vars

WorkerStep(w) ==
    \/ StartWorker(w)
    \/ CreateReservation(w)
    \/ ReservationStarted(w)
    \/ ReservationNotStarted(w)
    \/ GetResource(w)

CsStep == CsAnswers \/ CsIsNotAlive

MainStep ==
    \/ \E a \in App : CollectApp(a)
    \/ AppsCollected
    \/ CollectCs
    \/ DrainPool
    \/ BodyEnds
    \/ FinishCs
    \/ \E a \in App : FinishApp(a)
    \/ AppsFinished

Next ==
    \/ \E w \in Worker : WorkerStep(w)
    \/ CsStep
    \/ MainStep
    \/ Interrupt
    \/ Terminated

Spec == Init /\ [][Next]_vars

\* Every thread is scheduled, every call to Do returns, the tests end.
Fairness ==
    /\ \A w \in Worker : WF_vars(WorkerStep(w))
    /\ WF_vars(CsStep)
    /\ WF_vars(MainStep)

FairSpec == Spec /\ Fairness

-----------------------------------------------------------------------------
(* Properties *)

TypeOK ==
    /\ mpc \in {"apps", "cs", "drain", "body", "finishCs", "finishApps",
                "ended"}
    /\ exc \in {"none", "worker", "config", "interrupt", "body", "end",
                "attribute"}
    /\ wpc \in [Worker -> {"queued", "create", "starting", "resource", "alive",
                           "ok", "failed"}]
    /\ attempt \in [Worker -> 1..MaxAttempts]
    /\ status \in [Reservation -> {"none", "active", "ended"}]
    /\ csHandler \in 0..MaxAttempts
    /\ appHandlers \subseteq App
    /\ collected \subseteq App
    /\ csConf \in BOOLEAN
    /\ ended \subseteq App
    /\ endFailed \in BOOLEAN
    /\ interrupts \in 0..MaxInterrupts

\* The tests start only when every networking app and the CloudShell exist,
\* are known to the config and have a handler that finish() will find, in
\* whichever order the workers completed and the CloudShell was retried.
PreparedIsComplete ==
    mpc = "body" =>
        /\ collected = App
        /\ csConf
        /\ \A a \in App : a \in appHandlers /\ status[<<a, 1>>] = "active"
        /\ CsOnDo => csHandler # 0 /\ status[<<Cs, csHandler>>] = "active"

\* When a worker failed, and neither Ctrl-C nor Do got in the way of the
\* clean-up, the error of _prepare is the one prepare() raises.
PrepareErrorKept ==
    mpc = "ended" /\ ~endFailed /\ interrupts = 0
      /\ (\E w \in Worker : wpc[w] = "failed")
        => exc \in {"worker", "config"}

\* The main thread closes cleanly when it ends without Ctrl-C and Do has
\* ended every reservation it was asked to end.
LeaseUser ==
    IF mpc # "ended" THEN "open"
    ELSE IF interrupts = 0 /\ ~endFailed THEN "clean" ELSE "abandoned"

Lease == INSTANCE ReservationLease WITH lease <- status, user <- LeaseUser

\* With delete_cs, DoHandler implements the lease: whatever fails in the
\* workers, no reservation outlives a clean end, and none is taken after it.
ImplementsLease == Lease!LeaseSpec

\* prepare() and the with block end, and so do all workers: the retries are
\* bounded and no wait for a worker is for ever.
DoEnds == <>(mpc = "ended" /\ PoolDrained)
=============================================================================
