-------------------------- MODULE DoHandlerProofs --------------------------
(***************************************************************************)
(* Proofs about DoHandler, for every set of networking apps, every number  *)
(* of attempts, workers and Ctrl-C presses: the tests start on a complete  *)
(* environment, the error of prepare() is kept, and the reservations on Do *)
(* implement the lease.                                                    *)
(***************************************************************************)
EXTENDS DoHandler, TLAPS

\* finish() will find the reservation of the worker's current attempt.
Stored(w) == IF w = Cs THEN csHandler = attempt[w] ELSE w \in appHandlers

\* A later attempt has no reservation yet, an earlier one has ended.
AttemptInv ==
    \A w \in Worker : \A n \in 1..MaxAttempts :
        /\ n > attempt[w] => status[<<w, n>>] = "none"
        /\ n < attempt[w] => status[<<w, n>>] = "ended"

\* The reservation of the current attempt, and whether its handler is stored,
\* along the worker's steps.  Only Do, by refusing to end it, can leave one that
\* no handler names.
CurrentInv ==
    \A w \in Worker :
        /\ w \in App => attempt[w] = 1
        /\ wpc[w] \in {"queued", "create"} => status[Current(w)] = "none"
        /\ wpc[w] \in {"starting", "resource", "alive"} => status[Current(w)] = "active"
        /\ wpc[w] = "alive" => w = Cs
        /\ wpc[w] \in {"resource", "alive", "ok"} => Stored(w)
        /\ wpc[w] = "ok" /\ mpc \in {"apps", "cs", "drain", "body"}
             => status[Current(w)] = "active"
        /\ wpc[w] = "failed" /\ status[Current(w)] = "active" => endFailed \/ Stored(w)

\* A stored handler names a reservation that was made.
HandlerInv ==
    /\ csHandler # 0 => /\ CsOnDo /\ csHandler <= attempt[Cs]
                        /\ status[<<Cs, csHandler>>] # "none"
    /\ \A a \in appHandlers : status[<<a, 1>>] # "none"

\* The main thread leaves prepare() only when the pool is drained; two Ctrl-C
\* presses are the exception.
PoolInv ==
    mpc \in {"body", "finishCs", "finishApps"} \/ (mpc = "ended" /\ interrupts = 0)
      => PoolDrained

\* What _prepare has collected so far.
MainInv ==
    /\ mpc \in {"cs", "body"} => collected = App
    /\ mpc = "cs" => CsOnDo
    /\ \A a \in collected : wpc[a] = "ok"
    /\ CsInConfig => csConf
    /\ mpc = "body" => csConf /\ (CsOnDo => wpc[Cs] = "ok")

Inv == TypeOK /\ AttemptInv /\ CurrentInv /\ HandlerInv /\ PoolInv /\ MainInv

\* The exception the main thread carries explains a failed worker.
ErrorInv ==
    /\ exc = "interrupt" => interrupts > 0
    /\ mpc = "drain" => exc \in {"worker", "config", "interrupt"}
    /\ mpc \in {"finishCs", "finishApps", "ended"} /\ ~endFailed /\ interrupts = 0
         /\ (\E w \in Worker : wpc[w] = "failed")
           => exc \in {"worker", "config"}

\* finish() has ended the CloudShell before the apps, and at a clean end
\* nothing is active.
CleanInv ==
    /\ mpc = "finishApps" /\ ~endFailed /\ CsOnDo => status[Current(Cs)] # "active"
    /\ \A a \in ended : status[<<a, 1>>] = "ended"
    /\ mpc = "ended" /\ interrupts = 0 /\ ~endFailed
         => \A r \in Reservation : status[r] # "active"

-----------------------------------------------------------------------------
(* The invariant *)

\* The reservations of a worker, and which of them the apps have.
LEMMA Pairs ==
    /\ \A w \in Worker : \A n \in 1..MaxAttempts : <<w, n>> \in Reservation
    /\ \A r \in Reservation : /\ r[1] \in Worker /\ r[2] \in 1..MaxAttempts
                              /\ r = <<r[1], r[2]>>
    /\ App \subseteq Worker
    /\ Cs \in Worker <=> CsOnDo
    /\ \A w \in Worker : w \in App <=> w # Cs
  BY ConfigAssumption DEF Worker, Reservation

\* The invariant holds when run() starts: nothing is submitted, nothing reserved.
LEMMA InitInv == Init => Inv
  <1> SUFFICES ASSUME Init
               PROVE  Inv
    OBVIOUS
  <1>1. TypeOK
    <2>1. csConf \in BOOLEAN /\ endFailed \in BOOLEAN
      BY ConfigAssumption DEF Init
    <2>2. /\ attempt \in [Worker -> 1..MaxAttempts] /\ csHandler \in 0..MaxAttempts
          /\ interrupts \in 0..MaxInterrupts
      BY BoundAssumption DEF Init
    <2> QED
      BY <2>1, <2>2 DEF Init, TypeOK
  <1>2. \A w \in Worker : \A n \in 1..MaxAttempts : status[<<w, n>>] = "none"
    BY Pairs DEF Init
  <1>a. \A w \in Worker : attempt[w] = 1 /\ Current(w) = <<w, 1>> /\ wpc[w] = "queued"
    BY DEF Init, Current
  <1>3. AttemptInv /\ CurrentInv
    BY <1>2, <1>a, Pairs, BoundAssumption DEF AttemptInv, CurrentInv
  <1>4. HandlerInv /\ PoolInv /\ MainInv
    BY DEF Init, HandlerInv, PoolInv, MainInv
  <1> QED
    BY <1>1, <1>3, <1>4 DEF Inv

\* A step that touches the current reservation of one worker only keeps those of
\* its other attempts.
LEMMA AttemptFrame ==
    ASSUME TypeOK, AttemptInv, UNCHANGED attempt, NEW w \in Worker,
           \A r \in Reservation : r # Current(w) => status'[r] = status[r]
    PROVE  AttemptInv'
  <1> SUFFICES ASSUME NEW v \in Worker, NEW n \in 1..MaxAttempts, n # attempt[v]
               PROVE  status'[<<v, n>>] = status[<<v, n>>]
    BY ZenonT(30), BoundAssumption DEF AttemptInv, TypeOK
  <1>1. <<v, n>> # Current(w)
    BY DEF Current
  <1> QED
    BY <1>1, Pairs

\* The steps of a worker up to the resource of its reservation.
LEMMA WorkerInv ==
    ASSUME Inv, NEW w \in Worker, WorkerStep(w)
    PROVE  Inv'
  <1> USE Pairs, ConfigAssumption, BoundAssumption
      DEF Inv, TypeOK, Goto, mainVars, workerVars, EndReservation, EndRefused, Raise
  <1>StartWorker. CASE StartWorker(w)
    <2>1. TypeOK'
      BY <1>StartWorker DEF StartWorker, TypeOK
    <2>2. AttemptInv'
      BY <1>StartWorker DEF StartWorker, AttemptInv
    <2>3. CurrentInv'
      BY <1>StartWorker DEF StartWorker, AttemptInv, CurrentInv, HandlerInv, Stored,
         Current
    <2>4. HandlerInv'
      BY <1>StartWorker DEF StartWorker, HandlerInv, CurrentInv, Current, AttemptInv
    <2>5. PoolInv'
      BY <1>StartWorker DEF StartWorker, PoolInv, PoolDrained, WorkerDone
    <2>6. MainInv'
      BY <1>StartWorker DEF StartWorker, MainInv
    <2> QED
      BY <2>1, <2>2, <2>3, <2>4, <2>5, <2>6
  <1>CreateReservation. CASE CreateReservation(w)
    <2>1. TypeOK'
      BY <1>CreateReservation DEF CreateReservation, TypeOK
    <2>2. AttemptInv'
      <3>1. \A r \in Reservation : r # Current(w) => status'[r] = status[r]
        BY <1>CreateReservation DEF CreateReservation
      <3> QED
        BY <1>CreateReservation, <3>1, AttemptFrame DEF CreateReservation
    <2>3. CurrentInv'
      BY <1>CreateReservation DEF CreateReservation, AttemptInv, CurrentInv,
         HandlerInv, Stored, Current
    <2>4. HandlerInv'
      BY <1>CreateReservation DEF CreateReservation, HandlerInv, CurrentInv,
         Current, AttemptInv
    <2>5. PoolInv'
      BY <1>CreateReservation DEF CreateReservation, PoolInv, PoolDrained,
         WorkerDone
    <2>6. MainInv'
      BY <1>CreateReservation DEF CreateReservation, MainInv
    <2> QED
      BY <2>1, <2>2, <2>3, <2>4, <2>5, <2>6
  <1>ReservationStarted. CASE ReservationStarted(w)
    <2>1. TypeOK'
      BY <1>ReservationStarted DEF ReservationStarted, TypeOK
    <2>2. AttemptInv'
      BY <1>ReservationStarted DEF ReservationStarted, AttemptInv
    <2>3. CurrentInv'
      BY <1>ReservationStarted DEF ReservationStarted, AttemptInv, CurrentInv,
         HandlerInv, Stored, Current
    <2>4. HandlerInv'
      BY <1>ReservationStarted DEF ReservationStarted, HandlerInv, CurrentInv,
         Current, AttemptInv
    <2>5. PoolInv'
      BY <1>ReservationStarted DEF ReservationStarted, PoolInv, PoolDrained,
         WorkerDone
    <2>6. MainInv'
      BY <1>ReservationStarted DEF ReservationStarted, MainInv
    <2> QED
      BY <2>1, <2>2, <2>3, <2>4, <2>5, <2>6
  <1>ReservationNotStarted. CASE ReservationNotStarted(w)
    <2>1. TypeOK'
      BY <1>ReservationNotStarted DEF ReservationNotStarted, TypeOK
    <2>2. AttemptInv'
      <3>1. \A r \in Reservation : r # Current(w) => status'[r] = status[r]
        BY <1>ReservationNotStarted DEF ReservationNotStarted
      <3> QED
        BY <1>ReservationNotStarted, <3>1, AttemptFrame DEF ReservationNotStarted
    <2>3. CurrentInv'
      BY SMTT(30), <1>ReservationNotStarted DEF ReservationNotStarted, AttemptInv, CurrentInv,
         HandlerInv, Stored, Current
    <2>4. HandlerInv'
      <3>1. \A r \in Reservation : status[r] # "none" => status'[r] # "none"
        BY <1>ReservationNotStarted DEF ReservationNotStarted
      <3> QED
        BY <1>ReservationNotStarted, <3>1 DEF ReservationNotStarted, HandlerInv
    <2>5. PoolInv'
      BY <1>ReservationNotStarted DEF ReservationNotStarted, PoolInv, PoolDrained,
         WorkerDone
    <2>6. MainInv'
      BY <1>ReservationNotStarted DEF ReservationNotStarted, MainInv
    <2> QED
      BY <2>1, <2>2, <2>3, <2>4, <2>5, <2>6
  <1>GetResource. CASE GetResource(w)
    <2>1. TypeOK'
      BY <1>GetResource DEF GetResource, TypeOK
    <2>2. AttemptInv'
      BY <1>GetResource DEF GetResource, AttemptInv
    <2>3. CurrentInv'
      BY <1>GetResource DEF GetResource, AttemptInv, CurrentInv, HandlerInv, Stored,
         Current
    <2>4. HandlerInv'
      BY <1>GetResource DEF GetResource, HandlerInv, CurrentInv, Current, AttemptInv
    <2>5. PoolInv'
      BY <1>GetResource DEF GetResource, PoolInv, PoolDrained, WorkerDone
    <2>6. MainInv'
      BY <1>GetResource DEF GetResource, MainInv
    <2> QED
      BY <2>1, <2>2, <2>3, <2>4, <2>5, <2>6
  <1> QED
    BY <1>StartWorker, <1>CreateReservation, <1>ReservationStarted,
       <1>ReservationNotStarted, <1>GetResource
       DEF WorkerStep, CsStep, MainStep

\* The steps of the worker that waits for the CloudShell.
LEMMA CsInv ==
    ASSUME Inv, CsStep
    PROVE  Inv'
  <1> USE Pairs, ConfigAssumption, BoundAssumption
      DEF Inv, TypeOK, Goto, mainVars, workerVars, EndReservation, EndRefused, Raise
  <1>CsAnswers. CASE CsAnswers
    <2>1. TypeOK'
      BY <1>CsAnswers DEF CsAnswers, TypeOK
    <2>2. AttemptInv'
      BY <1>CsAnswers DEF CsAnswers, AttemptInv
    <2>3. CurrentInv'
      BY <1>CsAnswers DEF CsAnswers, AttemptInv, CurrentInv, HandlerInv, Stored,
         Current
    <2>4. HandlerInv'
      BY <1>CsAnswers DEF CsAnswers, HandlerInv, CurrentInv, Current, AttemptInv
    <2>5. PoolInv'
      BY <1>CsAnswers DEF CsAnswers, PoolInv, PoolDrained, WorkerDone
    <2>6. MainInv'
      BY <1>CsAnswers DEF CsAnswers, MainInv
    <2> QED
      BY <2>1, <2>2, <2>3, <2>4, <2>5, <2>6
  <1>CsIsNotAlive. CASE CsIsNotAlive
    <2>0. /\ CsOnDo /\ Cs \in Worker /\ csHandler = attempt[Cs]
          /\ status[Current(Cs)] = "active" /\ Current(Cs) = <<Cs, csHandler>>
          /\ Current(Cs) \in Reservation
      BY <1>CsIsNotAlive DEF CsIsNotAlive, CurrentInv, Stored, Current
    <2>a. attempt' \in [Worker -> 1..MaxAttempts]
      BY <1>CsIsNotAlive, <2>0 DEF CsIsNotAlive, RetryAllowed, NextAttempt
    <2>1. TypeOK'
      BY ZenonT(30), <1>CsIsNotAlive, <2>0, <2>a DEF CsIsNotAlive
    <2>2. AttemptInv'
      <3>1. \A r \in Reservation : r # Current(Cs) => status'[r] = status[r]
        BY <1>CsIsNotAlive, <2>0 DEF CsIsNotAlive
      <3>2. CASE UNCHANGED attempt
        BY <2>0, <3>1, <3>2, AttemptFrame
      <3>3. CASE /\ attempt' = [attempt EXCEPT ![Cs] = @ + 1]
                 /\ status'[Current(Cs)] = "ended"
        <4> SUFFICES ASSUME NEW v \in Worker, NEW n \in 1..MaxAttempts
                     PROVE  /\ n > attempt'[v] => status'[<<v, n>>] = "none"
                            /\ n < attempt'[v] => status'[<<v, n>>] = "ended"
          BY DEF AttemptInv
        <4>1. CASE v # Cs
          BY <3>1, <3>3, <4>1 DEF AttemptInv, Current
        <4>2. CASE v = Cs /\ n = attempt[Cs]
          BY <2>0, <3>3, <4>2 DEF Current
        <4>3. CASE v = Cs /\ n # attempt[Cs]
          <5>1. status'[<<v, n>>] = status[<<v, n>>]
            BY <3>1, <4>3 DEF Current
          <5>2. /\ n > attempt[Cs] => status[<<v, n>>] = "none"
                /\ n < attempt[Cs] => status[<<v, n>>] = "ended"
            BY <2>0, <4>3 DEF AttemptInv
          <5>3. attempt'[v] = attempt[Cs] + 1 /\ attempt[Cs] \in Nat /\ n \in Nat
            BY <2>0, <3>3, <4>3
          <5> QED
            BY <4>3, <5>1, <5>2, <5>3
        <4> QED
          BY <4>1, <4>2, <4>3
      <3> QED
        BY <1>CsIsNotAlive, <2>0, <3>2, <3>3 DEF CsIsNotAlive, NextAttempt
    <2>3. CurrentInv'
      BY <1>CsIsNotAlive DEF CsIsNotAlive, RetryAllowed, NextAttempt, AttemptInv,
         CurrentInv, HandlerInv, Stored, Current
    <2>4. HandlerInv'
      BY <1>CsIsNotAlive DEF CsIsNotAlive, RetryAllowed, NextAttempt, HandlerInv,
         CurrentInv, Current, AttemptInv
    <2>5. PoolInv'
      BY <1>CsIsNotAlive DEF CsIsNotAlive, RetryAllowed, NextAttempt, PoolInv,
         PoolDrained, WorkerDone
    <2>6. MainInv'
      BY <1>CsIsNotAlive DEF CsIsNotAlive, RetryAllowed, NextAttempt, MainInv
    <2> QED
      BY <2>1, <2>2, <2>3, <2>4, <2>5, <2>6
  <1> QED
    BY <1>CsAnswers, <1>CsIsNotAlive DEF WorkerStep, CsStep, MainStep

\* The steps of the main thread.
LEMMA MainThreadInv ==
    ASSUME Inv, MainStep \/ Interrupt
    PROVE  Inv'
  <1> USE Pairs, ConfigAssumption, BoundAssumption
      DEF Inv, TypeOK, Goto, mainVars, workerVars, EndReservation, EndRefused, Raise
  <1>CollectApp. ASSUME NEW a \in App, CollectApp(a)
        PROVE  Inv'
    <2>1. TypeOK'
      BY <1>CollectApp DEF CollectApp, UsableResult, TypeOK
    <2>2. AttemptInv'
      BY <1>CollectApp DEF CollectApp, UsableResult, AttemptInv
    <2>3. CurrentInv'
      BY <1>CollectApp DEF CollectApp, UsableResult, AttemptInv, CurrentInv,
         HandlerInv, Stored, Current
    <2>4. HandlerInv'
      BY <1>CollectApp DEF CollectApp, UsableResult, HandlerInv, CurrentInv,
         Current, AttemptInv
    <2>5. PoolInv'
      BY <1>CollectApp DEF CollectApp, UsableResult, PoolInv, PoolDrained,
         WorkerDone
    <2>6. MainInv'
      BY <1>CollectApp DEF CollectApp, UsableResult, MainInv
    <2> QED
      BY <2>1, <2>2, <2>3, <2>4, <2>5, <2>6
  <1>AppsCollected. CASE AppsCollected
    <2>1. TypeOK'
      BY <1>AppsCollected DEF AppsCollected, TypeOK
    <2>2. AttemptInv'
      BY <1>AppsCollected DEF AppsCollected, AttemptInv
    <2>3. CurrentInv'
      BY <1>AppsCollected DEF AppsCollected, AttemptInv, CurrentInv, HandlerInv,
         Stored, Current
    <2>4. HandlerInv'
      BY <1>AppsCollected DEF AppsCollected, HandlerInv, CurrentInv, Current,
         AttemptInv
    <2>5. PoolInv'
      BY <1>AppsCollected
         DEF AppsCollected, MainInv, Worker, PoolInv, PoolDrained, WorkerDone
    <2>6. MainInv'
      BY <1>AppsCollected DEF AppsCollected, MainInv
    <2> QED
      BY <2>1, <2>2, <2>3, <2>4, <2>5, <2>6
  <1>CollectCs. CASE CollectCs
    <2>1. TypeOK'
      BY <1>CollectCs DEF CollectCs, WorkerDone, TypeOK
    <2>2. AttemptInv'
      BY <1>CollectCs DEF CollectCs, WorkerDone, AttemptInv
    <2>3. CurrentInv'
      BY <1>CollectCs DEF CollectCs, WorkerDone, AttemptInv, CurrentInv, HandlerInv,
         Stored, Current
    <2>4. HandlerInv'
      BY <1>CollectCs DEF CollectCs, WorkerDone, HandlerInv, CurrentInv, Current,
         AttemptInv
    <2>5. PoolInv'
      BY <1>CollectCs DEF CollectCs, MainInv, Worker, PoolInv, PoolDrained, WorkerDone
    <2>6. MainInv'
      BY <1>CollectCs DEF CollectCs, WorkerDone, MainInv
    <2> QED
      BY <2>1, <2>2, <2>3, <2>4, <2>5, <2>6
  <1>DrainPool. CASE DrainPool
    <2>1. TypeOK'
      BY <1>DrainPool DEF DrainPool, TypeOK
    <2>2. AttemptInv'
      BY <1>DrainPool DEF DrainPool, AttemptInv
    <2>3. CurrentInv'
      BY <1>DrainPool DEF DrainPool, AttemptInv, CurrentInv, HandlerInv, Stored,
         Current
    <2>4. HandlerInv'
      BY <1>DrainPool DEF DrainPool, HandlerInv, CurrentInv, Current, AttemptInv
    <2>5. PoolInv'
      BY <1>DrainPool DEF DrainPool, PoolInv, PoolDrained, WorkerDone
    <2>6. MainInv'
      BY <1>DrainPool DEF DrainPool, MainInv
    <2> QED
      BY <2>1, <2>2, <2>3, <2>4, <2>5, <2>6
  <1>Interrupt. CASE Interrupt
    <2>1. TypeOK'
      BY <1>Interrupt DEF Interrupt, TypeOK
    <2>2. AttemptInv'
      BY <1>Interrupt DEF Interrupt, AttemptInv
    <2>3. CurrentInv'
      BY <1>Interrupt DEF Interrupt, AttemptInv, CurrentInv, HandlerInv, Stored,
         Current
    <2>4. HandlerInv'
      BY <1>Interrupt DEF Interrupt, HandlerInv, CurrentInv, Current, AttemptInv
    <2>5. PoolInv'
      BY <1>Interrupt DEF Interrupt, PoolInv, PoolDrained, WorkerDone
    <2>6. MainInv'
      BY <1>Interrupt DEF Interrupt, MainInv
    <2> QED
      BY <2>1, <2>2, <2>3, <2>4, <2>5, <2>6
  <1>BodyEnds. CASE BodyEnds
    <2>1. TypeOK'
      BY <1>BodyEnds DEF BodyEnds, TypeOK
    <2>2. AttemptInv'
      BY <1>BodyEnds DEF BodyEnds, AttemptInv
    <2>3. CurrentInv'
      BY <1>BodyEnds DEF BodyEnds, AttemptInv, CurrentInv, HandlerInv, Stored,
         Current
    <2>4. HandlerInv'
      BY <1>BodyEnds DEF BodyEnds, HandlerInv, CurrentInv, Current, AttemptInv
    <2>5. PoolInv'
      BY <1>BodyEnds DEF BodyEnds, PoolInv, PoolDrained, WorkerDone
    <2>6. MainInv'
      BY <1>BodyEnds DEF BodyEnds, MainInv
    <2> QED
      BY <2>1, <2>2, <2>3, <2>4, <2>5, <2>6
  <1>FinishCs. CASE FinishCs
    <2>0. csHandler # 0 => <<Cs, csHandler>> \in Reservation
      BY DEF HandlerInv
    <2>a. /\ \A r \in Reservation : r # <<Cs, csHandler>> => status'[r] = status[r]
          /\ csHandler # 0 =>
               status'[<<Cs, csHandler>>] \in {status[<<Cs, csHandler>>], "ended"}
          /\ csHandler = 0 => status' = status
      BY <1>FinishCs, <2>0 DEF FinishCs
    <2>b. PoolDrained /\ UNCHANGED <<wpc, attempt, csHandler, appHandlers>>
      BY <1>FinishCs DEF FinishCs, PoolInv
    <2>1. TypeOK'
      BY <1>FinishCs DEF FinishCs
    <2>2. AttemptInv'
      <3>1. CASE csHandler = 0
        <4>1. UNCHANGED <<status, attempt>>
          BY <2>a, <2>b, <3>1
        <4> QED
          BY <4>1 DEF AttemptInv
      <3>2. CASE csHandler # 0 /\ csHandler = attempt[Cs]
        BY <2>a, <2>b, <3>2, AttemptFrame DEF HandlerInv, Current
      <3>3. CASE csHandler # 0 /\ csHandler # attempt[Cs]
        <4>1. status[<<Cs, csHandler>>] = "ended"
          <5>1. Cs \in Worker /\ csHandler \in 1..MaxAttempts /\ csHandler < attempt[Cs]
            BY SMTT(30), <3>3 DEF HandlerInv
          <5> QED
            BY <5>1 DEF AttemptInv
        <4>2. \A r \in Reservation : status'[r] = status[r]
          BY <2>0, <2>a, <3>3, <4>1
        <4> QED
          BY <2>b, <4>2 DEF AttemptInv
      <3> QED
        BY <3>1, <3>2, <3>3
    <2>3. CurrentInv'
      <3>1. mpc' \in {"finishApps", "ended"} /\ (endFailed => endFailed')
        BY <1>FinishCs DEF FinishCs
      <3>2. \A w \in Worker : status'[Current(w)] \in {status[Current(w)], "ended"}
        BY <2>a DEF Current
      <3> QED
        BY <2>b, <3>1, <3>2 DEF CurrentInv, Stored, Current, PoolDrained, WorkerDone
    <2>4. HandlerInv'
      BY <1>FinishCs DEF FinishCs, HandlerInv, CurrentInv, Current, AttemptInv
    <2>5. PoolInv'
      BY <1>FinishCs DEF FinishCs, PoolInv, PoolDrained, WorkerDone
    <2>6. MainInv'
      BY <1>FinishCs DEF FinishCs, MainInv
    <2> QED
      BY <2>1, <2>2, <2>3, <2>4, <2>5, <2>6
  <1>FinishApp. ASSUME NEW a \in App, FinishApp(a)
        PROVE  Inv'
    <2>0. <<a, 1>> \in Reservation
      OBVIOUS
    <2>a. /\ \A r \in Reservation : r # <<a, 1>> => status'[r] = status[r]
          /\ status'[<<a, 1>>] \in {status[<<a, 1>>], "ended"}
      BY <1>FinishApp, <2>0 DEF FinishApp
    <2>b. /\ PoolDrained /\ UNCHANGED <<wpc, attempt, csHandler, appHandlers>>
          /\ a \in Worker /\ attempt[a] = 1 /\ status[<<a, 1>>] # "none"
      BY <1>FinishApp DEF FinishApp, PoolInv, CurrentInv, HandlerInv
    <2>1. TypeOK'
      BY <1>FinishApp DEF FinishApp
    <2>2. AttemptInv'
      BY ZenonT(30), <2>a, <2>b DEF AttemptInv
    <2>3. CurrentInv'
      <3>1. mpc' \in {"finishApps", "ended"} /\ (endFailed => endFailed')
        BY <1>FinishApp DEF FinishApp
      <3>2. \A w \in Worker : status'[Current(w)] \in {status[Current(w)], "ended"}
        BY <2>a DEF Current
      <3> QED
        BY <2>b, <3>1, <3>2 DEF CurrentInv, Stored, Current, PoolDrained, WorkerDone
    <2>4. HandlerInv'
      BY <1>FinishApp DEF FinishApp, HandlerInv, CurrentInv, Current, AttemptInv
    <2>5. PoolInv'
      BY <1>FinishApp DEF FinishApp, PoolInv, PoolDrained, WorkerDone
    <2>6. MainInv'
      BY <1>FinishApp DEF FinishApp, MainInv
    <2> QED
      BY <2>1, <2>2, <2>3, <2>4, <2>5, <2>6
  <1>AppsFinished. CASE AppsFinished
    <2>1. TypeOK'
      BY <1>AppsFinished DEF AppsFinished, TypeOK
    <2>2. AttemptInv'
      BY <1>AppsFinished DEF AppsFinished, AttemptInv
    <2>3. CurrentInv'
      BY <1>AppsFinished DEF AppsFinished, AttemptInv, CurrentInv, HandlerInv,
         Stored, Current
    <2>4. HandlerInv'
      BY <1>AppsFinished DEF AppsFinished, HandlerInv, CurrentInv, Current,
         AttemptInv
    <2>5. PoolInv'
      BY <1>AppsFinished DEF AppsFinished, PoolInv, PoolDrained, WorkerDone
    <2>6. MainInv'
      BY <1>AppsFinished DEF AppsFinished, MainInv
    <2> QED
      BY <2>1, <2>2, <2>3, <2>4, <2>5, <2>6
  <1> QED
    BY <1>CollectApp, <1>AppsCollected, <1>CollectCs, <1>DrainPool, <1>Interrupt,
       <1>BodyEnds, <1>FinishCs, <1>FinishApp, <1>AppsFinished
       DEF WorkerStep, CsStep, MainStep

\* Every step of a worker, of the CloudShell worker and of the main thread keeps it.
LEMMA InvStep == Inv /\ [Next]_vars => Inv'
  <1> SUFFICES ASSUME Inv, [Next]_vars
               PROVE  Inv'
    OBVIOUS
  <1>1. CASE UNCHANGED vars
    BY <1>1 DEF vars, Inv, TypeOK, AttemptInv, CurrentInv, HandlerInv, PoolInv, MainInv,
                Stored, Current, PoolDrained, WorkerDone
  <1> QED
    BY <1>1, WorkerInv, CsInv, MainThreadInv DEF Next, Terminated

\* So it holds in every reachable state.
LEMMA Invariant == Spec => []Inv
  BY InitInv, InvStep, PTL DEF Spec

\* The main thread, the workers and the reservations keep their types.
THEOREM DoTypes == Spec => []TypeOK
  BY Invariant, PTL DEF Inv

\* The tests start on a complete environment, in whichever order the workers
\* complete and however often the CloudShell is created anew: every app and the
\* CloudShell are reserved, and finish() will find them.
THEOREM TestsStartPrepared == Spec => []PreparedIsComplete
  <1>1. Inv => PreparedIsComplete
    <2> SUFFICES ASSUME Inv, mpc = "body"
                 PROVE  /\ collected = App
                        /\ csConf
                        /\ \A a \in App : a \in appHandlers /\ status[<<a, 1>>] = "active"
                        /\ CsOnDo => csHandler # 0 /\ status[<<Cs, csHandler>>] = "active"
      BY DEF PreparedIsComplete
    <2>1. collected = App /\ csConf /\ \A w \in Worker : wpc[w] = "ok"
      BY Pairs DEF Inv, MainInv, Worker
    <2>2. \A w \in Worker : Stored(w) /\ status[Current(w)] = "active"
      BY <2>1 DEF Inv, CurrentInv
    <2>3. \A a \in App : a \in appHandlers /\ status[<<a, 1>>] = "active"
      <3> SUFFICES ASSUME NEW a \in App
                   PROVE  a \in appHandlers /\ status[<<a, 1>>] = "active"
        OBVIOUS
      <3>1. a \in Worker /\ a # Cs /\ attempt[a] = 1
        BY Pairs DEF Inv, CurrentInv
      <3> QED
        BY <2>2, <3>1 DEF Stored, Current
    <2>4. CsOnDo => csHandler # 0 /\ status[<<Cs, csHandler>>] = "active"
      <3> SUFFICES ASSUME CsOnDo
                   PROVE  csHandler # 0 /\ status[<<Cs, csHandler>>] = "active"
        OBVIOUS
      <3>1. Cs \in Worker /\ attempt[Cs] # 0
        BY Pairs DEF Inv, TypeOK
      <3> QED
        BY <2>2, <3>1 DEF Stored, Current
    <2> QED
      BY <2>1, <2>3, <2>4
  <1> QED
    BY <1>1, Invariant, PTL

-----------------------------------------------------------------------------
(* The error of prepare() *)

\* With a host to read, or nothing to read it for, finish() keeps the error of
\* prepare() through every step.
LEMMA ErrorStep ==
    (DeleteCs \/ CsInConfig) /\ Inv /\ ErrorInv /\ [Next]_vars => ErrorInv'
  <1> SUFFICES ASSUME DeleteCs \/ CsInConfig, Inv, ErrorInv, [Next]_vars
               PROVE  ErrorInv'
    OBVIOUS
  <1> USE Pairs, ConfigAssumption, BoundAssumption
      DEF ErrorInv, TypeOK, Goto, mainVars, workerVars, EndReservation, EndRefused, Raise
  <1>t. TypeOK
    BY DEF Inv
  <1>1. ASSUME NEW w \in Worker, WorkerStep(w) PROVE ErrorInv'
    <2>1. UNCHANGED <<mpc, exc, interrupts>> /\ ~WorkerDone(w)
      BY <1>1 DEF WorkerStep, StartWorker, CreateReservation, ReservationStarted,
                  ReservationNotStarted, GetResource, WorkerDone
    <2>2. mpc \in {"finishCs", "finishApps", "ended"} => interrupts # 0
      BY <2>1 DEF Inv, PoolInv, PoolDrained
    <2> QED
      BY <2>1, <2>2
  <1>2. CASE CsStep
    <2>1. UNCHANGED <<mpc, exc, interrupts>> /\ Cs \in Worker /\ ~WorkerDone(Cs)
      BY <1>2 DEF CsStep, CsAnswers, CsIsNotAlive, WorkerDone
    <2>2. mpc \in {"finishCs", "finishApps", "ended"} => interrupts # 0
      BY <2>1 DEF Inv, PoolInv, PoolDrained
    <2> QED
      BY <2>1, <2>2
  <1>3. ASSUME NEW a \in App, CollectApp(a) PROVE ErrorInv'
    BY <1>3, <1>t DEF CollectApp
  <1>4. CASE AppsCollected \/ CollectCs \/ DrainPool \/ Interrupt
    BY <1>4, <1>t DEF AppsCollected, CollectCs, DrainPool, Interrupt
  <1>5. CASE BodyEnds
    <2>1. \A w \in Worker : wpc[w] = "ok"
      BY <1>5 DEF BodyEnds, Inv, MainInv, Worker
    <2> QED
      BY <1>5, <2>1 DEF BodyEnds
  <1>6. CASE FinishCs
    <2>1. DeleteCs \/ csConf
      BY DEF Inv, MainInv
    <2> QED
      BY <1>6, <1>t, <2>1 DEF FinishCs
  <1>7. ASSUME NEW a \in App, FinishApp(a) PROVE ErrorInv'
    BY <1>7, <1>t DEF FinishApp
  <1>8. CASE AppsFinished
    BY <1>8 DEF AppsFinished
  <1>9. CASE UNCHANGED vars
    BY <1>9 DEF vars
  <1> QED
    BY <1>1, <1>2, <1>3, <1>4, <1>5, <1>6, <1>7, <1>8, <1>9 DEF Next, MainStep, Terminated

\* When a worker failed and neither Ctrl-C nor Do got in the way, prepare()
\* raises the error of the worker or of the config.  The condition leaves out the
\* kept CloudShell that was never created, whose host finish() cannot log.
THEOREM PrepareKeepsTheError ==
    DeleteCs \/ CsInConfig => (Spec => []PrepareErrorKept)
  <1> SUFFICES ASSUME DeleteCs \/ CsInConfig
               PROVE  Spec => []PrepareErrorKept
    OBVIOUS
  <1>1. Init => ErrorInv
    BY DEF Init, ErrorInv
  <1>2. Inv /\ ErrorInv /\ [Next]_vars => ErrorInv'
    BY ErrorStep
  <1>3. ErrorInv => PrepareErrorKept
    BY DEF ErrorInv, PrepareErrorKept
  <1> QED
    BY <1>1, <1>2, <1>3, Invariant, PTL DEF Spec

-----------------------------------------------------------------------------
(* The lease *)

\* A step that ends the reservation r, or finds it ended, while the main thread
\* goes on as it was.
LEMMA EndStep ==
    ASSUME TypeOK, NEW r \in Reservation, status[r] # "none",
           EndReservation(r), LeaseUser' = LeaseUser
    PROVE  [Lease!LeaseNext]_(Lease!leaseVars)
  <1>1. CASE status[r] = "active"
    BY <1>1 DEF EndReservation, Lease!LeaseNext, Lease!End
  <1>2. CASE status[r] = "ended"
    BY <1>2 DEF EndReservation, TypeOK, Lease!leaseVars
  <1> QED
    BY <1>1, <1>2 DEF TypeOK

\* A worker that still runs is not one of a run that closed cleanly.
LEMMA RunningIsOpen ==
    ASSUME Inv, NEW w \in Worker, ~WorkerDone(w)
    PROVE  LeaseUser # "clean" /\ (mpc = "ended" => interrupts # 0)
  BY DEF Inv, PoolInv, PoolDrained, LeaseUser

\* A reservation that is still active belongs to an unfinished worker or to a
\* handler that finish() has yet to end.
LEMMA CleanStep ==
    (CsOnDo => DeleteCs) /\ Inv /\ ErrorInv /\ CleanInv /\ [Next]_vars => CleanInv'
  <1> SUFFICES ASSUME CsOnDo => DeleteCs, Inv, ErrorInv, CleanInv, [Next]_vars
               PROVE  CleanInv'
    OBVIOUS
  <1> USE Pairs, ConfigAssumption, BoundAssumption
      DEF TypeOK, Goto, mainVars, workerVars, EndReservation, EndRefused, Raise
  <1>t. TypeOK
    BY DEF Inv
  <1>1. ASSUME NEW w \in Worker, WorkerStep(w) PROVE CleanInv'
    <2>1. UNCHANGED <<mpc, ended, interrupts>> /\ ~WorkerDone(w)
      BY <1>1 DEF WorkerStep, StartWorker, CreateReservation, ReservationStarted,
                  ReservationNotStarted, GetResource, WorkerDone
    <2>2. mpc # "finishApps" /\ (mpc = "ended" => interrupts # 0)
      BY <2>1 DEF Inv, PoolInv, PoolDrained
    <2>3. \A r \in Reservation : status[r] = "ended" => status'[r] = "ended"
      BY <1>1, <1>t DEF WorkerStep, StartWorker, CreateReservation, ReservationStarted,
                  ReservationNotStarted, GetResource, Inv, CurrentInv
    <2> QED
      BY <1>t, <2>1, <2>2, <2>3 DEF CleanInv
  <1>2. CASE CsStep
    <2>1. UNCHANGED <<mpc, ended, interrupts>> /\ Cs \in Worker /\ ~WorkerDone(Cs)
      BY <1>2 DEF CsStep, CsAnswers, CsIsNotAlive, WorkerDone
    <2>2. mpc # "finishApps" /\ (mpc = "ended" => interrupts # 0)
      BY <2>1 DEF Inv, PoolInv, PoolDrained
    <2>3. \A r \in Reservation : status[r] = "ended" => status'[r] = "ended"
      BY <1>2, <1>t DEF CsStep, CsAnswers, CsIsNotAlive
    <2> QED
      BY <1>t, <2>1, <2>2, <2>3 DEF CleanInv
  <1>3. ASSUME NEW a \in App, CollectApp(a) PROVE CleanInv'
    BY <1>3 DEF CollectApp, CleanInv, Current
  <1>4. CASE AppsCollected \/ CollectCs \/ DrainPool \/ BodyEnds
    BY <1>4 DEF AppsCollected, CollectCs, DrainPool, BodyEnds, CleanInv, Current, ErrorInv
  <1>5. CASE Interrupt
    BY <1>5, <1>t DEF Interrupt, CleanInv, Current
  <1>6. CASE FinishCs
    <2>1. \A r \in Reservation : status[r] = "ended" => status'[r] = "ended"
      BY <1>6, <1>t DEF FinishCs
    <2>2. mpc' = "ended" => endFailed'
      BY <1>6 DEF FinishCs
    <2>3. ASSUME mpc' = "finishApps", ~endFailed', CsOnDo
          PROVE  status'[Current(Cs)] # "active"
      <3>1. WorkerDone(Cs) /\ Cs \in Worker
        BY <1>6, <2>3 DEF FinishCs, Inv, PoolInv, PoolDrained
      <3>2. CASE csHandler = 0
        <4>1. status' = status /\ wpc' = wpc /\ ~endFailed /\ attempt[Cs] # 0
          BY <1>6, <1>t, <2>3, <3>1, <3>2 DEF FinishCs
        <4> QED
          BY <2>3, <3>1, <3>2, <4>1 DEF Inv, CurrentInv, Stored, WorkerDone
      <3>3. CASE csHandler # 0
        <4>1. /\ status' = [status EXCEPT ![<<Cs, csHandler>>] = "ended"]
              /\ wpc' = wpc /\ ~endFailed /\ UNCHANGED <<attempt, csHandler>>
          BY <1>6, <1>t, <2>3, <3>3 DEF FinishCs
        <4>2. CASE csHandler = attempt[Cs]
          BY <1>t, <3>1, <4>1, <4>2 DEF Current
        <4>3. CASE csHandler # attempt[Cs]
          <5>1. status[Current(Cs)] # "active"
            BY <3>1, <4>1, <4>3 DEF Inv, CurrentInv, Stored, WorkerDone
          <5> QED
            BY <1>t, <3>1, <4>1, <4>3, <5>1 DEF Current
        <4> QED
          BY <4>2, <4>3
      <3> QED
        BY <1>6, <3>2, <3>3 DEF FinishCs, Current
    <2> QED
      BY <1>6, <1>t, <2>1, <2>2, <2>3 DEF FinishCs, CleanInv, Current
  <1>7. ASSUME NEW a \in App, FinishApp(a) PROVE CleanInv'
    <2>1. \A r \in Reservation : status'[r] \in {status[r], "ended"}
      BY <1>7, <1>t DEF FinishApp
    <2>2. \A b \in ended' : status'[<<b, 1>>] = "ended"
      <3> SUFFICES ASSUME NEW b \in ended'
                   PROVE  status'[<<b, 1>>] = "ended"
        OBVIOUS
      <3>1. CASE b \in ended
        <4>1. status[<<b, 1>>] = "ended" /\ <<b, 1>> \in Reservation
          BY <1>t, <3>1 DEF CleanInv
        <4> QED
          BY <2>1, <4>1
      <3>2. CASE b \notin ended
        BY SMTT(30), <1>7, <1>t, <3>2 DEF FinishApp
      <3> QED
        BY <3>1, <3>2
    <2>3. (endFailed => endFailed') /\ attempt' = attempt /\ (mpc' = "ended" => endFailed')
      BY <1>7 DEF FinishApp
    <2>4. mpc = "finishApps" /\ (CsOnDo => Current(Cs) \in Reservation)
      BY <1>7, <1>t DEF FinishApp, Current
    <2> QED
      BY <2>1, <2>2, <2>3, <2>4 DEF CleanInv, Current
  <1>8. CASE AppsFinished
    <2>1. ASSUME ~endFailed, NEW r \in Reservation
          PROVE  status[r] # "active"
      <3>1. r[1] \in Worker /\ r = <<r[1], r[2]>> /\ r[2] \in 1..MaxAttempts
        OBVIOUS
      <3>2. CASE r[2] # attempt[r[1]]
        <4>1. /\ r[2] > attempt[r[1]] => status[<<r[1], r[2]>>] = "none"
              /\ r[2] < attempt[r[1]] => status[<<r[1], r[2]>>] = "ended"
          BY <3>1 DEF Inv, AttemptInv
        <4>2. r[2] \in Nat /\ attempt[r[1]] \in Nat
          BY <1>t, <3>1
        <4>3. status[<<r[1], r[2]>>] # "active"
          BY <3>2, <4>1, <4>2
        <4> QED
          BY <3>1, <4>3, Zenon
      <3>3. CASE r[2] = attempt[r[1]] /\ r[1] = Cs
        BY <1>8, <2>1, <3>1, <3>3 DEF AppsFinished, CleanInv, Current
      <3>4. CASE r[2] = attempt[r[1]] /\ r[1] # Cs
        <4>1. r[1] \in App /\ attempt[r[1]] = 1 /\ WorkerDone(r[1]) /\ r = Current(r[1])
          BY <1>8, <3>1, <3>4
             DEF AppsFinished, Inv, CurrentInv, PoolInv, PoolDrained, Current
        <4>2. CASE r[1] \in appHandlers
          BY <1>8, <3>1, <3>4, <4>1, <4>2 DEF AppsFinished, CleanInv
        <4>3. CASE r[1] \notin appHandlers
          BY <2>1, <3>4, <4>1, <4>3 DEF Inv, CurrentInv, Stored, WorkerDone
        <4> QED
          BY <4>2, <4>3
      <3> QED
        BY <3>2, <3>3, <3>4
    <2> QED
      BY <1>8, <2>1 DEF AppsFinished, CleanInv, Current
  <1>9. CASE UNCHANGED vars
    BY <1>9 DEF vars, CleanInv, Current
  <1> QED
    BY <1>1, <1>2, <1>3, <1>4, <1>5, <1>6, <1>7, <1>8, <1>9 DEF Next, MainStep, Terminated

\* Every step of DoHandler is a step of the lease or changes nothing of it.
LEMMA LeaseStep ==
    (CsOnDo => DeleteCs) /\ Inv /\ CleanInv /\ CleanInv' /\ ErrorInv /\ [Next]_vars
      => [Lease!LeaseNext]_(Lease!leaseVars)
  <1> SUFFICES ASSUME CsOnDo => DeleteCs, Inv, CleanInv, CleanInv', ErrorInv, [Next]_vars
               PROVE  [Lease!LeaseNext]_(Lease!leaseVars)
    OBVIOUS
  <1> USE Pairs, ConfigAssumption, BoundAssumption
      DEF Goto, mainVars, workerVars, Raise
  <1>t. TypeOK
    BY DEF Inv
  <1>q. ASSUME UNCHANGED <<status, LeaseUser>>
        PROVE  [Lease!LeaseNext]_(Lease!leaseVars)
    BY <1>q DEF Lease!leaseVars
  <1>e. ASSUME UNCHANGED status, mpc # "ended",
               mpc' = "ended" => LeaseUser' = "abandoned"
        PROVE  [Lease!LeaseNext]_(Lease!leaseVars)
    BY <1>e, <1>q DEF LeaseUser, Lease!LeaseNext, Lease!Abandon
  <1>1. ASSUME NEW w \in Worker, WorkerStep(w)
        PROVE  [Lease!LeaseNext]_(Lease!leaseVars)
    <2>1. UNCHANGED <<mpc, interrupts>> /\ ~WorkerDone(w)
      BY <1>1 DEF WorkerStep, StartWorker, CreateReservation, ReservationStarted,
                  ReservationNotStarted, GetResource, WorkerDone
    <2>2. LeaseUser # "clean" /\ LeaseUser' = LeaseUser
      BY <2>1, RunningIsOpen DEF LeaseUser
    <2>3. Current(w) \in Reservation
      BY <1>t DEF TypeOK, Current
    <2>4. CASE CreateReservation(w)
      <3>1. status[Current(w)] = "none"
        BY <2>4 DEF CreateReservation, Inv, CurrentInv
      <3> QED
        BY <1>q, <2>2, <2>3, <2>4, <3>1 DEF CreateReservation, Lease!LeaseNext, Lease!Take
    <2>5. CASE ReservationNotStarted(w)
      <3>1. status[Current(w)] # "none"
        BY <2>5 DEF ReservationNotStarted, Inv, CurrentInv
      <3> QED
        BY <1>q, <1>t, <2>2, <2>3, <2>5, <3>1, EndStep
           DEF ReservationNotStarted, EndRefused
    <2>6. CASE StartWorker(w) \/ ReservationStarted(w) \/ GetResource(w)
      BY <1>q, <2>2, <2>6 DEF StartWorker, ReservationStarted, GetResource
    <2> QED
      BY <1>1, <2>4, <2>5, <2>6 DEF WorkerStep
  <1>2. CASE CsStep
    <2>1. UNCHANGED <<mpc, interrupts>> /\ Cs \in Worker /\ ~WorkerDone(Cs)
      BY <1>2 DEF CsStep, CsAnswers, CsIsNotAlive, WorkerDone
    <2>2. LeaseUser' = LeaseUser
      BY <2>1, RunningIsOpen DEF LeaseUser
    <2>3. CASE CsAnswers
      BY <1>q, <2>2, <2>3 DEF CsAnswers
    <2>4. CASE CsIsNotAlive
      <3>1. csHandler = attempt[Cs] /\ status[Current(Cs)] = "active"
        BY <2>1, <2>4 DEF CsIsNotAlive, Inv, CurrentInv, Stored
      <3>2. <<Cs, csHandler>> \in Reservation /\ status[<<Cs, csHandler>>] # "none"
        BY <1>t, <2>1, <3>1 DEF TypeOK, Current
      <3> QED
        BY <1>q, <1>t, <2>2, <2>4, <3>2, EndStep DEF CsIsNotAlive, EndRefused
    <2> QED
      BY <1>2, <2>3, <2>4 DEF CsStep
  <1>3. ASSUME NEW a \in App, CollectApp(a)
        PROVE  [Lease!LeaseNext]_(Lease!leaseVars)
    BY <1>3, <1>e DEF CollectApp
  <1>4. CASE AppsCollected \/ CollectCs \/ BodyEnds
    BY <1>4, <1>e DEF AppsCollected, CollectCs, BodyEnds
  <1>5. CASE DrainPool
    BY <1>5, <1>e, <1>t DEF DrainPool, ErrorInv, LeaseUser, TypeOK
  <1>6. CASE Interrupt
    BY <1>6, <1>e, <1>t DEF Interrupt, LeaseUser, TypeOK
  <1>7. CASE FinishCs
    <2>1. CASE EndReservation(<<Cs, csHandler>>) /\ csHandler # 0 /\ mpc' = "finishApps"
      <3>1. <<Cs, csHandler>> \in Reservation /\ status[<<Cs, csHandler>>] # "none"
        BY <1>t, <2>1 DEF Inv, HandlerInv, TypeOK
      <3>2. LeaseUser' = LeaseUser
        BY <1>7, <2>1 DEF FinishCs, LeaseUser
      <3> QED
        BY <1>t, <2>1, <3>1, <3>2, EndStep
    <2>2. CASE UNCHANGED status /\ mpc' = "finishApps"
      BY <1>7, <1>e, <2>2 DEF FinishCs
    <2>3. CASE EndRefused /\ mpc' = "ended"
      BY <1>7, <1>e, <2>3 DEF FinishCs, EndRefused, LeaseUser
    <2> QED
      BY <1>7, <2>1, <2>2, <2>3 DEF FinishCs
  <1>8. ASSUME NEW a \in App, FinishApp(a)
        PROVE  [Lease!LeaseNext]_(Lease!leaseVars)
    <2>1. CASE EndReservation(<<a, 1>>) /\ UNCHANGED mpc
      <3>1. <<a, 1>> \in Reservation /\ status[<<a, 1>>] # "none"
        BY <1>8 DEF FinishApp, Inv, HandlerInv
      <3>2. LeaseUser' = LeaseUser
        BY <1>8, <2>1 DEF FinishApp, LeaseUser
      <3> QED
        BY <1>t, <2>1, <3>1, <3>2, EndStep
    <2>2. CASE EndRefused /\ mpc' = "ended"
      BY <1>8, <1>e, <2>2 DEF FinishApp, EndRefused, LeaseUser
    <2> QED
      BY <1>8, <2>1, <2>2 DEF FinishApp
  <1>9. CASE AppsFinished
    <2>1. CASE interrupts = 0 /\ ~endFailed
      BY <1>9, <2>1 DEF AppsFinished, CleanInv, LeaseUser, Lease!LeaseNext, Lease!Close
    <2>2. CASE ~(interrupts = 0 /\ ~endFailed)
      BY <1>9, <1>e, <2>2 DEF AppsFinished, LeaseUser
    <2> QED
      BY <2>1, <2>2
  <1>10. CASE UNCHANGED vars
    BY <1>10, <1>q DEF vars, LeaseUser
  <1> QED
    BY <1>1, <1>2, <1>3, <1>4, <1>5, <1>6, <1>7, <1>8, <1>9, <1>10
       DEF Next, MainStep, Terminated

\* With delete_cs, or without a CloudShell on Do, DoHandler implements the
\* reservation lease: whatever the workers do, and however often the CloudShell
\* is created anew, no reservation outlives a clean end and none is taken after it.
THEOREM DoImplementsLease == (CsOnDo => DeleteCs) => (Spec => ImplementsLease)
  <1> SUFFICES ASSUME CsOnDo => DeleteCs
               PROVE  Spec => ImplementsLease
    OBVIOUS
  <1>1. Init => Lease!LeaseInit
    BY DEF Init, LeaseUser, Lease!LeaseInit
  <1>2. Init => CleanInv /\ ErrorInv
    BY Pairs DEF Init, CleanInv, ErrorInv
  <1>3. Inv /\ ErrorInv /\ CleanInv /\ [Next]_vars => CleanInv'
    BY CleanStep
  <1>4. Inv /\ ErrorInv /\ [Next]_vars => ErrorInv'
    BY ErrorStep, ConfigAssumption
  <1>5. Inv /\ CleanInv /\ CleanInv' /\ ErrorInv /\ [Next]_vars
          => [Lease!LeaseNext]_(Lease!leaseVars)
    BY LeaseStep
  <1> QED
    BY <1>1, <1>2, <1>3, <1>4, <1>5, Invariant, PTL
       DEF Spec, ImplementsLease, Lease!LeaseSpec
=============================================================================
