-------------------------- MODULE SandboxesProofs --------------------------
(***************************************************************************)
(* Proofs about Sandboxes, for every set of sandboxes and resources and    *)
(* every number of polls: the tests see reservations that are set up, no   *)
(* resource is deleted under a reservation, and the reservations of a run  *)
(* implement the lease.                                                    *)
(***************************************************************************)
EXTENDS Sandboxes, TLAPS

(* The inductive invariant, part by part. *)

\* What the place of SandboxHandler.create says about its reservation.
CreateInv ==
    \A s \in Sandbox :
        /\ cpc[s] = "create" => status[s] = "none"
        /\ cpc[s] \in {"answer", "poll", "cleanup", "created"} => status[s] # "none"
        /\ status[s] \in {"none", "Pending"} => prov[s] = "NotRun"
        /\ cpc[s] = "created" =>
              status[s] # "Pending" /\ (prov[s] \in {"NotRun", "Ready"} \/ s \in Gap)
        /\ cpc[s] \in {"create", "answer"} => polls[s] = 0
        /\ cpc[s] = "poll" => polls[s] < MaxStartPolls
        /\ cpc[s] = "failed" /\ Live(s) => s \in stranded

\* How the passes of finish() follow the creations.
MainInv ==
    /\ mpc # "create" => CreateDone
    /\ mpc = "create" => todo = {} /\ ending = None
    /\ mpc = "testing" =>
          Created = Sandbox /\ todo = Sandbox /\ ending = None /\ passes = 1
    /\ mpc = "finish" => passes \in {1, 2}
    /\ mpc = "done" => todo = {}
    /\ ending # None => mpc = "finish" /\ ending \in todo /\ status[ending] # "none"
                          /\ ~Live(ending) /\ polls[ending] < MaxEndPolls
    /\ todo \subseteq Created

\* Which reservations may still be live.
LiveInv ==
    mpc \in {"finish", "done"} =>
        \A s \in Sandbox \ todo : Live(s) => s \in stranded

\* Which reservations may still hold a resource.
HoldInv ==
    /\ \A s \in Sandbox : status[s] \in {"none", "Completed"} => holds[s] = {}
    /\ mpc = "create" \/ passes = 2 => \A s \in Sandbox : holds[s] = {}
    /\ mpc = "finish" => \A s \in Sandbox \ todo : holds[s] = {}

Inv ==
    /\ TypeOK
    /\ CreateInv
    /\ MainInv
    /\ LiveInv
    /\ HoldInv
    /\ HeldExists
-----------------------------------------------------------------------------
\* Both waits fit into the range of the counter.
LEMMA PollBounds ==
    MaxPolls \in Nat /\ MaxStartPolls <= MaxPolls /\ MaxEndPolls <= MaxPolls
  BY BoundAssumption DEF MaxPolls

\* The states before the first call satisfy the invariant.
LEMMA InitInv == Init => Inv
  <1> SUFFICES ASSUME Init PROVE Inv
    OBVIOUS
  <1> USE ConfigAssumption, BoundAssumption DEF Init
  <1>1. TypeOK
    <2>1. polls \in [Sandbox -> 0..MaxPolls]
      BY PollBounds
    <2>2. holds \in [Sandbox -> SUBSET Resource] /\ passes \in 0..2
      OBVIOUS
    <2> QED
      BY <2>1, <2>2 DEF TypeOK
  <1>2. CreateInv /\ MainInv /\ LiveInv
    BY DEF CreateInv, MainInv, LiveInv, Live, Created, CreateDone
  <1>3. HoldInv /\ HeldExists
    BY DEF HoldInv, HeldExists
  <1> QED
    BY <1>1, <1>2, <1>3 DEF Inv

\* CloudShell acting on its own: no reservation comes back to life, and only a
\* completed one gives its resources back.
LEMMA CloudShellStep == Inv /\ CloudShell => Inv'
  <1> SUFFICES ASSUME Inv, CloudShell PROVE Inv'
    OBVIOUS
  <1> USE DEF Inv, TypeOK, CloudShell, finishVars, SetStatus, Live
  <1> PICK s \in Sandbox :
          Start(s) \/ BeginSetup(s) \/ EndSetup(s) \/ Expire(s) \/ Complete(s)
    OBVIOUS
  <1>1. CASE Start(s)
    <2>1. TypeOK'
      BY <1>1 DEF Start
    <2>2. CreateInv'
      BY <1>1 DEF Start, CreateInv
    <2>3. MainInv'
      BY <1>1 DEF Start, MainInv, Created, CreateDone
    <2>4. LiveInv'
      BY <1>1 DEF Start, LiveInv
    <2>5. HoldInv' /\ HeldExists'
      BY <1>1 DEF Start, HoldInv, HeldExists
    <2> QED
      BY <2>1, <2>2, <2>3, <2>4, <2>5
  <1>2. CASE EndSetup(s)
    <2>1. TypeOK'
      BY <1>2 DEF EndSetup
    <2>2. CreateInv'
      BY <1>2 DEF EndSetup, CreateInv
    <2>3. MainInv'
      BY <1>2 DEF EndSetup, MainInv, Created, CreateDone
    <2>4. LiveInv'
      BY <1>2 DEF EndSetup, LiveInv
    <2>5. HoldInv' /\ HeldExists'
      BY <1>2 DEF EndSetup, HoldInv, HeldExists
    <2> QED
      BY <2>1, <2>2, <2>3, <2>4, <2>5
  <1>2b. CASE BeginSetup(s)
    <2>1. TypeOK'
      BY <1>2b DEF BeginSetup
    <2>2. CreateInv'
      BY <1>2b DEF BeginSetup, CreateInv
    <2>3. MainInv'
      BY <1>2b DEF BeginSetup, MainInv, Created, CreateDone
    <2>4. LiveInv'
      BY <1>2b DEF BeginSetup, LiveInv
    <2>5. HoldInv' /\ HeldExists'
      BY <1>2b DEF BeginSetup, HoldInv, HeldExists
    <2> QED
      BY <2>1, <2>2, <2>3, <2>4, <2>5
  <1>3. CASE Expire(s)
    <2>1. TypeOK'
      BY <1>3 DEF Expire
    <2>2. CreateInv'
      BY <1>3 DEF Expire, CreateInv
    <2>3. MainInv'
      BY <1>3 DEF Expire, MainInv, Created, CreateDone
    <2>4. LiveInv'
      BY <1>3 DEF Expire, LiveInv
    <2>5. HoldInv' /\ HeldExists'
      BY <1>3 DEF Expire, HoldInv, HeldExists
    <2> QED
      BY <2>1, <2>2, <2>3, <2>4, <2>5
  <1>4. CASE Complete(s)
    <2>1. TypeOK'
      BY <1>4 DEF Complete
    <2>2. CreateInv'
      BY <1>4 DEF Complete, CreateInv
    <2>3. MainInv'
      BY <1>4 DEF Complete, MainInv, Created, CreateDone
    <2>4. LiveInv'
      BY <1>4 DEF Complete, LiveInv
    <2>5. HoldInv' /\ HeldExists'
      BY <1>4 DEF Complete, HoldInv, HeldExists
    <2> QED
      BY <2>1, <2>2, <2>3, <2>4, <2>5
  <1> QED
    BY <1>1, <1>2, <1>2b, <1>3, <1>4

\* The steps of SandboxHandler.create: a reservation is either handed out set up,
\* ended, or stranded.
LEMMA CreateStep == ASSUME NEW s \in Sandbox PROVE Inv /\ Create(s) => Inv'
  <1> SUFFICES ASSUME Inv, Create(s) PROVE Inv'
    OBVIOUS
  <1> USE PollBounds, BoundAssumption
          DEF Inv, TypeOK, finishVars, csVars, SetStatus, Live, Goto, Strand
  <1>1. CASE Request(s)
    <2>1. TypeOK'
      BY <1>1 DEF Request, CreateInv, MainInv
    <2>2. CreateInv'
      BY <1>1 DEF Request, CreateInv, MainInv, Created
    <2>3. MainInv'
      BY <1>1 DEF Request, MainInv, Created, CreateDone, CreateInv
    <2>4. LiveInv'
      BY <1>1 DEF Request, LiveInv, CreateInv, MainInv, CreateDone, Created
    <2>5. HoldInv' /\ HeldExists'
      BY <1>1 DEF Request, HoldInv, MainInv, Created, HeldExists
    <2> QED
      BY <2>1, <2>2, <2>3, <2>4, <2>5
  <1>2. CASE Answer(s)
    <2>1. TypeOK'
      BY <1>2 DEF Answer, CreateInv, MainInv
    <2>2. CreateInv'
      BY <1>2 DEF Answer, CreateInv, MainInv, Created
    <2>3. MainInv'
      BY <1>2 DEF Answer, MainInv, Created, CreateDone, CreateInv
    <2>4. LiveInv'
      BY <1>2 DEF Answer, LiveInv, CreateInv, MainInv, CreateDone, Created
    <2>5. HoldInv' /\ HeldExists'
      BY <1>2 DEF Answer, HoldInv, MainInv, Created, HeldExists
    <2> QED
      BY <2>1, <2>2, <2>3, <2>4, <2>5
  <1>3. CASE PollStart(s)
    <2>1. TypeOK'
      BY <1>3 DEF PollStart, IsStarted, SetupErrors, PollsLeft, CountPoll,
         CreateInv, MainInv
    <2>2. CreateInv'
      BY <1>3 DEF PollStart, IsStarted, SetupErrors, PollsLeft, CountPoll,
         CreateInv, MainInv, Created
    <2>3. MainInv'
      BY <1>3 DEF PollStart, IsStarted, SetupErrors, PollsLeft, CountPoll, MainInv,
         Created, CreateDone, CreateInv
    <2>4. LiveInv'
      BY <1>3 DEF PollStart, IsStarted, SetupErrors, PollsLeft, CountPoll, LiveInv,
         CreateInv, MainInv, CreateDone, Created
    <2>5. HoldInv' /\ HeldExists'
      BY <1>3 DEF PollStart, IsStarted, SetupErrors, PollsLeft, CountPoll, HoldInv,
         MainInv, Created, HeldExists
    <2> QED
      BY <2>1, <2>2, <2>3, <2>4, <2>5
  <1>4. CASE CreateFails(s)
    <2>1. TypeOK'
      BY <1>4 DEF CreateFails, CleanUp, EndAccepted, CreateInv, MainInv
    <2>2. CreateInv'
      BY <1>4 DEF CreateFails, CleanUp, EndAccepted, CreateInv, MainInv, Created
    <2>3. MainInv'
      BY <1>4 DEF CreateFails, CleanUp, EndAccepted, MainInv, Created, CreateDone,
         CreateInv
    <2>4. LiveInv'
      BY <1>4 DEF CreateFails, CleanUp, EndAccepted, LiveInv, CreateInv, MainInv,
         CreateDone, Created
    <2>5. HoldInv' /\ HeldExists'
      BY <1>4 DEF CreateFails, CleanUp, EndAccepted, HoldInv, MainInv, Created,
         HeldExists
    <2> QED
      BY <2>1, <2>2, <2>3, <2>4, <2>5
  <1> QED
    BY <1>1, <1>2, <1>3, <1>4 DEF Create

\* The main thread, except for the polls and the deletions of finish().
LEMMA RunStep == Inv /\ (Collect \/ EndTests \/ \E s \in Sandbox : Attach(s)) => Inv'
  <1> SUFFICES ASSUME Inv, Collect \/ EndTests \/ \E s \in Sandbox : Attach(s)
               PROVE Inv'
    OBVIOUS
  <1> USE ConfigAssumption DEF Inv, TypeOK, finishVars, csVars, Live
  <1>1. CASE Collect
    <2>1. TypeOK'
      BY <1>1 DEF Collect, ToEnd, Created, CreateDone
    <2>2. CreateInv'
      BY <1>1 DEF Collect, ToEnd, Created, CreateDone, CreateInv
    <2>3. MainInv'
      BY <1>1 DEF Collect, ToEnd, Created, CreateDone, MainInv
    <2>4. LiveInv'
      BY <1>1 DEF Collect, ToEnd, Created, CreateDone, LiveInv, CreateInv, MainInv
    <2>5. HoldInv' /\ HeldExists'
      BY <1>1 DEF Collect, ToEnd, Created, CreateDone, HoldInv, MainInv, HeldExists
    <2> QED
      BY <2>1, <2>2, <2>3, <2>4, <2>5
  <1>2. CASE EndTests
    <2>1. TypeOK'
      BY <1>2 DEF EndTests
    <2>2. CreateInv'
      BY <1>2 DEF EndTests, CreateInv
    <2>3. MainInv'
      BY <1>2 DEF EndTests, MainInv, Created, CreateDone
    <2>4. LiveInv'
      BY <1>2 DEF EndTests, LiveInv, CreateInv, MainInv, CreateDone, Created
    <2>5. HoldInv' /\ HeldExists'
      BY <1>2 DEF EndTests, HoldInv, MainInv, Created, HeldExists
    <2> QED
      BY <2>1, <2>2, <2>3, <2>4, <2>5
  <1>3. ASSUME NEW s \in Sandbox, Attach(s) PROVE Inv'
    <2>1. TypeOK'
      BY <1>3 DEF Attach
    <2>2. CreateInv'
      BY <1>3 DEF Attach, CreateInv
    <2>3. MainInv'
      BY <1>3 DEF Attach, MainInv, Created, CreateDone
    <2>4. LiveInv'
      BY <1>3 DEF Attach, LiveInv, CreateInv, MainInv, CreateDone, Created
    <2>5. HoldInv' /\ HeldExists'
      BY <1>3 DEF Attach, HoldInv, MainInv, Created, HeldExists
    <2> QED
      BY <2>1, <2>2, <2>3, <2>4, <2>5
  <1> QED
    BY <1>1, <1>2, <1>3

\* The way out of finish(), from any of its calls: the next pass, or the end.
LEMMA FinishStep ==
    Inv /\ (FinishEnds \/ (\E s \in Sandbox : EndNext(s) \/ PollEnd(s))
              \/ \E r \in Resource : DeleteResource(r)) => Inv'
  <1> SUFFICES ASSUME Inv,
                      FinishEnds \/ (\E s \in Sandbox : EndNext(s) \/ PollEnd(s))
                        \/ \E r \in Resource : DeleteResource(r)
               PROVE Inv'
    OBVIOUS
  <1> USE PollBounds, BoundAssumption, ConfigAssumption
          DEF Inv, TypeOK, finishVars, csVars, Live, LeaveFinish, ToEnd, Strand, SetStatus
  <1>1. CASE FinishEnds
    <2>1. TypeOK'
      BY <1>1 DEF FinishEnds, Created
    <2>2. CreateInv'
      BY <1>1 DEF FinishEnds, Created, CreateInv
    <2>3. MainInv'
      BY <1>1 DEF FinishEnds, Created, MainInv, CreateDone
    <2>4. LiveInv'
      BY <1>1 DEF FinishEnds, Created, LiveInv, CreateInv, MainInv, CreateDone
    <2>5. HoldInv' /\ HeldExists'
      BY <1>1 DEF FinishEnds, Created, HoldInv, MainInv, HeldExists
    <2> QED
      BY <2>1, <2>2, <2>3, <2>4, <2>5
  <1>2. ASSUME NEW s \in Sandbox, EndNext(s) PROVE Inv'
    <2>1. TypeOK'
      BY <1>2 DEF EndNext, EndAccepted, WaitForEnd, Created, CreateInv, MainInv
    <2>2. CreateInv'
      BY <1>2 DEF EndNext, EndAccepted, WaitForEnd, Created, CreateInv, MainInv
    <2>3. MainInv'
      BY <1>2 DEF EndNext, EndAccepted, WaitForEnd, Created, MainInv, CreateDone,
         CreateInv
    <2>4. LiveInv'
      BY <1>2 DEF EndNext, EndAccepted, WaitForEnd, Created, LiveInv, CreateInv,
         MainInv, CreateDone
    <2>5. HoldInv' /\ HeldExists'
      BY <1>2 DEF EndNext, EndAccepted, WaitForEnd, Created, HoldInv, MainInv,
         HeldExists
    <2> QED
      BY <2>1, <2>2, <2>3, <2>4, <2>5
  <1>3. ASSUME NEW s \in Sandbox, PollEnd(s) PROVE Inv'
    <2>1. TypeOK'
      BY <1>3 DEF PollEnd, PollsLeft, CountPoll, GiveUp, Created, CreateInv, MainInv
    <2>2. CreateInv'
      BY <1>3 DEF PollEnd, PollsLeft, CountPoll, GiveUp, Created, CreateInv, MainInv
    <2>3. MainInv'
      BY <1>3 DEF PollEnd, PollsLeft, CountPoll, GiveUp, Created, MainInv,
         CreateDone, CreateInv
    <2>4. LiveInv'
      BY <1>3 DEF PollEnd, PollsLeft, CountPoll, GiveUp, Created, LiveInv,
         CreateInv, MainInv, CreateDone
    <2>5. HoldInv' /\ HeldExists'
      BY <1>3 DEF PollEnd, PollsLeft, CountPoll, GiveUp, Created, HoldInv, MainInv,
         HeldExists
    <2> QED
      BY <2>1, <2>2, <2>3, <2>4, <2>5
  <1>4. ASSUME NEW r \in Resource, DeleteResource(r) PROVE Inv'
    <2>1. TypeOK'
      BY <1>4 DEF DeleteResource, Created
    <2>2. CreateInv'
      BY <1>4 DEF DeleteResource, Created, CreateInv
    <2>3. MainInv'
      BY <1>4 DEF DeleteResource, Created, MainInv, CreateDone
    <2>4. LiveInv'
      BY <1>4 DEF DeleteResource, Created, LiveInv, CreateInv, MainInv, CreateDone
    <2>5. HoldInv' /\ HeldExists'
      BY <1>4 DEF DeleteResource, Created, HoldInv, MainInv, HeldExists
    <2> QED
      BY <2>1, <2>2, <2>3, <2>4, <2>5
  <1> QED
    BY <1>1, <1>2, <1>3, <1>4

\* Every step keeps the invariant.
LEMMA InvStep == Inv /\ [Next]_vars => Inv'
  <1>1. Inv /\ UNCHANGED vars => Inv'
    BY DEF vars, csVars, finishVars, Inv, TypeOK, CreateInv, MainInv, LiveInv, HoldInv,
       HeldExists, Live, Created, CreateDone
  <1> QED
    BY <1>1, CloudShellStep, CreateStep, RunStep, FinishStep DEF Next, Main, Ended

\* The invariant holds in every run.
LEMMA Invariant == Spec => []Inv
  BY InitInv, InvStep, PTL DEF Spec

-----------------------------------------------------------------------------
(* The properties of the runs, for every configuration *)

\* Every variable keeps its type; in particular no wait polls more often than
\* its limit allows (wait_reservation_is_started, end_reservation).
THEOREM SandboxTypes == Spec => []TypeOK
  <1>1. Inv => TypeOK
    BY DEF Inv
  <1> QED
    BY <1>1, Invariant, PTL

\* While the tests run, no reservation is pending, and none is in its setup or
\* broken that was in its setup when CloudShell showed it as started: what
\* wait_reservation_is_started took for started stays so.
THEOREM TestedSandboxesAreSetUp == Spec => []TestedIsSetUp
  <1>1. Inv => TestedIsSetUp
    BY DEF Inv, CreateInv, MainInv, Created, TestedIsSetUp
  <1> QED
    BY <1>1, Invariant, PTL

\* finish() deletes no resource that a reservation still holds, however its
\* waits end.
THEOREM HeldResourcesExist == Spec => []HeldExists
  <1>1. Inv => HeldExists
    BY DEF Inv
  <1> QED
    BY <1>1, Invariant, PTL

\* Whatever calls fail in the two passes of finish(), a reservation that is live
\* after the run was lost by a call of its own or left behind in that pass.
THEOREM OtherSandboxesAreEnded == Spec => []OthersAreEnded
  <1>1. Inv => OthersAreEnded
    BY DEF Inv, MainInv, LiveInv, OthersAreEnded
  <1> QED
    BY <1>1, Invariant, PTL

-----------------------------------------------------------------------------
(* The reservations of a run implement ReservationLease. *)

\* The lease of one reservation, by its status on CloudShell.
LEMMA LeaseOf ==
    ASSUME NEW s \in Sandbox
    PROVE  /\ status[s] = "none" => lease[s] = "none"
           /\ Live(s) => lease[s] = "active"
           /\ status[s] # "none" /\ ~Live(s) => lease[s] = "ended"
  BY DEF lease, Live

\* A step that leaves every status as it is leaves the leases as they are; the
\* user may close, which needs that nothing is live, or abandon what is left.
LEMMA UserStep ==
    ASSUME Inv', status' = status, stranded \subseteq stranded', mpc # "done"
    PROVE  Lease!Close \/ Lease!Abandon \/ UNCHANGED <<lease, user>>
  <1>1. lease' = lease
    BY DEF lease, Live
  <1>2. CASE stranded # {}
    BY <1>1, <1>2 DEF user
  <1>3. CASE stranded = {} /\ stranded' # {}
    BY <1>1, <1>3 DEF user, Lease!Abandon
  <1>4. CASE stranded = {} /\ stranded' = {} /\ mpc' = "done"
    <2>1. \A s \in Sandbox : ~Live(s)
      BY <1>4 DEF Inv, LiveInv, MainInv, Live
    <2>2. \A s \in Sandbox : lease[s] # "active"
      BY <2>1 DEF lease
    <2> QED
      BY <1>1, <1>4, <2>2 DEF user, Lease!Close
  <1>5. CASE stranded = {} /\ stranded' = {} /\ mpc' # "done"
    BY <1>1, <1>5 DEF user
  <1> QED
    BY <1>2, <1>3, <1>4, <1>5

\* A step that ends a live reservation, and leaves the main thread's end and the
\* stranded reservations as they are, is End of the lease.
LEMMA EndStep ==
    ASSUME NEW s \in Sandbox, TypeOK, Live(s),
           status' = [status EXCEPT ![s] = "Teardown"],
           stranded' = stranded, mpc' = mpc
    PROVE  Lease!End(s)
  <1>1. lease[s] = "active"
    BY LeaseOf
  <1>2. lease' = [lease EXCEPT ![s] = "ended"]
    BY DEF lease, Live, TypeOK
  <1>3. user' = user
    BY DEF user
  <1> QED
    BY <1>1, <1>2, <1>3 DEF Lease!End

\* EndReservation, accepted: an end, or nothing when the reservation has ended.
LEMMA EndAcceptedStep ==
    ASSUME NEW s \in Sandbox, TypeOK, EndAccepted(s), stranded' = stranded, mpc' = mpc
    PROVE  Lease!End(s) \/ UNCHANGED <<lease, user>>
  <1>1. CASE Live(s)
    BY <1>1, EndStep DEF EndAccepted, SetStatus
  <1>2. CASE ~Live(s)
    BY <1>2 DEF EndAccepted, lease, user, Live
  <1> QED
    BY <1>1, <1>2

\* Every step of the sandboxes is a step of the lease or changes nothing of it.
LEMMA LeaseStep == Inv /\ Inv' /\ [Next]_vars => [Lease!LeaseNext]_(Lease!leaseVars)
  <1> SUFFICES ASSUME Inv, Inv', [Next]_vars
               PROVE  Lease!LeaseNext \/ UNCHANGED <<lease, user>>
    BY DEF Lease!leaseVars
  <1> USE DEF finishVars, csVars, SetStatus
  <1>t. TypeOK
    BY DEF Inv
  <1>1. CASE CloudShell
    <2> PICK s \in Sandbox :
            Start(s) \/ BeginSetup(s) \/ EndSetup(s) \/ Expire(s) \/ Complete(s)
      BY <1>1 DEF CloudShell
    <2>1. user' = user
      BY <1>1 DEF CloudShell, user
    <2>2. CASE Start(s) \/ BeginSetup(s) \/ EndSetup(s) \/ Complete(s)
      BY <1>t, <2>1, <2>2 DEF Start, BeginSetup, EndSetup, Complete, lease, Live, TypeOK
    <2>3. CASE Expire(s)
      BY <1>1, <1>t, <2>3, EndStep DEF Expire, CloudShell, Lease!LeaseNext
    <2> QED
      BY <2>2, <2>3
  <1>2. ASSUME NEW s \in Sandbox, Request(s)
        PROVE  Lease!LeaseNext \/ UNCHANGED <<lease, user>>
    <2>1. status[s] = "none" /\ mpc = "create" /\ user' = user
      BY <1>2 DEF Request, Inv, TypeOK, CreateInv, MainInv, CreateDone, user
    <2>2. CASE status' = [status EXCEPT ![s] = "Pending"]
      <3>1. lease[s] = "none" /\ lease' = [lease EXCEPT ![s] = "active"]
        BY <1>t, <2>1, <2>2 DEF lease, Live, TypeOK
      <3> QED
        BY <2>1, <3>1 DEF user, Lease!Take, Lease!LeaseNext
    <2>3. CASE status' = status
      BY <2>1, <2>3 DEF lease, Live
    <2> QED
      BY <1>2, <2>2, <2>3 DEF Request
  <1>3. ASSUME NEW s \in Sandbox, Answer(s) \/ PollStart(s)
        PROVE  Lease!LeaseNext \/ UNCHANGED <<lease, user>>
    <2>1. mpc # "done"
      BY <1>3 DEF Answer, PollStart, Inv, MainInv, CreateDone
    <2> QED
      BY <1>3, <2>1, UserStep DEF Answer, PollStart, Strand, Lease!LeaseNext
  <1>4. ASSUME NEW s \in Sandbox, CreateFails(s)
        PROVE  Lease!LeaseNext \/ UNCHANGED <<lease, user>>
    <2>1. mpc # "done"
      BY <1>4 DEF CreateFails, Inv, MainInv, CreateDone
    <2> QED
      BY <1>4, <1>t, <2>1, UserStep, EndAcceptedStep
         DEF CreateFails, CleanUp, Strand, Lease!LeaseNext
  <1>5. CASE Collect \/ EndTests \/ FinishEnds
    BY <1>5, UserStep DEF Collect, EndTests, FinishEnds, Lease!LeaseNext
  <1>6. ASSUME NEW s \in Sandbox, Attach(s)
        PROVE  Lease!LeaseNext \/ UNCHANGED <<lease, user>>
    BY <1>6, UserStep DEF Attach, Lease!LeaseNext
  <1>7. ASSUME NEW s \in Sandbox, EndNext(s)
        PROVE  Lease!LeaseNext \/ UNCHANGED <<lease, user>>
    BY <1>7, <1>t, UserStep, EndAcceptedStep
       DEF EndNext, WaitForEnd, Strand, Lease!LeaseNext
  <1>8. ASSUME NEW s \in Sandbox, PollEnd(s)
        PROVE  Lease!LeaseNext \/ UNCHANGED <<lease, user>>
    BY <1>8, UserStep DEF PollEnd, GiveUp, Strand, Lease!LeaseNext
  <1>9. ASSUME NEW r \in Resource, DeleteResource(r)
        PROVE  Lease!LeaseNext \/ UNCHANGED <<lease, user>>
    BY <1>9, UserStep DEF DeleteResource, Lease!LeaseNext
  <1>10. CASE UNCHANGED vars
    BY <1>10 DEF vars, lease, user, Live
  <1> QED
    BY <1>1, <1>2, <1>3, <1>4, <1>5, <1>6, <1>7, <1>8, <1>9, <1>10
       DEF Next, Create, Main, Ended

\* The sandboxes of a run implement the lease: SandboxHandler and finish() take
\* each reservation once, end it at most once, and a run whose calls all went
\* through closes with none active.
THEOREM SandboxesRefineLease == Spec => SandboxesImplementLease
  <1>1. Init => Lease!LeaseInit
    BY DEF Init, Lease!LeaseInit, lease, user, Live
  <1> QED
    BY <1>1, LeaseStep, Invariant, PTL DEF Spec, SandboxesImplementLease, Lease!LeaseSpec
=============================================================================
