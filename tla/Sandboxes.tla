------------------------------ MODULE Sandboxes ------------------------------
(***************************************************************************)
(* The sandboxes of a test run, call by call: SandboxHandler.create asks   *)
(* CloudShell for a reservation and polls it until it is started, and      *)
(* HandlerStorage.finish ends each one, polls it until it is completed and *)
(* then deletes the resources.  CloudShell sets reservations up and tears  *)
(* them down in its own time, lets them expire, and may refuse any call or *)
(* lose its answer.                                                        *)
(***************************************************************************)
EXTENDS Naturals, FiniteSets

CONSTANTS
    Sandbox,        \* conf.sandboxes_conf
    WithBlueprint,  \* the ones with a blueprint_name
    Gap,            \* those that CloudShell shows as started before the setup begins
    Resource,       \* conf.resources_conf
    UsedBy,         \* sandbox |-> the resources its tests add to it
    None,
    MaxStartPolls,  \* polls of wait_reservation_is_started (60 in the code)
    MaxEndPolls     \* polls of end_reservation (30 in the code)

ASSUME ConfigAssumption ==
    /\ WithBlueprint \subseteq Sandbox
    /\ Gap \subseteq WithBlueprint
    /\ UsedBy \in [Sandbox -> SUBSET Resource]
    /\ None \notin Sandbox

ASSUME BoundAssumption ==
    /\ MaxStartPolls \in Nat \ {0}
    /\ MaxEndPolls \in Nat \ {0}

VARIABLES
    status,    \* Status of each reservation on CloudShell, "none" before it is made
    prov,      \* its ProvisioningStatus (NotRun is "Not Run")
    holds,     \* the resources in it
    exists,    \* the resources on CloudShell
    cpc,       \* where SandboxHandler.create is
    polls,     \* polls of the wait the reservation is in
    mpc,       \* "create", "testing", "finish" or "done"
    todo,      \* handlers that this pass of finish() has not ended yet
    ending,    \* the sandbox whose end finish() waits for
    passes,    \* how often finish() is still to be called
    stranded   \* reservations whose making or ending went wrong on a call

csVars == <<status, prov, holds>>
finishVars == <<todo, ending, passes>>
vars == <<csVars, exists, cpc, polls, mpc, finishVars, stranded>>

Live(s) == status[s] \in {"Pending", "Started"}
Created == {s \in Sandbox : cpc[s] = "created"}
CreateDone == \A s \in Sandbox : cpc[s] \in {"created", "failed"}

Init ==
    /\ status = [s \in Sandbox |-> "none"]
    /\ prov = [s \in Sandbox |-> "NotRun"]
    /\ holds = [s \in Sandbox |-> {}]
    /\ exists = {}
    /\ cpc = [s \in Sandbox |-> "create"]
    /\ polls = [s \in Sandbox |-> 0]
    /\ mpc = "create"
    /\ todo = {}
    /\ ending = None
    /\ passes = 0
    /\ stranded = {}

-----------------------------------------------------------------------------
(* CloudShell *)

SetStatus(s, v) == status' = [status EXCEPT ![s] = v]

\* Only a blueprint can have a setup to run.
Start(s) ==
    /\ status[s] = "Pending"
    /\ SetStatus(s, "Started")
    /\ \/ UNCHANGED prov
       \/ s \in WithBlueprint \ Gap /\ prov' = [prov EXCEPT ![s] = "Setup"]
    /\ UNCHANGED holds

\* The setup of a reservation that was shown as started before.
BeginSetup(s) ==
    /\ s \in Gap
    /\ status[s] = "Started" /\ prov[s] = "NotRun"
    /\ prov' = [prov EXCEPT ![s] = "Setup"]
    /\ UNCHANGED <<status, holds>>

EndSetup(s) ==
    /\ status[s] = "Started" /\ prov[s] = "Setup"
    /\ \E v \in {"Ready", "Error"} : prov' = [prov EXCEPT ![s] = v]
    /\ UNCHANGED <<status, holds>>

\* The duration is over, or somebody else ends the reservation.
Expire(s) ==
    /\ Live(s)
    /\ SetStatus(s, "Teardown")
    /\ UNCHANGED <<prov, holds>>

Complete(s) ==
    /\ status[s] = "Teardown"
    /\ SetStatus(s, "Completed")
    /\ holds' = [holds EXCEPT ![s] = {}]
    /\ UNCHANGED prov

CloudShell ==
    /\ \E s \in Sandbox :
          Start(s) \/ BeginSetup(s) \/ EndSetup(s) \/ Expire(s) \/ Complete(s)
    /\ UNCHANGED <<exists, cpc, polls, mpc, finishVars, stranded>>

\* EndReservation is accepted; one that is ending or has ended stays as it is.
EndAccepted(s) == IF Live(s) THEN SetStatus(s, "Teardown") ELSE UNCHANGED status

-----------------------------------------------------------------------------
(* SandboxHandler.create, each in a thread of its own *)

Goto(s, label) == cpc' = [cpc EXCEPT ![s] = label]
Strand(S) == stranded' = stranded \cup S

\* create_reservation, create_topology_reservation: the request
Request(s) ==
    /\ cpc[s] = "create"
    /\ \/ SetStatus(s, "Pending") /\ Goto(s, "answer")
       \/ Goto(s, "failed") /\ UNCHANGED status
    /\ UNCHANGED <<prov, holds, exists, polls, mpc, finishVars, stranded>>

\* ... and its answer, which may be lost: then nobody knows the id.
Answer(s) ==
    /\ cpc[s] = "answer"
    /\ \/ Goto(s, "poll") /\ UNCHANGED stranded
       \/ Goto(s, "failed") /\ Strand({s})
    /\ UNCHANGED <<csVars, exists, polls, mpc, finishVars>>

\* Mutant: a reservation without setup is taken to be started.
IsStartedLoosely(s) == prov[s] \in {"Ready", "NotRun"}

IsStarted(s) ==
    \/ prov[s] = "Ready"
    \/ prov[s] = "NotRun" /\ status[s] = "Started"

PollsLeft(n, max) == n + 1 < max

CountPoll(s) == polls' = [polls EXCEPT ![s] = @ + 1]

\* The setup has failed: its errors are read from the activity feed, and that
\* or the reading itself is raised.
SetupErrors(s) == prov[s] = "Error" /\ Goto(s, "cleanup")

\* One round of wait_reservation_is_started; reading the status may raise.
PollStart(s) ==
    /\ cpc[s] = "poll"
    /\ \/ IsStarted(s) /\ Goto(s, "created") /\ UNCHANGED polls
       \/ (SetupErrors(s) \/ Goto(s, "cleanup")) /\ UNCHANGED polls
       \/ /\ ~IsStarted(s) /\ prov[s] # "Error"
          /\ CountPoll(s)
          /\ Goto(s, IF PollsLeft(polls[s], MaxStartPolls) THEN "poll" ELSE "cleanup")
    /\ UNCHANGED <<csVars, exists, mpc, finishVars, stranded>>

\* Mutant: a reservation that does not start is left alone.
LeaveIt(s) == UNCHANGED <<status, stranded>>

\* end_reservation(wait=False) in the except clause
CleanUp(s) ==
    \/ EndAccepted(s) /\ UNCHANGED stranded
    \/ UNCHANGED status /\ Strand({s})

CreateFails(s) ==
    /\ cpc[s] = "cleanup"
    /\ CleanUp(s)
    /\ Goto(s, "failed")
    /\ UNCHANGED <<prov, holds, exists, polls, mpc, finishVars>>

-----------------------------------------------------------------------------
(* HandlerStorage.sandbox_handlers, the tests, HandlerStorage.finish *)

\* Mutant: the handlers made before a failure are forgotten.
NothingToEnd == IF Created = Sandbox THEN Created ELSE {}

\* _sandbox_handlers: the results of the creations that did not raise
ToEnd == Created

\* Leaving the pool: a failed creation calls finish() and raises, and the
\* finally clause of the runner calls it once more.
Collect ==
    /\ mpc = "create"
    /\ CreateDone
    /\ \/ Created = Sandbox /\ mpc' = "testing" /\ passes' = 1
       \/ Created # Sandbox /\ mpc' = "finish" /\ passes' = 2
    /\ todo' = ToEnd
    /\ UNCHANGED <<csVars, exists, cpc, polls, ending, stranded>>

\* The first look-up creates the resources; then those of the sandbox are
\* added one by one until CloudShell refuses one.
Attach(s) ==
    /\ mpc = "testing"
    /\ exists' = Resource
    /\ \E S \in SUBSET UsedBy[s] :
          /\ S # {} => status[s] = "Started"
          /\ holds' = [holds EXCEPT ![s] = @ \cup S]
    /\ UNCHANGED <<status, prov, cpc, polls, mpc, finishVars, stranded>>

EndTests ==
    /\ mpc = "testing"
    /\ mpc' = "finish"
    /\ UNCHANGED <<csVars, exists, cpc, polls, finishVars, stranded>>

\* Mutant: finish() is repeated until it succeeds.
FinishRetried ==
    /\ todo' = ToEnd /\ ending' = None
    /\ UNCHANGED <<passes, mpc>>

\* finish() returns or raises: the next call of it, or the end.
LeaveFinish ==
    /\ passes' = passes - 1
    /\ ending' = None
    /\ \/ passes > 1 /\ todo' = ToEnd /\ UNCHANGED mpc
       \/ passes = 1 /\ todo' = {} /\ mpc' = "done"

WaitForEnd(s) ==
    /\ ending' = s
    /\ polls' = [polls EXCEPT ![s] = 0]
    /\ UNCHANGED <<todo, passes, mpc>>

\* EndReservation of the next sandbox; refused, it leaves the loop and the
\* sandboxes after it.
EndNext(s) ==
    /\ mpc = "finish" /\ ending = None /\ s \in todo
    /\ \/ EndAccepted(s) /\ WaitForEnd(s) /\ UNCHANGED stranded
       \/ UNCHANGED status /\ LeaveFinish /\ Strand(todo) /\ UNCHANGED polls
    /\ UNCHANGED <<prov, holds, exists, cpc>>

\* Mutant: the loop of the polls has no else clause.
GiveUpQuietly(s) ==
    /\ todo' = todo \ {s} /\ ending' = None
    /\ UNCHANGED <<passes, mpc, stranded>>

\* "Can't end reservation"
GiveUp(s) == LeaveFinish /\ Strand(todo \ {s})

\* One round of the wait in end_reservation; the call may raise, as when the
\* answer to EndReservation is lost.
PollEnd(s) ==
    /\ mpc = "finish" /\ ending = s
    /\ \/ /\ status[s] = "Completed"
          /\ todo' = todo \ {s} /\ ending' = None
          /\ UNCHANGED <<passes, mpc, polls, stranded>>
       \/ /\ status[s] # "Completed"
          /\ CountPoll(s)
          /\ \/ /\ PollsLeft(polls[s], MaxEndPolls)
                /\ UNCHANGED <<finishVars, mpc, stranded>>
             \/ ~PollsLeft(polls[s], MaxEndPolls) /\ GiveUp(s)
       \/ LeaveFinish /\ Strand(todo \ {s}) /\ UNCHANGED polls
    /\ UNCHANGED <<csVars, exists, cpc>>

\* DeleteResource of the next resource; refused, it leaves finish().
DeleteResource(r) ==
    /\ mpc = "finish" /\ ending = None /\ todo = {} /\ r \in exists
    /\ \/ exists' = exists \ {r} /\ UNCHANGED <<mpc, finishVars>>
       \/ LeaveFinish /\ UNCHANGED exists
    /\ UNCHANGED <<csVars, cpc, polls, stranded>>

FinishEnds ==
    /\ mpc = "finish" /\ ending = None /\ todo = {} /\ exists = {}
    /\ LeaveFinish
    /\ UNCHANGED <<csVars, exists, cpc, polls, stranded>>

Create(s) == Request(s) \/ Answer(s) \/ PollStart(s) \/ CreateFails(s)

Main ==
    \/ Collect \/ EndTests \/ FinishEnds
    \/ \E s \in Sandbox : EndNext(s) \/ PollEnd(s)
    \/ \E r \in Resource : DeleteResource(r)

Ended == mpc = "done" /\ UNCHANGED vars

Next ==
    \/ CloudShell
    \/ \E s \in Sandbox : Create(s) \/ Attach(s)
    \/ Main
    \/ Ended

Spec == Init /\ [][Next]_vars

\* The threads of the runner go on; CloudShell need not.
FairSpec == Spec /\ (\A s \in Sandbox : WF_vars(Create(s))) /\ WF_vars(Main)

-----------------------------------------------------------------------------
(* Properties *)

MaxPolls == IF MaxStartPolls < MaxEndPolls THEN MaxEndPolls ELSE MaxStartPolls

\* Type invariant of the reservations, the creators and the main thread.
TypeOK ==
    /\ status \in [Sandbox -> {"none", "Pending", "Started", "Teardown", "Completed"}]
    /\ prov \in [Sandbox -> {"NotRun", "Setup", "Ready", "Error"}]
    /\ holds \in [Sandbox -> SUBSET Resource]
    /\ exists \subseteq Resource
    /\ cpc \in [Sandbox -> {"create", "answer", "poll", "cleanup", "created", "failed"}]
    /\ polls \in [Sandbox -> 0..MaxPolls]
    /\ mpc \in {"create", "testing", "finish", "done"}
    /\ todo \subseteq Sandbox
    /\ ending \in Sandbox \cup {None}
    /\ passes \in 0..2
    /\ stranded \subseteq Sandbox

\* The tests see no reservation that CloudShell has not set up: while they run,
\* none is pending, and none is in its setup or broken but those whose setup
\* began after CloudShell had shown them as started, which
\* wait_reservation_is_started takes for reservations without a setup.
TestedIsSetUp ==
    mpc = "testing" =>
        \A s \in Sandbox : /\ status[s] # "Pending"
                           /\ prov[s] \in {"NotRun", "Ready"} \/ s \in Gap

\* A resource is never deleted while a reservation that is not completed still
\* holds it: finish() waits for each reservation, and gives up with an
\* exception, not with a deletion, when the wait is too long.
HeldExists == \A s \in Sandbox : holds[s] \subseteq exists

\* A lost answer, or an end that CloudShell refuses, costs no more than it must:
\* after the run a reservation is still live only if its own making or ending went
\* wrong, or that of one before it in a loop of finish().
OthersAreEnded ==
    mpc = "done" => \A s \in Sandbox : Live(s) => s \in stranded

\* What the reservations of the run look like from outside: taken once, ended
\* once, and none active when the run closes, unless a call went wrong.
lease ==
    [s \in Sandbox |-> CASE status[s] = "none" -> "none"
                         [] Live(s)            -> "active"
                         [] OTHER              -> "ended"]
user ==
    IF stranded # {} THEN "abandoned" ELSE IF mpc = "done" THEN "clean" ELSE "open"

Lease == INSTANCE ReservationLease WITH Reservation <- Sandbox

\* The sandboxes of a run implement the reservation lease.
SandboxesImplementLease == Lease!LeaseSpec

\* The run ends even when CloudShell never finishes a setup or a teardown: all
\* polling is limited (wait_reservation_is_started, end_reservation).
SandboxRunEnds == <>(mpc = "done")
=============================================================================
