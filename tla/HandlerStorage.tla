--------------------------- MODULE HandlerStorage ---------------------------
(***************************************************************************)
(* HandlerStorage: the lazily built lists of sandbox, resource and shell   *)
(* handlers, what they create on CloudShell, and finish().  The main       *)
(* thread builds the sandboxes before it starts the sandbox threads; the   *)
(* first sandbox thread that looks up its resources builds the shells and  *)
(* the resources.  The storage has no lock of its own.  What serialises    *)
(* the look-up is functools.cached_property, which up to Python 3.11 holds *)
(* one lock per decorated property (DescriptorLock) and since 3.12 none.   *)
(*                                                                         *)
(* A handler object is the pair of the thread that built it and the item   *)
(* of the configuration it stands for.                                     *)
(***************************************************************************)
EXTENDS Naturals, FiniteSets

CONSTANTS
    Sandbox,         \* conf.sandboxes_conf; also names the sandbox threads
    Resource,        \* conf.resources_conf
    Shell,           \* conf.shells_conf
    ResourceNames,   \* sandbox |-> the resources its config names
    RunTests,        \* the resources whose tests_conf.run_tests is True
    ShellMaps,       \* configurations to look at: resource |-> its shell_name
    NoShell,         \* a shell_name that is not in conf.shells_conf
    MainThread,      \* the thread of AutomatedTestsRunner
    Nobody,          \* no thread holds the lock
    DescriptorLock,  \* cached_property holds a lock (Python 3.10 and 3.11)
    CreateFaults,    \* CloudShell may refuse to create
    DeleteFaults,    \* CloudShell may refuse to delete
    MaxInterrupts    \* bound: Ctrl-C while the sandboxes are being created

ASSUME ConfigAssumption ==
    /\ ResourceNames \in [Sandbox -> SUBSET Resource]
    /\ RunTests \subseteq Resource
    /\ NoShell \notin Shell
    /\ ShellMaps \subseteq [Resource -> Shell \cup {NoShell}]
    /\ Sandbox \cap Resource = {}
    /\ Shell \cap (Sandbox \cup Resource) = {}

ASSUME ThreadAssumption ==
    /\ MainThread \notin Sandbox
    /\ Nobody \notin Sandbox \cup {MainThread}
    /\ DescriptorLock \in BOOLEAN
    /\ CreateFaults \in BOOLEAN
    /\ DeleteFaults \in BOOLEAN
    /\ MaxInterrupts \in Nat

Thread == Sandbox \cup {MainThread}
Item == Sandbox \cup Resource \cup Shell
Kind == {"sandbox", "resource", "shell"}
Handler == Thread \X Item

ItemsOf(k) ==
    CASE k = "sandbox" -> Sandbox
      [] k = "resource" -> Resource
      [] k = "shell" -> Shell

TestedBy(t) == ResourceNames[t] \cap RunTests

VARIABLES
    pc,            \* where each thread is
    kind,          \* the list a thread is building
    phase,         \* the list a thread is finishing
    built,         \* kind |-> the list is not None
    handlers,      \* kind |-> the handlers in the list
    future,        \* thread, item |-> the future of the creation pool
    finished,      \* thread |-> the handlers its finish() has passed
    lock,          \* the holder of the cached_property lock
    live,          \* the items that exist on CloudShell
    abandoned,     \* made by a create() whose handler nobody received
    deleteFailed,  \* CloudShell has refused to delete something that exists
    interrupts,    \* Ctrl-C presses so far
    shellOf        \* resource |-> its shell_name in this configuration

vars == <<pc, kind, phase, built, handlers, future, finished, lock, live,
          abandoned, deleteFailed, interrupts, shellOf>>
server == <<live, abandoned, deleteFailed>>

\* The configuration is not checked for these.
UnknownShell == {r \in Resource : shellOf[r] = NoShell}

-----------------------------------------------------------------------------
Init ==
    /\ pc = [t \in Thread |-> IF t = MainThread THEN "check" ELSE "idle"]
    /\ kind = [t \in Thread |-> IF t = MainThread THEN "sandbox"
                                                  ELSE "resource"]
    /\ phase = [t \in Thread |-> "sandbox"]
    /\ built = [k \in Kind |-> FALSE]
    /\ handlers = [k \in Kind |-> {}]
    /\ future = [t \in Thread |-> [x \in Item |-> "none"]]
    /\ finished = [t \in Thread |-> {}]
    /\ lock = Nobody
    /\ live = {}
    /\ abandoned = {}
    /\ deleteFailed = FALSE
    /\ interrupts = 0
    /\ shellOf \in ShellMaps

Goto(t, label) == pc' = [pc EXCEPT ![t] = label]

\* Mutant: the lock is kept when the look-up raises.
ReleaseKept(t) == UNCHANGED lock

\* Leaving the cached_property, normally or by an exception.
Release(t) == lock' = IF lock = t THEN Nobody ELSE lock

-----------------------------------------------------------------------------
(* Building a list: the properties shell_handlers, resource_handlers and    *)
(* sandbox_handlers                                                         *)

\* What the thread does once the list of its kind is there: the main thread
\* starts the sandbox threads, a resource list needs the shells first.
ListReady(t) ==
    \/ /\ kind[t] = "sandbox"
       /\ Goto(t, "running")
       /\ UNCHANGED kind
    \/ /\ kind[t] = "shell"
       /\ Goto(t, "submit")
       /\ kind' = [kind EXCEPT ![t] = "resource"]
    \/ /\ kind[t] = "resource"
       /\ Goto(t, "lookup")
       /\ UNCHANGED kind

\* "if self._handlers is None"
CheckList(t) ==
    /\ pc[t] = "check"
    /\ \/ built[kind[t]] /\ ListReady(t)
       \/ ~built[kind[t]] /\ Goto(t, "init") /\ UNCHANGED kind
    /\ UNCHANGED <<phase, built, handlers, future, finished, lock, server,
                   interrupts, shellOf>>

\* "self._handlers = []"; the comprehension of resource_handlers reads
\* shell_handlers_dict before it submits the first future.
InitList(t) ==
    /\ pc[t] = "init"
    /\ built' = [built EXCEPT ![kind[t]] = TRUE]
    /\ handlers' = [handlers EXCEPT ![kind[t]] = {}]
    /\ \/ /\ kind[t] = "resource"
          /\ kind' = [kind EXCEPT ![t] = "shell"]
          /\ Goto(t, "check")
       \/ /\ kind[t] # "resource"
          /\ Goto(t, "submit")
          /\ UNCHANGED kind
    /\ UNCHANGED <<phase, future, finished, lock, server, interrupts, shellOf>>

Submit(t) ==
    /\ pc[t] = "submit"
    /\ kind[t] = "resource" => UnknownShell = {}
    /\ future' = [future EXCEPT ![t] =
                    [x \in Item |-> IF x \in ItemsOf(kind[t]) THEN "running"
                                                              ELSE @[x]]]
    /\ Goto(t, "collect")
    /\ UNCHANGED <<kind, phase, built, handlers, finished, lock, server,
                   interrupts, shellOf>>

\* shell_handlers_dict[conf.shell_name] raises KeyError inside the
\* comprehension: the resources before it are submitted, and nobody asks for
\* their handlers.
SubmitRaises(t) ==
    /\ pc[t] = "submit"
    /\ kind[t] = "resource" /\ UnknownShell # {}
    /\ \E before \in SUBSET (Resource \ UnknownShell) :
         future' = [future EXCEPT ![t] =
                      [x \in Item |-> IF x \in before THEN "orphan" ELSE @[x]]]
    /\ Goto(t, "drain")
    /\ UNCHANGED <<kind, phase, built, handlers, finished, lock, server,
                   interrupts, shellOf>>

\* The with statement waits for its pool; finish() is not called.
LeavePool(t) ==
    /\ pc[t] = "drain"
    /\ \A x \in Resource : future[t][x] # "orphan"
    /\ Goto(t, "keyerror")
    /\ Release(t)
    /\ UNCHANGED <<kind, phase, built, handlers, future, finished, server,
                   interrupts, shellOf>>

SetFuture(t, x, outcome) ==
    future' = [future EXCEPT ![t][x] =
                 IF future[t][x] = "orphan" THEN "lost" ELSE outcome]

\* SandboxHandler.create ends the reservation and ShellHandler.prepare removes
\* the shell when they fail; ResourceHandler.create has no clean-up of its own.
CleansUpItself(x) == x \in Sandbox \cup Shell

\* A future of the creation pool of thread t.  A resource needs its shell;
\* an item that exists already counts as made (error 114, update_shell).
CreateItem(t, x) ==
    /\ future[t][x] \in {"running", "orphan"}
    /\ \/ /\ x \in Resource => shellOf[x] \in live
          /\ SetFuture(t, x, "made")
          /\ live' = live \cup {x}
          /\ abandoned' = IF future[t][x] = "orphan" THEN abandoned \cup {x}
                                                     ELSE abandoned
          /\ UNCHANGED deleteFailed
       \* CloudShell refuses to create it, or create() cleans up after a
       \* later call has raised
       \/ /\ CreateFaults \/ (x \in Resource /\ shellOf[x] \notin live)
          /\ SetFuture(t, x, "failed")
          /\ live' = IF CleansUpItself(x) THEN live \ {x} ELSE live
          /\ UNCHANGED <<abandoned, deleteFailed>>
       \* the clean-up is refused
       \/ /\ CreateFaults /\ DeleteFaults
          /\ CleansUpItself(x)
          /\ SetFuture(t, x, "failed")
          /\ live' = live \cup {x}
          /\ deleteFailed' = TRUE
          /\ UNCHANGED abandoned
       \* the resource is made, its attributes are refused
       \/ /\ CreateFaults
          /\ x \in Resource
          /\ shellOf[x] \in live
          /\ SetFuture(t, x, "failed")
          /\ live' = live \cup {x}
          /\ abandoned' = abandoned \cup {x}
          /\ UNCHANGED deleteFailed
    /\ UNCHANGED <<pc, kind, phase, built, handlers, finished, lock, interrupts, shellOf>>

\* future.result() returns a handler, which is appended; what raises is kept.
CollectItem(t, x) ==
    /\ pc[t] = "collect"
    /\ x \in ItemsOf(kind[t])
    /\ future[t][x] = "made"
    /\ <<t, x>> \notin handlers[kind[t]]
    /\ handlers' = [handlers EXCEPT ![kind[t]] = @ \cup {<<t, x>>}]
    /\ future' = [future EXCEPT ![t][x] = "collected"]
    /\ UNCHANGED <<pc, kind, phase, built, finished, lock, server, interrupts, shellOf>>

\* Ctrl-C while the main thread blocks in future.result(): the exception is
\* kept, the loop goes on, the future is never asked again.
InterruptCollect(x) ==
    /\ pc[MainThread] = "collect"
    /\ interrupts < MaxInterrupts
    /\ future[MainThread][x] = "running"
    /\ future' = [future EXCEPT ![MainThread][x] = "orphan"]
    /\ interrupts' = interrupts + 1
    /\ UNCHANGED <<pc, kind, phase, built, handlers, finished, lock, server, shellOf>>

\* A future of the list's pool raised, or its result was interrupted.
CreationRaised(t) ==
    \E x \in ItemsOf(kind[t]) : future[t][x] \in {"failed", "lost"}

\* The pool is left; an exception calls finish() before it is raised.
CollectEnds(t) ==
    /\ pc[t] = "collect"
    /\ \A x \in ItemsOf(kind[t]) :
         future[t][x] \in {"collected", "failed", "lost"}
    /\ \/ /\ CreationRaised(t)
          /\ Goto(t, "cleanup")
          /\ phase' = [phase EXCEPT ![t] = "sandbox"]
          /\ finished' = [finished EXCEPT ![t] = {}]
          /\ UNCHANGED kind
       \/ /\ ~CreationRaised(t)
          /\ ListReady(t)
          /\ UNCHANGED <<phase, finished>>
    /\ UNCHANGED <<built, handlers, future, lock, server, interrupts, shellOf>>

-----------------------------------------------------------------------------
(* HandlerStorage.finish *)

Finishing(t) == pc[t] \in {"cleanup", "finish"}

ToFinish(t) == handlers[phase[t]] \ finished[t]

\* finish() is left by an exception or at its end.  The sandbox threads raise;
\* the main thread raises out of the property into the finally clause, or out
\* of it.
LeaveFinish(t, raised) ==
    \/ /\ t # MainThread
       /\ Goto(t, "failed")
       /\ Release(t)
    \/ /\ t = MainThread
       /\ pc[t] = "cleanup"
       /\ Goto(t, "final")
       /\ UNCHANGED lock
    \/ /\ t = MainThread
       /\ pc[t] = "finish"
       /\ Goto(t, IF raised \/ (\E s \in Sandbox : pc[s] # "done")
                    THEN "raised" ELSE "returned")
       /\ UNCHANGED lock

\* A shell in use stays and the error is ignored (ShellHandler.finish).
InUse(x) == \E r \in Resource \cap live : shellOf[r] = x

\* One sh.finish() or rh.finish() of the current loop.  CloudShell may refuse
\* it; it may also refuse to end or delete what is gone, except for a shell.
FinishHandler(t, h) ==
    /\ Finishing(t)
    /\ h \in ToFinish(t)
    /\ \/ /\ finished' = [finished EXCEPT ![t] = @ \cup {h}]
          /\ live' = IF h[2] \in Shell /\ InUse(h[2]) THEN live
                                                      ELSE live \ {h[2]}
          /\ UNCHANGED <<pc, lock, deleteFailed>>
       \/ /\ \/ DeleteFaults
             \/ h[2] \notin live /\ h[2] \notin Shell
          /\ deleteFailed' = (deleteFailed \/ h[2] \in live)
          /\ LeaveFinish(t, TRUE)
          /\ UNCHANGED <<finished, live>>
    /\ UNCHANGED <<kind, phase, built, handlers, future, abandoned, interrupts, shellOf>>

\* Mutant: the resources are skipped.
NextPhaseSkips(k) == "shell"

\* The list finish() goes through after the sandboxes.
NextPhase(k) == IF k = "sandbox" THEN "resource" ELSE "shell"

\* The end of a loop of finish(), and of finish() after the shells.
FinishLoopEnds(t) ==
    /\ Finishing(t)
    /\ ToFinish(t) = {}
    /\ \/ /\ phase[t] # "shell"
          /\ phase' = [phase EXCEPT ![t] = NextPhase(@)]
          /\ UNCHANGED <<pc, lock>>
       \/ /\ phase[t] = "shell"
          /\ LeaveFinish(t, FALSE)
          /\ UNCHANGED phase
    /\ UNCHANGED <<kind, built, handlers, future, finished, server, interrupts, shellOf>>

-----------------------------------------------------------------------------
(* RunTestsForSandbox.resource_handlers and the rest of the sandbox thread *)

StartThread(t) ==
    /\ pc[MainThread] = "running"
    /\ pc[t] = "idle"
    /\ Goto(t, "enter")
    /\ UNCHANGED <<kind, phase, built, handlers, future, finished, lock, server,
                   interrupts, shellOf>>

\* Mutant: the property is computed without a lock.
LockNotNeeded == TRUE

LockIsFree == DescriptorLock => lock = Nobody

EnterCachedProperty(t) ==
    /\ pc[t] = "enter"
    /\ LockIsFree
    /\ lock' = IF DescriptorLock THEN t ELSE lock
    /\ Goto(t, "check")
    /\ UNCHANGED <<kind, phase, built, handlers, future, finished, server,
                   interrupts, shellOf>>

\* resource_handlers_dict[name] for every name: KeyError if one is missing.
Found(t) == \A r \in ResourceNames[t] :
              \E h \in handlers["resource"] : h[2] = r

Lookup(t) ==
    /\ pc[t] = "lookup"
    /\ \/ Found(t) /\ Goto(t, "add") /\ UNCHANGED lock
       \/ ~Found(t) /\ Goto(t, "keyerror") /\ Release(t)
    /\ UNCHANGED <<kind, phase, built, handlers, future, finished, server,
                   interrupts, shellOf>>

CanAdd(t) == TestedBy(t) = {} \/ {t} \cup TestedBy(t) \subseteq live

\* add_resource_to_reservation for the resources under test: CloudShell needs
\* both to exist, and may refuse.
AddToReservation(t) ==
    /\ pc[t] = "add"
    /\ \/ CanAdd(t) /\ Goto(t, "testing")
       \/ /\ CreateFaults \/ ~CanAdd(t)
          /\ TestedBy(t) # {}
          /\ Goto(t, "failed")
    /\ Release(t)
    /\ UNCHANGED <<kind, phase, built, handlers, future, finished, server,
                   interrupts, shellOf>>

EndTests(t) ==
    /\ pc[t] = "testing"
    /\ Goto(t, "done")
    /\ UNCHANGED <<kind, phase, built, handlers, future, finished, lock, server,
                   interrupts, shellOf>>

\* Mutant: the pool of the sandbox threads is not joined.
ThreadStarted(t) == pc[t] # "idle"

ThreadEnded(t) == pc[t] \in {"done", "failed", "keyerror"}

-----------------------------------------------------------------------------
(* AutomatedTestsRunner._run_cs_tests *)

\* Every thread has ended, or the sandboxes could not be created: the finally
\* clause calls finish().
EnterFinally ==
    /\ \/ pc[MainThread] = "running" /\ \A t \in Sandbox : ThreadEnded(t)
       \/ pc[MainThread] = "final"
    /\ Goto(MainThread, "finish")
    /\ phase' = [phase EXCEPT ![MainThread] = "sandbox"]
    /\ finished' = [finished EXCEPT ![MainThread] = {}]
    /\ UNCHANGED <<kind, built, handlers, future, lock, server, interrupts, shellOf>>

Ended == pc[MainThread] \in {"returned", "raised"}

Terminated == Ended /\ UNCHANGED vars

ThreadStep(t) ==
    \/ CheckList(t)
    \/ InitList(t)
    \/ Submit(t) \/ SubmitRaises(t) \/ LeavePool(t)
    \/ \E x \in Item : CollectItem(t, x)
    \/ CollectEnds(t)
    \/ \E h \in Handler : FinishHandler(t, h)
    \/ FinishLoopEnds(t)

SandboxStep(t) ==
    \/ StartThread(t)
    \/ EnterCachedProperty(t)
    \/ Lookup(t)
    \/ AddToReservation(t)
    \/ EndTests(t)

Next ==
    \/ \E t \in Thread : ThreadStep(t)
    \/ \E t \in Sandbox : SandboxStep(t)
    \/ \E t \in Thread, x \in Item : CreateItem(t, x)
    \/ \E x \in Item : InterruptCollect(x)
    \/ EnterFinally
    \/ Terminated

Spec == Init /\ [][Next]_vars

\* Every runnable thread is scheduled and every CloudShell call returns.  Weak
\* fairness is enough for the lock: a thread takes it only once.
Fairness ==
    /\ \A t \in Thread : WF_vars(ThreadStep(t))
    /\ \A t \in Sandbox : WF_vars(SandboxStep(t))
    /\ \A t \in Thread : \A x \in Item : WF_vars(CreateItem(t, x))
    /\ WF_vars(EnterFinally)

FairSpec == Spec /\ Fairness

-----------------------------------------------------------------------------
(* Properties *)

Label == {"idle", "enter", "check", "init", "submit", "drain", "collect", "cleanup",
          "lookup", "add", "testing", "done", "failed", "keyerror", "running",
          "final", "finish", "returned", "raised"}
Outcome == {"none", "running", "made", "collected", "failed", "orphan", "lost"}

TypeOK ==
    /\ pc \in [Thread -> Label]
    /\ kind \in [Thread -> Kind]
    /\ phase \in [Thread -> Kind]
    /\ built \in [Kind -> BOOLEAN]
    /\ handlers \in [Kind -> SUBSET Handler]
    /\ handlers["sandbox"] \subseteq Thread \X Sandbox
    /\ handlers["resource"] \subseteq Thread \X Resource
    /\ handlers["shell"] \subseteq Thread \X Shell
    /\ future \in [Thread -> [Item -> Outcome]]
    /\ finished \in [Thread -> SUBSET Handler]
    /\ lock \in Sandbox \cup {Nobody}
    /\ live \subseteq Item
    /\ abandoned \subseteq Item
    /\ deleteFailed \in BOOLEAN
    /\ interrupts \in 0..MaxInterrupts
    /\ shellOf \in ShellMaps

\* A sandbox thread looks up its resources in vain only after a creation has
\* failed or for an unknown shell: it never sees a list that another thread is
\* still filling.
LookupComplete ==
    \A t \in Sandbox : pc[t] = "keyerror" =>
        \/ UnknownShell # {}
        \/ \E u \in Thread, x \in Item : future[u][x] \in {"failed", "lost"}

\* While a thread runs the tests of its sandbox, the reservation and the
\* resources under test exist: the finish() that follows a failed creation in
\* another thread never pulls them away.
NoDeleteUnderTest ==
    \A t \in Sandbox : pc[t] = "testing" => CanAdd(t)

\* When the run ends and CloudShell refused no deletion, everything it made is
\* gone, although finish() runs twice after a failed creation and the second
\* pass may stop at what the first one removed.  What stays is what no handler
\* stands for: a resource whose attributes were refused, a reservation whose
\* creation Ctrl-C cut off from its future, a resource submitted before an
\* unknown shell name raised KeyError, and the shells of such resources.
OnlyAbandonedStays ==
    Ended /\ ~deleteFailed =>
        /\ live \cap (Sandbox \cup Resource) \subseteq abandoned
        /\ \A x \in Shell \cap live : InUse(x)

\* The run ends: no thread waits for ever for the list, its creation pool or
\* the lock of the cached property, whichever step raises.
StorageRunEnds == <>Ended
=============================================================================
