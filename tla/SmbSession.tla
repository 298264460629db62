---------------------------- MODULE SmbSession ----------------------------
(***************************************************************************)
(* The cached connection of SmbHandler: the property session, which probes *)
(* the connection, drops it and opens another one, and the retried         *)
(* requests that start with it.  The threads that prepare the shells share *)
(* one handler.  CloudShellSmbHandler takes its lock to store a package    *)
(* into the offline PyPI only: the standards, and the listing and the      *)
(* removals by which a shell that failed clears the PyPI, use the session  *)
(* without it (ShellInstall has the files themselves).                     *)
(***************************************************************************)
EXTENDS Naturals, Sequences

CONSTANTS
    Thread,
    Calls,        \* the requests of each thread: a sequence of "locked", "free"
    Clearing,     \* the requests of clear_offline_pypi(): the listing, the removals
    Nobody,       \* the lock is free
    MaxAttempts,  \* RETRY_STOP_MAX_ATTEMPT_NUM
    MaxFaults     \* bound: faults of the server and of the network

\* What the threads, their requests and the bounds are like; assumed by ShellShare.
CallsAreProper ==
    /\ Nobody \notin Thread
    /\ MaxAttempts \in Nat \ {0} /\ MaxFaults \in Nat /\ Clearing \in Nat
    /\ \A t \in Thread : Calls[t] \in Seq({"locked", "free"})

VARIABLES
    pc,
    next,       \* the current call of each thread
    clearing,   \* the thread has failed and clears the offline PyPI
    attempts,   \* of the current call
    disturbed,  \* history: a fault has happened since the call began
    crossed,    \* history: another thread has written the session since then,
                \* and not both of them were made under the lock
    got,        \* the connection session returned, 0 for None
    lock,       \* the holder of CloudShellSmbHandler._lock
    session,    \* self._session, 0 for None
    conn,       \* the connections made so far: "new", "open" or "lost"
    faults

vars == <<pc, next, clearing, attempts, disturbed, crossed, got, lock, session, conn,
          faults>>

Goto(t, label) == pc' = [pc EXCEPT ![t] = label]

Locked(t) == ~clearing[t] /\ next[t] <= Len(Calls[t]) /\ Calls[t][next[t]] = "locked"

LastCall(t) == IF clearing[t] THEN Clearing ELSE Len(Calls[t])

InCall(t) == pc[t] \notin {"idle", "failed"}

Init ==
    /\ pc = [t \in Thread |-> "idle"]
    /\ next = [t \in Thread |-> 1]
    /\ clearing = [t \in Thread |-> FALSE]
    /\ attempts = [t \in Thread |-> 1]
    /\ disturbed = [t \in Thread |-> FALSE]
    /\ crossed = [t \in Thread |-> FALSE]
    /\ got = [t \in Thread |-> 0]
    /\ lock = Nobody
    /\ session = 0
    /\ conn = <<>>
    /\ faults = 0

\* A fault reaches every call that is under way.
Fault ==
    /\ faults < MaxFaults
    /\ faults' = faults + 1
    /\ disturbed' = [t \in Thread |-> disturbed[t] \/ pc[t] # "idle"]

NoFault == UNCHANGED <<faults, disturbed>>

\* The thread writes the session: it crosses the calls of the others, but for
\* those that the lock keeps apart from its own.
Crosses(t) ==
    crossed' = [u \in Thread |-> crossed[u]
                    \/ (u # t /\ InCall(u) /\ ~(Locked(u) /\ Locked(t)))]

\* Mutant: the packages are stored without the lock too.
NoLock(t) == UNCHANGED lock

\* with self._lock
TakeLock(t) ==
    IF Locked(t) THEN lock = Nobody /\ lock' = t ELSE UNCHANGED lock

ReleaseLock(t) == lock' = IF lock = t THEN Nobody ELSE lock

Call(t) ==
    /\ pc[t] = "idle"
    /\ next[t] <= LastCall(t)
    /\ TakeLock(t)
    /\ attempts' = [attempts EXCEPT ![t] = 1]
    /\ disturbed' = [disturbed EXCEPT ![t] = FALSE]
    /\ crossed' = [crossed EXCEPT ![t] = FALSE]
    /\ Goto(t, "probe")
    /\ UNCHANGED <<next, clearing, got, session, conn, faults>>

-----------------------------------------------------------------------------
(* The property session. *)

\* Mutant: the connection is not probed.
NotProbed(c) == TRUE

\* echo() returns.
EchoAnswers(c) == conn[c] = "open"

\* A connection that is there is probed.
Probe(t) ==
    /\ pc[t] = "probe"
    /\ Goto(t, IF session = 0 \/ EchoAnswers(session) THEN "check" ELSE "drop")
    /\ UNCHANGED <<next, clearing, attempts, crossed, got, lock, session, conn>> /\ NoFault

\* self._session = None, whatever it is by now.
Drop(t) ==
    /\ pc[t] = "drop"
    /\ session' = 0
    /\ Crosses(t)
    /\ Goto(t, "check")
    /\ UNCHANGED <<next, clearing, attempts, got, lock, conn>> /\ NoFault

Check(t) ==
    /\ pc[t] = "check"
    /\ Goto(t, IF session = 0 THEN "create" ELSE "return")
    /\ UNCHANGED <<next, clearing, attempts, crossed, got, lock, session, conn>> /\ NoFault

\* A new SMBConnection, over NetBIOS and then directly over TCP.
Create(t) ==
    /\ pc[t] \in {"create", "createDirect"}
    /\ conn' = Append(conn, "new")
    /\ session' = Len(conn')
    /\ Crosses(t)
    /\ Goto(t, IF pc[t] = "create" THEN "connect" ELSE "connectDirect")
    /\ UNCHANGED <<next, clearing, attempts, got, lock>> /\ NoFault

\* self._session is read again for connect().
Connect(t) ==
    /\ pc[t] \in {"connect", "connectDirect"}
    /\ session # 0
    /\ conn' = [conn EXCEPT ![session] = "open"]
    /\ Crosses(t)
    /\ Goto(t, "return")
    /\ UNCHANGED <<next, clearing, attempts, got, lock, session>> /\ NoFault

\* The call raises: the thread leaves it, the lock is released.
Raise(t) ==
    /\ Goto(t, "failed")
    /\ ReleaseLock(t)
    /\ UNCHANGED <<next, clearing, attempts, crossed, got, session, conn>>

\* NotConnectedError: the second way is tried, and an error of that one is
\* raised.  None has no connect().
ConnectFails(t) ==
    /\ pc[t] \in {"connect", "connectDirect"}
    /\ IF session = 0 THEN NoFault ELSE Fault
    /\ IF pc[t] = "connect" /\ session # 0
       THEN /\ Goto(t, "createDirect")
            /\ UNCHANGED <<next, clearing, attempts, crossed, got, lock, session, conn>>
       ELSE Raise(t)

\* return self._session, which is read once more.
Return(t) ==
    /\ pc[t] = "return"
    /\ got' = [got EXCEPT ![t] = session]
    /\ Goto(t, "request")
    /\ UNCHANGED <<next, clearing, attempts, crossed, lock, session, conn>> /\ NoFault

-----------------------------------------------------------------------------
(* listPath, storeFile, retrieveFile or deleteFiles with its retries. *)

Usable(c) == c # 0 /\ conn[c] = "open"

RequestSucceeds(t) ==
    /\ pc[t] = "request" /\ Usable(got[t])
    /\ next' = [next EXCEPT ![t] = @ + 1]
    /\ Goto(t, "idle")
    /\ ReleaseLock(t)
    /\ UNCHANGED <<clearing, attempts, crossed, got, session, conn>> /\ NoFault

AttemptsLeft(t) == attempts[t] < MaxAttempts

\* NotReadyError or SMBTimeout: the whole method again, session included.
RequestRetried(t) ==
    /\ pc[t] = "request" /\ Usable(got[t])
    /\ Fault
    /\ AttemptsLeft(t)
    /\ attempts' = [attempts EXCEPT ![t] = @ + 1]
    /\ Goto(t, "probe")
    /\ UNCHANGED <<next, clearing, crossed, got, lock, session, conn>>

\* The last attempt, another error, a connection that is not there (None) or
\* not open: NotConnectedError is not retried.
RequestFails(t) ==
    /\ pc[t] = "request"
    /\ IF Usable(got[t]) THEN Fault ELSE NoFault
    /\ Raise(t)

\* The server or the network drops a connection.
ConnectionLost(c) ==
    /\ conn[c] = "open"
    /\ Fault
    /\ conn' = [conn EXCEPT ![c] = "lost"]
    /\ UNCHANGED <<pc, next, clearing, attempts, crossed, got, lock, session>>

\* prepare() of the shell has raised: finish() clears the offline PyPI.
Clear(t) ==
    /\ pc[t] = "failed" /\ ~clearing[t]
    /\ clearing' = [clearing EXCEPT ![t] = TRUE]
    /\ next' = [next EXCEPT ![t] = 1]
    /\ Goto(t, "idle")
    /\ UNCHANGED <<attempts, crossed, got, lock, session, conn>> /\ NoFault

Over(t) ==
    \/ pc[t] = "failed" /\ clearing[t]
    \/ pc[t] = "idle" /\ next[t] > LastCall(t)

Terminated == (\A t \in Thread : Over(t)) /\ UNCHANGED vars

Step(t) ==
    \/ Call(t) \/ Probe(t) \/ Drop(t) \/ Check(t) \/ Create(t) \/ Connect(t)
    \/ ConnectFails(t) \/ Return(t)
    \/ RequestSucceeds(t) \/ RequestRetried(t) \/ RequestFails(t) \/ Clear(t)

Next ==
    \/ \E t \in Thread : Step(t)
    \/ \E c \in DOMAIN conn : ConnectionLost(c)
    \/ Terminated

Spec == Init /\ [][Next]_vars

-----------------------------------------------------------------------------
(* Properties. *)

\* The fields of SmbHandler, and the number of attempts.
TypeOK ==
    /\ next \in [Thread -> Nat]
    /\ attempts \in [Thread -> 1 .. MaxAttempts]
    /\ lock \in Thread \cup {Nobody}
    /\ \A i \in DOMAIN conn : conn[i] \in {"new", "open", "lost"}
    /\ session \in 0 .. Len(conn)
    /\ got \in [Thread -> 0 .. Len(conn)]

\* What it returns has been connected, not only created, in a call that no
\* other thread has crossed.
SessionIsConnected ==
    \A t \in Thread :
        pc[t] = "request" /\ ~crossed[t] => got[t] # 0 /\ conn[got[t]] # "new"

\* A request fails only if a fault happened during the call or another thread
\* crossed it: a connection lost earlier, or left half made by a failed attempt,
\* is replaced.
SmbFailureHasCause ==
    \A t \in Thread : pc[t] = "failed" => disturbed[t] \/ crossed[t]

\* It returns a connection, as its annotation says.
SessionReturnsConnection == \A t \in Thread : pc[t] = "request" => got[t] # 0
=============================================================================
