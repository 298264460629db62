---------------------------- MODULE RemoteFiles ----------------------------
(***************************************************************************)
(* The save and restore tests and the handlers of the FTP, SCP and TFTP    *)
(* servers they use.  Each resource thread runs its tests one after        *)
(* another; the device stores a file on a server, the test reads it or     *)
(* restores it, and deletes it.  All threads share one handler per server, *)
(* and with it one session: FTPHandler.session tests the connection and    *)
(* replaces it, without a lock; the SCP session is made once.              *)
(*                                                                         *)
(* A result is the outcome of the body of a test; an expected failure,     *)
(* which turns it round, is not modelled.                                  *)
(***************************************************************************)
EXTENDS Naturals, Sequences, FiniteSets

CONSTANTS
    Job,           \* the resource threads
    Suite,         \* job |-> the sequence of its tests
    Conn,          \* names for FTP connections; one no longer used is recycled
    NoConn,        \* FTPHandler._session is None
    MaxAttempts,   \* RETRY_STOP_MAX_ATTEMPT_NUM
    FtpLogin,      \* conf.ftp_conf has a user and a password
    Faults         \* devices, servers and networks may fail

Op == {"save", "orchestration_save", "restore", "orchestration_restore"}
Server == {"FTP", "SCP", "TFTP"}

ASSUME SuiteAssumption ==
    Suite \in [Job -> Seq([op : Op, server : Server])]

ASSUME BoundAssumption ==
    /\ MaxAttempts \in Nat \ {0}
    /\ NoConn \notin Conn
    /\ IsFiniteSet(Conn) /\ IsFiniteSet(Job)
    /\ Cardinality(Conn) >= Cardinality(Job) + 2
    /\ Faults \in BOOLEAN /\ FtpLogin \in BOOLEAN

TestId == UNION {{j} \X (1..Len(Suite[j])) : j \in Job}

VARIABLES
    pc,         \* where each thread is
    idx,        \* the test each thread runs
    want,       \* the call of the handler that is under way
    attempts,   \* how often it has been tried
    raised,     \* the try block of a restore test has raised
    file,       \* test |-> its file on the server
    result,     \* test |-> its outcome
    session,    \* FTPHandler._session
    held,       \* job |-> the FTP connection of the command under way
    conn,       \* FTP connection |-> what the server makes of it
    scp,        \* the cached SCP session
    caused,     \* tests during which a device, server or network failed
    stale,      \* tests that met a session that had died before and was kept
    notDeleted  \* tests whose delete_file, or a call that names its file, raised

testVars == <<file, result, caused, stale, notDeleted>>
ftpVars == <<session, held, conn>>
vars == <<pc, idx, want, attempts, raised, scp, testVars, ftpVars>>

Current(j) == <<j, idx[j]>>
TestOf(j) == Suite[j][idx[j]]
IsSave(t) == Suite[t[1]][t[2]].op \in {"save", "orchestration_save"}
Goto(j, label) == pc' = [pc EXCEPT ![j] = label]

Init ==
    /\ pc = [j \in Job |-> IF Suite[j] = <<>> THEN "done" ELSE "save"]
    /\ idx = [j \in Job |-> 1]
    /\ want = [j \in Job |-> "read"]
    /\ attempts = [j \in Job |-> 1]
    /\ raised = [j \in Job |-> FALSE]
    /\ file = [t \in TestId |-> "none"]
    /\ result = [t \in TestId |-> "open"]
    /\ session = NoConn
    /\ held = [j \in Job |-> NoConn]
    /\ conn = [c \in Conn |-> "closed"]
    /\ scp = "none"
    /\ caused = {}
    /\ stale = {}
    /\ notDeleted = {}

-----------------------------------------------------------------------------
(* The test methods *)

\* The test is over; the thread goes on with the next one of its suite.
EndTest(j, outcome) ==
    /\ result' = [result EXCEPT ![Current(j)] = outcome]
    /\ idx' = [idx EXCEPT ![j] = IF @ < Len(Suite[j]) THEN @ + 1 ELSE @]
    /\ Goto(j, IF idx[j] < Len(Suite[j]) THEN "save" ELSE "done")
    /\ want' = [want EXCEPT ![j] = "read"]
    /\ raised' = [raised EXCEPT ![j] = FALSE]
    /\ attempts' = [attempts EXCEPT ![j] = 1]

\* What the exception is due to: a failure during the test, a session that died
\* before it, or what another thread did to the connection.
Reason == {"fault", "dead session", "other thread"}

Blame(j, reason) ==
    /\ caused' = IF reason = "fault" THEN caused \cup {Current(j)} ELSE caused
    /\ stale' = IF reason = "dead session" THEN stale \cup {Current(j)} ELSE stale

\* A command or a call of the file handler raises out of the test.
Raises(j, reason) ==
    /\ EndTest(j, "failed")
    /\ Blame(j, reason)
    /\ notDeleted' = IF want[j] = "delete" THEN notDeleted \cup {Current(j)}
                                          ELSE notDeleted
    /\ UNCHANGED file

\* handler.save or handler.orchestration_save: the device copies its file to
\* the server, where it may show up a little later.  A save test reads it next.
\* The call may raise, before the copy or after it, or name no file that the test
\* can use; then the test is over and knows of no file to delete.
Save(j) ==
    /\ pc[j] = "save"
    /\ \/ /\ file' = [file EXCEPT ![Current(j)] = "pending"]
          /\ Goto(j, IF IsSave(Current(j)) THEN "open" ELSE "restore")
          /\ want' = [want EXCEPT ![j] = IF IsSave(Current(j)) THEN "read"
                                                             ELSE "delete"]
          /\ UNCHANGED <<idx, attempts, raised, result, caused, stale, notDeleted>>
       \/ /\ Faults
          /\ file' \in {file, [file EXCEPT ![Current(j)] = "pending"]}
          /\ EndTest(j, "failed")
          /\ Blame(j, "fault")
          /\ notDeleted' = notDeleted \cup {Current(j)}
    /\ UNCHANGED <<scp, ftpVars>>

\* Mutant: the file is deleted only after a restore that succeeds.
RestoreRaisesOut(j) ==
    /\ EndTest(j, "failed")
    /\ Blame(j, "fault")
    /\ UNCHANGED <<file, notDeleted>>

\* The finally clause goes on to delete_file.
RestoreRaises(j) ==
    /\ raised' = [raised EXCEPT ![j] = TRUE]
    /\ Blame(j, "fault")
    /\ Goto(j, "open")
    /\ UNCHANGED <<idx, want, attempts, file, result, notDeleted>>

\* handler.restore or handler.orchestration_restore inside the try block.
Restore(j) ==
    /\ pc[j] = "restore"
    /\ \/ /\ Goto(j, "open")
          /\ UNCHANGED <<idx, want, attempts, raised, testVars>>
       \/ /\ Faults
          /\ RestoreRaises(j)
       \* the finally clause cannot read the artifact info
       \/ /\ Faults
          /\ TestOf(j).op = "orchestration_restore"
          /\ Raises(j, "fault")
    /\ UNCHANGED <<scp, ftpVars>>

\* The copy the device started arrives on the server.
Appear(t) ==
    /\ file[t] = "pending"
    /\ file' = [file EXCEPT ![t] = "there"]
    /\ UNCHANGED <<pc, idx, want, attempts, raised, result, caused, stale, notDeleted,
                   scp, ftpVars>>

-----------------------------------------------------------------------------
(* read_file and delete_file, whatever the server *)

\* The server carried the command out.  A file that was read is deleted next,
\* unless it is empty; after the deletion the test is over.
Succeeds(j) ==
    \/ /\ want[j] = "read"
       /\ want' = [want EXCEPT ![j] = "delete"]
       /\ attempts' = [attempts EXCEPT ![j] = 1]
       /\ Goto(j, "open")
       /\ UNCHANGED <<idx, raised, testVars>>
    \/ /\ want[j] = "read"
       /\ Faults
       /\ Raises(j, "fault")
    \/ /\ want[j] = "delete"
       /\ file' = [file EXCEPT ![Current(j)] =
                     IF TestOf(j).server = "TFTP" THEN @ ELSE "deleted"]
       /\ EndTest(j, IF raised[j] THEN "failed" ELSE "passed")
       /\ UNCHANGED <<caused, stale, notDeleted>>

NextAttempt(n) == n + 1

\* Mutant: when the attempts are used up, the call returns.
GivesUpQuietly(j) ==
    \/ /\ want[j] = "read"
       /\ Raises(j, "fault")
    \/ /\ want[j] = "delete"
       /\ EndTest(j, IF raised[j] THEN "failed" ELSE "passed")
       /\ UNCHANGED <<file, caused, stale, notDeleted>>

\* retrying raises the exception of the last attempt.
GivesUp(j) == Raises(j, "fault")

AttemptsLeft(j) == attempts[j] < MaxAttempts

\* "No such file": retried, then raised.
NotFound(j) ==
    \/ /\ AttemptsLeft(j)
       /\ attempts' = [attempts EXCEPT ![j] = NextAttempt(@)]
       /\ Goto(j, "open")
       /\ UNCHANGED <<idx, want, raised, testVars>>
    \/ /\ ~AttemptsLeft(j)
       /\ GivesUp(j)

\* What the server answers to a command that reaches it.
Answer(j) ==
    \/ file[Current(j)] = "there" /\ Succeeds(j)
    \/ file[Current(j)] # "there" /\ NotFound(j)

-----------------------------------------------------------------------------
(* SCPHandler and TFTPHandler *)

\* The session is made at the first use and kept, dead or alive.
ScpCommand(j) ==
    /\ pc[j] = "open"
    /\ TestOf(j).server = "SCP"
    /\ \/ /\ scp # "dead"
          /\ scp' = "alive"
          /\ Answer(j)
       \/ /\ Faults
          /\ Raises(j, "fault")
          /\ UNCHANGED scp
       \/ /\ scp = "dead"
          /\ Raises(j, "dead session")
          /\ UNCHANGED scp
    /\ UNCHANGED ftpVars

DropScp ==
    /\ Faults
    /\ scp = "alive"
    /\ scp' = "dead"
    /\ UNCHANGED <<pc, idx, want, attempts, raised, testVars, ftpVars>>

\* TFTP has no sessions and cannot delete: delete_file only warns.
TftpCommand(j) ==
    /\ pc[j] = "open"
    /\ TestOf(j).server = "TFTP"
    /\ \/ want[j] = "read" /\ Answer(j)
       \/ want[j] = "delete" /\ Succeeds(j)
       \/ Faults /\ want[j] = "read" /\ Raises(j, "fault")
    /\ UNCHANGED <<scp, ftpVars>>

-----------------------------------------------------------------------------
(* FTPHandler: the session property and the commands on the session *)

InFlight == {"list", "login", "command"}

\* Thread j sends a command over c.  Two commands at once on one control
\* connection get each other's replies from then on.
Send(j, c, label) ==
    /\ held' = [held EXCEPT ![j] = c]
    /\ conn' = [conn EXCEPT ![c] =
                  IF \E k \in Job \ {j} : held[k] = c /\ pc[k] \in InFlight
                    THEN "mixed" ELSE @]
    /\ Goto(j, label)

\* Mutant: a session is taken for alive without a test.
TrustSession(j) == Goto(j, "use") /\ UNCHANGED <<held, conn>>

\* _is_session_alive sends LIST.
ProbeSession(j) == Send(j, session, "list")

\* "if self._session is None or not _is_session_alive(self._session)"
OpenFtp(j) ==
    /\ pc[j] = "open"
    /\ TestOf(j).server = "FTP"
    /\ \/ /\ session = NoConn
          /\ Goto(j, "connect")
          /\ UNCHANGED <<held, conn>>
       \/ /\ session # NoConn
          /\ ProbeSession(j)
    /\ UNCHANGED <<idx, want, attempts, raised, testVars, scp, session>>

\* The reply to LIST.  ftplib.Error and OSError mean a dead session; EOFError,
\* which ftplib raises when the server closed without "421", is not caught: the
\* session stays, and every later FTP test fails like this one.
ListReply(j) ==
    /\ pc[j] = "list"
    /\ \/ /\ conn[held[j]] \in {"in", "mixed"}
          /\ Goto(j, "use")
          /\ UNCHANGED <<idx, want, attempts, raised, testVars>>
       \/ /\ conn[held[j]] \in {"open", "closed", "mixed"}
          /\ Goto(j, "connect")
          /\ UNCHANGED <<idx, want, attempts, raised, testVars>>
       \/ /\ conn[held[j]] = "eof"
          /\ Raises(j, "dead session")
    /\ held' = [held EXCEPT ![j] = NoConn]
    /\ UNCHANGED <<scp, session, conn>>

InUse == {session} \cup {held[j] : j \in Job}

\* "self._session = ftplib.FTP(...)": assigned before the login.  A connection
\* that nobody holds any more is closed.  Without a user and a password there is
\* no login, and the server must let everybody in.
ConnectFtp(j) ==
    /\ pc[j] = "connect"
    /\ \/ LET c == CHOOSE x \in Conn : x \notin InUse
          IN  /\ session' = c
              /\ conn' = [x \in Conn |->
                            IF x = c THEN IF FtpLogin THEN "open" ELSE "in"
                            ELSE IF \E k \in Job : held[k] = x THEN conn[x]
                            ELSE "closed"]
              /\ Goto(j, IF FtpLogin THEN "connected" ELSE "use")
              /\ UNCHANGED <<idx, want, attempts, raised, testVars>>
       \/ /\ Faults
          /\ Raises(j, "fault")
          /\ UNCHANGED <<session, conn>>
    /\ UNCHANGED <<scp, held>>

\* "self._session.login(...)" reads the attribute again.
SendLogin(j) ==
    /\ pc[j] = "connected"
    /\ Send(j, session, "login")
    /\ UNCHANGED <<idx, want, attempts, raised, testVars, scp, session>>

LoginReply(j) ==
    /\ pc[j] = "login"
    /\ \/ /\ conn[held[j]] \in {"open", "in", "mixed"}
          /\ conn' = [conn EXCEPT ![held[j]] = IF @ = "open" THEN "in" ELSE @]
          /\ Goto(j, "use")
          /\ UNCHANGED <<idx, want, attempts, raised, testVars>>
       \/ /\ Faults
          /\ Raises(j, "fault")
          /\ UNCHANGED conn
       \/ /\ conn[held[j]] \in {"closed", "eof", "mixed"}
          /\ Raises(j, "other thread")
          /\ UNCHANGED conn
    /\ held' = [held EXCEPT ![j] = NoConn]
    /\ UNCHANGED <<scp, session>>

\* "return self._session", read once more, and RETR or DELE on it.
SendCommand(j) ==
    /\ pc[j] = "use"
    /\ Send(j, session, "command")
    /\ UNCHANGED <<idx, want, attempts, raised, testVars, scp, session>>

\* A connection that is not logged in answers 530, which is not retried.
CommandReply(j) ==
    /\ pc[j] = "command"
    /\ \/ /\ conn[held[j]] \in {"in", "mixed"}
          /\ Answer(j)
       \/ /\ Faults
          /\ Raises(j, "fault")
       \/ /\ conn[held[j]] # "in"
          /\ Raises(j, "other thread")
    /\ held' = [held EXCEPT ![j] = NoConn]
    /\ UNCHANGED <<scp, session, conn>>

\* The threads that lose the connection after their probe of it.
UsesAfterProbe(j, c) ==
    \/ pc[j] \in {"login", "command"} /\ held[j] = c
    \/ pc[j] \in {"connected", "use"} /\ session = c

\* The server closes a connection, because it was idle or for another reason.
DropFtp(c) ==
    /\ c \in InUse
    /\ conn[c] \in {"open", "in", "mixed"}
    /\ \E how \in {"closed", "eof"} : conn' = [conn EXCEPT ![c] = how]
    /\ caused' = caused \cup
                   {Current(j) : j \in {k \in Job : UsesAfterProbe(k, c)}}
    /\ UNCHANGED <<pc, idx, want, attempts, raised, file, result, stale, notDeleted,
                   scp, session, held>>

-----------------------------------------------------------------------------
Terminated ==
    /\ \A j \in Job : pc[j] = "done"
    /\ UNCHANGED vars

JobStep(j) ==
    \/ Save(j)
    \/ Restore(j)
    \/ ScpCommand(j)
    \/ TftpCommand(j)
    \/ OpenFtp(j)
    \/ ListReply(j)
    \/ ConnectFtp(j)
    \/ SendLogin(j)
    \/ LoginReply(j)
    \/ SendCommand(j)
    \/ CommandReply(j)

Next ==
    \/ \E j \in Job : JobStep(j)
    \/ \E t \in TestId : Appear(t)
    \/ DropScp
    \/ \E c \in Conn : DropFtp(c)
    \/ Terminated

Spec == Init /\ [][Next]_vars

-----------------------------------------------------------------------------
(* Properties *)

TypeOK ==
    /\ pc \in [Job -> {"save", "restore", "open", "connect", "connected", "use",
                       "done"} \cup InFlight]
    /\ idx \in [Job -> Nat \ {0}]
    /\ \A j \in Job : idx[j] <= Len(Suite[j]) \/ idx[j] = 1
    /\ want \in [Job -> {"read", "delete"}]
    /\ attempts \in [Job -> 1..MaxAttempts]
    /\ raised \in [Job -> BOOLEAN]
    /\ file \in [TestId -> {"none", "pending", "there", "deleted"}]
    /\ result \in [TestId -> {"open", "passed", "failed"}]
    /\ session \in Conn \cup {NoConn}
    /\ held \in [Job -> Conn \cup {NoConn}]
    /\ conn \in [Conn -> {"open", "in", "mixed", "closed", "eof"}]
    /\ scp \in {"none", "alive", "dead"}
    /\ caused \subseteq TestId
    /\ stale \subseteq TestId
    /\ notDeleted \subseteq TestId

LeftBehind(t) == file[t] \in {"pending", "there"}
NotTftp(t) == Suite[t[1]][t[2]].server # "TFTP"

\* A test that passes leaves no file on an FTP or SCP server, not even one that
\* arrives after the test has looked for it in vain.
PassedLeavesNoFile ==
    \A t \in TestId : result[t] = "passed" /\ NotTftp(t) => ~LeftBehind(t)

\* A restore test deletes its file although the restore raised: what it leaves
\* on the server is a file whose deletion itself failed, or one that the test was
\* never told the name of, because the save raised after the copy or the artifact
\* info could not be read.
RestoreCleansUp ==
    \A t \in TestId :
        result[t] = "failed" /\ ~IsSave(t) /\ NotTftp(t) /\ LeftBehind(t)
            => t \in notDeleted

\* A test fails only when a device, server or network failed during it, or when
\* it met a session that had died before it and that the handler never replaces
\* (an SCP session, or an FTP connection closed without "421").  Every other FTP
\* connection that the server closed between two tests is replaced, and one test
\* never spoils the session under another.
FailureHasCause ==
    \A t \in TestId : result[t] = "failed" => t \in caused \cup stale

\* FTPHandler.session replaces every session that _is_session_alive finds dead, so
\* that no test fails because the server closed the connection before its command.
DeadSessionIsReplaced ==
    \A t \in TestId : result[t] = "failed" => t \in caused
=============================================================================
