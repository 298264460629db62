-------------------------- MODULE RemoteFilesProofs --------------------------
(***************************************************************************)
(* Proofs about RemoteFiles, for every suite of tests.  That a failed test *)
(* has a cause needs that only one thread uses FTP; two that share the     *)
(* session spoil it for each other, which a run shows.                     *)
(***************************************************************************)
EXTENDS RemoteFiles, FiniteSetTheorems, TLAPS

Label == {"save", "restore", "open", "connect", "connected", "use", "done"} \cup InFlight
FtpLabel == {"connect", "connected", "use"} \cup InFlight

\* A thread that is not through has a test.
PcInv == \A j \in Job : pc[j] # "done" => idx[j] <= Len(Suite[j])

\* The tests to come have no result and no file, a restore test only deletes,
\* and a restore that raised was blamed on something.
TestInv ==
    \A j \in Job :
        /\ \A i \in 1..Len(Suite[j]) :
            /\ result[<<j, i>>] # "open" => i < idx[j] \/ pc[j] = "done"
            /\ file[<<j, i>>] # "none" => i < idx[j] \/ (i = idx[j] /\ pc[j] # "save")
        /\ pc[j] \notin {"save", "done"} /\ ~IsSave(Current(j)) => want[j] = "delete"
        /\ raised[j] => Current(j) \in caused

\* FTP is used by one thread only.
OneFtpUser ==
    \A j, k \in Job : \A m \in 1..Len(Suite[j]), n \in 1..Len(Suite[k]) :
        Suite[j][m].server = "FTP" /\ Suite[k][n].server = "FTP" => j = k

\* What a thread knows of the session it has just probed or made: unless it was
\* dropped since, which is then blamed, it is open, or logged in.
Knows(j) ==
    /\ pc[j] \in FtpLabel => TestOf(j).server = "FTP"
    /\ pc[j] \in {"connected", "use"} => session \in Conn
    /\ pc[j] \in InFlight => held[j] = session /\ session \in Conn
    /\ pc[j] \in {"connected", "login"} => conn[session] = "open" \/ Current(j) \in caused
    /\ pc[j] \in {"use", "command"} => conn[session] = "in" \/ Current(j) \in caused

SessionInv ==
    /\ \A c \in Conn : conn[c] # "mixed"
    /\ \A j \in Job : Knows(j)

TestTypes ==
    /\ pc \in [Job -> Label]
    /\ idx \in [Job -> Nat \ {0}]
    /\ \A j \in Job : idx[j] <= Len(Suite[j]) \/ idx[j] = 1
    /\ want \in [Job -> {"read", "delete"}]
    /\ attempts \in [Job -> 1..MaxAttempts]
    /\ raised \in [Job -> BOOLEAN]
    /\ file \in [TestId -> {"none", "pending", "there", "deleted"}]
    /\ result \in [TestId -> {"open", "passed", "failed"}]
    /\ caused \subseteq TestId
    /\ stale \subseteq TestId
    /\ notDeleted \subseteq TestId

SessionTypes ==
    /\ session \in Conn \cup {NoConn}
    /\ held \in [Job -> Conn \cup {NoConn}]
    /\ conn \in [Conn -> {"open", "in", "mixed", "closed", "eof"}]
    /\ scp \in {"none", "alive", "dead"}

-----------------------------------------------------------------------------
(* What a step of a thread does to its test *)

\* A test is the place in the suite of a job.
LEMMA Tests ==
    /\ \A j \in Job : Len(Suite[j]) \in Nat
    /\ \A j \in Job : \A i \in 1..Len(Suite[j]) : <<j, i>> \in TestId
    /\ \A t \in TestId : t[1] \in Job /\ t[2] \in 1..Len(Suite[t[1]]) /\ t = <<t[1], t[2]>>
  <1>1. \A j \in Job : Len(Suite[j]) \in Nat
    BY SuiteAssumption
  <1>2. \A j \in Job : \A i \in 1..Len(Suite[j]) : <<j, i>> \in TestId
    BY DEF TestId
  <1>3. \A t \in TestId : t[1] \in Job /\ t[2] \in 1..Len(Suite[t[1]]) /\ t = <<t[1], t[2]>>
    BY DEF TestId
  <1> QED
    BY <1>1, <1>2, <1>3

\* The test a thread runs.
LEMMA CurrentTest ==
    ASSUME TestTypes, PcInv, NEW j \in Job, pc[j] # "done"
    PROVE  idx[j] \in 1..Len(Suite[j]) /\ Current(j) \in TestId
  BY Tests DEF TestTypes, PcInv, Current

\* A step of thread j leaves the other threads and their tests alone.
Apart(j) ==
    /\ pc[j] # "done"
    /\ \A k \in Job \ {j} : /\ pc'[k] = pc[k] /\ idx'[k] = idx[k]
                            /\ want'[k] = want[k] /\ raised'[k] = raised[k]
    /\ \A t \in TestId \ {Current(j)} : file'[t] = file[t] /\ result'[t] = result[t]
    /\ caused \subseteq caused' /\ stale \subseteq stale'
    /\ notDeleted \subseteq notDeleted'

\* The test goes on.
Continues(j) ==
    /\ result' = result /\ idx'[j] = idx[j] /\ pc'[j] \notin {"save", "done"}
    /\ file' = file \/ pc[j] = "save"
    /\ pc[j] = "save" => IsSave(Current(j)) \/ want'[j] = "delete"
    /\ pc[j] # "save" => want'[j] \in {want[j], "delete"}
    /\ raised'[j] => raised[j] \/ Current(j) \in caused'

\* The test ends.
Ends(j, outcome) ==
    /\ result'[Current(j)] = outcome
    /\ \/ pc'[j] = "save" /\ idx'[j] = idx[j] + 1
       \/ pc'[j] = "done" /\ idx'[j] = idx[j] /\ idx[j] = Len(Suite[j])
    /\ ~raised'[j]

\* The server's reply to the one connection was that it is of no use.
Refused(j) ==
    \/ pc[j] = "login" /\ conn[held[j]] \in {"closed", "eof", "mixed"}
    \/ pc[j] = "command" /\ conn[held[j]] # "in"

\* The test fails: it was deleted, or an exception left it.
Fails(j) ==
    /\ Ends(j, "failed")
    /\ Current(j) \in caused' \cup stale' \/ raised[j] \/ Refused(j)
    /\ \/ IsSave(Current(j)) \/ ~NotTftp(Current(j))
       \/ file'[Current(j)] = "deleted"
       \/ Current(j) \in notDeleted'
       \/ file' = file /\ (pc[j] = "save" \/ want[j] # "delete")

Passes(j) ==
    /\ Ends(j, "passed")
    /\ NotTftp(Current(j)) => file'[Current(j)] = "deleted"

\* All that matters of a step of thread j.
Effect(j) == TestTypes' /\ Apart(j) /\ (Continues(j) \/ Fails(j) \/ Passes(j))

\* The end of a test.
LEMMA EndTestEffect ==
    ASSUME TestTypes, PcInv, NEW j \in Job, pc[j] # "done",
           NEW outcome \in {"passed", "failed"}, EndTest(j, outcome)
    PROVE  /\ Ends(j, outcome)
           /\ pc' \in [Job -> Label] /\ idx' \in [Job -> Nat \ {0}]
           /\ \A k \in Job : idx'[k] <= Len(Suite[k]) \/ idx'[k] = 1
           /\ want' \in [Job -> {"read", "delete"}]
           /\ attempts' \in [Job -> 1..MaxAttempts]
           /\ raised' \in [Job -> BOOLEAN]
           /\ result' \in [TestId -> {"open", "passed", "failed"}]
           /\ \A k \in Job \ {j} : /\ pc'[k] = pc[k] /\ idx'[k] = idx[k]
                                   /\ want'[k] = want[k] /\ raised'[k] = raised[k]
           /\ \A t \in TestId \ {Current(j)} : result'[t] = result[t]
  <1> USE DEF TestTypes, EndTest, Goto
  <1>1. Current(j) \in TestId /\ idx[j] \in 1..Len(Suite[j]) /\ Len(Suite[j]) \in Nat
    BY CurrentTest, Tests
  <1>2. pc' \in [Job -> Label]
    BY DEF Label
  <1>3. /\ idx' \in [Job -> Nat \ {0}] /\ \A k \in Job \ {j} : idx'[k] = idx[k]
        /\ idx'[j] = IF idx[j] < Len(Suite[j]) THEN idx[j] + 1 ELSE idx[j]
    BY <1>1
  <1>4. \A k \in Job : idx'[k] <= Len(Suite[k]) \/ idx'[k] = 1
    BY <1>1, <1>3
  <1>5. /\ want' \in [Job -> {"read", "delete"}] /\ raised' \in [Job -> BOOLEAN]
        /\ \A k \in Job \ {j} : pc'[k] = pc[k] /\ want'[k] = want[k] /\ raised'[k] = raised[k]
        /\ ~raised'[j]
    OBVIOUS
  <1>6. 1 \in 1..MaxAttempts
    BY BoundAssumption
  <1>7. attempts' \in [Job -> 1..MaxAttempts]
    BY <1>6
  <1>8. /\ result' \in [TestId -> {"open", "passed", "failed"}]
        /\ result'[Current(j)] = outcome
        /\ \A t \in TestId \ {Current(j)} : result'[t] = result[t]
    BY <1>1
  <1>9. \/ pc'[j] = "save" /\ idx'[j] = idx[j] + 1
        \/ pc'[j] = "done" /\ idx'[j] = idx[j] /\ idx[j] = Len(Suite[j])
    BY <1>1, <1>3
  <1> QED
    BY <1>2, <1>3, <1>4, <1>5, <1>7, <1>8, <1>9 DEF Ends

\* An exception leaves the test.
LEMMA RaisesEffect ==
    ASSUME TestTypes, PcInv, NEW j \in Job, pc[j] # "done",
           NEW reason \in Reason, Raises(j, reason),
           reason # "other thread" \/ Refused(j)
    PROVE  Effect(j)
  <1>1. Current(j) \in TestId
    BY CurrentTest
  <1>2. EndTest(j, "failed") /\ file' = file
    BY DEF Raises
  <1>3. /\ caused' \in {caused, caused \cup {Current(j)}}
        /\ stale' \in {stale, stale \cup {Current(j)}}
        /\ reason # "other thread" => Current(j) \in caused' \cup stale'
    BY DEF Raises, Blame, Reason
  <1>4. /\ notDeleted' \in {notDeleted, notDeleted \cup {Current(j)}}
        /\ want[j] = "delete" => Current(j) \in notDeleted'
    BY DEF Raises
  <1>5. TestTypes'
    BY <1>1, <1>2, <1>3, <1>4, EndTestEffect DEF TestTypes
  <1>6. Apart(j)
    BY <1>1, <1>2, <1>3, <1>4, EndTestEffect DEF Apart
  <1>7. Fails(j)
    BY <1>2, <1>3, <1>4, EndTestEffect DEF Fails
  <1> QED
    BY <1>5, <1>6, <1>7 DEF Effect

\* A step that goes on with the same test, file and result.
LEMMA GoesOn ==
    ASSUME TestTypes, PcInv, NEW j \in Job, pc[j] \notin {"save", "done"},
           NEW label \in Label \ {"save", "done"}, Goto(j, label),
           UNCHANGED <<idx, raised, testVars>>,
           \/ UNCHANGED want
           \/ want' = [want EXCEPT ![j] = "delete"],
           \/ UNCHANGED attempts
           \/ attempts' = [attempts EXCEPT ![j] = 1]
           \/ AttemptsLeft(j) /\ attempts' = [attempts EXCEPT ![j] = attempts[j] + 1]
    PROVE  Effect(j)
  <1> USE DEF testVars, Goto
  <1>1. pc' \in [Job -> Label] /\ want' \in [Job -> {"read", "delete"}]
    BY DEF TestTypes
  <1>2. attempts' \in [Job -> 1..MaxAttempts]
    <2>1. 1 \in 1..MaxAttempts /\ (AttemptsLeft(j) => attempts[j] + 1 \in 1..MaxAttempts)
      BY BoundAssumption DEF AttemptsLeft, TestTypes
    <2>2. CASE UNCHANGED attempts
      BY <2>2 DEF TestTypes
    <2>3. CASE attempts' = [attempts EXCEPT ![j] = 1]
      BY <2>1, <2>3 DEF TestTypes
    <2>4. CASE AttemptsLeft(j) /\ attempts' = [attempts EXCEPT ![j] = attempts[j] + 1]
      BY <2>1, <2>4 DEF TestTypes
    <2> QED
      BY <2>2, <2>3, <2>4
  <1>3. TestTypes'
    BY <1>1, <1>2 DEF TestTypes
  <1>4. Apart(j)
    BY DEF Apart, TestTypes
  <1>5. Continues(j)
    BY DEF Continues, TestTypes
  <1> QED
    BY <1>3, <1>4, <1>5 DEF Effect

\* The server's answer to a command that reaches it.
LEMMA AnswerEffect ==
    ASSUME TestTypes, PcInv, NEW j \in Job, pc[j] \notin {"save", "done"},
           Succeeds(j) \/ NotFound(j)
    PROVE  Effect(j)
  <1>1. Current(j) \in TestId
    BY CurrentTest
  <1>2. ASSUME Raises(j, "fault")
        PROVE  Effect(j)
    BY <1>2, RaisesEffect DEF Reason
  <1>3. ASSUME UNCHANGED <<idx, raised, testVars>>, Goto(j, "open"),
               want' = [want EXCEPT ![j] = "delete"], attempts' = [attempts EXCEPT ![j] = 1]
        PROVE  Effect(j)
    BY <1>3, GoesOn DEF Label
  <1>4. ASSUME NotFound(j)
        PROVE  Effect(j)
    <2>1. CASE AttemptsLeft(j)
      <3>1. /\ UNCHANGED <<idx, raised, testVars, want>> /\ Goto(j, "open")
            /\ attempts' = [attempts EXCEPT ![j] = attempts[j] + 1]
        BY <1>4, <2>1 DEF NotFound, NextAttempt
      <3> QED
        BY <2>1, <3>1, GoesOn DEF Label
    <2>2. CASE ~AttemptsLeft(j)
      BY <1>2, <1>4, <2>2 DEF NotFound, GivesUp
    <2> QED
      BY <2>1, <2>2
  <1>5. ASSUME NEW outcome \in {"passed", "failed"}, EndTest(j, outcome),
               outcome = "failed" <=> raised[j],
               file' = [file EXCEPT ![Current(j)] =
                          IF TestOf(j).server = "TFTP" THEN file[Current(j)] ELSE "deleted"],
               UNCHANGED <<caused, stale, notDeleted>>
        PROVE  Effect(j)
    <2>1. /\ file' \in [TestId -> {"none", "pending", "there", "deleted"}]
          /\ \A t \in TestId \ {Current(j)} : file'[t] = file[t]
          /\ NotTftp(Current(j)) => file'[Current(j)] = "deleted"
      BY <1>1, <1>5 DEF TestTypes, NotTftp, TestOf, Current
    <2>2. TestTypes'
      BY SMTT(30), <1>5, <2>1, EndTestEffect DEF TestTypes
    <2>3. Apart(j)
      BY <1>5, <2>1, EndTestEffect DEF Apart
    <2>4. outcome = "passed" => Passes(j)
      BY <1>5, <2>1, EndTestEffect DEF Passes
    <2>5. outcome = "failed" => Fails(j)
      BY <1>5, <2>1, EndTestEffect DEF Fails
    <2> QED
      BY <2>2, <2>3, <2>4, <2>5 DEF Effect
  <1>6. CASE Succeeds(j)
    <2>1. CASE want[j] = "delete"
      <3>1. EndTest(j, IF raised[j] THEN "failed" ELSE "passed")
        BY <1>6, <2>1 DEF Succeeds
      <3>2. PICK outcome \in {"passed", "failed"} :
              EndTest(j, outcome) /\ (outcome = "failed" <=> raised[j])
        BY <3>1
      <3> QED
        BY <1>5, <1>6, <2>1, <3>2 DEF Succeeds
    <2>2. CASE want[j] # "delete"
      BY <1>2, <1>3, <1>6, <2>2 DEF Succeeds
    <2> QED
      BY <2>1, <2>2
  <1> QED
    BY <1>4, <1>6

\* Every step of a thread is of that kind.
LEMMA StepEffect ==
    ASSUME TestTypes, PcInv, NEW j \in Job, JobStep(j)
    PROVE  Effect(j)
  <1>1. ASSUME pc[j] # "done", Raises(j, "fault") \/ Raises(j, "dead session")
        PROVE  Effect(j)
    BY <1>1, RaisesEffect DEF Reason
  <1>2. CASE Save(j)
    <2>0. pc[j] = "save" /\ Current(j) \in TestId
      BY <1>2, CurrentTest DEF Save
    <2>1. ASSUME file' = [file EXCEPT ![Current(j)] = "pending"],
                 Goto(j, IF IsSave(Current(j)) THEN "open" ELSE "restore"),
                 want' = [want EXCEPT ![j] = IF IsSave(Current(j)) THEN "read" ELSE "delete"],
                 UNCHANGED <<idx, attempts, raised, result, caused, stale, notDeleted>>
          PROVE  Effect(j)
      <3>1. /\ pc' \in [Job -> Label] /\ want' \in [Job -> {"read", "delete"}]
            /\ file' \in [TestId -> {"none", "pending", "there", "deleted"}]
        BY <2>0, <2>1 DEF TestTypes, Goto, Label
      <3>2. TestTypes'
        BY <2>1, <3>1 DEF TestTypes
      <3>3. Apart(j)
        BY <2>0, <2>1 DEF Apart, TestTypes, Goto
      <3>4. Continues(j)
        BY <2>0, <2>1 DEF Continues, TestTypes, Goto
      <3> QED
        BY <3>2, <3>3, <3>4 DEF Effect
    <2>2. ASSUME file' \in {file, [file EXCEPT ![Current(j)] = "pending"]},
                 EndTest(j, "failed"), Blame(j, "fault"),
                 notDeleted' = notDeleted \cup {Current(j)}
          PROVE  Effect(j)
      <3>1. /\ file' \in [TestId -> {"none", "pending", "there", "deleted"}]
            /\ \A t \in TestId \ {Current(j)} : file'[t] = file[t]
        BY <2>0, <2>2 DEF TestTypes
      <3>2. caused' = caused \cup {Current(j)} /\ stale' = stale
        BY <2>2 DEF Blame
      <3>3. TestTypes'
        BY <2>0, <2>2, <3>1, <3>2, EndTestEffect DEF TestTypes
      <3>4. Apart(j)
        BY <2>0, <2>2, <3>1, <3>2, EndTestEffect DEF Apart
      <3>5. Fails(j)
        BY <2>0, <2>2, <3>1, <3>2, EndTestEffect DEF Fails
      <3> QED
        BY <3>3, <3>4, <3>5 DEF Effect
    <2> QED
      BY <1>1, <1>2, <2>0, <2>1, <2>2 DEF Save
  <1>3. CASE Restore(j)
    <2>0. pc[j] = "restore" /\ Current(j) \in TestId
      BY <1>3, CurrentTest DEF Restore
    <2>1. ASSUME RestoreRaises(j)
          PROVE  Effect(j)
      <3>1. /\ pc' \in [Job -> Label] /\ raised' \in [Job -> BOOLEAN]
            /\ caused' = caused \cup {Current(j)} /\ stale' = stale
        BY <2>1 DEF RestoreRaises, Blame, Goto, TestTypes, Label
      <3>2. TestTypes'
        BY <2>0, <2>1, <3>1 DEF TestTypes, RestoreRaises
      <3>3. Apart(j)
        BY <2>0, <2>1, <3>1 DEF Apart, RestoreRaises, TestTypes, Goto
      <3>4. Continues(j)
        BY <2>0, <2>1, <3>1 DEF Continues, RestoreRaises, TestTypes, Goto
      <3> QED
        BY <3>2, <3>3, <3>4 DEF Effect
    <2>2. ASSUME Goto(j, "open"), UNCHANGED <<idx, want, attempts, raised, testVars>>
          PROVE  Effect(j)
      BY <2>0, <2>2, GoesOn DEF Label
    <2> QED
      BY <1>1, <1>3, <2>0, <2>1, <2>2 DEF Restore
  <1>4. CASE ScpCommand(j) \/ TftpCommand(j)
    BY <1>1, <1>4, AnswerEffect DEF ScpCommand, TftpCommand, Answer
  <1>5. CASE OpenFtp(j) \/ SendLogin(j) \/ SendCommand(j)
    <2>1. /\ pc[j] \notin {"save", "done"}
          /\ UNCHANGED <<idx, want, attempts, raised, testVars>>
          /\ \E label \in Label \ {"save", "done"} : Goto(j, label)
      BY <1>5 DEF OpenFtp, SendLogin, SendCommand, ProbeSession, Send, Label, InFlight
    <2> QED
      BY <2>1, GoesOn
  <1>6. CASE ListReply(j)
    <2>1. pc[j] = "list"
      BY <1>6 DEF ListReply
    <2>2. ASSUME NEW label \in {"use", "connect"}, Goto(j, label),
                 UNCHANGED <<idx, want, attempts, raised, testVars>>
          PROVE  Effect(j)
      BY <2>1, <2>2, GoesOn DEF Label
    <2> QED
      BY <1>1, <1>6, <2>1, <2>2 DEF ListReply
  <1>7. CASE ConnectFtp(j)
    <2>1. ASSUME NEW label \in {"connected", "use"}, Goto(j, label),
                 UNCHANGED <<idx, want, attempts, raised, testVars>>
          PROVE  Effect(j)
      BY <1>7, <2>1, GoesOn DEF Label, ConnectFtp
    <2> QED
      BY <1>1, <1>7, <2>1 DEF ConnectFtp
  <1>8. CASE LoginReply(j)
    <2>1. pc[j] = "login"
      BY <1>8 DEF LoginReply
    <2>2. ASSUME Goto(j, "use"), UNCHANGED <<idx, want, attempts, raised, testVars>>
          PROVE  Effect(j)
      BY <2>1, <2>2, GoesOn DEF Label
    <2>3. ASSUME Raises(j, "other thread"), conn[held[j]] \in {"closed", "eof", "mixed"}
          PROVE  Effect(j)
      BY <2>1, <2>3, RaisesEffect DEF Refused, Reason
    <2> QED
      BY <1>1, <1>8, <2>1, <2>2, <2>3 DEF LoginReply
  <1>9. CASE CommandReply(j)
    <2>1. pc[j] = "command"
      BY <1>9 DEF CommandReply
    <2>2. ASSUME Answer(j)
          PROVE  Effect(j)
      BY <2>1, <2>2, AnswerEffect DEF Answer
    <2>3. ASSUME Raises(j, "other thread"), conn[held[j]] # "in"
          PROVE  Effect(j)
      BY <2>1, <2>3, RaisesEffect DEF Refused, Reason
    <2> QED
      BY <1>1, <1>9, <2>1, <2>2, <2>3 DEF CommandReply
  <1> QED
    BY <1>2, <1>3, <1>4, <1>5, <1>6, <1>7, <1>8, <1>9 DEF JobStep

-----------------------------------------------------------------------------
(* Types *)

\* There is always a name for a new connection: the session and each thread hold
\* at most one.
LEMMA FreshConn ==
    ASSUME SessionTypes
    PROVE  \E c \in Conn : c \notin InUse
  <1> DEFINE Hold == {held[j] : j \in Job}
  <1>1. IsFiniteSet(Job) /\ IsFiniteSet(Conn) /\ Cardinality(Conn) >= Cardinality(Job) + 2
    BY BoundAssumption
  <1>2. IsFiniteSet(Hold) /\ Cardinality(Hold) <= Cardinality(Job)
    <2>1. held \in Surjection(Job, Hold)
      BY DEF Surjection, SessionTypes
    <2> QED
      BY <1>1, <2>1, FS_Surjection
  <1>3. IsFiniteSet(InUse) /\ Cardinality(InUse) <= Cardinality(Job) + 1
    <2>1. InUse = Hold \cup {session}
      BY DEF InUse
    <2>2. IsFiniteSet(Hold \cup {session})
          /\ Cardinality(Hold \cup {session})
               = IF session \in Hold THEN Cardinality(Hold) ELSE Cardinality(Hold) + 1
      BY <1>2, FS_AddElement
    <2>3. Cardinality(Hold) \in Nat /\ Cardinality(Job) \in Nat
      BY <1>1, <1>2, FS_CardinalityType
    <2> QED
      BY <1>2, <2>1, <2>2, <2>3
  <1>4. ~(Conn \subseteq InUse)
    <2>1. ASSUME Conn \subseteq InUse
          PROVE  Cardinality(Conn) <= Cardinality(InUse)
      BY <1>3, <2>1, FS_Subset
    <2>2. Cardinality(Conn) \in Nat /\ Cardinality(InUse) \in Nat /\ Cardinality(Job) \in Nat
      BY <1>1, <1>3, FS_CardinalityType
    <2> QED
      BY <1>1, <1>3, <2>1, <2>2
  <1> QED
    BY <1>4

\* A command on the connection of the session.
LEMMA SendTypes ==
    ASSUME SessionTypes, NEW j \in Job, NEW label, Send(j, session, label)
    PROVE  held' \in [Job -> Conn \cup {NoConn}]
           /\ conn' \in [Conn -> {"open", "in", "mixed", "closed", "eof"}]
  <1>1. held' \in [Job -> Conn \cup {NoConn}]
    BY DEF Send, SessionTypes
  <1>2. conn' \in [Conn -> {"open", "in", "mixed", "closed", "eof"}]
    <2>1. \E v \in {conn[session], "mixed"} : conn' = [conn EXCEPT ![session] = v]
      BY DEF Send
    <2>2. CASE session \in Conn
      BY <2>1, <2>2 DEF SessionTypes
    <2>3. CASE session \notin Conn
      BY <2>1, <2>3 DEF SessionTypes
    <2> QED
      BY <2>2, <2>3
  <1> QED
    BY <1>1, <1>2

\* Every step keeps the types of the sessions.
LEMMA SessionTypesStep ==
    SessionTypes /\ [Next]_vars => SessionTypes'
  <1> SUFFICES ASSUME SessionTypes, [Next]_vars
               PROVE  SessionTypes'
    OBVIOUS
  <1> USE DEF ftpVars
  <1>1. ASSUME NEW j \in Job, Save(j) \/ Restore(j) \/ ScpCommand(j) \/ TftpCommand(j)
        PROVE  SessionTypes'
    BY <1>1 DEF Save, Restore, ScpCommand, TftpCommand, SessionTypes
  <1>2. ASSUME NEW j \in Job, OpenFtp(j) \/ SendLogin(j) \/ SendCommand(j)
        PROVE  SessionTypes'
    BY <1>2, SendTypes
       DEF OpenFtp, SendLogin, SendCommand, ProbeSession, SessionTypes
  <1>3. ASSUME NEW j \in Job, ListReply(j) \/ CommandReply(j)
        PROVE  SessionTypes'
    BY <1>3 DEF ListReply, CommandReply, SessionTypes
  <1>4. ASSUME NEW j \in Job, ConnectFtp(j)
        PROVE  SessionTypes'
    <2> DEFINE c == CHOOSE x \in Conn : x \notin InUse
               Reconnected == [x \in Conn |-> IF x = c THEN IF FtpLogin THEN "open" ELSE "in"
                                              ELSE IF \E k \in Job : held[k] = x THEN conn[x]
                                              ELSE "closed"]
    <2>0. c \in Conn
      BY FreshConn
    <2>1. CASE UNCHANGED <<session, conn>>
      BY <1>4, <2>1 DEF ConnectFtp, SessionTypes
    <2>2. CASE session' = c /\ conn' = Reconnected
      <3>1. conn' \in [Conn -> {"open", "in", "mixed", "closed", "eof"}]
        BY <2>2 DEF SessionTypes
      <3> QED
        BY <1>4, <2>0, <2>2, <3>1 DEF ConnectFtp, SessionTypes
    <2>3. UNCHANGED <<session, conn>> \/ (session' = c /\ conn' = Reconnected)
      BY <1>4 DEF ConnectFtp
    <2> QED
      BY <2>1, <2>2, <2>3
  <1>5. ASSUME NEW j \in Job, LoginReply(j)
        PROVE  SessionTypes'
    <2>1. held' \in [Job -> Conn \cup {NoConn}] /\ UNCHANGED <<scp, session>>
      BY <1>5 DEF LoginReply, SessionTypes
    <2>2. conn' \in [Conn -> {"open", "in", "mixed", "closed", "eof"}]
      <3>1. \/ conn' = conn
            \/ \E v \in {conn[held[j]], "in"} : conn' = [conn EXCEPT ![held[j]] = v]
        BY <1>5 DEF LoginReply
      <3>2. CASE held[j] \in Conn
        BY <3>1, <3>2 DEF SessionTypes
      <3>3. CASE held[j] \notin Conn
        BY <3>1, <3>3 DEF SessionTypes
      <3> QED
        BY <3>2, <3>3
    <2> QED
      BY <2>1, <2>2 DEF SessionTypes
  <1>6. ASSUME NEW c \in Conn, DropFtp(c)
        PROVE  SessionTypes'
    BY <1>6 DEF DropFtp, SessionTypes
  <1>7. CASE (\E t \in TestId : Appear(t)) \/ DropScp \/ Terminated \/ UNCHANGED vars
    BY <1>7 DEF Appear, DropScp, Terminated, vars, SessionTypes
  <1> QED
    BY <1>1, <1>2, <1>3, <1>4, <1>5, <1>6, <1>7 DEF Next, JobStep

\* Every step keeps the types of the tests.
LEMMA TestTypesStep ==
    TestTypes /\ PcInv /\ [Next]_vars => TestTypes' /\ PcInv'
  <1> SUFFICES ASSUME TestTypes, PcInv, [Next]_vars
               PROVE  TestTypes' /\ PcInv'
    OBVIOUS
  <1>1. ASSUME NEW j \in Job, JobStep(j)
        PROVE  TestTypes' /\ PcInv'
    <2>1. Effect(j)
      BY <1>1, StepEffect
    <2>2. pc'[j] # "done" => idx'[j] <= Len(Suite[j])
      <3>1. idx'[j] <= Len(Suite[j]) \/ idx'[j] = 1
        BY <2>1 DEF Effect, TestTypes
      <3>2. idx[j] \in 1..Len(Suite[j]) /\ Len(Suite[j]) \in Nat
        BY <2>1, CurrentTest, Tests DEF Effect, Apart
      <3> QED
        BY <2>1, <3>1, <3>2 DEF Effect, Continues, Fails, Passes, Ends
    <2> QED
      BY <2>1, <2>2 DEF Effect, Apart, PcInv
  <1>2. ASSUME NEW t \in TestId, Appear(t)
        PROVE  TestTypes' /\ PcInv'
    BY <1>2 DEF Appear, TestTypes, PcInv
  <1>3. ASSUME NEW c \in Conn, DropFtp(c)
        PROVE  TestTypes' /\ PcInv'
    <2>1. \A k \in Job : UsesAfterProbe(k, c) => Current(k) \in TestId
      BY CurrentTest DEF UsesAfterProbe
    <2>2. caused' \subseteq TestId
      BY <1>3, <2>1 DEF DropFtp, TestTypes
    <2> QED
      BY <1>3, <2>2 DEF DropFtp, TestTypes, PcInv
  <1>4. CASE DropScp \/ Terminated \/ UNCHANGED vars
    BY <1>4 DEF DropScp, Terminated, vars, testVars, TestTypes, PcInv
  <1> QED
    BY <1>1, <1>2, <1>3, <1>4 DEF Next

\* The initial state has the types, and no test has a file or a result.
LEMMA InitTests == Init => TestTypes /\ SessionTypes /\ PcInv /\ TestInv
  <1> SUFFICES ASSUME Init
               PROVE  TestTypes /\ SessionTypes /\ PcInv /\ TestInv
    OBVIOUS
  <1>1. attempts \in [Job -> 1..MaxAttempts] /\ idx \in [Job -> Nat \ {0}]
    BY BoundAssumption DEF Init
  <1>2. TestTypes
    BY <1>1 DEF Init, TestTypes, Label
  <1>3. SessionTypes
    BY DEF Init, SessionTypes
  <1>4. PcInv
    <2>1. \A j \in Job : Suite[j] # <<>> => Len(Suite[j]) >= 1
      BY SuiteAssumption
    <2> QED
      BY <2>1 DEF Init, PcInv
  <1>5. TestInv
    BY Tests DEF Init, TestInv
  <1> QED
    BY <1>2, <1>3, <1>4, <1>5

\* The variables have their types in every reachable state.
THEOREM RemoteFileTypes == Spec => []TypeOK
  <1>1. TestTypes /\ SessionTypes => TypeOK
    BY DEF TestTypes, SessionTypes, TypeOK, Label
  <1> QED
    BY <1>1, InitTests, TestTypesStep, SessionTypesStep, PTL DEF Spec

-----------------------------------------------------------------------------
(* Files and results *)

FileInv == TestInv /\ PassedLeavesNoFile /\ RestoreCleansUp

\* Every step keeps the order of the tests and what they leave on the servers.
LEMMA FileStep ==
    TestTypes /\ PcInv /\ FileInv /\ [Next]_vars => FileInv'
  <1> SUFFICES ASSUME TestTypes, PcInv, FileInv, [Next]_vars
               PROVE  FileInv'
    OBVIOUS
  <1> USE Tests
  <1>1. ASSUME NEW j \in Job, JobStep(j)
        PROVE  FileInv'
    <2>0. Effect(j)
      BY <1>1, StepEffect
    <2>1. /\ Apart(j) /\ pc[j] # "done" /\ idx[j] \in 1..Len(Suite[j]) /\ Current(j) \in TestId
          /\ Current(j) = <<j, idx[j]>>
          /\ Continues(j) \/ Fails(j) \/ Passes(j)
      BY <2>0, CurrentTest DEF Effect, Apart, Current
    <2>2. result[Current(j)] = "open" /\ (pc[j] = "save" => file[Current(j)] = "none")
      BY <2>1 DEF FileInv, TestInv
    <2>3. TestInv'
      <3>1. ASSUME NEW k \in Job \ {j}
            PROVE  /\ \A i \in 1..Len(Suite[k]) :
                       /\ result'[<<k, i>>] # "open" => i < idx'[k] \/ pc'[k] = "done"
                       /\ file'[<<k, i>>] # "none"
                            => i < idx'[k] \/ (i = idx'[k] /\ pc'[k] # "save")
                   /\ pc'[k] \notin {"save", "done"} /\ ~IsSave(<<k, idx'[k]>>)
                        => want'[k] = "delete"
                   /\ raised'[k] => <<k, idx'[k]>> \in caused'
        <4>1. \A i \in 1..Len(Suite[k]) : <<k, i>> \in TestId /\ <<k, i>> # Current(j)
          BY <2>1
        <4>2. /\ pc'[k] = pc[k] /\ idx'[k] = idx[k]
              /\ want'[k] = want[k] /\ raised'[k] = raised[k]
              /\ \A i \in 1..Len(Suite[k]) :
                   file'[<<k, i>>] = file[<<k, i>>] /\ result'[<<k, i>>] = result[<<k, i>>]
              /\ caused \subseteq caused'
          BY <2>1, <4>1 DEF Apart
        <4> QED
          BY <4>2 DEF FileInv, TestInv, Current
      <3>2. ASSUME NEW i \in 1..Len(Suite[j])
            PROVE  /\ result'[<<j, i>>] # "open" => i < idx'[j] \/ pc'[j] = "done"
                   /\ file'[<<j, i>>] # "none"
                        => i < idx'[j] \/ (i = idx'[j] /\ pc'[j] # "save")
        <4>1. CASE i = idx[j]
          BY <2>1, <2>2, <4>1 DEF Continues, Fails, Passes, Ends
        <4>2. CASE i # idx[j]
          <5>1. <<j, i>> \in TestId /\ <<j, i>> # Current(j)
            BY <2>1, <4>2
          <5>2. file'[<<j, i>>] = file[<<j, i>>] /\ result'[<<j, i>>] = result[<<j, i>>]
            BY <2>1, <5>1 DEF Apart
          <5>3. /\ result[<<j, i>>] # "open" => i < idx[j]
                /\ file[<<j, i>>] # "none" => i < idx[j]
            BY <2>1, <4>2 DEF FileInv, TestInv
          <5>4. idx'[j] \in {idx[j], idx[j] + 1}
            BY <2>1 DEF Continues, Fails, Passes, Ends
          <5> QED
            BY <2>1, <5>2, <5>3, <5>4
        <4> QED
          BY <4>1, <4>2
      <3>3. pc'[j] \notin {"save", "done"} /\ ~IsSave(<<j, idx'[j]>>) => want'[j] = "delete"
        <4>1. CASE Continues(j)
          BY <2>1, <4>1 DEF Continues, FileInv, TestInv
        <4>2. CASE Fails(j) \/ Passes(j)
          BY <4>2 DEF Fails, Passes, Ends
        <4> QED
          BY <2>1, <4>1, <4>2
      <3>4. raised'[j] => <<j, idx'[j]>> \in caused'
        BY <2>1 DEF Continues, Fails, Passes, Ends, Apart, FileInv, TestInv
      <3> QED
        BY <3>1, <3>2, <3>3, <3>4 DEF TestInv, Current
    <2>4. PassedLeavesNoFile'
      BY <2>1, <2>2
         DEF Apart, Continues, Fails, Passes, Ends, FileInv, PassedLeavesNoFile,
                        LeftBehind
    <2>5. RestoreCleansUp'
      <3> SUFFICES ASSUME NEW t \in TestId, result'[t] = "failed", ~IsSave(t), NotTftp(t),
                          LeftBehind(t)'
                   PROVE  t \in notDeleted'
        BY DEF RestoreCleansUp, IsSave, NotTftp
      <3>1. CASE t # Current(j)
        BY <2>1, <3>1 DEF Apart, FileInv, RestoreCleansUp, LeftBehind
      <3>2. CASE t = Current(j)
        <4>1. Fails(j)
          BY <2>1, <2>2, <3>2 DEF Continues, Passes, Ends
        <4>2. t \in notDeleted' \/ (file' = file /\ (pc[j] = "save" \/ want[j] # "delete"))
          BY <3>2, <4>1 DEF Fails, LeftBehind
        <4>3. file' = file => pc[j] # "save"
          BY <2>2, <3>2 DEF LeftBehind
        <4>4. pc[j] # "save" => want[j] = "delete"
          BY <2>1, <3>2 DEF FileInv, TestInv
        <4> QED
          BY <4>2, <4>3, <4>4
      <3> QED
        BY <3>1, <3>2
    <2> QED
      BY <2>3, <2>4, <2>5 DEF FileInv
  <1>2. ASSUME NEW t \in TestId, Appear(t)
        PROVE  FileInv'
    <2>1. /\ UNCHANGED <<pc, idx, want, raised, result, caused, notDeleted>>
          /\ file[t] = "pending" /\ file'[t] = "there"
          /\ \A u \in TestId \ {t} : file'[u] = file[u]
      BY <1>2 DEF Appear, TestTypes
    <2>2. \A u \in TestId : /\ file'[u] # "none" <=> file[u] # "none"
                            /\ LeftBehind(u)' <=> LeftBehind(u)
      BY <2>1 DEF LeftBehind
    <2>3. TestInv'
      BY <2>1, <2>2 DEF FileInv, TestInv, Current
    <2>4. PassedLeavesNoFile' /\ RestoreCleansUp'
      BY <2>1, <2>2 DEF FileInv, PassedLeavesNoFile, RestoreCleansUp, IsSave, NotTftp
    <2> QED
      BY <2>3, <2>4 DEF FileInv
  <1>3. ASSUME UNCHANGED <<pc, idx, want, raised, file, result, notDeleted>>,
               caused \subseteq caused'
        PROVE  FileInv'
    BY <1>3 DEF FileInv, TestInv, Current, PassedLeavesNoFile, RestoreCleansUp, LeftBehind
  <1>4. ASSUME NEW c \in Conn, DropFtp(c)
        PROVE  FileInv'
    BY <1>3, <1>4 DEF DropFtp
  <1>5. CASE DropScp \/ Terminated \/ UNCHANGED vars
    BY <1>3, <1>5 DEF DropScp, Terminated, vars, testVars
  <1> QED
    BY <1>1, <1>2, <1>4, <1>5 DEF Next

\* So files and results are as described in every reachable state.
LEMMA FileInvariant == Spec => [](TestTypes /\ SessionTypes /\ PcInv /\ FileInv)
  <1>1. Init => FileInv
    BY InitTests DEF Init, FileInv, PassedLeavesNoFile, RestoreCleansUp
  <1> QED
    BY <1>1, InitTests, TestTypesStep, SessionTypesStep, FileStep, PTL DEF Spec

\* A test that passes leaves no file on an FTP or SCP server, not even one that
\* the device delivers late.
THEOREM PassedTestsCleanUp == Spec => []PassedLeavesNoFile
  <1>1. FileInv => PassedLeavesNoFile
    BY DEF FileInv
  <1> QED
    BY <1>1, FileInvariant, PTL

\* A restore test that failed leaves its file only where the deletion failed,
\* whichever step of the test raised.
THEOREM FailedRestoresCleanUp == Spec => []RestoreCleansUp
  <1>1. FileInv => RestoreCleansUp
    BY DEF FileInv
  <1> QED
    BY <1>1, FileInvariant, PTL

-----------------------------------------------------------------------------
(* One FTP user *)

\* Two threads that use FTP are the same thread.
LEMMA OneUser ==
    ASSUME OneFtpUser, TestTypes, PcInv, SessionInv,
           NEW j \in Job, pc[j] # "done", TestOf(j).server = "FTP",
           NEW k \in Job, pc[k] \in FtpLabel
    PROVE  k = j
  <1>1. idx[j] \in 1..Len(Suite[j]) /\ idx[k] \in 1..Len(Suite[k])
    BY CurrentTest DEF FtpLabel, InFlight
  <1>2. TestOf(k).server = "FTP"
    BY DEF SessionInv, Knows
  <1> QED
    BY <1>1, <1>2 DEF OneFtpUser, TestOf

\* The thread is between two calls of the handler, or between two tests.
Leaves(j) == pc'[j] \in {"open", "save", "done"}

\* An exception or the answer of a server takes the thread there.
LEMMA AnswerLeaves ==
    ASSUME TestTypes, NEW j \in Job,
           Answer(j) \/ Succeeds(j) \/ \E reason \in Reason : Raises(j, reason)
    PROVE  Leaves(j)
  <1>1. ASSUME NEW outcome, EndTest(j, outcome)
        PROVE  Leaves(j)
    BY <1>1 DEF EndTest, Goto, Leaves, TestTypes
  <1>2. ASSUME Goto(j, "open")
        PROVE  Leaves(j)
    BY <1>2 DEF Goto, Leaves, TestTypes
  <1>3. ASSUME NEW reason \in Reason, Raises(j, reason)
        PROVE  Leaves(j)
    BY <1>1, <1>3 DEF Raises
  <1>4. ASSUME Succeeds(j)
        PROVE  Leaves(j)
    BY <1>1, <1>2, <1>3, <1>4 DEF Succeeds, Reason
  <1>5. ASSUME NotFound(j)
        PROVE  Leaves(j)
    BY <1>2, <1>3, <1>5 DEF NotFound, GivesUp, Reason
  <1> QED
    BY <1>3, <1>4, <1>5 DEF Answer

\* A step of the FTP thread: what it knows itself is all there is to show.
LEMMA Alone ==
    ASSUME OneFtpUser, TestTypes, PcInv, SessionInv, NEW j \in Job,
           TestOf(j).server = "FTP", Apart(j), Leaves(j) \/ Knows(j)',
           \A c \in Conn : conn'[c] # "mixed"
    PROVE  SessionInv'
  <1>1. ASSUME NEW k \in Job \ {j}
        PROVE  Knows(k)'
    <2>1. pc[k] \notin FtpLabel
      BY OneUser DEF Apart
    <2>2. pc'[k] \notin FtpLabel
      BY <2>1 DEF Apart
    <2> QED
      BY <2>2 DEF Knows, FtpLabel, InFlight
  <1>2. Leaves(j) => Knows(j)'
    BY DEF Leaves, Knows, FtpLabel, InFlight
  <1> QED
    BY <1>1, <1>2 DEF SessionInv

\* Alone on the connection, a command is never mixed up with another.
LEMMA SendAlone ==
    ASSUME OneFtpUser, TestTypes, SessionTypes, PcInv, SessionInv, NEW j \in Job,
           pc[j] # "done", TestOf(j).server = "FTP", session \in Conn,
           NEW label \in InFlight, Send(j, session, label)
    PROVE  pc'[j] = label /\ held'[j] = session /\ conn' = conn
  <1>1. \A k \in Job \ {j} : pc[k] \notin InFlight
    BY OneUser DEF FtpLabel
  <1>2. conn' = [conn EXCEPT ![session] = conn[session]]
    BY <1>1 DEF Send
  <1>3. conn' = conn
    BY <1>2 DEF SessionTypes
  <1> QED
    BY <1>3 DEF Send, Goto, TestTypes, SessionTypes

\* The FTP thread keeps what it knows, and nobody else can spoil it.
LEMMA SessionStep ==
    OneFtpUser /\ TestTypes /\ SessionTypes /\ PcInv /\ SessionInv /\ [Next]_vars
        => SessionInv'
  <1> SUFFICES ASSUME OneFtpUser, TestTypes, SessionTypes, PcInv, SessionInv, [Next]_vars
               PROVE  SessionInv'
    OBVIOUS
  <1>1. ASSUME NEW j \in Job, JobStep(j)
        PROVE  SessionInv'
    <2>1. Apart(j) /\ pc[j] # "done" /\ Knows(j)
      BY <1>1, StepEffect DEF Effect, Apart, SessionInv
    <2>2. ASSUME UNCHANGED ftpVars, Leaves(j) \/ pc'[j] = "restore"
          PROVE  SessionInv'
      <3>1. pc'[j] \notin FtpLabel
        BY <2>2 DEF Leaves, FtpLabel, InFlight
      <3>2. Knows(j)'
        BY <3>1 DEF Knows, FtpLabel, InFlight
      <3>3. ASSUME NEW k \in Job \ {j}
            PROVE  Knows(k)'
        BY <2>1, <2>2 DEF ftpVars, Apart, SessionInv, Knows, TestOf, Current
      <3> QED
        BY <2>2, <3>2, <3>3 DEF SessionInv, ftpVars
    <2>3. ASSUME TestOf(j).server = "FTP", conn' = conn, Leaves(j) \/ Knows(j)'
          PROVE  SessionInv'
      BY <2>1, <2>3, Alone DEF SessionInv
    <2>4. ASSUME pc[j] \in FtpLabel
          PROVE  TestOf(j).server = "FTP"
      BY <2>1, <2>4 DEF Knows
    <2>5. CASE Save(j)
      <3>1. Leaves(j) \/ pc'[j] = "restore"
        BY <2>5, AnswerLeaves DEF Save, Goto, Leaves, TestTypes, EndTest
      <3> QED
        BY <2>2, <2>5, <3>1 DEF Save
    <2>6. CASE Restore(j)
      <3>1. Leaves(j)
        BY <2>6, AnswerLeaves DEF Reason, Restore, RestoreRaises, Goto, Leaves, TestTypes
      <3> QED
        BY <2>2, <2>6, <3>1 DEF Restore
    <2>7. CASE ScpCommand(j) \/ TftpCommand(j)
      <3>1. Leaves(j)
        BY <2>7, AnswerLeaves DEF ScpCommand, TftpCommand, Reason
      <3> QED
        BY <2>2, <2>7, <3>1 DEF ScpCommand, TftpCommand
    <2>8. CASE OpenFtp(j)
      <3>1. TestOf(j).server = "FTP" /\ UNCHANGED <<idx, session, caused>>
        BY <2>8 DEF OpenFtp, testVars
      <3>2. CASE session = NoConn
        <4>1. conn' = conn /\ pc'[j] = "connect"
          BY <2>8, <3>2 DEF OpenFtp, Goto, TestTypes
        <4> QED
          BY <2>3, <3>1, <4>1 DEF Knows, InFlight, TestOf
      <3>3. CASE session # NoConn
        <4>1. session \in Conn /\ Send(j, session, "list")
          BY <2>8, <3>3 DEF OpenFtp, ProbeSession, SessionTypes
        <4>2. pc'[j] = "list" /\ held'[j] = session /\ conn' = conn
          BY <2>1, <3>1, <4>1, SendAlone DEF InFlight
        <4> QED
          BY <2>3, <3>1, <4>1, <4>2 DEF Knows, TestOf
      <3> QED
        BY <3>2, <3>3
    <2>9. CASE ListReply(j)
      <3>1. pc[j] = "list" /\ UNCHANGED <<session, conn>> /\ TestOf(j).server = "FTP"
        BY <2>4, <2>9 DEF ListReply, FtpLabel, InFlight
      <3>2. held[j] = session /\ session \in Conn /\ conn[session] # "mixed"
        BY <2>1, <3>1 DEF Knows, InFlight, SessionInv
      <3>3. CASE Raises(j, "dead session")
        BY <2>3, <3>1, <3>3, AnswerLeaves DEF Reason
      <3>4. CASE conn[held[j]] \in {"in", "mixed"} /\ Goto(j, "use") /\ UNCHANGED idx
        <4>1. pc'[j] = "use" /\ conn'[session'] = "in"
          BY <3>1, <3>2, <3>4 DEF Goto, TestTypes
        <4> QED
          BY <2>3, <3>1, <3>2, <3>4, <4>1 DEF Knows, InFlight, TestOf
      <3>5. CASE Goto(j, "connect") /\ UNCHANGED idx
        <4>1. pc'[j] = "connect"
          BY <3>5 DEF Goto, TestTypes
        <4> QED
          BY <2>3, <3>1, <3>5, <4>1 DEF Knows, InFlight, TestOf
      <3> QED
        BY <2>9, <3>3, <3>4, <3>5 DEF ListReply
    <2>10. CASE ConnectFtp(j)
      <3> DEFINE c == CHOOSE x \in Conn : x \notin InUse
                 Reconnected == [x \in Conn |-> IF x = c THEN IF FtpLogin THEN "open" ELSE "in"
                                                ELSE IF \E k \in Job : held[k] = x THEN conn[x]
                                                ELSE "closed"]
      <3>1. pc[j] = "connect" /\ TestOf(j).server = "FTP"
        BY <2>4, <2>10 DEF ConnectFtp, FtpLabel
      <3>2. CASE Raises(j, "fault") /\ UNCHANGED <<session, conn>>
        BY <2>3, <3>1, <3>2, AnswerLeaves DEF Reason
      <3>3. CASE /\ session' = c /\ conn' = Reconnected /\ UNCHANGED idx
                 /\ Goto(j, IF FtpLogin THEN "connected" ELSE "use")
        <4>0. c \in Conn
          BY FreshConn
        <4>1. /\ session' \in Conn
              /\ \/ pc'[j] = "connected" /\ conn'[session'] = "open"
                 \/ pc'[j] = "use" /\ conn'[session'] = "in"
          BY <3>3, <4>0 DEF Goto, TestTypes
        <4>2. Knows(j)'
          BY <3>1, <3>3, <4>1 DEF Knows, InFlight, TestOf
        <4>3. \A x \in Conn : conn'[x] # "mixed"
          BY <3>3 DEF SessionInv
        <4> QED
          BY <2>1, <3>1, <4>2, <4>3, Alone
      <3> QED
        BY <2>10, <3>2, <3>3 DEF ConnectFtp
    <2>11. CASE SendLogin(j)
      <3>1. /\ pc[j] = "connected" /\ TestOf(j).server = "FTP" /\ session \in Conn
            /\ Send(j, session, "login") /\ UNCHANGED <<idx, session, caused>>
        BY <2>1, <2>4, <2>11 DEF SendLogin, FtpLabel, Knows, testVars
      <3>2. pc'[j] = "login" /\ held'[j] = session /\ conn' = conn
        BY <2>1, <3>1, SendAlone DEF InFlight
      <3>3. conn'[session'] = "open" \/ Current(j) \in caused
        BY <2>1, <3>1, <3>2 DEF Knows
      <3> QED
        BY <2>3, <3>1, <3>2, <3>3 DEF Knows, InFlight, TestOf, Current
    <2>12. CASE LoginReply(j)
      <3>1. pc[j] = "login" /\ TestOf(j).server = "FTP" /\ UNCHANGED session
        BY <2>4, <2>12 DEF LoginReply, FtpLabel, InFlight
      <3>2. held[j] = session /\ session \in Conn /\ conn[session] # "mixed"
        BY <2>1, <3>1 DEF Knows, InFlight, SessionInv
      <3>3. CASE (Raises(j, "fault") \/ Raises(j, "other thread")) /\ UNCHANGED conn
        BY <2>3, <3>1, <3>3, AnswerLeaves DEF Reason
      <3>4. CASE /\ conn[held[j]] \in {"open", "in", "mixed"}
                 /\ conn' = [conn EXCEPT ![held[j]] = IF conn[held[j]] = "open"
                                                        THEN "in" ELSE conn[held[j]]]
                 /\ Goto(j, "use") /\ UNCHANGED idx
        <4>1. pc'[j] = "use" /\ conn'[session'] = "in" /\ session' \in Conn
          BY <3>1, <3>2, <3>4 DEF Goto, TestTypes, SessionTypes
        <4>2. Knows(j)'
          BY <3>1, <3>4, <4>1 DEF Knows, InFlight, TestOf
        <4>3. \A x \in Conn : conn'[x] # "mixed"
          BY <3>2, <3>4 DEF SessionInv, SessionTypes
        <4> QED
          BY <2>1, <3>1, <4>2, <4>3, Alone
      <3> QED
        BY <2>12, <3>3, <3>4 DEF LoginReply
    <2>13. CASE SendCommand(j)
      <3>1. /\ pc[j] = "use" /\ TestOf(j).server = "FTP" /\ session \in Conn
            /\ Send(j, session, "command") /\ UNCHANGED <<idx, session, caused>>
        BY <2>1, <2>4, <2>13 DEF SendCommand, FtpLabel, Knows, testVars
      <3>2. pc'[j] = "command" /\ held'[j] = session /\ conn' = conn
        BY <2>1, <3>1, SendAlone DEF InFlight
      <3>3. conn'[session'] = "in" \/ Current(j) \in caused
        BY <2>1, <3>1, <3>2 DEF Knows
      <3> QED
        BY <2>3, <3>1, <3>2, <3>3 DEF Knows, InFlight, TestOf, Current
    <2>14. CASE CommandReply(j)
      <3>1. pc[j] = "command" /\ TestOf(j).server = "FTP" /\ conn' = conn
        BY <2>4, <2>14 DEF CommandReply, FtpLabel, InFlight
      <3>2. Leaves(j)
        BY <2>14, AnswerLeaves DEF CommandReply, Reason
      <3> QED
        BY <2>3, <3>1, <3>2
    <2> QED
      BY <1>1, <2>5, <2>6, <2>7, <2>8, <2>9, <2>10, <2>11, <2>12, <2>13, <2>14 DEF JobStep
  <1>2. ASSUME NEW c \in Conn, DropFtp(c)
        PROVE  SessionInv'
    <2>1. PICK how \in {"closed", "eof"} : conn' = [conn EXCEPT ![c] = how]
      BY <1>2 DEF DropFtp
    <2>2. /\ UNCHANGED <<pc, idx, session, held>>
          /\ caused' = caused \cup {Current(k) : k \in {i \in Job : UsesAfterProbe(i, c)}}
      BY <1>2 DEF DropFtp
    <2>3. \A x \in Conn : conn'[x] # "mixed" /\ (x # c => conn'[x] = conn[x])
      BY <2>1 DEF SessionInv, SessionTypes
    <2>4. ASSUME NEW k \in Job
          PROVE  Knows(k)'
      <3>1. Knows(k)
        BY DEF SessionInv
      <3>2. CASE UsesAfterProbe(k, c)
        <4>1. Current(k) \in caused'
          BY <2>2, <3>2
        <4> QED
          BY <2>2, <3>1, <4>1 DEF Knows, TestOf, Current
      <3>3. CASE ~UsesAfterProbe(k, c)
        <4>1. pc[k] \in {"connected", "use", "login", "command"}
                => conn'[session] = conn[session]
          BY <2>3, <3>1, <3>3 DEF UsesAfterProbe, Knows, InFlight
        <4> QED
          BY <2>2, <3>1, <4>1 DEF Knows, TestOf, Current
      <3> QED
        BY <3>2, <3>3
    <2> QED
      BY <2>3, <2>4 DEF SessionInv
  <1>3. CASE (\E t \in TestId : Appear(t)) \/ DropScp \/ Terminated \/ UNCHANGED vars
    <2>1. UNCHANGED <<pc, idx, caused, session, held, conn>>
      BY <1>3 DEF Appear, DropScp, Terminated, vars, testVars, ftpVars
    <2> QED
      BY <2>1 DEF SessionInv, Knows, TestOf, Current
  <1> QED
    BY <1>1, <1>2, <1>3 DEF Next

\* So a test that a refused command ends has lost its connection itself.
LEMMA CauseStep ==
    /\ TestTypes /\ SessionTypes /\ PcInv /\ FileInv
    /\ SessionInv /\ FailureHasCause /\ [Next]_vars
    => FailureHasCause'
  <1> SUFFICES ASSUME TestTypes, SessionTypes, PcInv, FileInv, SessionInv, FailureHasCause,
                      [Next]_vars
               PROVE  FailureHasCause'
    OBVIOUS
  <1>1. ASSUME NEW j \in Job, JobStep(j)
        PROVE  FailureHasCause'
    <2>1. Apart(j) /\ (Continues(j) \/ Fails(j) \/ Passes(j))
      BY <1>1, StepEffect DEF Effect
    <2>2. Refused(j) => Current(j) \in caused
      BY DEF Refused, SessionInv, Knows, InFlight
    <2>3. raised[j] => Current(j) \in caused
      BY DEF FileInv, TestInv
    <2>4. Fails(j) => Current(j) \in caused' \cup stale'
      BY <2>1, <2>2, <2>3 DEF Fails, Apart
    <2>5. ASSUME NEW t \in TestId, result'[t] = "failed"
          PROVE  t \in caused' \cup stale'
      BY <2>1, <2>4, <2>5 DEF Apart, Continues, Passes, Ends, FailureHasCause
    <2> QED
      BY <2>5 DEF FailureHasCause
  <1>2. CASE (\E t \in TestId : Appear(t)) \/ DropScp \/ Terminated \/ UNCHANGED vars
             \/ \E c \in Conn : DropFtp(c)
    <2>1. UNCHANGED result /\ caused \subseteq caused' /\ stale \subseteq stale'
      BY <1>2 DEF Appear, DropScp, DropFtp, Terminated, vars, testVars
    <2> QED
      BY <2>1 DEF FailureHasCause
  <1> QED
    BY <1>1, <1>2 DEF Next

\* With one thread on FTP, a test fails only when a device, a server or a network
\* failed during it, or on a dead session that is never replaced: the probe of the
\* session property replaces every other connection that the server closed.
THEOREM FailuresHaveCauses == OneFtpUser => (Spec => []FailureHasCause)
  <1> SUFFICES ASSUME OneFtpUser
               PROVE  Spec => []FailureHasCause
    OBVIOUS
  <1>1. Init => SessionInv /\ FailureHasCause
    BY DEF Init, SessionInv, Knows, FtpLabel, InFlight, FailureHasCause
  <1>2. TestTypes /\ SessionTypes /\ PcInv /\ SessionInv /\ [Next]_vars => SessionInv'
    BY SessionStep
  <1> QED
    BY <1>1, <1>2, CauseStep, FileInvariant, PTL DEF Spec
==============================================================================
