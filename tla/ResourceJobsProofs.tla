-------------------------- MODULE ResourceJobsProofs --------------------------
(***************************************************************************)
(* Proofs about the jobs of the resource threads, for every set of         *)
(* sandboxes and resources.  Three layers: what the locks alone guarantee; *)
(* what holds when a tested resource belongs to one sandbox; and what      *)
(* holds when, moreover, the device a connectivity test borrows is not     *)
(* tested itself.                                                          *)
(***************************************************************************)
EXTENDS ResourceJobs, TLAPS

\* A resource with tests is named by one sandbox of the config only.
OwnSandbox ==
    \A r \in RunTests : \A s, t \in Sandbox :
        r \in ResourceNames[s] /\ r \in ResourceNames[t] => s = t

\* The other resources of a sandbox with a connectivity test run no tests.
UntestedPartners ==
    \A s \in Sandbox : \A r \in ResourceNames[s] \cap Connectivity :
        \A d \in ResourceNames[s] \ {r} : d \notin RunTests

Testing == {"choose", "waitDut", "connect", "connected", "remove"}
Borrowing == {"connect", "connected", "remove"}

\* A job that loads a resource holds its _autoload_lock.
LoadInv == \A j \in Job : pc[j] \in {"loading", "loaded"} => autoloadLock[j[2]] = j

\* A job inside the connectivity test holds LOCK, and only the resources with
\* such a test get there.
ConnInv ==
    \A j \in Job :
        /\ pc[j] \in Testing => connLock = j /\ j[2] \in Connectivity
        /\ "connectivity" \in todo[j] => j[2] \in Connectivity

LocksInv == TypeOK /\ LoadInv /\ ConnInv

\* A handler points to a sandbox only if the reservation holds its resource,
\* and a tested one only to a sandbox that names it.
AttachedInv ==
    \A r \in Resource : attached[r] \in Sandbox =>
        /\ r \in reserved[attached[r]]
        /\ r \in RunTests => r \in ResourceNames[attached[r]]

\* The device that is chosen is another one of the job's own sandbox.
DutInv ==
    \A j \in Job : pc[j] \in {"waitDut"} \cup Borrowing =>
        dut[j] \in ResourceNames[j[1]] \ {j[2]}

Untested == Resource \ (RunTests \cup stranded)
Free(d) == attached[d] = NoSandbox /\ \A s \in Sandbox : d \notin reserved[s]

\* While a device is borrowed, both handlers point to the sandbox of the job,
\* and no other untested device, and no other sandbox, is involved.
BorrowInv ==
    \A j \in Job : pc[j] \in Borrowing =>
        /\ attached[j[2]] = j[1]
        /\ attached[dut[j]] = j[1]
        /\ \A d \in Untested :
              /\ d # dut[j] => Free(d)
              /\ \A s \in Sandbox \ {j[1]} : d \notin reserved[s]

\* While none is borrowed, every untested device is free.
PartnerInv ==
    (\A j \in Job : pc[j] \notin Borrowing) => \A d \in Untested : Free(d)

SharingInv == AttachedInv /\ DutInv /\ BorrowInv /\ PartnerInv

-----------------------------------------------------------------------------
(* The locks *)

\* A job is a pair of a sandbox and a resource it names.
LEMMA JobPair ==
    /\ \A j \in Job : /\ j[1] \in Sandbox /\ j[2] \in Resource
                      /\ j[2] \in ResourceNames[j[1]]
                      /\ j = <<j[1], j[2]>>
    /\ \A s \in Sandbox : \A r \in ResourceNames[s] : <<s, r>> \in Job
  BY ConfigAssumption DEF Job

\* At the start both locks are free.
LEMMA InitLocks == Init => LocksInv
  BY JobPair, ConfigAssumption, LockAssumption
     DEF Init, LocksInv, TypeOK, LoadInv, ConnInv, Testing

\* Every step keeps the order of autoload and of the connectivity tests.
LEMMA LocksStep == LocksInv /\ [Next]_vars => LocksInv'
  <1> SUFFICES ASSUME LocksInv, [Next]_vars
               PROVE  LocksInv'
    OBVIOUS
  <1> USE JobPair, ConfigAssumption, LockAssumption
      DEF LocksInv, TypeOK, Goto, autoloadVars, sandboxVars, Testing
  <1>s. ASSUME NEW s \in Sandbox, StartSandbox(s)
         PROVE  LocksInv'
    <2>1. TypeOK'
      BY <1>s DEF StartSandbox, Tested
    <2>2. LoadInv'
      BY <1>s DEF StartSandbox, Tested, LoadInv
    <2>3. ConnInv'
      BY <1>s DEF StartSandbox, Tested, ConnInv
    <2> QED
      BY <2>1, <2>2, <2>3
  <1>RunSetup. ASSUME NEW j \in Job, RunSetup(j)
        PROVE  LocksInv'
    <2>0. SuiteTests(j[2]) \subseteq {"command", "connectivity"}
      BY DEF SuiteTests
    <2>a. todo' \in [Job -> SUBSET {"command", "connectivity"}]
      BY <1>RunSetup, <2>0 DEF RunSetup
    <2>b. pc' \in [Job -> {"new", "setup", "suite", "ifNeeded", "wait", "autoload",
                           "acquire", "loading", "loaded", "clear", "choose",
                           "waitDut", "connect", "connected", "remove", "done",
                           "failed"}]
      BY ZenonT(30), <1>RunSetup DEF RunSetup
    <2>1. TypeOK'
      BY <1>RunSetup, <2>a, <2>b DEF RunSetup, MayBreak
    <2>2. LoadInv'
      BY <1>RunSetup DEF RunSetup, SuiteTests, LoadInv
    <2>3. ConnInv'
      BY <1>RunSetup DEF RunSetup, SuiteTests, ConnInv
    <2> QED
      BY <2>1, <2>2, <2>3
  <1>CommandTest. ASSUME NEW j \in Job, CommandTest(j)
        PROVE  LocksInv'
    <2>1. TypeOK'
      BY <1>CommandTest DEF CommandTest, MayBreak
    <2>2. LoadInv'
      BY <1>CommandTest DEF CommandTest, LoadInv
    <2>3. ConnInv'
      BY <1>CommandTest DEF CommandTest, ConnInv
    <2> QED
      BY <2>1, <2>2, <2>3
  <1>RunTeardown. ASSUME NEW j \in Job, RunTeardown(j)
        PROVE  LocksInv'
    <2>1. TypeOK'
      BY <1>RunTeardown DEF RunTeardown, MayBreak
    <2>2. LoadInv'
      BY <1>RunTeardown DEF RunTeardown, LoadInv
    <2>3. ConnInv'
      BY <1>RunTeardown DEF RunTeardown, ConnInv
    <2> QED
      BY <2>1, <2>2, <2>3
  <1>AutoloadIfNeeded. ASSUME NEW j \in Job, AutoloadIfNeeded(j)
        PROVE  LocksInv'
    <2>1. TypeOK'
      BY <1>AutoloadIfNeeded DEF AutoloadIfNeeded
    <2>2. LoadInv'
      BY <1>AutoloadIfNeeded DEF AutoloadIfNeeded, LoadInv
    <2>3. ConnInv'
      BY <1>AutoloadIfNeeded DEF AutoloadIfNeeded, ConnInv
    <2> QED
      BY <2>1, <2>2, <2>3
  <1>WaitFinished. ASSUME NEW j \in Job, WaitFinished(j)
        PROVE  LocksInv'
    <2>1. TypeOK'
      BY <1>WaitFinished DEF WaitFinished
    <2>2. LoadInv'
      BY <1>WaitFinished DEF WaitFinished, LoadInv
    <2>3. ConnInv'
      BY <1>WaitFinished DEF WaitFinished, ConnInv
    <2> QED
      BY <2>1, <2>2, <2>3
  <1>StartAutoload. ASSUME NEW j \in Job, StartAutoload(j)
        PROVE  LocksInv'
    <2>1. TypeOK'
      BY <1>StartAutoload DEF StartAutoload
    <2>2. LoadInv'
      BY <1>StartAutoload DEF StartAutoload, LoadInv
    <2>3. ConnInv'
      BY <1>StartAutoload DEF StartAutoload, ConnInv
    <2> QED
      BY <2>1, <2>2, <2>3
  <1>AcquireAutoloadLock. ASSUME NEW j \in Job, AcquireAutoloadLock(j)
        PROVE  LocksInv'
    <2>1. TypeOK'
      BY <1>AcquireAutoloadLock DEF AcquireAutoloadLock, AutoloadLockFree
    <2>2. LoadInv'
      BY <1>AcquireAutoloadLock DEF AcquireAutoloadLock, AutoloadLockFree, LoadInv
    <2>3. ConnInv'
      BY <1>AcquireAutoloadLock DEF AcquireAutoloadLock, AutoloadLockFree, ConnInv
    <2> QED
      BY <2>1, <2>2, <2>3
  <1>Autoload. ASSUME NEW j \in Job, Autoload(j)
        PROVE  LocksInv'
    <2>1. TypeOK'
      BY <1>Autoload DEF Autoload
    <2>2. LoadInv'
      BY <1>Autoload DEF Autoload, LoadInv
    <2>3. ConnInv'
      BY <1>Autoload DEF Autoload, ConnInv
    <2> QED
      BY <2>1, <2>2, <2>3
  <1>FinishAutoload. ASSUME NEW j \in Job, FinishAutoload(j)
        PROVE  LocksInv'
    <2>1. TypeOK'
      BY <1>FinishAutoload DEF FinishAutoload, AfterAutoload
    <2>2. LoadInv'
      BY <1>FinishAutoload DEF FinishAutoload, AfterAutoload, LoadInv
    <2>3. ConnInv'
      BY <1>FinishAutoload DEF FinishAutoload, AfterAutoload, ConnInv
    <2> QED
      BY <2>1, <2>2, <2>3
  <1>ClearStarted. ASSUME NEW j \in Job, ClearStarted(j)
        PROVE  LocksInv'
    <2>1. TypeOK'
      BY <1>ClearStarted DEF ClearStarted, AfterAutoload
    <2>2. LoadInv'
      BY <1>ClearStarted DEF ClearStarted, AfterAutoload, LoadInv
    <2>3. ConnInv'
      BY <1>ClearStarted DEF ClearStarted, AfterAutoload, ConnInv
    <2> QED
      BY <2>1, <2>2, <2>3
  <1>SkipBroken. ASSUME NEW j \in Job, SkipBroken(j)
        PROVE  LocksInv'
    <2>1. TypeOK'
      BY <1>SkipBroken DEF SkipBroken
    <2>2. LoadInv'
      BY <1>SkipBroken DEF SkipBroken, LoadInv
    <2>3. ConnInv'
      BY <1>SkipBroken DEF SkipBroken, ConnInv
    <2> QED
      BY <2>1, <2>2, <2>3
  <1>AcquireConnLock. ASSUME NEW j \in Job, AcquireConnLock(j)
        PROVE  LocksInv'
    <2>1. TypeOK'
      BY <1>AcquireConnLock DEF AcquireConnLock, ConnLockFree
    <2>2. LoadInv'
      BY <1>AcquireConnLock DEF AcquireConnLock, ConnLockFree, LoadInv
    <2>3. ConnInv'
      BY <1>AcquireConnLock DEF AcquireConnLock, ConnLockFree, ConnInv
    <2> QED
      BY <2>1, <2>2, <2>3
  <1>ChooseDut. ASSUME NEW j \in Job, ChooseDut(j)
        PROVE  LocksInv'
    <2>0. attached[j[2]] \in Sandbox => OtherDevice(j[2]) \subseteq Resource
      BY DEF OtherDevice
    <2>a. dut' \in [Job -> Resource]
      BY <1>ChooseDut, <2>0 DEF ChooseDut
    <2>1. TypeOK'
      BY <1>ChooseDut, <2>a DEF ChooseDut, ReleaseConnLock
    <2>2. LoadInv'
      BY <1>ChooseDut DEF ChooseDut, ReleaseConnLock, OtherDevice, LoadInv
    <2>3. ConnInv'
      BY <1>ChooseDut DEF ChooseDut, ReleaseConnLock, OtherDevice, ConnInv
    <2> QED
      BY <2>1, <2>2, <2>3
  <1>AddDut. ASSUME NEW j \in Job, AddDut(j)
        PROVE  LocksInv'
    <2>a. attached' \in [Resource -> Sandbox \cup {NoSandbox}]
      BY <1>AddDut DEF AddDut
    <2>b. \A s \in Sandbox : reserved[s] \cup {dut[j]} \subseteq Resource
      OBVIOUS
    <2>c. reserved' \in [Sandbox -> SUBSET Resource]
      BY <1>AddDut, <2>b DEF AddDut
    <2>1. TypeOK'
      BY <1>AddDut, <2>a, <2>c DEF AddDut, ReleaseConnLock
    <2>2. LoadInv'
      BY <1>AddDut DEF AddDut, ReleaseConnLock, LoadInv
    <2>3. ConnInv'
      BY <1>AddDut DEF AddDut, ReleaseConnLock, ConnInv
    <2> QED
      BY <2>1, <2>2, <2>3
  <1>Connect. ASSUME NEW j \in Job, Connect(j)
        PROVE  LocksInv'
    <2>1. TypeOK'
      BY <1>Connect DEF Connect
    <2>2. LoadInv'
      BY <1>Connect DEF Connect, LoadInv
    <2>3. ConnInv'
      BY <1>Connect DEF Connect, ConnInv
    <2> QED
      BY <2>1, <2>2, <2>3
  <1>Disconnect. ASSUME NEW j \in Job, Disconnect(j)
        PROVE  LocksInv'
    <2>1. TypeOK'
      BY <1>Disconnect DEF Disconnect
    <2>2. LoadInv'
      BY <1>Disconnect DEF Disconnect, LoadInv
    <2>3. ConnInv'
      BY <1>Disconnect DEF Disconnect, ConnInv
    <2> QED
      BY <2>1, <2>2, <2>3
  <1>RemoveDut. ASSUME NEW j \in Job, RemoveDut(j)
        PROVE  LocksInv'
    <2>1. TypeOK'
      BY <1>RemoveDut DEF RemoveDut, ReleaseConnLock, Detach
    <2>2. LoadInv'
      BY <1>RemoveDut DEF RemoveDut, ReleaseConnLock, Detach, LoadInv
    <2>3. ConnInv'
      BY <1>RemoveDut DEF RemoveDut, ReleaseConnLock, Detach, ConnInv
    <2> QED
      BY <2>1, <2>2, <2>3
  <1>u. CASE UNCHANGED vars
    BY <1>u DEF vars, LoadInv, ConnInv
  <1> QED
    BY <1>s, <1>RunSetup, <1>CommandTest, <1>RunTeardown, <1>AutoloadIfNeeded,
       <1>WaitFinished, <1>StartAutoload, <1>AcquireAutoloadLock, <1>Autoload,
       <1>FinishAutoload, <1>ClearStarted, <1>SkipBroken, <1>AcquireConnLock,
       <1>ChooseDut, <1>AddDut, <1>Connect, <1>Disconnect, <1>RemoveDut, <1>u
       DEF Next, JobStep, ConnectivityStep, Terminated

\* So the locks are held as described in every reachable state.
LEMMA LocksInvariant == Spec => []LocksInv
  BY InitLocks, LocksStep, PTL DEF Spec

\* The jobs and the handlers keep their types.
THEOREM ResourceJobTypes == Spec => []TypeOK
  BY LocksInvariant, PTL DEF LocksInv

\* _autoload_lock alone keeps the autoloads of a resource apart, whatever the
\* sandboxes name and whatever autoload_if_needed reads of the events.
THEOREM AutoloadsAreSerialised == Spec => []OneAutoload
  <1>1. LocksInv => OneAutoload
    BY DEF LocksInv, LoadInv, OneAutoload
  <1> QED
    BY <1>1, LocksInvariant, PTL

-----------------------------------------------------------------------------
(* The borrowed device *)

\* At the start nothing is attached, reserved or borrowed.
LEMMA InitSharing == Init => SharingInv
  BY JobPair, ConfigAssumption
     DEF Init, SharingInv, AttachedInv, DutInv, BorrowInv, PartnerInv, Borrowing,
         Untested, Free

\* A step that leaves the handlers, the reservations and the DUTs alone, and in
\* which no job starts or stops borrowing, disturbs nothing.
LEMMA QuietStep ==
    ASSUME SharingInv, UNCHANGED <<dut, attached, reserved, stranded>>,
           \A j \in Job : /\ pc'[j] \in Borrowing <=> pc[j] \in Borrowing
                          /\ pc'[j] = "waitDut" => pc[j] = "waitDut"
    PROVE  SharingInv'
  BY DEF SharingInv, AttachedInv, DutInv, BorrowInv, PartnerInv, Untested, Free

\* The tested resource of a job points to the job's own sandbox or to none.
LEMMA OwnAttached ==
    ASSUME OwnSandbox, AttachedInv, NEW j \in Job, j[2] \in RunTests,
           attached[j[2]] \in Sandbox
    PROVE  attached[j[2]] = j[1]
  BY JobPair DEF OwnSandbox, AttachedInv

\* A sandbox thread that starts does not touch the resources of a job that
\* is already running.
LEMMA StartElsewhere ==
    ASSUME OwnSandbox, LocksInv, NEW s \in Sandbox, StartSandbox(s),
           NEW j \in Job, pc[j] # "new"
    PROVE  /\ j[1] # s
           /\ \A r \in ResourceNames[j[1]] : r \notin Tested(s)
  <1>1. j[1] # s
    BY JobPair DEF StartSandbox
  <1> QED
    BY <1>1, JobPair, ConfigAssumption DEF OwnSandbox, Tested

\* With one sandbox for each tested resource, every step keeps who is attached to
\* what, and who borrows whom.
LEMMA SharingStep ==
    OwnSandbox /\ LocksInv /\ LocksInv' /\ SharingInv /\ [Next]_vars => SharingInv'
  <1> SUFFICES ASSUME OwnSandbox, LocksInv, LocksInv', SharingInv, [Next]_vars
               PROVE  SharingInv'
    OBVIOUS
  <1> USE JobPair, ConfigAssumption, LockAssumption DEF Borrowing
  <1>t. TypeOK
    BY DEF LocksInv
  <1>1. ASSUME NEW s \in Sandbox, StartSandbox(s)
        PROVE  SharingInv'
    <2>1. /\ attached' = [r \in Resource |-> IF r \in Tested(s) THEN s ELSE attached[r]]
          /\ reserved' = [reserved EXCEPT ![s] = @ \cup Tested(s)]
          /\ UNCHANGED <<dut, stranded>>
          /\ \A j \in Job : pc'[j] # pc[j] => pc[j] = "new" /\ pc'[j] = "setup"
      BY <1>1 DEF StartSandbox
    <2>2. Tested(s) \subseteq RunTests \cap Resource /\ Tested(s) \subseteq ResourceNames[s]
      BY DEF Tested
    <2>3. AttachedInv'
      BY <1>t, <2>1, <2>2 DEF SharingInv, AttachedInv, TypeOK
    <2>4. DutInv'
      BY <2>1 DEF SharingInv, DutInv
    <2>5. \A d \in Untested' : attached'[d] = attached[d]
                               /\ \A t \in Sandbox : d \in reserved'[t] => d \in reserved[t]
      BY <1>t, <2>1, <2>2 DEF Untested, TypeOK
    <2>6. PartnerInv'
      BY <2>1, <2>5 DEF SharingInv, PartnerInv, Untested, Free
    <2>7. ASSUME NEW j \in Job, pc'[j] \in Borrowing
          PROVE  /\ attached'[j[2]] = j[1]
                 /\ attached'[dut'[j]] = j[1]
      <3>1. pc[j] \in Borrowing /\ pc[j] # "new" /\ dut[j] \in ResourceNames[j[1]]
        BY <2>1, <2>7 DEF SharingInv, DutInv
      <3>2. \A r \in ResourceNames[j[1]] : attached'[r] = attached[r]
        BY <1>1, <2>1, <3>1, StartElsewhere
      <3> QED
        BY <2>1, <3>1, <3>2 DEF SharingInv, BorrowInv
    <2>8. BorrowInv'
      BY <2>1, <2>5, <2>7 DEF SharingInv, BorrowInv, Untested, Free
    <2> QED
      BY <2>3, <2>4, <2>6, <2>8 DEF SharingInv
  <1>2. ASSUME NEW j \in Job, ChooseDut(j)
        PROVE  SharingInv'
    <2>1. pc[j] = "choose" /\ j[2] \in RunTests
      BY <1>2 DEF ChooseDut, LocksInv, ConnInv, Testing
    <2>2. /\ UNCHANGED <<attached, reserved, stranded>>
          /\ pc'[j] \in {"waitDut", "suite"}
          /\ \A i \in Job \ {j} : pc'[i] = pc[i] /\ dut'[i] = dut[i]
      BY <1>2, <1>t DEF ChooseDut, ReleaseConnLock, Goto, sandboxVars, TypeOK
    <2>3. pc'[j] = "waitDut" => dut'[j] \in ResourceNames[j[1]] \ {j[2]}
      <3> SUFFICES ASSUME pc'[j] = "waitDut"
                   PROVE  dut'[j] \in ResourceNames[j[1]] \ {j[2]}
        OBVIOUS
      <3>1. attached[j[2]] \in Sandbox /\ dut'[j] \in OtherDevice(j[2])
        BY <1>2, <1>t DEF ChooseDut, ReleaseConnLock, Goto, TypeOK
      <3>2. attached[j[2]] = j[1]
        BY <2>1, <3>1, OwnAttached DEF SharingInv
      <3> QED
        BY <3>1, <3>2 DEF OtherDevice
    <2>4. AttachedInv' /\ PartnerInv'
      BY <2>1, <2>2 DEF SharingInv, AttachedInv, PartnerInv, Untested, Free
    <2>5. DutInv'
      BY <2>2, <2>3 DEF SharingInv, DutInv
    <2>6. BorrowInv'
      BY <2>1, <2>2 DEF SharingInv, BorrowInv, Untested, Free
    <2> QED
      BY <2>4, <2>5, <2>6 DEF SharingInv
  <1>3. ASSUME NEW j \in Job, AddDut(j)
        PROVE  SharingInv'
    <2>1. pc[j] = "waitDut" /\ j[2] \in RunTests /\ dut[j] \in ResourceNames[j[1]] \ {j[2]}
      BY <1>3 DEF AddDut, LocksInv, ConnInv, Testing, SharingInv, DutInv
    <2>2. \A i \in Job : pc[i] \notin Borrowing
      BY <1>3, <2>1 DEF LocksInv, ConnInv, Testing
    <2>3. \A d \in Untested : Free(d)
      BY <2>2 DEF SharingInv, PartnerInv
    <2>4. CASE attached' = attached /\ reserved' = reserved /\ pc' = [pc EXCEPT ![j] = "suite"]
      <3>1. \A i \in Job : pc'[i] \notin Borrowing /\ (pc'[i] = "waitDut" => pc[i] = "waitDut")
        BY <1>t, <2>1, <2>2, <2>4 DEF TypeOK
      <3> QED
        BY <1>3, <2>2, <2>4, <3>1, QuietStep DEF AddDut
    <2>5. CASE /\ attached[j[2]] \in Sandbox
               /\ reserved' = [reserved EXCEPT ![attached[j[2]]] = @ \cup {dut[j]}]
               /\ attached' = [attached EXCEPT ![dut[j]] = attached[j[2]]]
               /\ pc' = [pc EXCEPT ![j] = "connect"]
      <3>1. attached[j[2]] = j[1]
        BY <2>1, <2>5, OwnAttached DEF SharingInv
      <3>2. UNCHANGED <<dut, stranded>>
        BY <1>3 DEF AddDut
      <3>3. \A i \in Job : i # j => pc'[i] = pc[i]
        BY <1>t, <2>5 DEF TypeOK
      <3>4. AttachedInv'
        BY <1>t, <2>1, <2>5, <3>1 DEF SharingInv, AttachedInv, TypeOK
      <3>5. DutInv'
        BY <1>t, <2>1, <2>5, <3>2, <3>3 DEF SharingInv, DutInv, TypeOK
      <3>6. PartnerInv'
        BY <1>t, <2>5 DEF PartnerInv, TypeOK
      <3>7. attached'[j[2]] = j[1] /\ attached'[dut[j]] = j[1]
        BY <1>t, <2>1, <2>5, <3>1 DEF TypeOK
      <3>8. \A d \in Untested' : /\ d # dut[j] => Free(d)'
                                 /\ \A s \in Sandbox \ {j[1]} : d \notin reserved'[s]
        BY <1>t, <2>3, <2>5, <3>1, <3>2 DEF Untested, Free, TypeOK
      <3>9. BorrowInv'
        BY <2>2, <3>2, <3>3, <3>7, <3>8 DEF BorrowInv
      <3> QED
        BY <3>4, <3>5, <3>6, <3>9 DEF SharingInv
    <2> QED
      BY <1>3, <2>4, <2>5 DEF AddDut, ReleaseConnLock, Goto
  <1>4. ASSUME NEW j \in Job, RemoveDut(j)
        PROVE  SharingInv'
    <2>1. pc[j] = "remove" /\ dut[j] \in ResourceNames[j[1]] \ {j[2]}
      BY <1>4 DEF RemoveDut, SharingInv, DutInv
    <2>2. attached[j[2]] = j[1] /\ attached[dut[j]] = j[1]
      BY <2>1 DEF SharingInv, BorrowInv
    <2>3. \A d \in Untested : /\ d # dut[j] => Free(d)
                              /\ \A s \in Sandbox \ {j[1]} : d \notin reserved[s]
      BY <2>1 DEF SharingInv, BorrowInv
    <2>4. /\ pc'[j] = "suite" /\ UNCHANGED dut
          /\ \A i \in Job \ {j} : pc'[i] = pc[i] /\ pc'[i] \notin Borrowing
      BY <1>4, <1>t, <2>1
         DEF RemoveDut, ReleaseConnLock, Goto, TypeOK, LocksInv, ConnInv, Testing
    <2>5. DutInv' /\ BorrowInv'
      BY <2>4 DEF SharingInv, DutInv, BorrowInv
    <2>6. AttachedInv'
      BY SMTT(30), <1>4, <1>t, <2>1, <2>2 DEF RemoveDut, Detach, SharingInv, AttachedInv, TypeOK
    <2>7. \A d \in Untested' : Free(d)'
      <3>1. CASE Detach(j[2], dut[j]) /\ UNCHANGED stranded
        BY <1>t, <2>1, <2>2, <2>3, <3>1 DEF Detach, Untested, Free, TypeOK
      <3>2. CASE stranded' = stranded \cup {dut[j]} /\ UNCHANGED <<attached, reserved>>
        BY <2>3, <3>2 DEF Untested, Free
      <3> QED
        BY <1>4, <3>1, <3>2 DEF RemoveDut
    <2> QED
      BY <2>5, <2>6, <2>7 DEF SharingInv, PartnerInv
  <1>RunSetup. ASSUME NEW j \in Job, RunSetup(j)
        PROVE  SharingInv'
    BY <1>RunSetup, <1>t, QuietStep DEF RunSetup, Goto, sandboxVars, TypeOK
  <1>CommandTest. ASSUME NEW j \in Job, CommandTest(j)
        PROVE  SharingInv'
    BY <1>CommandTest, <1>t, QuietStep DEF CommandTest, Goto, sandboxVars, TypeOK
  <1>RunTeardown. ASSUME NEW j \in Job, RunTeardown(j)
        PROVE  SharingInv'
    BY <1>RunTeardown, <1>t, QuietStep DEF RunTeardown, Goto, sandboxVars, TypeOK
  <1>AutoloadIfNeeded. ASSUME NEW j \in Job, AutoloadIfNeeded(j)
        PROVE  SharingInv'
    BY <1>AutoloadIfNeeded, <1>t, QuietStep
       DEF AutoloadIfNeeded, Goto, sandboxVars, TypeOK
  <1>WaitFinished. ASSUME NEW j \in Job, WaitFinished(j)
        PROVE  SharingInv'
    BY <1>WaitFinished, <1>t, QuietStep DEF WaitFinished, Goto, sandboxVars, TypeOK
  <1>StartAutoload. ASSUME NEW j \in Job, StartAutoload(j)
        PROVE  SharingInv'
    BY <1>StartAutoload, <1>t, QuietStep DEF StartAutoload, Goto, sandboxVars, TypeOK
  <1>AcquireAutoloadLock. ASSUME NEW j \in Job, AcquireAutoloadLock(j)
        PROVE  SharingInv'
    BY <1>AcquireAutoloadLock, <1>t, QuietStep
       DEF AcquireAutoloadLock, Goto, sandboxVars, TypeOK
  <1>Autoload. ASSUME NEW j \in Job, Autoload(j)
        PROVE  SharingInv'
    BY <1>Autoload, <1>t, QuietStep DEF Autoload, Goto, sandboxVars, TypeOK
  <1>FinishAutoload. ASSUME NEW j \in Job, FinishAutoload(j)
        PROVE  SharingInv'
    BY <1>FinishAutoload, <1>t, QuietStep
       DEF FinishAutoload, Goto, sandboxVars, TypeOK, AfterAutoload
  <1>ClearStarted. ASSUME NEW j \in Job, ClearStarted(j)
        PROVE  SharingInv'
    BY <1>ClearStarted, <1>t, QuietStep
       DEF ClearStarted, Goto, sandboxVars, TypeOK, AfterAutoload
  <1>SkipBroken. ASSUME NEW j \in Job, SkipBroken(j)
        PROVE  SharingInv'
    BY <1>SkipBroken, <1>t, QuietStep DEF SkipBroken, Goto, sandboxVars, TypeOK
  <1>AcquireConnLock. ASSUME NEW j \in Job, AcquireConnLock(j)
        PROVE  SharingInv'
    BY <1>AcquireConnLock, <1>t, QuietStep DEF AcquireConnLock, Goto, sandboxVars, TypeOK
  <1>Connect. ASSUME NEW j \in Job, Connect(j)
        PROVE  SharingInv'
    BY <1>Connect, <1>t, QuietStep DEF Connect, Goto, sandboxVars, TypeOK
  <1>Disconnect. ASSUME NEW j \in Job, Disconnect(j)
        PROVE  SharingInv'
    BY <1>Disconnect, <1>t, QuietStep DEF Disconnect, Goto, sandboxVars, TypeOK
  <1>u. CASE UNCHANGED vars
    BY <1>u, QuietStep DEF vars, sandboxVars
  <1> QED
    BY <1>1, <1>2, <1>3, <1>4, <1>RunSetup, <1>CommandTest, <1>RunTeardown,
       <1>AutoloadIfNeeded, <1>WaitFinished, <1>StartAutoload, <1>AcquireAutoloadLock,
       <1>Autoload, <1>FinishAutoload, <1>ClearStarted, <1>SkipBroken,
       <1>AcquireConnLock, <1>Connect, <1>Disconnect, <1>u
       DEF Next, JobStep, ConnectivityStep, Terminated

\* So attachment and borrowing are as described in every reachable state.
LEMMA SharingInvariant == OwnSandbox => (Spec => [](LocksInv /\ SharingInv))
  <1> SUFFICES ASSUME OwnSandbox
               PROVE  Spec => [](LocksInv /\ SharingInv)
    OBVIOUS
  <1>1. LocksInv /\ LocksInv' /\ SharingInv /\ [Next]_vars => SharingInv'
    BY SharingStep
  <1> QED
    BY <1>1, InitSharing, LocksInvariant, PTL DEF Spec

\* When each tested resource has one sandbox, ports are only ever connected in
\* the reservation of the sandbox that runs the test, which holds both devices;
\* the devices may be tested themselves and shared between sandboxes.
THEOREM ConnectionsAreSound == OwnSandbox => (Spec => []ConnectedIsSound)
  <1>1. LocksInv /\ SharingInv => ConnectedIsSound
    BY JobPair, ConfigAssumption
       DEF LocksInv, TypeOK, SharingInv, AttachedInv, DutInv, BorrowInv, Borrowing,
           ConnectedIsSound
  <1> QED
    BY <1>1, SharingInvariant, PTL

\* Under the same condition the finally clause of dut_handler returns every
\* untested device, whichever step of the connectivity test fails.
THEOREM PartnersAreReturned == OwnSandbox => (Spec => []PartnerReturned)
  <1>1. LocksInv /\ SharingInv => PartnerReturned
    <2> SUFFICES ASSUME LocksInv, SharingInv, connLock = Nobody
                 PROVE  \A d \in Untested : Free(d)
      BY DEF PartnerReturned, Untested, Free
    <2>1. \A j \in Job : pc[j] \notin Borrowing
      BY LockAssumption DEF LocksInv, ConnInv, Testing, Borrowing
    <2> QED
      BY <2>1 DEF SharingInv, PartnerInv
  <1> QED
    BY <1>1, SharingInvariant, PTL

-----------------------------------------------------------------------------
(* The resource under test *)

\* With untested partners, no step of another job detaches a resource under test.
LEMMA StaysStep ==
    OwnSandbox /\ UntestedPartners /\ LocksInv /\ SharingInv /\ StaysAttached
        /\ [Next]_vars => StaysAttached'
  <1> SUFFICES ASSUME OwnSandbox, UntestedPartners, LocksInv, SharingInv,
                      StaysAttached, [Next]_vars,
                      NEW i \in Job, i[2] \in RunTests,
                      pc'[i] \notin {"new", "done", "failed"}
               PROVE  attached'[i[2]] = i[1] /\ i[2] \in reserved'[i[1]]
    BY DEF StaysAttached
  <1> USE JobPair, ConfigAssumption, LockAssumption DEF TypeOK, Goto, sandboxVars
  <1>t. TypeOK
    BY DEF LocksInv
  <1>1. ASSUME NEW s \in Sandbox, StartSandbox(s)
        PROVE  attached'[i[2]] = i[1] /\ i[2] \in reserved'[i[1]]
    <2>1. CASE i[1] = s
      BY <1>1, <1>t, <2>1 DEF StartSandbox, Tested
    <2>2. CASE i[1] # s
      <3>1. pc'[i] = pc[i]
        BY <1>1, <2>2 DEF StartSandbox
      <3>2. i[2] \notin Tested(s)
        BY <1>1, <3>1, StartElsewhere
      <3> QED
        BY <1>1, <1>t, <2>2, <3>1, <3>2 DEF StartSandbox, StaysAttached
    <2> QED
      BY <2>1, <2>2
  <1>2. ASSUME NEW j \in Job, AddDut(j)
        PROVE  attached'[i[2]] = i[1] /\ i[2] \in reserved'[i[1]]
    <2>1. dut[j] \notin RunTests
      BY <1>2 DEF AddDut, LocksInv, ConnInv, Testing, SharingInv, DutInv, UntestedPartners
    <2>2. attached[i[2]] = i[1] /\ i[2] \in reserved[i[1]]
      BY <1>2, <1>t DEF AddDut, ReleaseConnLock, StaysAttached
    <2> QED
      BY <1>2, <1>t, <2>1, <2>2 DEF AddDut
  <1>3. ASSUME NEW j \in Job, RemoveDut(j)
        PROVE  attached'[i[2]] = i[1] /\ i[2] \in reserved'[i[1]]
    <2>1. dut[j] \notin RunTests
      BY <1>3 DEF RemoveDut, LocksInv, ConnInv, Testing, SharingInv, DutInv, Borrowing,
                  UntestedPartners
    <2>2. attached[i[2]] = i[1] /\ i[2] \in reserved[i[1]]
      BY <1>3, <1>t DEF RemoveDut, ReleaseConnLock, StaysAttached
    <2> QED
      BY <1>3, <1>t, <2>1, <2>2 DEF RemoveDut, Detach
  <1>RunSetup. ASSUME NEW j \in Job, RunSetup(j)
        PROVE  attached'[i[2]] = i[1] /\ i[2] \in reserved'[i[1]]
    BY <1>RunSetup, <1>t DEF RunSetup, StaysAttached
  <1>CommandTest. ASSUME NEW j \in Job, CommandTest(j)
        PROVE  attached'[i[2]] = i[1] /\ i[2] \in reserved'[i[1]]
    BY <1>CommandTest, <1>t DEF CommandTest, StaysAttached
  <1>RunTeardown. ASSUME NEW j \in Job, RunTeardown(j)
        PROVE  attached'[i[2]] = i[1] /\ i[2] \in reserved'[i[1]]
    BY <1>RunTeardown, <1>t DEF RunTeardown, StaysAttached
  <1>AutoloadIfNeeded. ASSUME NEW j \in Job, AutoloadIfNeeded(j)
        PROVE  attached'[i[2]] = i[1] /\ i[2] \in reserved'[i[1]]
    BY <1>AutoloadIfNeeded, <1>t DEF AutoloadIfNeeded, StaysAttached
  <1>WaitFinished. ASSUME NEW j \in Job, WaitFinished(j)
        PROVE  attached'[i[2]] = i[1] /\ i[2] \in reserved'[i[1]]
    BY <1>WaitFinished, <1>t DEF WaitFinished, StaysAttached
  <1>StartAutoload. ASSUME NEW j \in Job, StartAutoload(j)
        PROVE  attached'[i[2]] = i[1] /\ i[2] \in reserved'[i[1]]
    BY <1>StartAutoload, <1>t DEF StartAutoload, StaysAttached
  <1>AcquireAutoloadLock. ASSUME NEW j \in Job, AcquireAutoloadLock(j)
        PROVE  attached'[i[2]] = i[1] /\ i[2] \in reserved'[i[1]]
    BY <1>AcquireAutoloadLock, <1>t DEF AcquireAutoloadLock, StaysAttached
  <1>Autoload. ASSUME NEW j \in Job, Autoload(j)
        PROVE  attached'[i[2]] = i[1] /\ i[2] \in reserved'[i[1]]
    BY <1>Autoload, <1>t DEF Autoload, StaysAttached
  <1>FinishAutoload. ASSUME NEW j \in Job, FinishAutoload(j)
        PROVE  attached'[i[2]] = i[1] /\ i[2] \in reserved'[i[1]]
    BY <1>FinishAutoload, <1>t DEF FinishAutoload, StaysAttached, AfterAutoload
  <1>ClearStarted. ASSUME NEW j \in Job, ClearStarted(j)
        PROVE  attached'[i[2]] = i[1] /\ i[2] \in reserved'[i[1]]
    BY <1>ClearStarted, <1>t DEF ClearStarted, StaysAttached, AfterAutoload
  <1>SkipBroken. ASSUME NEW j \in Job, SkipBroken(j)
        PROVE  attached'[i[2]] = i[1] /\ i[2] \in reserved'[i[1]]
    BY <1>SkipBroken, <1>t DEF SkipBroken, StaysAttached
  <1>AcquireConnLock. ASSUME NEW j \in Job, AcquireConnLock(j)
        PROVE  attached'[i[2]] = i[1] /\ i[2] \in reserved'[i[1]]
    BY <1>AcquireConnLock, <1>t DEF AcquireConnLock, StaysAttached
  <1>ChooseDut. ASSUME NEW j \in Job, ChooseDut(j)
        PROVE  attached'[i[2]] = i[1] /\ i[2] \in reserved'[i[1]]
    BY <1>ChooseDut, <1>t DEF ChooseDut, StaysAttached, ReleaseConnLock
  <1>Connect. ASSUME NEW j \in Job, Connect(j)
        PROVE  attached'[i[2]] = i[1] /\ i[2] \in reserved'[i[1]]
    BY <1>Connect, <1>t DEF Connect, StaysAttached
  <1>Disconnect. ASSUME NEW j \in Job, Disconnect(j)
        PROVE  attached'[i[2]] = i[1] /\ i[2] \in reserved'[i[1]]
    BY <1>Disconnect, <1>t DEF Disconnect, StaysAttached
  <1>u. CASE UNCHANGED vars
    BY <1>u DEF vars, StaysAttached
  <1> QED
    BY <1>1, <1>2, <1>3, <1>RunSetup, <1>CommandTest, <1>RunTeardown,
       <1>AutoloadIfNeeded, <1>WaitFinished, <1>StartAutoload, <1>AcquireAutoloadLock,
       <1>Autoload, <1>FinishAutoload, <1>ClearStarted, <1>SkipBroken,
       <1>AcquireConnLock, <1>ChooseDut, <1>Connect, <1>Disconnect, <1>u
       DEF Next, JobStep, ConnectivityStep, Terminated

\* When no connectivity test borrows a resource that is tested itself, a resource
\* under test stays in the reservation of its sandbox until its job ends.  The
\* condition is needed: the run of the tested partner violates the property.
THEOREM TestedResourcesStay ==
    OwnSandbox /\ UntestedPartners => (Spec => []StaysAttached)
  <1> SUFFICES ASSUME OwnSandbox, UntestedPartners
               PROVE  Spec => []StaysAttached
    OBVIOUS
  <1>1. Init => StaysAttached
    BY DEF Init, StaysAttached
  <1>2. LocksInv /\ SharingInv /\ StaysAttached /\ [Next]_vars => StaysAttached'
    BY StaysStep
  <1> QED
    BY <1>1, <1>2, SharingInvariant, PTL DEF Spec
=============================================================================
