------------------------ MODULE HandlerStorageProofs ------------------------
(***************************************************************************)
(* Proofs about HandlerStorage, for every configuration.  All but the      *)
(* types rest on the lock that cached_property holds up to Python 3.11     *)
(* (DescriptorLock).                                                       *)
(***************************************************************************)
EXTENDS HandlerStorage, TLAPS

Early == {"check", "init", "submit", "collect"}

\* The labels of each thread, and what it can be building there.
PcInv ==
    /\ pc[MainThread] \in Early \cup {"cleanup", "running", "final", "finish",
                                      "returned", "raised"}
    /\ kind[MainThread] = "sandbox"
    /\ \A t \in Sandbox :
        /\ pc[t] \in Early \cup {"idle", "enter", "drain", "cleanup", "lookup", "add",
                                 "testing", "done", "failed", "keyerror"}
        /\ kind[t] \in {"resource", "shell"}
        /\ pc[t] \in {"idle", "enter", "drain"} => kind[t] = "resource"

\* The main thread builds and finishes alone: the sandbox threads run only
\* while it waits for them.
OrderInv ==
    /\ pc[MainThread] \in Early \cup {"cleanup", "final"} =>
         \A t \in Sandbox : pc[t] = "idle"
    /\ pc[MainThread] \in {"finish", "returned", "raised"} =>
         \A t \in Sandbox : pc[t] = "idle" \/ ThreadEnded(t)

Inside == Early \cup {"drain", "cleanup", "lookup", "add"}

\* The thread inside the cached property holds its lock.
LockInv == \A t \in Sandbox : pc[t] \in Inside => lock = t

\* The thread has found the resource list missing and has not given it up yet.
Building(t) ==
    \/ pc[t] \in {"init", "submit", "drain", "collect", "cleanup"}
    \/ pc[t] = "check" /\ kind[t] = "shell"

\* The thread has found the resource list there, or has built it.
Passed(t) == pc[t] \in {"lookup", "add", "testing", "done"}

\* A list is built once, and nobody passes while the resource list is built.
BuildInv ==
    /\ \A t \in Thread :
        /\ pc[t] = "init" => ~built[kind[t]]
        /\ pc[t] \in {"submit", "drain", "collect", "cleanup"} => built[kind[t]]
    /\ \A t \in Sandbox :
        /\ kind[t] = "shell" => built["resource"]
        /\ Passed(t) => built["resource"] /\ \A u \in Sandbox : ~Building(u)

Unsubmitted(k) == \A u \in Thread : \A x \in ItemsOf(k) : future[u][x] = "none"

\* The futures of a list do not exist before its builder submits them.
FreshInv ==
    /\ \A k \in Kind : ~built[k] => Unsubmitted(k)
    /\ \A t \in Thread : pc[t] = "submit" => Unsubmitted(kind[t])
    /\ \A t \in Sandbox : Building(t) /\ kind[t] = "shell" => Unsubmitted("resource")

\* A future under way belongs to a thread that waits for it.
RunningInv ==
    \A t \in Thread : \A x \in Item :
        /\ future[t][x] \in {"running", "made"} => pc[t] = "collect"
        /\ future[t][x] = "orphan" => pc[t] \in {"collect", "drain"} /\ x \notin Shell
        /\ future[t][x] \in {"running", "made", "orphan"} => x \in ItemsOf(kind[t])
        /\ future[t][x] = "made" => x \in live

\* An item has one future, and the list has the handlers that were collected.
OwnerInv ==
    /\ \A t, u \in Thread : \A x \in Item :
         future[t][x] # "none" /\ future[u][x] # "none" => t = u
    /\ \A k \in Kind : \A t \in Thread : \A x \in ItemsOf(k) :
         future[t][x] = "collected" <=> <<t, x>> \in handlers[k]

SomeFailed == \E u \in Thread, x \in Item : future[u][x] \in {"failed", "lost"}
ListComplete == \A r \in Resource : \E h \in handlers["resource"] : h[2] = r

\* The resource list is complete once its builder is through, or there is a
\* reason why not.
CompleteInv ==
    /\ \A t \in Thread : pc[t] = "cleanup" => SomeFailed
    /\ \A t \in Thread : pc[t] = "drain" => UnknownShell # {}
    /\ built["resource"] /\ (\A u \in Sandbox : ~Building(u))
         => UnknownShell # {} \/ SomeFailed \/ ListComplete

\* What exists has a handler on its way, or nobody received it.
LiveInv ==
    /\ abandoned \cap Shell = {}
    /\ \A x \in live : \/ x \in abandoned \/ deleteFailed
                       \/ \E t \in Thread : future[t][x] \in {"made", "collected"}

Present == \A k \in Kind : \A h \in handlers[k] : h[2] \in live

Gone(h) == h[2] \notin live \/ (h[2] \in Shell /\ InUse(h[2]))
Clean == \A k \in Kind : \A h \in handlers[k] : Gone(h)

\* The lists are being built, or the resource list is still to come.
Filling ==
    \/ pc[MainThread] \in Early
    \/ /\ pc[MainThread] = "running"
       /\ ~built["resource"] \/ \E u \in Sandbox : Building(u) /\ pc[u] # "cleanup"

\* Until the lists are there, everything they name exists.
PresentInv == Filling => Present

\* The first pass of finish(): what it has passed is gone, the rest exists.
FirstPass(t) ==
    /\ \A k \in Kind : \A h \in handlers[k] :
         IF h \in finished[t] THEN Gone(h) ELSE h[2] \in live
    /\ phase[t] # "sandbox" => handlers["sandbox"] \subseteq finished[t]
    /\ phase[t] = "shell" => handlers["resource"] \subseteq finished[t]
    /\ phase[t] # "shell" => handlers["shell"] \cap finished[t] = {}

\* Unless CloudShell refused a deletion, finish() removes everything or finds
\* everything removed.
FinishInv ==
    ~deleteFailed =>
        /\ (\A t \in Thread : ~Finishing(t)) => Present \/ Clean
        /\ \A t \in Thread : Finishing(t) => FirstPass(t) \/ Clean
        /\ Ended => Clean

-----------------------------------------------------------------------------
(* Types *)

\* The items of the three lists are apart.
LEMMA Items ==
    /\ ItemsOf("sandbox") = Sandbox /\ ItemsOf("resource") = Resource
    /\ ItemsOf("shell") = Shell
    /\ Kind = {"sandbox", "resource", "shell"}
    /\ \A k \in Kind : ItemsOf(k) \subseteq Item
    /\ \A j, k \in Kind : \A x \in ItemsOf(j) : x \in ItemsOf(k) => j = k
    /\ \A x \in Item : \E k \in Kind : x \in ItemsOf(k)
  BY ConfigAssumption DEF ItemsOf, Kind, Item

\* An update keeps the type of a function.
LEMMA ExceptType ==
    ASSUME NEW S, NEW T, NEW f \in [S -> T], NEW s \in S, NEW v \in T
    PROVE  [f EXCEPT ![s] = v] \in [S -> T]
  OBVIOUS

\* The initial state has the types.
LEMMA InitTypes == Init => TypeOK
  <1> SUFFICES ASSUME Init
               PROVE  TypeOK
    OBVIOUS
  <1>1. /\ MainThread \in Thread /\ interrupts \in 0..MaxInterrupts
        /\ shellOf \in ShellMaps
    BY ThreadAssumption DEF Init, Thread
  <1>2. /\ kind \in [Thread -> Kind] /\ phase \in [Thread -> Kind]
        /\ built \in [Kind -> BOOLEAN] /\ handlers \in [Kind -> SUBSET Handler]
        /\ handlers["sandbox"] = {} /\ handlers["resource"] = {} /\ handlers["shell"] = {}
    BY DEF Init, Kind
  <1> QED
    BY <1>1, <1>2 DEF Init, TypeOK, Label, Outcome

\* Every step keeps the types.
LEMMA TypesStep ==
    TypeOK /\ [Next]_vars
      => (TypeOK)'
  <1> SUFFICES ASSUME TypeOK, [Next]_vars
               PROVE  (TypeOK)'
    OBVIOUS
  <1> USE Items, ThreadAssumption DEF TypeOK, Goto, Release, server
  <1>1. ASSUME NEW t \in Thread, CheckList(t)
        PROVE  (TypeOK)'
    <2>1. TypeOK'
      <3>1. pc' \in [Thread -> Label]
        BY <1>1 DEF CheckList, ListReady, Label
      <3>2. kind' \in [Thread -> Kind]
        BY SMTT(30), <1>1 DEF CheckList, ListReady
      <3> QED
        BY <1>1, <3>1, <3>2 DEF CheckList
    <2> QED
      BY <2>1
  <1>2. ASSUME NEW t \in Thread, InitList(t)
        PROVE  (TypeOK)'
    <2>1. TypeOK'
      <3>1. pc' \in [Thread -> Label]
        BY SMTT(30), <1>2 DEF InitList, Label
      <3>2. kind' \in [Thread -> Kind]
        BY <1>2 DEF InitList
      <3>3. built' \in [Kind -> BOOLEAN] /\ handlers' \in [Kind -> SUBSET Handler]
        BY <1>2 DEF InitList
      <3>4. \A k \in Kind : handlers'[k] \subseteq handlers[k]
        BY <1>2 DEF InitList
      <3> QED
        BY <1>2, <3>1, <3>2, <3>3, <3>4 DEF InitList
    <2> QED
      BY <2>1
  <1>3. ASSUME NEW t \in Thread, Submit(t)
        PROVE  (TypeOK)'
    <2>1. TypeOK'
      BY <1>3 DEF Submit, Label, Outcome
    <2> QED
      BY <2>1
  <1>4. ASSUME NEW t \in Thread, SubmitRaises(t)
        PROVE  (TypeOK)'
    <2>1. TypeOK'
      BY <1>4 DEF SubmitRaises, Label, Outcome
    <2> QED
      BY <2>1
  <1>5. ASSUME NEW t \in Thread, LeavePool(t)
        PROVE  (TypeOK)'
    <2>1. TypeOK'
      BY <1>5 DEF LeavePool, Label, Outcome
    <2> QED
      BY <2>1
  <1>6. ASSUME NEW t \in Thread, NEW x \in Item, CollectItem(t, x)
        PROVE  (TypeOK)'
    <2>1. TypeOK'
      <3>1. future' \in [Thread -> [Item -> Outcome]]
        BY <1>6 DEF CollectItem, Outcome
      <3>2. <<t, x>> \in Handler /\ <<t, x>> \in Thread \X ItemsOf(kind[t])
        BY <1>6 DEF CollectItem, Handler
      <3>3. handlers[kind[t]] \cup {<<t, x>>} \subseteq Handler /\ kind[t] \in Kind
        BY ZenonT(30), <3>2
      <3>4. handlers' \in [Kind -> SUBSET Handler]
        BY <1>6, <3>3 DEF CollectItem
      <3>5. \A k \in Kind : handlers'[k] \subseteq handlers[k] \cup (Thread \X ItemsOf(k))
        BY <1>6, <3>2 DEF CollectItem
      <3>6. /\ handlers'["sandbox"] \subseteq Thread \X Sandbox
           /\ handlers'["resource"] \subseteq Thread \X Resource
           /\ handlers'["shell"] \subseteq Thread \X Shell
        BY <3>5
      <3> QED
        BY <1>6, <3>1, <3>2, <3>3, <3>4, <3>5, <3>6 DEF CollectItem
    <2> QED
      BY <2>1
  <1>7. ASSUME NEW t \in Thread, CollectEnds(t)
        PROVE  (TypeOK)'
    <2>1. TypeOK'
      <3>1. pc' \in [Thread -> Label]
        BY <1>7 DEF CollectEnds, ListReady, Label
      <3>2. kind' \in [Thread -> Kind]
        BY <1>7 DEF CollectEnds, ListReady
      <3>3. phase' \in [Thread -> Kind] /\ finished' \in [Thread -> SUBSET Handler]
        BY SMTT(30), <1>7 DEF CollectEnds
      <3> QED
        BY <1>7, <3>1, <3>2, <3>3 DEF CollectEnds
    <2> QED
      BY <2>1
  <1>8. ASSUME NEW t \in Thread, NEW h \in Handler, FinishHandler(t, h)
        PROVE  (TypeOK)'
    <2>1. TypeOK'
      BY SMTT(30), <1>8 DEF FinishHandler, Finishing, LeaveFinish, Label, Outcome
    <2> QED
      BY <2>1
  <1>9. ASSUME NEW t \in Thread, FinishLoopEnds(t)
        PROVE  (TypeOK)'
    <2>1. TypeOK'
      <3>1. pc' = pc \/ \E l \in Label : pc' = [pc EXCEPT ![t] = l]
        BY <1>9 DEF FinishLoopEnds, LeaveFinish, Label
      <3>2. pc' \in [Thread -> Label]
        BY <3>1
      <3>3. phase' = phase \/ \E k \in Kind : phase' = [phase EXCEPT ![t] = k]
        BY <1>9 DEF FinishLoopEnds, NextPhase
      <3>4. phase' \in [Thread -> Kind]
        <4>1. CASE phase' = phase
          BY <4>1
        <4>2. ASSUME NEW k \in Kind, phase' = [phase EXCEPT ![t] = k]
              PROVE  phase' \in [Thread -> Kind]
          BY <4>2, ExceptType
        <4> QED
          BY <3>3, <4>1, <4>2
      <3>5. lock' \in Sandbox \cup {Nobody}
        BY <1>9 DEF FinishLoopEnds, LeaveFinish
      <3> QED
        BY <1>9, <3>1, <3>2, <3>3, <3>4, <3>5 DEF FinishLoopEnds
    <2> QED
      BY <2>1
  <1>10. ASSUME NEW t \in Sandbox, StartThread(t)
        PROVE  (TypeOK)'
    <2>1. TypeOK'
      BY <1>10 DEF StartThread, Label, Outcome
    <2> QED
      BY <2>1
  <1>11. ASSUME NEW t \in Sandbox, EnterCachedProperty(t)
        PROVE  (TypeOK)'
    <2>1. TypeOK'
      BY <1>11 DEF EnterCachedProperty, LockIsFree, Label, Outcome
    <2> QED
      BY <2>1
  <1>12. ASSUME NEW t \in Sandbox, Lookup(t)
        PROVE  (TypeOK)'
    <2>1. TypeOK'
      BY <1>12 DEF Lookup, Label, Outcome
    <2> QED
      BY <2>1
  <1>13. ASSUME NEW t \in Sandbox, AddToReservation(t)
        PROVE  (TypeOK)'
    <2>1. TypeOK'
      BY <1>13 DEF AddToReservation, Label, Outcome
    <2> QED
      BY <2>1
  <1>14. ASSUME NEW t \in Sandbox, EndTests(t)
        PROVE  (TypeOK)'
    <2>1. TypeOK'
      BY <1>14 DEF EndTests, Label, Outcome
    <2> QED
      BY <2>1
  <1>15. ASSUME NEW t \in Thread, NEW x \in Item, CreateItem(t, x)
        PROVE  (TypeOK)'
    <2>1. TypeOK'
      <3>1. \E v \in Outcome : future' = [future EXCEPT ![t] = [@ EXCEPT ![x] = v]]
        BY <1>15 DEF CreateItem, SetFuture, Outcome
      <3>2. future' \in [Thread -> [Item -> Outcome]]
        BY <3>1
      <3>3. live' \subseteq Item /\ abandoned' \subseteq Item
        BY <1>15 DEF CreateItem
      <3>4. deleteFailed' \in BOOLEAN
        BY <1>15 DEF CreateItem
      <3> QED
        BY <1>15, <3>1, <3>2, <3>3, <3>4 DEF CreateItem
    <2> QED
      BY <2>1
  <1>16. ASSUME NEW x \in Item, InterruptCollect(x)
        PROVE  (TypeOK)'
    <2>1. TypeOK'
      <3>1. MainThread \in Thread
        BY DEF Thread
      <3>2. future' \in [Thread -> [Item -> Outcome]]
        BY <1>16, <3>1 DEF InterruptCollect, Outcome
      <3>3. interrupts' \in 0..MaxInterrupts
        BY <1>16 DEF InterruptCollect
      <3> QED
        BY <1>16, <3>1, <3>2, <3>3 DEF InterruptCollect
    <2> QED
      BY <2>1
  <1>17. CASE EnterFinally
    <2>1. TypeOK'
      BY <1>17 DEF EnterFinally, Label, Outcome
    <2> QED
      BY <2>1
  <1>u. CASE UNCHANGED vars
    BY <1>u DEF vars, server
  <1> QED
    BY <1>1, <1>2, <1>3, <1>4, <1>5, <1>6, <1>7, <1>8, <1>9, <1>10, <1>11, <1>12,
       <1>13, <1>14, <1>15, <1>16, <1>17, <1>u DEF Next, ThreadStep, SandboxStep,
       Terminated

\* The threads, the lists and the server keep their types.
THEOREM StorageTypes == Spec => []TypeOK
  BY InitTypes, TypesStep, PTL DEF Spec

-----------------------------------------------------------------------------
(* The threads, the lock and the lists *)

ThreadInv == PcInv /\ OrderInv /\ LockInv /\ BuildInv

\* The main thread is none of the sandbox threads.
LEMMA Threads ==
    /\ MainThread \in Thread /\ Sandbox \subseteq Thread /\ MainThread \notin Sandbox
    /\ \A t \in Thread : t = MainThread \/ t \in Sandbox
    /\ Nobody \notin Thread
  BY ThreadAssumption DEF Thread

\* At the start no list is built and nobody is in a lookup.
LEMMA InitThreads == Init => ThreadInv
  BY Threads, Items
     DEF Init, ThreadInv, PcInv, OrderInv, LockInv, BuildInv, Early, Inside, Building, Passed

\* Every step keeps the order of the threads, the lock and the building of the lists.
LEMMA ThreadStepInv ==
    DescriptorLock /\ TypeOK /\ ThreadInv /\ [Next]_vars
      => (ThreadInv)'
  <1> SUFFICES ASSUME DescriptorLock, TypeOK, ThreadInv, [Next]_vars
               PROVE  (ThreadInv)'
    OBVIOUS
  <1> USE Threads, Items, ThreadAssumption
      DEF TypeOK, ThreadInv, Goto, Release, server, Early, Inside
  <1>1. ASSUME NEW t \in Thread, CheckList(t)
        PROVE  (ThreadInv)'
    <2>0. /\ pc[t] = "check" /\ UNCHANGED <<built, lock>>
          /\ \A u \in Thread \ {t} : pc'[u] = pc[u] /\ kind'[u] = kind[u]
          /\ \/ ~built[kind[t]] /\ pc'[t] = "init" /\ kind'[t] = kind[t]
             \/ /\ built[kind[t]]
                /\ \/ kind[t] = "sandbox" /\ pc'[t] = "running" /\ kind'[t] = "sandbox"
                   \/ kind[t] = "shell" /\ pc'[t] = "submit" /\ kind'[t] = "resource"
                   \/ kind[t] = "resource" /\ pc'[t] = "lookup" /\ kind'[t] = "resource"
      BY <1>1 DEF CheckList, ListReady
    <2>1. PcInv'
      BY <2>0 DEF PcInv
    <2>2. OrderInv'
      BY <2>0 DEF PcInv, OrderInv, ThreadEnded
    <2>3. LockInv'
      BY <2>0 DEF PcInv, LockInv
    <2>4. BuildInv'
      BY <2>0 DEF PcInv, OrderInv, LockInv, BuildInv, Building, Passed
    <2> QED
      BY <2>1, <2>2, <2>3, <2>4
  <1>2. ASSUME NEW t \in Thread, InitList(t)
        PROVE  (ThreadInv)'
    <2>0. /\ pc[t] = "init" /\ UNCHANGED lock
          /\ built' = [built EXCEPT ![kind[t]] = TRUE]
          /\ \A u \in Thread \ {t} : pc'[u] = pc[u] /\ kind'[u] = kind[u]
          /\ \/ kind[t] = "resource" /\ kind'[t] = "shell" /\ pc'[t] = "check"
             \/ kind[t] # "resource" /\ kind'[t] = kind[t] /\ pc'[t] = "submit"
      BY <1>2 DEF InitList
    <2>1. PcInv'
      BY <2>0 DEF PcInv
    <2>2. OrderInv'
      BY <2>0 DEF PcInv, OrderInv, ThreadEnded
    <2>3. LockInv'
      BY <2>0 DEF PcInv, LockInv
    <2>4. BuildInv'
      BY <2>0 DEF PcInv, OrderInv, LockInv, BuildInv, Building, Passed
    <2> QED
      BY <2>1, <2>2, <2>3, <2>4
  <1>3. ASSUME NEW t \in Thread, Submit(t)
        PROVE  (ThreadInv)'
    <2>1. PcInv'
      BY <1>3 DEF Submit, PcInv
    <2>2. OrderInv'
      BY <1>3 DEF Submit, OrderInv, PcInv, ThreadEnded
    <2>3. LockInv'
      BY <1>3 DEF Submit, LockInv, PcInv
    <2>4. BuildInv'
      BY <1>3 DEF Submit, PcInv, OrderInv, LockInv, BuildInv, Building, Passed
    <2> QED
      BY <2>1, <2>2, <2>3, <2>4
  <1>4. ASSUME NEW t \in Thread, SubmitRaises(t)
        PROVE  (ThreadInv)'
    <2>1. PcInv'
      BY <1>4 DEF SubmitRaises, PcInv
    <2>2. OrderInv'
      BY <1>4 DEF SubmitRaises, OrderInv, PcInv, ThreadEnded
    <2>3. LockInv'
      BY <1>4 DEF SubmitRaises, LockInv, PcInv
    <2>4. BuildInv'
      BY <1>4 DEF SubmitRaises, PcInv, OrderInv, LockInv, BuildInv, Building, Passed
    <2> QED
      BY <2>1, <2>2, <2>3, <2>4
  <1>5. ASSUME NEW t \in Thread, LeavePool(t)
        PROVE  (ThreadInv)'
    <2>1. PcInv'
      BY <1>5 DEF LeavePool, PcInv
    <2>2. OrderInv'
      BY <1>5 DEF LeavePool, OrderInv, PcInv, ThreadEnded
    <2>3. LockInv'
      BY <1>5 DEF LeavePool, LockInv, PcInv
    <2>4. BuildInv'
      BY <1>5 DEF LeavePool, PcInv, OrderInv, LockInv, BuildInv, Building, Passed
    <2> QED
      BY <2>1, <2>2, <2>3, <2>4
  <1>6. ASSUME NEW t \in Thread, NEW x \in Item, CollectItem(t, x)
        PROVE  (ThreadInv)'
    <2>1. PcInv'
      BY <1>6 DEF CollectItem, PcInv
    <2>2. OrderInv'
      BY <1>6 DEF CollectItem, OrderInv, PcInv, ThreadEnded
    <2>3. LockInv'
      BY <1>6 DEF CollectItem, LockInv, PcInv
    <2>4. BuildInv'
      BY <1>6 DEF CollectItem, PcInv, OrderInv, LockInv, BuildInv, Building, Passed
    <2> QED
      BY <2>1, <2>2, <2>3, <2>4
  <1>7. ASSUME NEW t \in Thread, CollectEnds(t)
        PROVE  (ThreadInv)'
    <2>0. /\ pc[t] = "collect" /\ UNCHANGED <<built, lock>>
          /\ \A u \in Thread \ {t} : pc'[u] = pc[u] /\ kind'[u] = kind[u]
          /\ \/ pc'[t] = "cleanup" /\ kind'[t] = kind[t]
             \/ kind[t] = "sandbox" /\ pc'[t] = "running" /\ kind'[t] = "sandbox"
             \/ kind[t] = "shell" /\ pc'[t] = "submit" /\ kind'[t] = "resource"
             \/ kind[t] = "resource" /\ pc'[t] = "lookup" /\ kind'[t] = "resource"
      BY <1>7 DEF CollectEnds, ListReady
    <2>1. PcInv'
      BY SMTT(30), <2>0 DEF PcInv
    <2>2. OrderInv'
      BY <2>0 DEF PcInv, OrderInv, ThreadEnded
    <2>3. LockInv'
      BY <2>0 DEF PcInv, LockInv
    <2>4. BuildInv'
      <3>1. \A u \in Thread : /\ pc'[u] = "init" => ~built'[kind'[u]]
                              /\ pc'[u] \in {"submit", "drain", "collect", "cleanup"}
                                   => built'[kind'[u]]
        BY <2>0 DEF PcInv, BuildInv
      <3>2. \A u \in Sandbox : kind'[u] = "shell" => built'["resource"]
        BY <2>0 DEF PcInv, BuildInv
      <3>3. \A u \in Sandbox : Building(u)' => Building(u)
        BY <2>0 DEF Building
      <3>4. \A u \in Sandbox : Passed(u)' /\ ~Passed(u) =>
              u = t /\ built["resource"] /\ ~Building(t)'
        BY <2>0 DEF Passed, Building, BuildInv
      <3>5. t \in Sandbox => \A u \in Sandbox \ {t} : ~Building(u)
        BY <2>0 DEF LockInv, Building
      <3> QED
        BY <2>0, <3>1, <3>2, <3>3, <3>4, <3>5 DEF BuildInv
    <2> QED
      BY <2>1, <2>2, <2>3, <2>4
  <1>8. ASSUME NEW t \in Thread, NEW h \in Handler, FinishHandler(t, h)
        PROVE  (ThreadInv)'
    <2>1. PcInv'
      BY <1>8 DEF FinishHandler, Finishing, LeaveFinish, PcInv
    <2>2. OrderInv'
      BY <1>8 DEF FinishHandler, Finishing, LeaveFinish, OrderInv, PcInv,
         ThreadEnded
    <2>3. LockInv'
      BY <1>8 DEF FinishHandler, Finishing, LeaveFinish, LockInv, PcInv
    <2>4. BuildInv'
      BY <1>8 DEF FinishHandler, Finishing, LeaveFinish, PcInv, OrderInv, LockInv,
         BuildInv, Building, Passed
    <2> QED
      BY <2>1, <2>2, <2>3, <2>4
  <1>9. ASSUME NEW t \in Thread, FinishLoopEnds(t)
        PROVE  (ThreadInv)'
    <2>0. /\ pc[t] \in {"cleanup", "finish"}
          /\ \A u \in Thread \ {t} : pc'[u] = pc[u]
          /\ \/ pc'[t] = pc[t]
             \/ t # MainThread /\ pc'[t] = "failed"
             \/ t = MainThread /\ pc[t] = "cleanup" /\ pc'[t] = "final"
             \/ t = MainThread /\ pc[t] = "finish" /\ pc'[t] \in {"returned", "raised"}
      BY <1>9 DEF FinishLoopEnds, Finishing, LeaveFinish
    <2>1. PcInv'
      BY <1>9 DEF FinishLoopEnds, Finishing, LeaveFinish, NextPhase, PcInv
    <2>2. OrderInv'
      <3>1. CASE t = MainThread
        BY <2>0, <3>1 DEF PcInv, OrderInv, ThreadEnded
      <3>2. CASE t \in Sandbox
        <4>1. pc[t] = "cleanup" /\ pc[MainThread] = "running" /\ pc'[MainThread] = "running"
          BY <2>0, <3>2 DEF PcInv, OrderInv, ThreadEnded
        <4> QED
          BY <4>1 DEF OrderInv
      <3> QED
        BY <3>1, <3>2
    <2>3. LockInv'
      BY <1>9 DEF FinishLoopEnds, Finishing, LeaveFinish, NextPhase, LockInv, PcInv
    <2>4. BuildInv'
      BY <1>9 DEF FinishLoopEnds, Finishing, LeaveFinish, NextPhase, PcInv,
         OrderInv, LockInv, BuildInv, Building, Passed
    <2> QED
      BY <2>1, <2>2, <2>3, <2>4
  <1>10. ASSUME NEW t \in Sandbox, StartThread(t)
        PROVE  (ThreadInv)'
    <2>1. PcInv'
      BY <1>10 DEF StartThread, PcInv
    <2>2. OrderInv'
      BY <1>10 DEF StartThread, OrderInv, PcInv, ThreadEnded
    <2>3. LockInv'
      BY <1>10 DEF StartThread, LockInv, PcInv
    <2>4. BuildInv'
      BY <1>10 DEF StartThread, PcInv, OrderInv, LockInv, BuildInv, Building, Passed
    <2> QED
      BY <2>1, <2>2, <2>3, <2>4
  <1>11. ASSUME NEW t \in Sandbox, EnterCachedProperty(t)
        PROVE  (ThreadInv)'
    <2>1. PcInv'
      BY <1>11 DEF EnterCachedProperty, LockIsFree, PcInv
    <2>2. OrderInv'
      BY <1>11 DEF EnterCachedProperty, LockIsFree, OrderInv, PcInv, ThreadEnded
    <2>3. LockInv'
      BY <1>11 DEF EnterCachedProperty, LockIsFree, LockInv, PcInv
    <2>4. BuildInv'
      BY <1>11 DEF EnterCachedProperty, LockIsFree, PcInv, OrderInv, LockInv,
         BuildInv, Building, Passed
    <2> QED
      BY <2>1, <2>2, <2>3, <2>4
  <1>12. ASSUME NEW t \in Sandbox, Lookup(t)
        PROVE  (ThreadInv)'
    <2>1. PcInv'
      BY <1>12 DEF Lookup, PcInv
    <2>2. OrderInv'
      BY <1>12 DEF Lookup, OrderInv, PcInv, ThreadEnded
    <2>3. LockInv'
      BY <1>12 DEF Lookup, LockInv, PcInv
    <2>4. BuildInv'
      BY <1>12 DEF Lookup, PcInv, OrderInv, LockInv, BuildInv, Building, Passed
    <2> QED
      BY <2>1, <2>2, <2>3, <2>4
  <1>13. ASSUME NEW t \in Sandbox, AddToReservation(t)
        PROVE  (ThreadInv)'
    <2>1. PcInv'
      BY SMTT(30), <1>13 DEF AddToReservation, PcInv
    <2>2. OrderInv'
      BY <1>13 DEF AddToReservation, OrderInv, PcInv, ThreadEnded
    <2>3. LockInv'
      BY <1>13 DEF AddToReservation, LockInv, PcInv
    <2>4. BuildInv'
      BY <1>13 DEF AddToReservation, PcInv, OrderInv, LockInv, BuildInv, Building,
         Passed
    <2> QED
      BY <2>1, <2>2, <2>3, <2>4
  <1>14. ASSUME NEW t \in Sandbox, EndTests(t)
        PROVE  (ThreadInv)'
    <2>1. PcInv'
      BY <1>14 DEF EndTests, PcInv
    <2>2. OrderInv'
      BY <1>14 DEF EndTests, OrderInv, PcInv, ThreadEnded
    <2>3. LockInv'
      BY <1>14 DEF EndTests, LockInv, PcInv
    <2>4. BuildInv'
      BY <1>14 DEF EndTests, PcInv, OrderInv, LockInv, BuildInv, Building, Passed
    <2> QED
      BY <2>1, <2>2, <2>3, <2>4
  <1>15. ASSUME NEW t \in Thread, NEW x \in Item, CreateItem(t, x)
        PROVE  (ThreadInv)'
    <2>1. PcInv'
      BY <1>15 DEF CreateItem, SetFuture, PcInv
    <2>2. OrderInv'
      BY <1>15 DEF CreateItem, SetFuture, OrderInv, PcInv, ThreadEnded
    <2>3. LockInv'
      BY <1>15 DEF CreateItem, SetFuture, LockInv, PcInv
    <2>4. BuildInv'
      BY <1>15 DEF CreateItem, SetFuture, PcInv, OrderInv, LockInv, BuildInv,
         Building, Passed
    <2> QED
      BY <2>1, <2>2, <2>3, <2>4
  <1>16. ASSUME NEW x \in Item, InterruptCollect(x)
        PROVE  (ThreadInv)'
    <2>1. PcInv'
      BY <1>16 DEF InterruptCollect, PcInv
    <2>2. OrderInv'
      BY <1>16 DEF InterruptCollect, OrderInv, PcInv, ThreadEnded
    <2>3. LockInv'
      BY <1>16 DEF InterruptCollect, LockInv, PcInv
    <2>4. BuildInv'
      BY <1>16 DEF InterruptCollect, PcInv, OrderInv, LockInv, BuildInv, Building,
         Passed
    <2> QED
      BY <2>1, <2>2, <2>3, <2>4
  <1>17. CASE EnterFinally
    <2>1. PcInv'
      BY <1>17 DEF EnterFinally, PcInv
    <2>2. OrderInv'
      BY <1>17 DEF EnterFinally, OrderInv, PcInv, ThreadEnded
    <2>3. LockInv'
      BY <1>17 DEF EnterFinally, LockInv, PcInv
    <2>4. BuildInv'
      BY <1>17 DEF EnterFinally, PcInv, OrderInv, LockInv, BuildInv, Building,
         Passed
    <2> QED
      BY <2>1, <2>2, <2>3, <2>4
  <1>u. CASE UNCHANGED vars
    BY <1>u
       DEF vars, server, PcInv, OrderInv, LockInv, BuildInv, Building, Passed,
           ThreadEnded
  <1> QED
    BY <1>1, <1>2, <1>3, <1>4, <1>5, <1>6, <1>7, <1>8, <1>9, <1>10, <1>11, <1>12,
       <1>13, <1>14, <1>15, <1>16, <1>17, <1>u DEF Next, ThreadStep, SandboxStep,
       Terminated

\* With the lock, threads, order and lists are as described in every reachable
\* state.
LEMMA ThreadInvariant == DescriptorLock => (Spec => [](TypeOK /\ ThreadInv))
  <1> SUFFICES ASSUME DescriptorLock
               PROVE  Spec => [](TypeOK /\ ThreadInv)
    OBVIOUS
  <1>1. TypeOK /\ ThreadInv /\ [Next]_vars => ThreadInv'
    BY ThreadStepInv
  <1> QED
    BY <1>1, InitThreads, StorageTypes, PTL DEF Spec

-----------------------------------------------------------------------------
(* The futures *)

FutureInv == FreshInv /\ RunningInv /\ OwnerInv

\* At the start no future exists.
LEMMA InitFutures == Init => FutureInv
  BY Threads, Items
     DEF Init, FutureInv, FreshInv, RunningInv, OwnerInv, Unsubmitted

\* Who holds the lock builds alone, and the main thread builds before the others.
LEMMA OneBuilder ==
    ASSUME TypeOK, ThreadInv, NEW t \in Thread, NEW u \in Thread, Building(t), Building(u)
    PROVE  t = u
  BY Threads DEF TypeOK, ThreadInv, PcInv, OrderInv, LockInv, Building, Early, Inside,
                 ThreadEnded

\* A change of one future.
LEMMA OneFuture ==
    ASSUME TypeOK, NEW t \in Thread, NEW x \in Item, NEW v,
           future' = [future EXCEPT ![t] = [@ EXCEPT ![x] = v]]
    PROVE  /\ future'[t][x] = v
           /\ \A u \in Thread : \A y \in Item : u # t \/ y # x => future'[u][y] = future[u][y]
  BY DEF TypeOK

\* A step that touches neither futures nor lists, and moves no thread that waits
\* for a future.
LEMMA QuietFutures ==
    ASSUME FutureInv, UNCHANGED <<future, built, handlers, kind>>,
           \A u \in Thread : pc'[u] = "submit" => pc[u] = "submit",
           \A u \in Sandbox : Building(u)' => Building(u),
           \A u \in Thread : pc[u] \in {"collect", "drain"} =>
               \/ pc'[u] = pc[u]
               \/ \A x \in Item : future[u][x] \notin {"running", "made", "orphan"},
           \A x \in live \ live' : \A u \in Thread : future[u][x] # "made"
    PROVE  FutureInv'
  <1>1. FreshInv'
    BY DEF FutureInv, FreshInv, Unsubmitted
  <1>2. RunningInv'
    BY DEF FutureInv, RunningInv
  <1>3. OwnerInv'
    BY DEF FutureInv, OwnerInv
  <1> QED
    BY <1>1, <1>2, <1>3 DEF FutureInv

\* A step that submits new futures for one thread only and collects nothing.
LEMMA OwnersKept ==
    ASSUME OwnerInv, NEW t \in Thread,
           \A u \in Thread : \A y \in Item : future'[u][y] # "none" =>
               \/ future[u][y] # "none"
               \/ u = t /\ \A v \in Thread : future[v][y] = "none",
           \A u \in Thread : \A y \in Item :
             future'[u][y] = "collected" <=> future[u][y] = "collected",
           UNCHANGED handlers
    PROVE  OwnerInv'
  <1>1. \A u, v \in Thread : \A y \in Item :
          future'[u][y] # "none" /\ future'[v][y] # "none" => u = v
    BY DEF OwnerInv
  <1>2. \A k \in Kind : \A u \in Thread : \A y \in ItemsOf(k) :
          future'[u][y] = "collected" <=> <<u, y>> \in handlers'[k]
    BY ZenonT(30), Items DEF OwnerInv
  <1> QED
    BY <1>1, <1>2 DEF OwnerInv

\* Every step keeps what is known of the futures.
LEMMA FutureStep ==
    TypeOK /\ ThreadInv /\ FutureInv /\ [Next]_vars
      => (FutureInv)'
  <1> SUFFICES ASSUME TypeOK, ThreadInv, FutureInv, [Next]_vars
               PROVE  (FutureInv)'
    OBVIOUS
  <1> USE Threads, Items, ThreadAssumption
      DEF TypeOK, ThreadInv, Goto, server
  <1>1. ASSUME NEW t \in Thread, CheckList(t)
        PROVE  (FutureInv)'
    <2>0. /\ pc[t] = "check" /\ UNCHANGED <<future, built, handlers, live>>
          /\ \A u \in Thread \ {t} : pc'[u] = pc[u] /\ kind'[u] = kind[u]
          /\ \/ ~built[kind[t]] /\ pc'[t] = "init" /\ kind'[t] = kind[t]
             \/ kind[t] = "sandbox" /\ pc'[t] = "running" /\ kind'[t] = "sandbox"
             \/ kind[t] = "shell" /\ pc'[t] = "submit" /\ kind'[t] = "resource"
             \/ kind[t] = "resource" /\ pc'[t] = "lookup" /\ kind'[t] = "resource"
      BY <1>1 DEF CheckList, ListReady
    <2>1. kind[t] = "shell" => t \in Sandbox /\ Building(t)
      BY <2>0 DEF PcInv, Building
    <2>2. FreshInv'
      <3>1. \A k \in Kind : Unsubmitted(k)' <=> Unsubmitted(k)
        BY <2>0 DEF Unsubmitted
      <3>2. \A u \in Thread : pc'[u] = "submit" => Unsubmitted(kind'[u])
        BY <2>0, <2>1 DEF FutureInv, FreshInv
      <3>3. \A u \in Sandbox :
              Building(u)' /\ kind'[u] = "shell" => Building(u) /\ kind[u] = "shell"
        BY <2>0, <2>1 DEF Building
      <3> QED
        BY <2>0, <3>1, <3>2, <3>3 DEF FutureInv, FreshInv
    <2>3. RunningInv'
      BY <2>0 DEF FutureInv, RunningInv
    <2>4. OwnerInv'
      BY <2>0 DEF FutureInv, OwnerInv
    <2> QED
      BY <2>2, <2>3, <2>4 DEF FutureInv
  <1>2. ASSUME NEW t \in Thread, InitList(t)
        PROVE  (FutureInv)'
    <2>0. /\ pc[t] = "init" /\ UNCHANGED <<future, live>>
          /\ built' = [built EXCEPT ![kind[t]] = TRUE]
          /\ handlers' = [handlers EXCEPT ![kind[t]] = {}]
          /\ \A u \in Thread \ {t} : pc'[u] = pc[u] /\ kind'[u] = kind[u]
          /\ \/ kind[t] = "resource" /\ kind'[t] = "shell" /\ pc'[t] = "check"
             \/ kind[t] # "resource" /\ kind'[t] = kind[t] /\ pc'[t] = "submit"
      BY <1>2 DEF InitList
    <2>1. Unsubmitted(kind[t]) /\ kind[t] \in Kind
      BY <2>0 DEF BuildInv, FutureInv, FreshInv
    <2>2. FreshInv'
      BY SMTT(30), <2>0, <2>1 DEF FutureInv, FreshInv, Unsubmitted, Building, BuildInv
    <2>3. RunningInv'
      BY <2>0 DEF FutureInv, RunningInv
    <2>4. OwnerInv'
      BY <2>0, <2>1 DEF FutureInv, OwnerInv, Unsubmitted
    <2> QED
      BY <2>2, <2>3, <2>4 DEF FutureInv
  <1>3. ASSUME NEW t \in Thread, Submit(t)
        PROVE  (FutureInv)'
    <2>0. /\ pc[t] = "submit" /\ pc'[t] = "collect"
          /\ UNCHANGED <<kind, built, handlers, live>>
          /\ \A u \in Thread \ {t} : pc'[u] = pc[u]
          /\ \A x \in Item : future'[t][x] \in {future[t][x], "running"}
          /\ \A x \in Item \ ItemsOf(kind[t]) : future'[t][x] = future[t][x]
          /\ \A u \in Thread \ {t} : \A x \in Item : future'[u][x] = future[u][x]
      BY <1>3 DEF Submit
    <2>1. Unsubmitted(kind[t]) /\ kind[t] \in Kind /\ built[kind[t]] /\ Building(t)
      BY <2>0 DEF BuildInv, FutureInv, FreshInv, Building
    <2>2. \A u \in Thread \ {t} : ~Building(u)
      BY <2>1, OneBuilder
    <2>3. \A x \in Item : future[t][x] \notin {"running", "made", "orphan"}
      BY <2>0 DEF FutureInv, RunningInv
    <2>4. FreshInv'
      <3>1. \A k \in Kind : k # kind[t] => (Unsubmitted(k) => Unsubmitted(k)')
        BY SMTT(30), <2>0 DEF Unsubmitted
      <3>2. \A k \in Kind : ~built'[k] => Unsubmitted(k)'
        BY <2>0, <2>1, <3>1 DEF FutureInv, FreshInv
      <3>3. \A u \in Thread : pc'[u] # "submit"
        BY <2>0, <2>2 DEF Building
      <3>4. \A u \in Sandbox : Building(u)' => u = t
        BY <2>0, <2>2 DEF Building
      <3> QED
        BY <2>0, <2>1, <3>1, <3>2, <3>3, <3>4 DEF FutureInv, FreshInv
    <2>5. RunningInv'
      BY <1>3, <2>0, <2>3 DEF Submit, FutureInv, RunningInv
    <2>6. OwnerInv'
      <3>1. \A u \in Thread : \A y \in ItemsOf(kind[t]) : future[u][y] = "none"
        BY <2>1 DEF Unsubmitted
      <3>2. \A u \in Thread : \A y \in Item :
              /\ future'[u][y] # "none" =>
                   \/ future[u][y] # "none"
                   \/ u = t /\ \A v \in Thread : future[v][y] = "none"
              /\ future'[u][y] = "collected" <=> future[u][y] = "collected"
        BY <2>0, <3>1
      <3> QED
        BY <2>0, <3>2, OwnersKept DEF FutureInv
    <2> QED
      BY <2>4, <2>5, <2>6 DEF FutureInv
  <1>4. ASSUME NEW t \in Thread, SubmitRaises(t)
        PROVE  (FutureInv)'
    <2>0. /\ pc[t] = "submit" /\ pc'[t] = "drain" /\ UNCHANGED <<kind, built, handlers, live>>
          /\ \A u \in Thread \ {t} : pc'[u] = pc[u]
          /\ \A x \in Item : future'[t][x] \in {future[t][x], "orphan"}
          /\ \A x \in Item \ ItemsOf(kind[t]) : future'[t][x] = future[t][x]
          /\ \A u \in Thread \ {t} : \A x \in Item : future'[u][x] = future[u][x]
      BY <1>4 DEF SubmitRaises
    <2>1. Unsubmitted(kind[t]) /\ kind[t] \in Kind /\ built[kind[t]] /\ Building(t)
      BY <2>0 DEF BuildInv, FutureInv, FreshInv, Building
    <2>2. \A u \in Thread \ {t} : ~Building(u)
      BY <2>1, OneBuilder
    <2>3. \A x \in Item : future[t][x] \notin {"running", "made", "orphan"}
      BY <2>0 DEF FutureInv, RunningInv
    <2>4. FreshInv'
      <3>1. \A k \in Kind : k # kind[t] => (Unsubmitted(k) => Unsubmitted(k)')
        BY <2>0 DEF Unsubmitted
      <3>2. \A k \in Kind : ~built'[k] => Unsubmitted(k)'
        BY <2>0, <2>1, <3>1 DEF FutureInv, FreshInv
      <3>3. \A u \in Thread : pc'[u] # "submit"
        BY <2>0, <2>2 DEF Building
      <3>4. \A u \in Sandbox : Building(u)' => u = t
        BY <2>0, <2>2 DEF Building
      <3> QED
        BY <2>0, <2>1, <3>1, <3>2, <3>3, <3>4 DEF FutureInv, FreshInv
    <2>5. RunningInv'
      BY <1>4, <2>0, <2>3 DEF SubmitRaises, FutureInv, RunningInv
    <2>6. OwnerInv'
      <3>1. \A u \in Thread : \A y \in ItemsOf(kind[t]) : future[u][y] = "none"
        BY <2>1 DEF Unsubmitted
      <3>2. \A u \in Thread : \A y \in Item :
              /\ future'[u][y] # "none" =>
                   \/ future[u][y] # "none"
                   \/ u = t /\ \A v \in Thread : future[v][y] = "none"
              /\ future'[u][y] = "collected" <=> future[u][y] = "collected"
        BY <2>0, <3>1
      <3> QED
        BY <2>0, <3>2, OwnersKept DEF FutureInv
    <2> QED
      BY <2>4, <2>5, <2>6 DEF FutureInv
  <1>5. ASSUME NEW t \in Thread, LeavePool(t)
        PROVE  (FutureInv)'
    <2>0. pc[t] = "drain" /\ kind[t] = "resource"
      BY <1>5 DEF LeavePool, PcInv, Early
    <2>1. \A x \in Item : future[t][x] \notin {"running", "made", "orphan"}
      BY <1>5, <2>0 DEF LeavePool, FutureInv, RunningInv
    <2> QED
      BY <1>5, <2>1, QuietFutures DEF LeavePool, Building
  <1>6. ASSUME NEW t \in Thread, NEW x \in Item, CollectItem(t, x)
        PROVE  (FutureInv)'
    <2>0. /\ pc[t] = "collect" /\ UNCHANGED <<pc, kind, built, live>>
          /\ future[t][x] = "made" /\ future'[t][x] = "collected"
          /\ \A u \in Thread : \A y \in Item : u # t \/ y # x => future'[u][y] = future[u][y]
          /\ x \in ItemsOf(kind[t]) /\ kind[t] \in Kind
          /\ handlers' = [handlers EXCEPT ![kind[t]] = @ \cup {<<t, x>>}]
      BY <1>6 DEF CollectItem
    <2>1. \A k \in Kind : Unsubmitted(k) => Unsubmitted(k)'
      BY <2>0 DEF Unsubmitted
    <2>2. FreshInv'
      BY <2>0, <2>1 DEF FutureInv, FreshInv, Building
    <2>3. RunningInv'
      BY SMTT(30), <2>0 DEF FutureInv, RunningInv
    <2>4. OwnerInv'
      <3>1. \A u \in Thread : \A y \in Item : future'[u][y] # "none" => future[u][y] # "none"
        BY <2>0
      <3>2. \A u, v \in Thread : \A y \in Item :
              future'[u][y] # "none" /\ future'[v][y] # "none" => u = v
        BY <3>1 DEF FutureInv, OwnerInv
      <3>3. ASSUME NEW k \in Kind, NEW u \in Thread, NEW y \in ItemsOf(k)
            PROVE  future'[u][y] = "collected" <=> <<u, y>> \in handlers'[k]
        <4>1. future[u][y] = "collected" <=> <<u, y>> \in handlers[k]
          BY DEF FutureInv, OwnerInv
        <4>2. CASE u = t /\ y = x
          BY <2>0, <4>2
        <4>3. CASE ~(u = t /\ y = x)
          <5>1. <<u, y>> # <<t, x>>
            BY <4>3
          <5> QED
            BY <2>0, <4>1, <4>3, <5>1
        <4> QED
          BY <4>2, <4>3
      <3> QED
        BY <3>2, <3>3 DEF OwnerInv
    <2> QED
      BY <2>2, <2>3, <2>4 DEF FutureInv
  <1>7. ASSUME NEW t \in Thread, CollectEnds(t)
        PROVE  (FutureInv)'
    <2>0. /\ pc[t] = "collect" /\ UNCHANGED <<future, built, handlers, live>>
          /\ \A u \in Thread \ {t} : pc'[u] = pc[u] /\ kind'[u] = kind[u]
          /\ \/ pc'[t] = "cleanup" /\ kind'[t] = kind[t]
             \/ kind[t] = "sandbox" /\ pc'[t] = "running" /\ kind'[t] = "sandbox"
             \/ kind[t] = "shell" /\ pc'[t] = "submit" /\ kind'[t] = "resource"
             \/ kind[t] = "resource" /\ pc'[t] = "lookup" /\ kind'[t] = "resource"
      BY <1>7 DEF CollectEnds, ListReady
    <2>1. kind[t] = "shell" => t \in Sandbox /\ Building(t)
      BY <2>0 DEF PcInv, Building
    <2>a. \A x \in Item : future[t][x] \notin {"running", "made", "orphan"}
      BY <1>7 DEF CollectEnds, FutureInv, RunningInv
    <2>2. FreshInv'
      <3>1. \A k \in Kind : Unsubmitted(k)' <=> Unsubmitted(k)
        BY <2>0 DEF Unsubmitted
      <3>2. \A u \in Thread : pc'[u] = "submit" => Unsubmitted(kind'[u])
        BY <2>0, <2>1 DEF FutureInv, FreshInv
      <3>3. \A u \in Sandbox :
              Building(u)' /\ kind'[u] = "shell" => Building(u) /\ kind[u] = "shell"
        BY <2>0, <2>1 DEF Building
      <3> QED
        BY <2>0, <3>1, <3>2, <3>3 DEF FutureInv, FreshInv
    <2>3. RunningInv'
      BY <2>0, <2>a DEF FutureInv, RunningInv
    <2>4. OwnerInv'
      BY <2>0 DEF FutureInv, OwnerInv
    <2> QED
      BY <2>2, <2>3, <2>4 DEF FutureInv
  <1>8. ASSUME NEW t \in Thread, NEW h \in Handler, FinishHandler(t, h)
        PROVE  (FutureInv)'
    <2>1. /\ pc[t] \in {"cleanup", "finish"} /\ pc'[t] \notin {"submit", "collect", "drain"}
          /\ \A u \in Thread \ {t} : pc'[u] = pc[u]
          /\ Building(t)' => Building(t)
          /\ UNCHANGED <<future, built, handlers, kind>>
      BY <1>8 DEF FinishHandler, Finishing, LeaveFinish, Building
    <2>2. \A u \in Thread : pc[u] # "collect"
      <3>1. CASE t = MainThread
        BY <2>1, <3>1 DEF OrderInv, ThreadEnded
      <3>2. CASE t # MainThread
        <4>1. pc[t] = "cleanup" /\ t \in Sandbox
          BY <2>1, <3>2 DEF PcInv, Early
        <4> QED
          BY <4>1, OneBuilder DEF Building
      <3> QED
        BY <3>1, <3>2
    <2>3. \A u \in Thread : \A x \in Item : future[u][x] # "made"
      BY <2>2 DEF FutureInv, RunningInv
    <2> QED
      BY <2>1, <2>3, QuietFutures DEF Building
  <1>9. ASSUME NEW t \in Thread, FinishLoopEnds(t)
        PROVE  (FutureInv)'
    <2>1. /\ pc[t] \in {"cleanup", "finish"} /\ pc'[t] \notin {"submit", "collect", "drain"}
          /\ \A u \in Thread \ {t} : pc'[u] = pc[u]
          /\ Building(t)' => Building(t)
          /\ UNCHANGED <<future, built, handlers, kind>>
      BY <1>9 DEF FinishLoopEnds, Finishing, LeaveFinish, Building
    <2>2. \A u \in Thread : pc[u] # "collect"
      <3>1. CASE t = MainThread
        BY <2>1, <3>1 DEF OrderInv, ThreadEnded
      <3>2. CASE t # MainThread
        <4>1. pc[t] = "cleanup" /\ t \in Sandbox
          BY <2>1, <3>2 DEF PcInv, Early
        <4> QED
          BY <4>1, OneBuilder DEF Building
      <3> QED
        BY <3>1, <3>2
    <2>3. \A u \in Thread : \A x \in Item : future[u][x] # "made"
      BY <2>2 DEF FutureInv, RunningInv
    <2> QED
      BY <2>1, <2>3, QuietFutures DEF Building
  <1>10. ASSUME NEW t \in Sandbox, StartThread(t)
        PROVE  (FutureInv)'
    BY <1>10, QuietFutures DEF StartThread, Building
  <1>11. ASSUME NEW t \in Sandbox, EnterCachedProperty(t)
        PROVE  (FutureInv)'
    BY <1>11, QuietFutures DEF EnterCachedProperty, Building, PcInv
  <1>12. ASSUME NEW t \in Sandbox, Lookup(t)
        PROVE  (FutureInv)'
    BY <1>12, QuietFutures DEF Lookup, Building
  <1>13. ASSUME NEW t \in Sandbox, AddToReservation(t)
        PROVE  (FutureInv)'
    BY <1>13, QuietFutures DEF AddToReservation, Building
  <1>14. ASSUME NEW t \in Sandbox, EndTests(t)
        PROVE  (FutureInv)'
    BY <1>14, QuietFutures DEF EndTests, Building
  <1>15. ASSUME NEW t \in Thread, NEW x \in Item, CreateItem(t, x)
        PROVE  (FutureInv)'
    <2>a. PICK v \in {"made", "failed", "lost"} :
            /\ future' = [future EXCEPT ![t] = [@ EXCEPT ![x] = v]]
            /\ v = "made" => x \in live' /\ future[t][x] = "running"
      <3>1. PICK o \in {"made", "failed"} : SetFuture(t, x, o) /\ (o = "made" => x \in live')
        BY <1>15 DEF CreateItem
      <3>2. \E v \in {"made", "failed", "lost"} :
              /\ future' = [future EXCEPT ![t] = [@ EXCEPT ![x] = v]]
              /\ v = (IF future[t][x] = "orphan" THEN "lost" ELSE o)
        BY <3>1 DEF SetFuture
      <3>3. future[t][x] \in {"running", "orphan"}
        BY <1>15 DEF CreateItem
      <3> QED
        BY <3>1, <3>2, <3>3
    <2>0. /\ UNCHANGED <<pc, kind, built, handlers>>
          /\ future[t][x] \in {"running", "orphan"}
          /\ future'[t][x] \in {"made", "failed", "lost"}
          /\ \A u \in Thread : \A y \in Item : u # t \/ y # x => future'[u][y] = future[u][y]
          /\ live \ {x} \subseteq live'
          /\ future'[t][x] = "made" => x \in live' /\ future[t][x] = "running"
      BY <1>15, <2>a, OneFuture DEF CreateItem
    <2>1. \A k \in Kind : Unsubmitted(k) => Unsubmitted(k)'
      BY <2>0 DEF Unsubmitted
    <2>2. FreshInv'
      BY <2>0, <2>1 DEF FutureInv, FreshInv, Building
    <2>3. RunningInv'
      <3>1. \A u \in Thread : \A y \in Item : future'[u][y] = "made" => y \in live'
        <4>1. \A u \in Thread : u # t => future[u][x] = "none"
          BY <2>0 DEF FutureInv, OwnerInv
        <4> QED
          BY <2>0, <4>1 DEF FutureInv, RunningInv
      <3> QED
        BY <2>0, <3>1 DEF FutureInv, RunningInv
    <2>4. OwnerInv'
      <3>1. \A u \in Thread : \A y \in Item :
              /\ future'[u][y] # "none" => future[u][y] # "none"
              /\ future'[u][y] = "collected" <=> future[u][y] = "collected"
        BY <2>0
      <3> QED
        BY <2>0, <3>1, OwnersKept DEF FutureInv
    <2> QED
      BY <2>2, <2>3, <2>4 DEF FutureInv
  <1>16. ASSUME NEW x \in Item, InterruptCollect(x)
        PROVE  (FutureInv)'
    <2>0. /\ UNCHANGED <<pc, kind, built, handlers, live>> /\ pc[MainThread] = "collect"
          /\ future[MainThread][x] = "running" /\ future'[MainThread][x] = "orphan"
          /\ \A u \in Thread : \A y \in Item :
               u # MainThread \/ y # x => future'[u][y] = future[u][y]
      BY <1>16 DEF InterruptCollect
    <2>1. \A k \in Kind : Unsubmitted(k) => Unsubmitted(k)'
      BY <2>0 DEF Unsubmitted
    <2>2. FreshInv'
      BY <2>0, <2>1 DEF FutureInv, FreshInv, Building
    <2>3. RunningInv'
      BY <2>0, ConfigAssumption DEF FutureInv, RunningInv, PcInv
    <2>4. OwnerInv'
      <3>1. \A u \in Thread : \A y \in Item :
              /\ future'[u][y] # "none" => future[u][y] # "none"
              /\ future'[u][y] = "collected" <=> future[u][y] = "collected"
        BY <2>0
      <3> QED
        BY <2>0, <3>1, OwnersKept DEF FutureInv
    <2> QED
      BY <2>2, <2>3, <2>4 DEF FutureInv
  <1>17. CASE EnterFinally
    BY <1>17, QuietFutures DEF EnterFinally, Building
  <1>u. CASE UNCHANGED vars
    BY <1>u
       DEF vars, server, FutureInv, FreshInv, RunningInv, OwnerInv, Unsubmitted,
           Building
  <1> QED
    BY <1>1, <1>2, <1>3, <1>4, <1>5, <1>6, <1>7, <1>8, <1>9, <1>10, <1>11, <1>12,
       <1>13, <1>14, <1>15, <1>16, <1>17, <1>u DEF Next, ThreadStep, SandboxStep,
       Terminated

\* With the lock, the same for the futures.
LEMMA FutureInvariant == DescriptorLock => (Spec => [](TypeOK /\ ThreadInv /\ FutureInv))
  <1> SUFFICES ASSUME DescriptorLock
               PROVE  Spec => [](TypeOK /\ ThreadInv /\ FutureInv)
    OBVIOUS
  <1>1. Spec => [](TypeOK /\ ThreadInv)
    BY ThreadInvariant
  <1> QED
    BY <1>1, InitFutures, FutureStep, PTL DEF Spec

-----------------------------------------------------------------------------
(* The look-up *)

\* A creation that has failed stays failed, what is made stays made, and the
\* configuration stays.
LEMMA OutcomesStay ==
    ASSUME TypeOK, ThreadInv, FutureInv, [Next]_vars
    PROVE  /\ SomeFailed => SomeFailed'
           /\ \A u \in Thread : \A y \in Item :
                future[u][y] \in {"made", "collected"}
                  => future'[u][y] \in {"made", "collected"}
           /\ shellOf' = shellOf
  <1> DEFINE Kept(f, g) == /\ f \in {"failed", "lost"} => g \in {"failed", "lost"}
                           /\ f \in {"made", "collected"} => g \in {"made", "collected"}
  <1> USE Threads, Items DEF TypeOK
  <1>1. ASSUME NEW t \in Thread, Submit(t) \/ SubmitRaises(t)
        PROVE  \A u \in Thread : \A y \in Item : Kept(future[u][y], future'[u][y])
    <2>1. \A y \in ItemsOf(kind[t]) : future[t][y] = "none"
      BY <1>1 DEF Submit, SubmitRaises, FutureInv, FreshInv, Unsubmitted
    <2>2. /\ \A u \in Thread \ {t} : future'[u] = future[u]
          /\ \A y \in Item \ ItemsOf(kind[t]) : future'[t][y] = future[t][y]
      BY <1>1 DEF Submit, SubmitRaises
    <2> QED
      BY <2>1, <2>2
  <1>2. ASSUME NEW t \in Thread, NEW x \in Item, CollectItem(t, x) \/ CreateItem(t, x)
        PROVE  \A u \in Thread : \A y \in Item : Kept(future[u][y], future'[u][y])
    <2>1. \/ future[t][x] \in {"running", "orphan"}
          \/ future[t][x] = "made" /\ future' = [future EXCEPT ![t][x] = "collected"]
      BY <1>2 DEF CollectItem, CreateItem
    <2>2. \E v : future' = [future EXCEPT ![t][x] = v]
      BY <1>2 DEF CollectItem, CreateItem, SetFuture
    <2>3. \A u \in Thread : \A y \in Item :
            u # t \/ y # x => future'[u][y] = future[u][y]
      BY <2>2
    <2> QED
      BY <2>1, <2>3
  <1>3. ASSUME NEW x \in Item, InterruptCollect(x)
        PROVE  \A u \in Thread : \A y \in Item : Kept(future[u][y], future'[u][y])
    BY <1>3 DEF InterruptCollect
  <1>4. \/ future' = future
        \/ \E t \in Thread : Submit(t) \/ SubmitRaises(t)
        \/ \E t \in Thread, x \in Item : CollectItem(t, x) \/ CreateItem(t, x)
        \/ \E x \in Item : InterruptCollect(x)
    BY
       DEF Next, ThreadStep, SandboxStep, Terminated, vars, CheckList, InitList,
           LeavePool,
           CollectEnds, FinishHandler, FinishLoopEnds, StartThread, EnterCachedProperty,
           Lookup, AddToReservation, EndTests, EnterFinally
  <1>5. \A u \in Thread : \A y \in Item : Kept(future[u][y], future'[u][y])
    BY <1>1, <1>2, <1>3, <1>4
  <1>6. shellOf' = shellOf
    BY DEF Next, ThreadStep, SandboxStep, Terminated, vars, CheckList, InitList, Submit,
           SubmitRaises, LeavePool, CollectItem, CollectEnds, FinishHandler, FinishLoopEnds,
           StartThread, EnterCachedProperty, Lookup, AddToReservation, EndTests, CreateItem,
           InterruptCollect, EnterFinally
  <1> QED
    BY <1>5, <1>6 DEF SomeFailed

CompletePart == CompleteInv /\ LookupComplete

\* A step that neither empties the list nor lets a thread past an unfinished one.
LEMMA QuietLists ==
    ASSUME CompletePart, SomeFailed => SomeFailed', UNCHANGED <<built, shellOf>>,
           ListComplete => ListComplete',
           \A u \in Thread : pc'[u] = "cleanup" => pc[u] = "cleanup" \/ SomeFailed,
           \A u \in Thread : pc'[u] = "drain" => pc[u] = "drain" \/ UnknownShell # {},
           \A u \in Sandbox : pc'[u] = "keyerror" =>
               pc[u] = "keyerror" \/ UnknownShell # {} \/ SomeFailed,
           \A u \in Sandbox : Building(u) =>
               Building(u)' \/ UnknownShell # {} \/ SomeFailed \/ ListComplete'
    PROVE  CompletePart'
  <1>1. UnknownShell' = UnknownShell
    BY DEF UnknownShell
  <1>2. CompleteInv'
    BY <1>1 DEF CompletePart, CompleteInv
  <1>3. (UnknownShell # {})' \/ SomeFailed' \/ \A u \in Sandbox : pc'[u] # "keyerror"
    BY <1>1 DEF CompletePart, LookupComplete, SomeFailed
  <1> QED
    BY <1>2, <1>3 DEF CompletePart, LookupComplete, SomeFailed

\* Every step keeps the list complete, or there is a reason why it is not.
LEMMA CompleteStep ==
    TypeOK /\ ThreadInv /\ FutureInv /\ CompletePart /\ [Next]_vars => CompletePart'
  <1> SUFFICES ASSUME TypeOK, ThreadInv, FutureInv, CompletePart, [Next]_vars
               PROVE  CompletePart'
    OBVIOUS
  <1>0. (SomeFailed => SomeFailed') /\ shellOf' = shellOf
    BY OutcomesStay
  <1> USE <1>0, Threads, Items DEF TypeOK, ThreadInv, Goto, Building, ListComplete
  <1>1. ASSUME NEW t \in Thread, CheckList(t)
        PROVE  CompletePart'
    <2>1. /\ pc[t] = "check" /\ UNCHANGED <<built, handlers>>
          /\ \A u \in Thread \ {t} : pc'[u] = pc[u] /\ kind'[u] = kind[u]
          /\ pc'[t] \notin {"cleanup", "drain", "keyerror"}
          /\ kind[t] = "shell" => pc'[t] \in {"init", "submit"}
      BY <1>1 DEF CheckList, ListReady
    <2> QED
      BY <2>1, QuietLists
  <1>2. ASSUME NEW t \in Thread, InitList(t)
        PROVE  CompletePart'
    <2>1. /\ pc[t] = "init"
          /\ \A u \in Thread \ {t} : pc'[u] = pc[u] /\ kind'[u] = kind[u]
          /\ pc'[t] = "submit" \/ (pc'[t] = "check" /\ kind'[t] = "shell")
      BY <1>2 DEF InitList
    <2>a. \A k \in Kind : k # kind[t] => built'[k] = built[k] /\ handlers'[k] = handlers[k]
      BY <1>2 DEF InitList
    <2>2. /\ \A u \in Thread : pc'[u] \in {"cleanup", "drain", "keyerror"} => pc[u] = pc'[u]
          /\ t \in Sandbox => Building(t)'
      BY <2>1
    <2>3. t = MainThread => kind[t] = "sandbox"
      BY DEF PcInv
    <2>4. /\ \A u \in Thread : pc'[u] = "cleanup" => SomeFailed'
          /\ \A u \in Thread : pc'[u] = "drain" => UnknownShell' # {}
          /\ LookupComplete'
      BY <2>2 DEF CompletePart, CompleteInv, LookupComplete, UnknownShell, SomeFailed
    <2>5. built'["resource"] /\ (\A u \in Sandbox : ~Building(u)')
            => UnknownShell' # {} \/ SomeFailed' \/ ListComplete'
      <3>1. CASE t \in Sandbox
        BY <2>2, <3>1
      <3>2. CASE t = MainThread
        <4>1. /\ built'["resource"] = built["resource"]
              /\ handlers'["resource"] = handlers["resource"]
          BY <2>a, <2>3, <3>2
        <4>2. \A u \in Sandbox : Building(u)' <=> Building(u)
          BY <2>1, <3>2
        <4>3. ListComplete' <=> ListComplete
          BY <4>1
        <4> QED
          BY <4>1, <4>2, <4>3 DEF CompletePart, CompleteInv, UnknownShell
      <3> QED
        BY <3>1, <3>2
    <2> QED
      BY <2>4, <2>5 DEF CompletePart, CompleteInv
  <1>3. ASSUME NEW t \in Thread, Submit(t)
        PROVE  CompletePart'
    BY <1>3, QuietLists DEF Submit
  <1>4. ASSUME NEW t \in Thread, SubmitRaises(t)
        PROVE  CompletePart'
    BY <1>4, QuietLists DEF SubmitRaises
  <1>5. ASSUME NEW t \in Thread, LeavePool(t)
        PROVE  CompletePart'
    BY <1>5, QuietLists DEF LeavePool, CompletePart, CompleteInv
  <1>6. ASSUME NEW t \in Thread, NEW x \in Item, CollectItem(t, x)
        PROVE  CompletePart'
    <2>1. UNCHANGED <<pc, kind, built>> /\ handlers["resource"] \subseteq handlers'["resource"]
      BY <1>6 DEF CollectItem
    <2> QED
      BY <2>1, QuietLists
  <1>7. ASSUME NEW t \in Thread, CollectEnds(t)
        PROVE  CompletePart'
    <2>1. /\ pc[t] = "collect" /\ UNCHANGED <<built, handlers, future>>
          /\ \A u \in Thread \ {t} : pc'[u] = pc[u] /\ kind'[u] = kind[u]
          /\ pc'[t] \notin {"drain", "keyerror"}
      BY <1>7 DEF CollectEnds, ListReady
    <2>2. pc'[t] = "cleanup" => SomeFailed
      BY <1>7 DEF CollectEnds, ListReady, CreationRaised, SomeFailed
    <2>3. CASE t \in Sandbox /\ kind[t] = "resource" /\ pc'[t] = "lookup"
      <3>1. \A x \in Resource : future[t][x] = "collected"
        BY <1>7, <2>3 DEF CollectEnds, CreationRaised
      <3>2. \A x \in Resource : <<t, x>> \in handlers["resource"]
        BY <3>1 DEF FutureInv, OwnerInv
      <3>3. ListComplete'
        <4>1. ASSUME NEW x \in Resource
              PROVE  \E h \in handlers'["resource"] : h[2] = x
          <5>1. <<t, x>> \in handlers'["resource"] /\ <<t, x>>[2] = x
            BY <2>1, <3>2
          <5> QED
            BY <5>1
        <4> QED
          BY <4>1
      <3> QED
        BY <2>1, <2>2, <3>3, QuietLists
    <2>4. CASE ~(t \in Sandbox /\ kind[t] = "resource" /\ pc'[t] = "lookup")
      <3>1. t \in Sandbox => Building(t)'
        BY <1>7, <2>4 DEF CollectEnds, ListReady, PcInv
      <3> QED
        BY <2>1, <2>2, <3>1, QuietLists
    <2> QED
      BY <2>3, <2>4
  <1>8. ASSUME NEW t \in Thread, NEW h \in Handler, FinishHandler(t, h)
        PROVE  CompletePart'
    <2>1. /\ pc[t] \in {"cleanup", "finish"} /\ UNCHANGED <<built, handlers, kind>>
          /\ \A u \in Thread \ {t} : pc'[u] = pc[u]
          /\ pc'[t] \notin {"drain", "keyerror"}
          /\ pc'[t] = "cleanup" => pc[t] = "cleanup"
      BY <1>8 DEF FinishHandler, Finishing, LeaveFinish
    <2>2. pc[t] = "cleanup" => SomeFailed
      BY DEF CompletePart, CompleteInv
    <2> QED
      BY <2>1, <2>2, QuietLists
  <1>9. ASSUME NEW t \in Thread, FinishLoopEnds(t)
        PROVE  CompletePart'
    <2>1. /\ pc[t] \in {"cleanup", "finish"} /\ UNCHANGED <<built, handlers, kind>>
          /\ \A u \in Thread \ {t} : pc'[u] = pc[u]
          /\ pc'[t] \notin {"drain", "keyerror"}
          /\ pc'[t] = "cleanup" => pc[t] = "cleanup"
      BY <1>9 DEF FinishLoopEnds, Finishing, LeaveFinish
    <2>2. pc[t] = "cleanup" => SomeFailed
      BY DEF CompletePart, CompleteInv
    <2> QED
      BY <2>1, <2>2, QuietLists
  <1>10. ASSUME NEW t \in Sandbox, StartThread(t)
        PROVE  CompletePart'
    BY <1>10, QuietLists DEF StartThread
  <1>11. ASSUME NEW t \in Sandbox, EnterCachedProperty(t)
        PROVE  CompletePart'
    BY <1>11, QuietLists DEF EnterCachedProperty
  <1>12. ASSUME NEW t \in Sandbox, Lookup(t)
        PROVE  CompletePart'
    <2>1. /\ pc[t] = "lookup" /\ UNCHANGED <<built, handlers, kind>>
          /\ \A u \in Thread \ {t} : pc'[u] = pc[u]
          /\ pc'[t] = "add" \/ (pc'[t] = "keyerror" /\ ~Found(t))
      BY <1>12 DEF Lookup
    <2>2. UnknownShell # {} \/ SomeFailed \/ ListComplete
      BY <2>1 DEF CompletePart, CompleteInv, BuildInv, Passed
    <2>3. ListComplete => Found(t)
      BY ConfigAssumption DEF Found
    <2> QED
      BY <2>1, <2>2, <2>3, QuietLists
  <1>13. ASSUME NEW t \in Sandbox, AddToReservation(t)
        PROVE  CompletePart'
    BY <1>13, QuietLists DEF AddToReservation
  <1>14. ASSUME NEW t \in Sandbox, EndTests(t)
        PROVE  CompletePart'
    BY <1>14, QuietLists DEF EndTests
  <1>15. ASSUME NEW t \in Thread, NEW x \in Item, CreateItem(t, x)
        PROVE  CompletePart'
    BY <1>15, QuietLists DEF CreateItem
  <1>16. ASSUME NEW x \in Item, InterruptCollect(x)
        PROVE  CompletePart'
    BY <1>16, QuietLists DEF InterruptCollect
  <1>17. CASE EnterFinally
    BY <1>17, QuietLists DEF EnterFinally
  <1>u. CASE UNCHANGED vars
    BY <1>u, QuietLists DEF vars
  <1> QED
    BY <1>1, <1>2, <1>3, <1>4, <1>5, <1>6, <1>7, <1>8, <1>9, <1>10, <1>11, <1>12,
       <1>13, <1>14, <1>15, <1>16, <1>17, <1>u DEF Next, ThreadStep, SandboxStep,
       Terminated

\* A sandbox thread misses a resource only after a creation has failed or for an
\* unknown shell: while the lock of cached_property is held, no thread sees a
\* list that another one is still filling.
THEOREM LookupsAreComplete == DescriptorLock => (Spec => []LookupComplete)
  <1> SUFFICES ASSUME DescriptorLock
               PROVE  Spec => []LookupComplete
    OBVIOUS
  <1>1. Init => CompletePart
    BY Threads, Items
       DEF Init, CompletePart, CompleteInv, LookupComplete
  <1>2. Spec => [](TypeOK /\ ThreadInv /\ FutureInv)
    BY FutureInvariant
  <1>3. CompletePart => LookupComplete
    BY DEF CompletePart
  <1> QED
    BY <1>1, <1>2, <1>3, CompleteStep, PTL DEF Spec

-----------------------------------------------------------------------------
(* Tests and deletions *)

\* While a sandbox is tested nobody builds or finishes.
LEMMA TestingAlone ==
    ASSUME TypeOK, ThreadInv, NEW s \in Sandbox, pc[s] = "testing", NEW u \in Thread
    PROVE  pc[u] \notin {"collect", "drain", "cleanup", "finish"}
  BY Threads
     DEF ThreadInv, PcInv, OrderInv, BuildInv, Passed, Building, Early, ThreadEnded

\* While a sandbox runs its tests, no step takes its resources or its reservation
\* away.
LEMMA UndisturbedStep ==
    TypeOK /\ ThreadInv /\ FutureInv /\ NoDeleteUnderTest /\ [Next]_vars
      => NoDeleteUnderTest'
  <1> SUFFICES ASSUME TypeOK, ThreadInv, FutureInv, NoDeleteUnderTest, [Next]_vars,
                      NEW s \in Sandbox, pc'[s] = "testing"
               PROVE  CanAdd(s)'
    BY DEF NoDeleteUnderTest
  <1> USE Threads DEF TypeOK, Goto
  <1>1. CASE pc[s] = "testing"
    <2>1. CanAdd(s)
      BY <1>1 DEF NoDeleteUnderTest
    <2>2. ~\E t \in Thread, x \in Item : CreateItem(t, x)
      BY <1>1, TestingAlone DEF CreateItem, FutureInv, RunningInv
    <2>3. ~\E t \in Thread, h \in Handler : FinishHandler(t, h)
      BY <1>1, TestingAlone DEF FinishHandler, Finishing
    <2>4. live' = live
      BY <2>2, <2>3
         DEF Next, ThreadStep, SandboxStep, Terminated, vars, server, CheckList, InitList,
             Submit, SubmitRaises, LeavePool, CollectItem, CollectEnds, FinishLoopEnds,
             StartThread, EnterCachedProperty, Lookup, AddToReservation, EndTests,
             InterruptCollect, EnterFinally
    <2> QED
      BY <2>1, <2>4 DEF CanAdd
  <1>2. CASE pc[s] # "testing"
    <2>a. ASSUME NEW t \in Thread, pc' = pc \/ \E l \in Label \ {"testing"} : Goto(t, l)
          PROVE  FALSE
      BY <1>2, <2>a
    <2>b. ASSUME NEW t \in Thread PROVE ~ThreadStep(t)
      <3>1. ~CheckList(t) /\ ~CollectEnds(t)
        BY <2>a DEF CheckList, CollectEnds, ListReady, Label
      <3>2. ~InitList(t) /\ ~Submit(t) /\ ~SubmitRaises(t) /\ ~LeavePool(t)
        BY <2>a DEF InitList, Submit, SubmitRaises, LeavePool, Label
      <3>3. \A x \in Item : ~CollectItem(t, x)
        BY <2>a DEF CollectItem
      <3>4. \A raised : ~LeaveFinish(t, raised)
        BY <2>a DEF LeaveFinish, Label
      <3>5. /\ ~FinishLoopEnds(t)
            /\ \A h \in Handler : ~FinishHandler(t, h)
        BY <2>a, <3>4 DEF FinishLoopEnds, FinishHandler
      <3> QED
        BY <3>1, <3>2, <3>3, <3>5 DEF ThreadStep
    <2>c. /\ \A t \in Thread, x \in Item : ~CreateItem(t, x)
          /\ \A x \in Item : ~InterruptCollect(x)
          /\ ~EnterFinally /\ ~Terminated /\ ~UNCHANGED vars
      BY <2>a DEF CreateItem, InterruptCollect, EnterFinally, Terminated, vars, Label
    <2>1. PICK t \in Sandbox : SandboxStep(t)
      BY <2>b, <2>c DEF Next
    <2>2. AddToReservation(t)
      BY <2>a, <2>1
         DEF SandboxStep, StartThread, EnterCachedProperty, Lookup, EndTests, Label
    <2>3. t = s
      BY <1>2, <2>2 DEF AddToReservation
    <2> QED
      BY <2>2, <2>3 DEF AddToReservation, CanAdd, server
  <1> QED
    BY <1>1, <1>2

\* While a thread runs the tests of its sandbox, its reservation and its
\* resources under test exist: no finish() of another thread removes them.
THEOREM TestsAreUndisturbed == DescriptorLock => (Spec => []NoDeleteUnderTest)
  <1> SUFFICES ASSUME DescriptorLock
               PROVE  Spec => []NoDeleteUnderTest
    OBVIOUS
  <1>1. Init => NoDeleteUnderTest
    BY Threads DEF Init, NoDeleteUnderTest
  <1>2. Spec => [](TypeOK /\ ThreadInv /\ FutureInv)
    BY FutureInvariant
  <1> QED
    BY <1>1, <1>2, UndisturbedStep, PTL DEF Spec

-----------------------------------------------------------------------------
(* What stays on CloudShell *)

\* A listed handler is one that was collected, and the only one of its item.
LEMMA Listed ==
    ASSUME TypeOK, FutureInv, NEW k \in Kind, NEW h \in handlers[k]
    PROVE  /\ h[1] \in Thread /\ h[2] \in ItemsOf(k) /\ h[2] \in Item
           /\ future[h[1]][h[2]] = "collected"
           /\ \A j \in Kind : \A g \in handlers[j] : g[2] = h[2] => g = h /\ j = k
  <1>1. \A j \in Kind : \A g \in handlers[j] :
          /\ g[1] \in Thread /\ g[2] \in ItemsOf(j) /\ g[2] \in Item
          /\ g = <<g[1], g[2]>>
    BY Items DEF TypeOK
  <1>2. \A j \in Kind : \A g \in handlers[j] : future[g[1]][g[2]] = "collected"
    BY <1>1 DEF FutureInv, OwnerInv
  <1>3. \A j \in Kind : \A g \in handlers[j] : g[2] = h[2] => g[1] = h[1] /\ j = k
    BY <1>1, <1>2, Items DEF FutureInv, OwnerInv
  <1> QED
    BY <1>1, <1>2, <1>3

\* Every step keeps LiveInv: what is on CloudShell is in a list, on its way there,
\* or abandoned.
LEMMA LiveStep ==
    TypeOK /\ ThreadInv /\ FutureInv /\ LiveInv /\ [Next]_vars => LiveInv'
  <1> SUFFICES ASSUME TypeOK, ThreadInv, FutureInv, LiveInv, [Next]_vars
               PROVE  LiveInv'
    OBVIOUS
  <1>1. \A u \in Thread : \A y \in Item :
          future[u][y] \in {"made", "collected"} => future'[u][y] \in {"made", "collected"}
    BY OutcomesStay
  <1>2. ASSUME live' \subseteq live, abandoned' = abandoned, deleteFailed => deleteFailed'
        PROVE  LiveInv'
    BY <1>1, <1>2 DEF LiveInv, TypeOK
  <1>3. ASSUME NEW t \in Thread, NEW x \in Item, CreateItem(t, x)
        PROVE  LiveInv'
    <2>1. future[t][x] = "orphan" => x \notin Shell
      BY DEF FutureInv, RunningInv
    <2>2. \A u \in Thread : future[u][x] \notin {"made", "collected"}
      BY <1>3 DEF CreateItem, FutureInv, OwnerInv
    <2>3. /\ abandoned' \in {abandoned, abandoned \cup {x}}
          /\ x \in Shell => abandoned' = abandoned
          /\ deleteFailed => deleteFailed'
          /\ live' \subseteq live \cup {x}
      BY <1>3, <2>1, ConfigAssumption DEF CreateItem, TypeOK
    <2>4. x \in live' => \/ x \in live \/ x \in abandoned' \/ deleteFailed'
                         \/ future'[t][x] = "made"
      BY <1>3 DEF CreateItem, SetFuture, TypeOK
    <2>5. abandoned' \cap Shell = {}
      BY <2>3 DEF LiveInv
    <2>6. ASSUME NEW y \in live'
          PROVE  \/ y \in abandoned' \/ deleteFailed'
                 \/ \E u \in Thread : future'[u][y] \in {"made", "collected"}
      <3>1. CASE y = x
        BY <2>2, <2>3, <2>4, <3>1 DEF LiveInv
      <3>2. CASE y # x
        BY <1>1, <2>3, <3>2 DEF LiveInv, TypeOK
      <3> QED
        BY <3>1, <3>2
    <2> QED
      BY <2>5, <2>6 DEF LiveInv
  <1>4. ASSUME NEW t \in Thread, NEW h \in Handler, FinishHandler(t, h)
        PROVE  LiveInv'
    <2>1. live' \subseteq live /\ abandoned' = abandoned
      BY <1>4 DEF FinishHandler
    <2>2. deleteFailed => deleteFailed'
      BY <1>4 DEF FinishHandler
    <2> QED
      BY <1>2, <2>1, <2>2
  <1>5. \/ UNCHANGED server
        \/ \E t \in Thread, x \in Item : CreateItem(t, x)
        \/ \E t \in Thread, h \in Handler : FinishHandler(t, h)
    BY DEF Next, ThreadStep, SandboxStep, Terminated, vars, server, CheckList, InitList,
           Submit, SubmitRaises, LeavePool, CollectItem, CollectEnds, FinishLoopEnds,
           StartThread, EnterCachedProperty, Lookup, AddToReservation, EndTests,
           InterruptCollect, EnterFinally
  <1> QED
    BY <1>2, <1>3, <1>4, <1>5 DEF server

\* Filling comes before everything else.
LEMMA FillingIsFirst ==
    ASSUME TypeOK, ThreadInv, [Next]_vars, Filling'
    PROVE  Filling
  <1> DEFINE MainPart == /\ pc'[MainThread] \in Early => pc[MainThread] \in Early
                         /\ pc'[MainThread] = "running"
                              => pc[MainThread] \in Early \cup {"running"}
             BuiltPart == built["resource"] => built'["resource"]
             ThreadPart == \A u \in Sandbox : Building(u)' /\ pc'[u] # "cleanup"
                             => (Building(u) /\ pc[u] # "cleanup") \/ ~built["resource"]
  <1> USE Threads DEF TypeOK, ThreadInv, Goto
  <1>1. ASSUME NEW t \in Thread, CheckList(t)
        PROVE  MainPart /\ BuiltPart /\ ThreadPart
    BY <1>1 DEF CheckList, ListReady, Building, PcInv, Early
  <1>2. ASSUME NEW t \in Thread, InitList(t)
        PROVE  MainPart /\ BuiltPart /\ ThreadPart
    BY <1>2, Items DEF InitList, Building, PcInv, Early
  <1>3. ASSUME NEW t \in Thread, Submit(t) \/ SubmitRaises(t) \/ LeavePool(t)
        PROVE  MainPart /\ BuiltPart /\ ThreadPart
    BY <1>3 DEF Submit, SubmitRaises, LeavePool, Building, Early
  <1>4. ASSUME NEW t \in Thread, NEW x \in Item, CollectItem(t, x) \/ CreateItem(t, x)
        PROVE  MainPart /\ BuiltPart /\ ThreadPart
    BY <1>4 DEF CollectItem, CreateItem, Building
  <1>5. ASSUME NEW t \in Thread, CollectEnds(t)
        PROVE  MainPart /\ BuiltPart /\ ThreadPart
    BY <1>5 DEF CollectEnds, ListReady, Building, PcInv, Early
  <1>6. ASSUME NEW t \in Thread, NEW raised, LeaveFinish(t, raised), UNCHANGED <<kind, built>>
        PROVE  MainPart /\ BuiltPart /\ ThreadPart
    BY <1>6 DEF LeaveFinish, Building, Early
  <1>7. ASSUME NEW t \in Thread, NEW h \in Handler, FinishHandler(t, h)
        PROVE  MainPart /\ BuiltPart /\ ThreadPart
    BY <1>6, <1>7 DEF FinishHandler, Building
  <1>8. ASSUME NEW t \in Thread, FinishLoopEnds(t)
        PROVE  MainPart /\ BuiltPart /\ ThreadPart
    BY <1>6, <1>8 DEF FinishLoopEnds, Building
  <1>9. ASSUME NEW t \in Sandbox, SandboxStep(t)
        PROVE  MainPart /\ BuiltPart /\ ThreadPart
    BY <1>9 DEF SandboxStep, StartThread, EnterCachedProperty, Lookup, AddToReservation,
                EndTests, Building, PcInv, Early
  <1>10. ASSUME \/ \E x \in Item : InterruptCollect(x)
                \/ EnterFinally \/ Terminated \/ UNCHANGED vars
        PROVE  MainPart /\ BuiltPart /\ ThreadPart
    BY <1>10 DEF InterruptCollect, EnterFinally, Terminated, vars, Building, Early
  <1>11. MainPart /\ BuiltPart /\ ThreadPart
    BY <1>1, <1>2, <1>3, <1>4, <1>5, <1>7, <1>8, <1>9, <1>10 DEF Next, ThreadStep
  <1> QED
    BY <1>11 DEF Filling

\* Creating and collecting keep what is listed.
LEMMA BuildKeepsPresent ==
    ASSUME TypeOK, FutureInv, Present, NEW t \in Thread,
           InitList(t) \/ \E x \in Item : CollectItem(t, x) \/ CreateItem(t, x)
    PROVE  Present'
  <1>1. CASE InitList(t)
    <2>1. live' = live /\ \A k \in Kind : handlers'[k] \subseteq handlers[k]
      BY <1>1 DEF InitList, TypeOK, server
    <2> QED
      BY <2>1 DEF Present
  <1>2. ASSUME NEW x \in Item, CollectItem(t, x)
        PROVE  Present'
    <2>1. live' = live /\ x \in live
      BY <1>2 DEF CollectItem, server, FutureInv, RunningInv
    <2>2. \A k \in Kind : handlers'[k] \subseteq handlers[k] \cup {<<t, x>>}
      BY <1>2 DEF CollectItem, TypeOK
    <2> QED
      BY <2>1, <2>2 DEF Present
  <1>3. ASSUME NEW x \in Item, CreateItem(t, x)
        PROVE  Present'
    <2>1. handlers' = handlers /\ live \ {x} \subseteq live'
      BY <1>3 DEF CreateItem
    <2>2. \A u \in Thread : future[u][x] # "collected"
      BY <1>3 DEF CreateItem, FutureInv, OwnerInv
    <2>3. \A k \in Kind : \A h \in handlers[k] : h[2] # x
      BY <2>2, Listed
    <2> QED
      BY <2>1, <2>3 DEF Present
  <1> QED
    BY <1>1, <1>2, <1>3

\* Until the first finish(), every handler in a list stays on CloudShell.
LEMMA PresentStep ==
    TypeOK /\ ThreadInv /\ FutureInv /\ PresentInv /\ [Next]_vars => PresentInv'
  <1> SUFFICES ASSUME TypeOK, ThreadInv, FutureInv, PresentInv, [Next]_vars, Filling'
               PROVE  Present'
    BY DEF PresentInv
  <1>1. Present
    BY FillingIsFirst DEF PresentInv
  <1>2. ASSUME NEW t \in Thread, NEW h \in Handler, FinishHandler(t, h)
        PROVE  FALSE
    <2>1. /\ pc[t] \in {"cleanup", "finish"} /\ kind' = kind /\ built' = built
          /\ pc'[t] \notin Early \cup {"running", "drain"}
          /\ \A u \in Thread \ {t} : pc'[u] = pc[u]
      BY <1>2 DEF FinishHandler, Finishing, LeaveFinish, Goto, TypeOK, Early
    <2>2. CASE t = MainThread
      BY <2>1, <2>2 DEF Filling
    <2>3. CASE t # MainThread
      <3>1. t \in Sandbox /\ pc[t] = "cleanup" /\ built["resource"]
        BY <2>1, <2>3, Threads DEF ThreadInv, PcInv, BuildInv, Early
      <3>2. pc'[MainThread] = "running"
        BY <2>1, <2>3, <3>1, Threads DEF Filling, ThreadInv, OrderInv, Early
      <3>3. \A u \in Sandbox : Building(u)' => u = t
        BY <2>1, <3>1, Threads, OneBuilder DEF Building
      <3>4. ~(Building(t)' /\ pc'[t] # "cleanup")
        BY <2>1 DEF Building, Early
      <3> QED
        BY <2>1, <3>1, <3>2, <3>3, <3>4 DEF Filling, Early
    <2> QED
      BY <2>2, <2>3
  <1>3. \/ UNCHANGED <<live, handlers>>
        \/ \E t \in Thread : InitList(t)
        \/ \E t \in Thread, x \in Item : CollectItem(t, x) \/ CreateItem(t, x)
        \/ \E t \in Thread, h \in Handler : FinishHandler(t, h)
    BY DEF Next, ThreadStep, SandboxStep, Terminated, vars, server, CheckList,
           Submit, SubmitRaises, LeavePool, CollectEnds, FinishLoopEnds,
           StartThread, EnterCachedProperty, Lookup, AddToReservation, EndTests,
           InterruptCollect, EnterFinally
  <1>4. CASE UNCHANGED <<live, handlers>>
    BY <1>1, <1>4 DEF Present
  <1> QED
    BY <1>1, <1>2, <1>3, <1>4, BuildKeepsPresent

\* One thread finishes at a time, while nobody builds.
LEMMA FinishesAlone ==
    ASSUME TypeOK, ThreadInv, NEW t \in Thread, Finishing(t) \/ Ended, NEW u \in Thread
    PROVE  /\ pc[u] \notin {"init", "submit", "collect", "drain"}
           /\ Finishing(t) /\ Finishing(u) => u = t
           /\ Ended => ~Finishing(u)
           /\ Finishing(t) => ~Ended
  <1> USE Threads DEF Finishing, Ended
  <1>1. CASE Ended
    BY <1>1 DEF ThreadInv, PcInv, OrderInv, ThreadEnded
  <1>2. CASE Finishing(t) /\ t = MainThread
    BY <1>2 DEF ThreadInv, PcInv, OrderInv, ThreadEnded
  <1>3. CASE Finishing(t) /\ t # MainThread
    <2>1. t \in Sandbox /\ pc[t] = "cleanup"
      BY <1>3 DEF ThreadInv, PcInv, Early
    <2>2. pc[MainThread] = "running"
      BY <2>1 DEF ThreadInv, PcInv, OrderInv, ThreadEnded
    <2> QED
      BY <2>1, <2>2, OneBuilder DEF Building, ThreadInv, PcInv, Early
  <1> QED
    BY <1>1, <1>2, <1>3

\* While a list is being built or its futures run, the lists are filling.
LEMMA BuildersFill ==
    ASSUME TypeOK, ThreadInv, NEW t \in Thread,
           pc[t] \in {"init", "submit", "collect", "drain"}
    PROVE  Filling
  <1> USE Threads
  <1>1. CASE t = MainThread
    BY <1>1 DEF Filling, Early, ThreadInv, PcInv
  <1>2. CASE t \in Sandbox
    <2>1. pc[MainThread] = "running"
      BY <1>2 DEF ThreadInv, PcInv, OrderInv, ThreadEnded
    <2> QED
      BY <1>2, <2>1 DEF Filling, Building
  <1> QED
    BY <1>1, <1>2

\* What finish() has passed stays gone when it deletes the next thing.
LEMMA DeleteStep ==
    ASSUME TypeOK, FutureInv, NEW t \in Thread, NEW h \in ToFinish(t), FirstPass(t) \/ Clean,
           UNCHANGED <<handlers, phase, shellOf>>,
           finished' = [finished EXCEPT ![t] = @ \cup {h}],
           live' = IF h[2] \in Shell /\ InUse(h[2]) THEN live ELSE live \ {h[2]}
    PROVE  (FirstPass(t) \/ Clean)'
  <1>0. phase[t] \in Kind /\ h \in handlers[phase[t]] /\ h \notin finished[t]
    BY DEF ToFinish, TypeOK
  <1>1. ASSUME Clean
        PROVE  Clean'
    <2>1. Gone(h)
      BY <1>0, <1>1 DEF Clean
    <2>2. live' = live
      BY <2>1 DEF Gone
    <2> QED
      BY <1>1, <2>2 DEF Clean, Gone, InUse
  <1>2. ASSUME FirstPass(t)
        PROVE  FirstPass(t)'
    <2>1. finished'[t] = finished[t] \cup {h}
      BY DEF TypeOK
    <2>2. ASSUME NEW k \in Kind, NEW g \in handlers[k]
          PROVE  IF g \in finished'[t] THEN Gone(g)' ELSE g[2] \in live'
      <3>1. CASE g = h
        BY <2>1, <3>1 DEF Gone, InUse
      <3>2. CASE g # h /\ g \notin finished[t]
        <4>1. g[2] # h[2]
          BY <1>0, <3>2, Listed
        <4> QED
          BY <1>2, <2>1, <3>2, <4>1 DEF FirstPass
      <3>3. CASE g \in finished[t]
        <4>1. Gone(g)
          BY <1>2, <3>3 DEF FirstPass
        <4>2. CASE phase[t] = "shell"
          <5>1. h[2] \in Shell
            BY <1>0, <4>2, Listed, Items
          <5>2. Resource \cap live' = Resource \cap live
            BY <5>1, ConfigAssumption
          <5> QED
            BY <2>1, <3>3, <4>1, <5>2 DEF Gone, InUse
        <4>3. CASE phase[t] # "shell"
          <5>1. k # "shell"
            BY <1>2, <3>3, <4>3 DEF FirstPass
          <5>2. g[2] \notin Shell
            BY <5>1, Listed, Items
          <5> QED
            BY <2>1, <3>3, <4>1, <5>2 DEF Gone
        <4> QED
          BY <4>2, <4>3
      <3> QED
        BY <3>1, <3>2, <3>3
    <2>3. phase[t] # "shell" => handlers["shell"] \cap finished'[t] = {}
      <3>1. phase[t] # "shell" => h \notin handlers["shell"]
        BY <1>0, Listed, Items
      <3> QED
        BY <1>2, <2>1, <3>1 DEF FirstPass
    <2> QED
      BY <1>2, <2>1, <2>2, <2>3 DEF FirstPass
  <1> QED
    BY <1>1, <1>2

\* Every step of finish() removes what is left or finds everything removed.
LEMMA FinishStep ==
    TypeOK /\ ThreadInv /\ FutureInv /\ PresentInv /\ FinishInv /\ [Next]_vars => FinishInv'
  <1> SUFFICES ASSUME TypeOK, ThreadInv, FutureInv, PresentInv, FinishInv, [Next]_vars,
                      ~deleteFailed'
               PROVE  FinishInv'
    BY DEF FinishInv
  <1>0. shellOf' = shellOf
    BY OutcomesStay
  <1> USE Threads
  \* building
  <1>1. ASSUME NEW t \in Thread,
               InitList(t) \/ \E x \in Item : CollectItem(t, x) \/ CreateItem(t, x)
        PROVE  FinishInv'
    <2>1. pc[t] \in {"init", "collect", "drain"}
      BY <1>1 DEF InitList, CollectItem, CreateItem, FutureInv, RunningInv
    <2>2. pc' = pc \/ pc' = [pc EXCEPT ![t] = "check"] \/ pc' = [pc EXCEPT ![t] = "submit"]
      BY <1>1 DEF InitList, CollectItem, CreateItem, Goto
    <2>3. Present'
      BY <1>1, <2>1, BuildersFill, BuildKeepsPresent DEF PresentInv
    <2>4. \A u \in Thread : ~Finishing(u)
      BY <2>1, FinishesAlone
    <2>5. ~Ended
      BY <2>1, FinishesAlone
    <2>6. \A u \in Thread : ~Finishing(u)'
      BY <2>2, <2>4 DEF Finishing, TypeOK
    <2>7. ~Ended'
      BY <2>2, <2>5 DEF Ended, TypeOK
    <2> QED
      BY <2>3, <2>6, <2>7 DEF FinishInv
  \* a step that leaves the lists, CloudShell and finish() alone
  <1>2. ASSUME UNCHANGED <<handlers, live, phase, finished, deleteFailed>>,
               \A u \in Thread : Finishing(u)' <=> Finishing(u), Ended' <=> Ended
        PROVE  FinishInv'
    <2>1. (Present' <=> Present) /\ (Clean' <=> Clean)
      BY <1>0, <1>2 DEF Present, Clean, Gone, InUse
    <2>2. \A u \in Thread : FirstPass(u)' <=> FirstPass(u)
      BY <1>0, <1>2 DEF FirstPass, Gone, InUse
    <2> QED
      BY <1>2, <2>1, <2>2 DEF FinishInv
  \* finish() is left with everything removed
  <1>3. ASSUME NEW t \in Thread, Clean, UNCHANGED <<handlers, live>>
        PROVE  FinishInv'
    <2>1. Clean'
      BY <1>0, <1>3 DEF Clean, Gone, InUse
    <2> QED
      BY <2>1 DEF FinishInv
  <1>4. ASSUME NEW t \in Thread, CollectEnds(t)
        PROVE  FinishInv'
    <2>0. /\ pc[t] = "collect" /\ UNCHANGED <<handlers, live, deleteFailed>>
          /\ \A u \in Thread \ {t} : pc'[u] = pc[u]
          /\ pc'[t] \in {"cleanup", "running", "submit", "lookup"}
          /\ pc'[t] = "cleanup" => phase'[t] = "sandbox" /\ finished'[t] = {}
      BY <1>4 DEF CollectEnds, ListReady, Goto, server, TypeOK
    <2>1. Present
      BY <2>0, BuildersFill DEF PresentInv
    <2>2. Present'
      BY <2>0, <2>1 DEF Present
    <2>3. \A u \in Thread : ~Finishing(u)
      BY <2>0, FinishesAlone
    <2>4. ~Ended
      BY <2>0, FinishesAlone
    <2>5. ~Ended'
      BY <2>0, <2>4 DEF Ended
    <2>6. \A u \in Thread : Finishing(u)' => u = t /\ pc'[t] = "cleanup"
      BY <2>0, <2>3 DEF Finishing
    <2>7. pc'[t] = "cleanup" => FirstPass(t)'
      BY <2>0, <2>2, Items DEF FirstPass, Present
    <2> QED
      BY <2>2, <2>5, <2>6, <2>7 DEF FinishInv
  <1>5. CASE EnterFinally
    <2>0. /\ pc[MainThread] \in {"running", "final"} /\ pc'[MainThread] = "finish"
          /\ UNCHANGED <<handlers, live, deleteFailed>>
          /\ \A u \in Thread \ {MainThread} : pc'[u] = pc[u]
          /\ phase'[MainThread] = "sandbox" /\ finished'[MainThread] = {}
          /\ \A u \in Sandbox : pc[u] \in {"idle", "done", "failed", "keyerror"}
      BY <1>5 DEF EnterFinally, Goto, server, TypeOK, ThreadEnded, ThreadInv, OrderInv
    <2>1. \A u \in Thread : ~Finishing(u)
      BY <2>0 DEF Finishing
    <2>2. Present \/ Clean
      BY <2>0, <2>1 DEF FinishInv
    <2>3. Present => FirstPass(MainThread)'
      BY <2>0, Items DEF FirstPass, Present
    <2>4. Clean => Clean'
      BY <1>0, <2>0 DEF Clean, Gone, InUse
    <2>5. ~Ended' /\ \A u \in Thread : Finishing(u)' => u = MainThread
      BY <2>0 DEF Ended, Finishing
    <2>6. Finishing(MainThread)'
      BY <2>0 DEF Finishing
    <2> QED
      BY <2>2, <2>3, <2>4, <2>5, <2>6 DEF FinishInv
  <1>6. ASSUME NEW t \in Thread, NEW h \in Handler, FinishHandler(t, h)
        PROVE  FinishInv'
    <2>0. Finishing(t) /\ h \in ToFinish(t) /\ UNCHANGED <<handlers, phase>>
      BY <1>6 DEF FinishHandler
    <2>a. ~deleteFailed
      BY <1>6 DEF FinishHandler
    <2>1. FirstPass(t) \/ Clean
      BY <2>0, <2>a DEF FinishInv
    <2>2. CASE /\ pc' = pc /\ finished' = [finished EXCEPT ![t] = @ \cup {h}]
               /\ live' = IF h[2] \in Shell /\ InUse(h[2]) THEN live ELSE live \ {h[2]}
      <3>1. (FirstPass(t) \/ Clean)'
        BY <1>0, <2>0, <2>1, <2>2, DeleteStep
      <3>2. /\ Finishing(t)' /\ ~Ended'
            /\ \A u \in Thread : Finishing(u)' => u = t
        BY <2>0, <2>2, FinishesAlone DEF Finishing, Ended
      <3> QED
        BY <3>1, <3>2 DEF FinishInv
    <2>3. CASE UNCHANGED <<finished, live>> /\ deleteFailed' = (deleteFailed \/ h[2] \in live)
      <3>1. h[2] \notin live
        BY <2>3
      <3>2. ~FirstPass(t)
        BY <2>0, <3>1 DEF FirstPass, ToFinish, TypeOK
      <3> QED
        BY <1>3, <2>0, <2>1, <2>3, <3>2
    <2> QED
      BY <1>6, <2>2, <2>3 DEF FinishHandler
  <1>7. ASSUME NEW t \in Thread, FinishLoopEnds(t)
        PROVE  FinishInv'
    <2>0. /\ Finishing(t) /\ ToFinish(t) = {} /\ phase[t] \in Kind
          /\ UNCHANGED <<handlers, finished, live, deleteFailed>>
      BY <1>7 DEF FinishLoopEnds, server, TypeOK
    <2>1. (FirstPass(t) \/ Clean) /\ handlers[phase[t]] \subseteq finished[t]
      BY <2>0 DEF FinishInv, ToFinish
    <2>2. CASE Clean
      BY <1>3, <2>0, <2>2
    <2>3. CASE FirstPass(t) /\ phase[t] # "shell"
      <3>1. phase'[t] = NextPhase(phase[t]) /\ pc' = pc
        BY <1>7, <2>3 DEF FinishLoopEnds, TypeOK
      <3>2. FirstPass(t)'
        BY <1>0, <2>0, <2>1, <2>3, <3>1, Items DEF FirstPass, NextPhase, Gone, InUse
      <3>3. /\ Finishing(t)' /\ ~Ended'
            /\ \A u \in Thread : Finishing(u)' => u = t
        BY <2>0, <3>1, FinishesAlone DEF Finishing, Ended
      <3> QED
        BY <3>2, <3>3 DEF FinishInv
    <2>4. CASE FirstPass(t) /\ phase[t] = "shell"
      <3>1. \A k \in Kind : handlers[k] \subseteq finished[t]
        BY <2>1, <2>4, Items DEF FirstPass
      <3>2. Clean
        BY <2>4, <3>1 DEF FirstPass, Clean
      <3> QED
        BY <1>3, <2>0, <3>2
    <2> QED
      BY <2>1, <2>2, <2>3, <2>4
  <1>8. ASSUME NEW t \in Thread,
               CheckList(t) \/ Submit(t) \/ SubmitRaises(t) \/ LeavePool(t)
        PROVE  FinishInv'
    <2>1. UNCHANGED <<handlers, live, phase, finished, deleteFailed>>
      BY <1>8 DEF CheckList, Submit, SubmitRaises, LeavePool, server
    <2>2. /\ \A u \in Thread \ {t} : pc'[u] = pc[u]
          /\ {pc[t], pc'[t]} \cap {"cleanup", "finish", "returned", "raised"} = {}
      BY <1>8 DEF CheckList, ListReady, Submit, SubmitRaises, LeavePool, Goto, TypeOK
    <2> QED
      BY <1>2, <2>1, <2>2 DEF Finishing, Ended
  <1>9. ASSUME NEW t \in Sandbox, SandboxStep(t)
        PROVE  FinishInv'
    <2>1. UNCHANGED <<handlers, live, phase, finished, deleteFailed>>
      BY <1>9 DEF SandboxStep, StartThread, EnterCachedProperty, Lookup, AddToReservation,
                  EndTests, server
    <2>2. /\ \A u \in Thread \ {t} : pc'[u] = pc[u]
          /\ {pc[t], pc'[t]} \cap {"cleanup", "finish", "returned", "raised"} = {}
      BY <1>9 DEF SandboxStep, StartThread, EnterCachedProperty, Lookup, AddToReservation,
                  EndTests, Goto, TypeOK
    <2> QED
      BY <1>2, <2>1, <2>2 DEF Finishing, Ended
  <1>10. ASSUME NEW x \in Item, InterruptCollect(x)
        PROVE  FinishInv'
    BY <1>2, <1>10 DEF InterruptCollect, server, Finishing, Ended
  <1>11. CASE Terminated \/ UNCHANGED vars
    BY <1>2, <1>11 DEF Terminated, vars, Finishing, Ended
  <1> QED
    BY <1>1, <1>4, <1>5, <1>6, <1>7, <1>8, <1>9, <1>10, <1>11 DEF Next, ThreadStep

\* At the end of a run in which CloudShell refused no deletion nothing stays but
\* what no handler stands for, and the shells that it uses: everything made has
\* a handler in a list, and finish() has removed it, in its first pass or before
\* its second one stopped at what the first had removed.
THEOREM NothingElseStays == DescriptorLock => (Spec => []OnlyAbandonedStays)
  <1> SUFFICES ASSUME DescriptorLock
               PROVE  Spec => []OnlyAbandonedStays
    OBVIOUS
  <1>1. Init => LiveInv /\ PresentInv /\ FinishInv
    BY Threads, Items
       DEF Init, LiveInv, PresentInv, FinishInv, Present, Finishing, Ended
  <1>2. TypeOK /\ ThreadInv /\ FutureInv /\ LiveInv /\ FinishInv => OnlyAbandonedStays
    <2> SUFFICES ASSUME TypeOK, ThreadInv, FutureInv, LiveInv, FinishInv, Ended, ~deleteFailed
                 PROVE  /\ live \cap (Sandbox \cup Resource) \subseteq abandoned
                        /\ \A x \in Shell \cap live : InUse(x)
      BY DEF OnlyAbandonedStays
    <2>1. \A u \in Thread : \A x \in Item : future[u][x] # "made"
      BY FinishesAlone DEF FutureInv, RunningInv
    <2>2. Clean
      BY DEF FinishInv
    <2>3. ASSUME NEW x \in live, x \notin abandoned
          PROVE  x \in Shell /\ InUse(x)
      <3>1. PICK t \in Thread : future[t][x] = "collected"
        BY <2>1, <2>3 DEF LiveInv, TypeOK
      <3>2. PICK k \in Kind : x \in ItemsOf(k)
        BY Items DEF TypeOK
      <3>3. <<t, x>> \in handlers[k] /\ <<t, x>>[2] = x
        BY <3>1, <3>2 DEF FutureInv, OwnerInv
      <3>4. Gone(<<t, x>>)
        BY <2>2, <3>3 DEF Clean
      <3> QED
        BY <2>3, <3>3, <3>4 DEF Gone
    <2>4. live \cap (Sandbox \cup Resource) \subseteq abandoned
      BY <2>3, ConfigAssumption
    <2>5. \A x \in Shell \cap live : InUse(x)
      BY <2>3 DEF LiveInv
    <2> QED
      BY <2>4, <2>5
  <1>3. Spec => [](TypeOK /\ ThreadInv /\ FutureInv)
    BY FutureInvariant
  <1> QED
    BY <1>1, <1>2, <1>3, LiveStep, PresentStep, FinishStep, PTL DEF Spec
=============================================================================
