-------------------------- MODULE ShellInstallProofs --------------------------
(***************************************************************************)
(* Proofs about ShellInstall, for every set of shells with any number of   *)
(* packages and standards; and about the connection that the threads share *)
(* (SmbSession, as ShellShare has it), for every number of threads, calls, *)
(* attempts and faults.                                                    *)
(***************************************************************************)
EXTENDS ShellShare, SequenceTheorems, TLAPS

\* Where a shell can be: a thread that stores has a package left, and after the
\* pool there is only finish().
PcInv ==
    /\ \A s \in Shell : pc[s] = "put" => next[s] <= Len(Packages[s])
    /\ mpc # "pool" =>
         \A s \in Shell : pc[s] \in {"remove", "list", "clear", "prepared", "failed"}
    /\ mpc = "use" => \A s \in Shell : pc[s] = "prepared"
    /\ mpc = "ended" => \A s \in Shell : pc[s] \in {"prepared", "failed"}

\* prepare() of the shell has raised and cleans up, or is through with it.
Failing(s) == pc[s] \in {"remove", "list", "clear", "failed"}

\* The packages the thread has stored, in the order of its zip file.
Stored(s) == {i \in 1..Len(Packages[s]) : i < next[s]}

\* A truncated package is one whose transfer timed out.  Until a shell fails,
\* everything stored stays, and a prepared shell has all it needs.
StoredInv ==
    /\ \A s \in Shell : ~unread[s] => pc[s] = "put" /\ Packages[s][next[s]] \in cut
    /\ \A p \in Package : pypi[p] = "part" => p \in cut
    /\ mpc = "pool" =>
        /\ (\A s \in Shell : ~Failing(s)) =>
             \A s \in Shell : \A i \in Stored(s) : pypi[Packages[s][i]] # "absent"
        /\ \A s \in Shell :
            /\ pc[s] \in {"standards", "extra", "install", "prepared"}
                 => next[s] > Len(Packages[s])
            /\ pc[s] = "extra" => known[s] \subseteq standards
            /\ pc[s] \in {"install", "prepared"} => Standards[s] \subseteq standards
            /\ pc[s] = "prepared" => s \in installed

\* The shell has still to clear the offline PyPI of the package.
Owes(s, p) ==
    /\ HasDependencies(s)
    /\ \/ pc[s] \in {"deps", "put", "standards", "extra", "install", "remove", "list"}
       \/ pc[s] = "clear" /\ p \in listing[s]
       \/ pc[s] = "prepared" /\ mpc \in {"pool", "use", "cleanup"}
       \/ pc[s] = "prepared" /\ mpc = "finish" /\ s \in handlers

\* Unless a removal failed, some shell has still to clear each package that is
\* there.
OwedInv ==
    ~refused => \A p \in Package : pypi[p] # "absent" => \E s \in Shell : Owes(s, p)

-----------------------------------------------------------------------------
(* Types *)

\* What a shell brings is a package or a standard of the run.
LEMMA Brought ==
    ASSUME NEW s \in Shell
    PROVE  /\ Packages[s] \in Seq(Nat) /\ Len(Packages[s]) \in Nat
           /\ Standards[s] \subseteq Standard
           /\ \A i \in 1..Len(Packages[s]) : Packages[s][i] \in Package
           /\ HasDependencies(s) <=> Len(Packages[s]) > 0
  <1>1. Packages[s] \in Seq(Nat)
    BY ShellAssumption
  <1>2. Len(Packages[s]) \in Nat /\ (Packages[s] # <<>> <=> Len(Packages[s]) > 0)
    BY <1>1
  <1>3. \A i \in 1..Len(Packages[s]) : Packages[s][i] \in Package
    BY DEF Package
  <1>4. Standards[s] \subseteq Standard
    BY DEF Standard
  <1> QED
    BY <1>1, <1>2, <1>3, <1>4 DEF HasDependencies

\* A function with one value changed.
LEMMA ExceptType ==
    ASSUME NEW S, NEW T, NEW f \in [S -> T], NEW s \in S, NEW v \in T
    PROVE  [f EXCEPT ![s] = v] \in [S -> T]
  OBVIOUS

\* The attempts stay within their bound.
LEMMA NextAttempt ==
    ASSUME TypeOK, NEW s \in Shell
    PROVE  /\ 1 \in 1..MaxAttempts
           /\ AttemptsLeft(s) => attempts[s] + 1 \in 1..MaxAttempts
  BY ShellAssumption DEF TypeOK, AttemptsLeft

\* The package that is being stored.
LEMMA StoresPackage ==
    ASSUME TypeOK, PcInv, NEW s \in Shell, pc[s] = "put"
    PROVE  /\ next[s] \in 1..Len(Packages[s]) /\ Packages[s][next[s]] \in Package
           /\ HasDependencies(s)
  <1>1. next[s] \in 1..Len(Packages[s])
    BY Brought DEF TypeOK, PcInv
  <1> QED
    BY <1>1, Brought

\* Every step keeps the types.
LEMMA TypesStep ==
    TypeOK /\ PcInv /\ [Next]_vars => TypeOK'
  <1> SUFFICES ASSUME TypeOK, PcInv, [Next]_vars
               PROVE  TypeOK'
    OBVIOUS
  <1> USE Brought, ShellAssumption DEF TypeOK, Goto, smbVars, mainVars
  <1>1. ASSUME NEW s \in Shell, NextPackage(s)
        PROVE  TypeOK'
    BY <1>1 DEF NextPackage, TypeOK
  <1>2. ASSUME NEW s \in Shell, PutPackage(s)
        PROVE  TypeOK'
    <2>1. Packages[s][next[s]] \in Package /\ next[s] <= Len(Packages[s])
      BY <1>2, StoresPackage DEF PutPackage
    <2>2. pypi' \in [Package -> {"absent", "whole", "part"}] /\ cut' \subseteq Package
      BY <1>2, <2>1 DEF PutPackage
    <2>3. unread' \in [Shell -> BOOLEAN] /\ lock' \in Shell \cup {Nobody}
      BY <1>2 DEF PutPackage, ReleaseLock
    <2>4. attempts' \in [Shell -> 1..MaxAttempts]
      <3>1. \/ UNCHANGED attempts
            \/ attempts' = [attempts EXCEPT ![s] = 1]
            \/ AttemptsLeft(s) /\ attempts' = [attempts EXCEPT ![s] = attempts[s] + 1]
        BY <1>2 DEF PutPackage, CleanUp
      <3>2. CASE UNCHANGED attempts
        BY <3>2
      <3>3. CASE attempts' = [attempts EXCEPT ![s] = 1]
        BY <3>3, NextAttempt
      <3>4. CASE AttemptsLeft(s) /\ attempts' = [attempts EXCEPT ![s] = attempts[s] + 1]
        BY <3>4, NextAttempt
      <3> QED
        BY <3>1, <3>2, <3>3, <3>4
    <2>5. /\ next' \in [Shell -> Nat \ {0}]
          /\ \A u \in Shell : next'[u] <= Len(Packages[u]) + 1
      <3>1. next[s] + 1 \in Nat \ {0} /\ next[s] + 1 <= Len(Packages[s]) + 1
        BY SMTT(30), <2>1
      <3>2. next' = next \/ next' = [next EXCEPT ![s] = next[s] + 1]
        BY <1>2 DEF PutPackage
      <3>3. next' \in [Shell -> Nat \ {0}]
        <4>1. CASE next' = next
          BY <4>1
        <4>2. CASE next' = [next EXCEPT ![s] = next[s] + 1]
          BY <3>1, <4>2
        <4> QED
          BY <3>2, <4>1, <4>2
      <3>4. \A u \in Shell : next'[u] = next[u] \/ (u = s /\ next'[u] = next[s] + 1)
        BY <3>2
      <3> QED
        BY <3>1, <3>3, <3>4
    <2> QED
      BY <1>2, <2>2, <2>3, <2>4, <2>5 DEF PutPackage, CleanUp
  <1>3. ASSUME NEW s \in Shell, ListStandards(s)
        PROVE  TypeOK'
    BY <1>3 DEF ListStandards, CleanUp, TypeOK
  <1>4. ASSUME NEW s \in Shell, PutStandards(s)
        PROVE  TypeOK'
    BY <1>4 DEF PutStandards, CleanUp, TypeOK
  <1>5. ASSUME NEW s \in Shell, InstallShell(s)
        PROVE  TypeOK'
    <2>1. attempts' \in [Shell -> 1..MaxAttempts]
      <3>1. \/ attempts' = [attempts EXCEPT ![s] = 1]
            \/ AttemptsLeft(s) /\ attempts' = [attempts EXCEPT ![s] = attempts[s] + 1]
        BY <1>5 DEF InstallShell
      <3> QED
        <4>1. 1 \in 1..MaxAttempts
          BY NextAttempt
        <4>2. CASE attempts' = [attempts EXCEPT ![s] = 1]
          BY <4>1, <4>2
        <4>3. CASE AttemptsLeft(s) /\ attempts' = [attempts EXCEPT ![s] = attempts[s] + 1]
          <5>1. attempts[s] + 1 \in 1..MaxAttempts
            BY <4>3, NextAttempt
          <5> QED
            BY <4>3, <5>1
        <4> QED
          BY <3>1, <4>2, <4>3
    <2> QED
      BY <1>5, <2>1 DEF InstallShell, CleanUp
  <1>6. ASSUME NEW s \in Shell, RemoveShell(s)
        PROVE  TypeOK'
    BY <1>6 DEF RemoveShell, FinishShell, TypeOK
  <1>7. ASSUME NEW s \in Shell, ListPypi(s)
        PROVE  TypeOK'
    <2>1. handlers' \subseteq Shell /\ mpc' = mpc
      BY <1>7 DEF ListPypi, FinishShell
    <2>2. listing' \in [Shell -> SUBSET Package]
      <3>1. PICK l \in SUBSET Package :
              listing' = [listing EXCEPT ![s] = l] \/ listing' = listing
        BY <1>7 DEF ListPypi
      <3> QED
        BY <3>1
    <2>3. refused' \in BOOLEAN
      BY <1>7 DEF ListPypi
    <2> QED
      BY <1>7, <2>1, <2>2, <2>3 DEF ListPypi, FinishShell
  <1>8. ASSUME NEW s \in Shell, ClearPypi(s)
        PROVE  TypeOK'
    <2>1. handlers' \subseteq Shell /\ mpc' = mpc
      BY <1>8 DEF ClearPypi, FinishShell
    <2>2. listing' \in [Shell -> SUBSET Package]
      <3>1. PICK l \in SUBSET Package :
              listing' = [listing EXCEPT ![s] = l] \/ listing' = listing
        BY <1>8 DEF ClearPypi
      <3> QED
        BY <3>1
    <2>3. refused' \in BOOLEAN
      BY <1>8 DEF ClearPypi
    <2>4. pypi' \in [Package -> {"absent", "whole", "part"}]
      <3>1. pypi' = pypi \/ \E p \in Package : pypi' = [pypi EXCEPT ![p] = "absent"]
        BY <1>8 DEF ClearPypi
      <3> QED
        BY <3>1
    <2> QED
      BY <1>8, <2>1, <2>2, <2>3, <2>4 DEF ClearPypi, FinishShell
  <1>9. ASSUME NEW s \in Shell, FinishNext(s)
        PROVE  TypeOK'
    BY <1>9 DEF FinishNext, Finishing, TypeOK
  <1>10. CASE PoolEnds
    BY <1>10 DEF PoolEnds, PreparationFailed, TypeOK
  <1>11. CASE EnterFinish
    BY <1>11 DEF EnterFinish, TypeOK
  <1>12. CASE FinishEnds
    BY <1>12 DEF FinishEnds, TypeOK
  <1>u. CASE UNCHANGED vars
    BY <1>u DEF vars, TypeOK
  <1> QED
    BY <1>1, <1>2, <1>3, <1>4, <1>5, <1>6, <1>7, <1>8, <1>9, <1>10, <1>11, <1>12,
       <1>u DEF Next, ShellStep, MainStep, Terminated

\* Every step keeps the order of the phases.
LEMMA PcStep ==
    TypeOK /\ PcInv /\ [Next]_vars => PcInv'
  <1> SUFFICES ASSUME TypeOK, PcInv, [Next]_vars
               PROVE  PcInv'
    OBVIOUS
  <1> USE Brought DEF Goto, smbVars, mainVars
  <1>1. ASSUME NEW s \in Shell, NextPackage(s)
        PROVE  PcInv'
    BY <1>1 DEF NextPackage, PcInv, TypeOK
  <1>2. ASSUME NEW s \in Shell, PutPackage(s)
        PROVE  PcInv'
    BY <1>2 DEF PutPackage, ReleaseLock, CleanUp, AttemptsLeft, PcInv, TypeOK
  <1>3. ASSUME NEW s \in Shell, ListStandards(s)
        PROVE  PcInv'
    BY <1>3 DEF ListStandards, CleanUp, PcInv, TypeOK
  <1>4. ASSUME NEW s \in Shell, PutStandards(s)
        PROVE  PcInv'
    BY <1>4 DEF PutStandards, CleanUp, PcInv, TypeOK
  <1>5. ASSUME NEW s \in Shell, InstallShell(s)
        PROVE  PcInv'
    BY <1>5 DEF InstallShell, CleanUp, AttemptsLeft, PcInv, TypeOK
  <1>6. ASSUME NEW s \in Shell, RemoveShell(s)
        PROVE  PcInv'
    BY <1>6 DEF RemoveShell, FinishShell, PcInv, TypeOK
  <1>7. ASSUME NEW s \in Shell, ListPypi(s)
        PROVE  PcInv'
    BY <1>7 DEF ListPypi, FinishShell, PcInv, TypeOK
  <1>8. ASSUME NEW s \in Shell, ClearPypi(s)
        PROVE  PcInv'
    BY <1>8 DEF ClearPypi, FinishShell, PcInv, TypeOK
  <1>9. ASSUME NEW s \in Shell, FinishNext(s)
        PROVE  PcInv'
    BY <1>9 DEF FinishNext, Finishing, PcInv, TypeOK
  <1>10. CASE PoolEnds
    BY <1>10 DEF PoolEnds, PreparationFailed, PcInv, TypeOK
  <1>11. CASE EnterFinish
    BY <1>11 DEF EnterFinish, PcInv, TypeOK
  <1>12. CASE FinishEnds
    BY <1>12 DEF FinishEnds, PcInv, TypeOK
  <1>u. CASE UNCHANGED vars
    BY <1>u DEF vars, PcInv, TypeOK
  <1> QED
    BY <1>1, <1>2, <1>3, <1>4, <1>5, <1>6, <1>7, <1>8, <1>9, <1>10, <1>11, <1>12,
       <1>u DEF Next, ShellStep, MainStep, Terminated

\* The initial state has the types.
LEMMA InitTypes == Init => TypeOK /\ PcInv
  <1> SUFFICES ASSUME Init
               PROVE  TypeOK /\ PcInv
    OBVIOUS
  <1>1. attempts \in [Shell -> 1..MaxAttempts] /\ next \in [Shell -> Nat \ {0}]
    BY ShellAssumption DEF Init
  <1>2. \A s \in Shell : next[s] <= Len(Packages[s]) + 1
    BY Brought DEF Init
  <1>3. PcInv
    BY DEF Init, PcInv
  <1> QED
    BY <1>1, <1>2, <1>3 DEF Init, TypeOK

\* The variables have their types in every reachable state.
THEOREM InstallTypes == Spec => []TypeOK
  BY InitTypes, TypesStep, PcStep, PTL DEF Spec

-----------------------------------------------------------------------------
(* What the shells need is there *)

\* Every step keeps what the prepared shells need, until one fails.
LEMMA StoredStep ==
    TypeOK /\ PcInv /\ StoredInv /\ [Next]_vars => StoredInv'
  <1> SUFFICES ASSUME TypeOK, PcInv, StoredInv, [Next]_vars
               PROVE  StoredInv'
    OBVIOUS
  <1> USE Brought DEF TypeOK, PcInv, StoredInv, Goto, smbVars, mainVars
  <1>1. ASSUME NEW s \in Shell, NextPackage(s)
        PROVE  StoredInv'
    BY SMTT(30), <1>1 DEF NextPackage, Failing, Stored
  <1>2. ASSUME NEW s \in Shell, PutPackage(s)
        PROVE  StoredInv'
    <2> DEFINE p == Packages[s][next[s]]
    <2>0. /\ p \in Package /\ next[s] \in 1..Len(Packages[s]) /\ pc[s] = "put"
          /\ UNCHANGED <<known, standards, installed, mpc>>
      BY <1>2, StoresPackage DEF PutPackage
    <2>1. /\ \A u \in Shell \ {s} :
               pc'[u] = pc[u] /\ next'[u] = next[u] /\ unread'[u] = unread[u]
          /\ \A q \in Package \ {p} : pypi'[q] = pypi[q]
          /\ cut \subseteq cut'
      BY <1>2, <2>0 DEF PutPackage, CleanUp
    <2>2. /\ pypi'[p] \in {"whole", "part", pypi[p]}
          /\ pypi'[p] = "part" => p \in cut'
      BY SMTT(30), <1>2, <2>0 DEF PutPackage
    <2>3. \/ /\ pc'[s] = "deps" /\ next'[s] = next[s] + 1 /\ unread'[s]
             /\ pypi'[p] # "absent"
          \/ /\ pc'[s] = "put" /\ next'[s] = next[s]
             /\ unread'[s] \/ p \in cut'
          \/ /\ pc'[s] = "remove" /\ next'[s] = next[s] /\ unread'[s]
      BY SMTT(30), <1>2, <2>0, <2>1 DEF PutPackage, CleanUp
    <2>4. \A u \in Shell : ~unread'[u] => pc'[u] = "put" /\ Packages[u][next'[u]] \in cut'
      <3>1. \A u \in Shell \ {s} : ~unread'[u] => ~unread[u]
        BY <2>1
      <3>2. ~unread'[s] => pc'[s] = "put" /\ Packages[s][next'[s]] \in cut'
        BY <2>0, <2>3
      <3> QED
        BY ZenonT(60), <2>1, <3>1, <3>2
    <2>5. \A q \in Package : pypi'[q] = "part" => q \in cut'
      BY <2>1, <2>2
    <2>6. ASSUME mpc = "pool", \A u \in Shell : ~Failing(u)',
                 NEW u \in Shell, NEW i \in Stored(u)'
          PROVE  pypi'[Packages[u][i]] # "absent"
      <3>1. \A w \in Shell : ~Failing(w)
        BY <2>0, <2>1, <2>6 DEF Failing
      <3>2. Packages[u][i] \in Package /\ i \in Nat
        BY DEF Stored
      <3>3. CASE i \in Stored(u)
        <4>1. pypi[Packages[u][i]] # "absent"
          BY <2>6, <3>1, <3>3
        <4> QED
          BY <2>1, <2>2, <3>2, <4>1
      <3>4. CASE i \notin Stored(u)
        <4>a. i < next'[u] /\ ~(i < next[u]) /\ next[u] \in Nat
          BY <3>4 DEF Stored
        <4>b. u = s /\ next'[s] = next[s] + 1
          BY <2>1, <2>3, <4>a
        <4>1. u = s /\ next'[s] = next[s] + 1 /\ i = next[s]
          BY <3>2, <4>a, <4>b
        <4> QED
          BY <2>3, <4>1
      <3> QED
        BY <3>3, <3>4
    <2>7. ASSUME mpc = "pool", NEW u \in Shell
          PROVE  /\ pc'[u] \in {"standards", "extra", "install", "prepared"}
                      => next'[u] > Len(Packages[u])
                 /\ pc'[u] = "extra" => known'[u] \subseteq standards'
                 /\ pc'[u] \in {"install", "prepared"} => Standards[u] \subseteq standards'
                 /\ pc'[u] = "prepared" => u \in installed'
      BY <2>0, <2>1, <2>3, <2>7
    <2> QED
      BY <2>0, <2>4, <2>5, <2>6, <2>7
  <1>3. ASSUME NEW s \in Shell, ListStandards(s)
        PROVE  StoredInv'
    BY SMTT(30), <1>3 DEF ListStandards, CleanUp, Failing, Stored
  <1>4. ASSUME NEW s \in Shell, PutStandards(s)
        PROVE  StoredInv'
    BY <1>4 DEF PutStandards, CleanUp, Failing, Stored
  <1>5. ASSUME NEW s \in Shell, InstallShell(s)
        PROVE  StoredInv'
    BY SMTT(30), <1>5 DEF InstallShell, CleanUp, AttemptsLeft, Failing, Stored
  <1>6. ASSUME NEW s \in Shell, RemoveShell(s)
        PROVE  StoredInv'
    BY <1>6 DEF RemoveShell, FinishShell, Failing, Stored
  <1>7. ASSUME NEW s \in Shell, ListPypi(s)
        PROVE  StoredInv'
    BY <1>7 DEF ListPypi, FinishShell, Failing, Stored
  <1>8. ASSUME NEW s \in Shell, ClearPypi(s)
        PROVE  StoredInv'
    <2>0. /\ pc[s] = "clear" /\ pc'[s] \in {"clear", "failed", "prepared"} /\ mpc' = mpc
          /\ mpc = "pool" => pc'[s] # "prepared"
          /\ \A u \in Shell \ {s} : pc'[u] = pc[u]
          /\ UNCHANGED <<next, unread, known, standards, cut, installed>>
          /\ \A q \in Package : pypi'[q] \in {pypi[q], "absent"}
      BY <1>8 DEF ClearPypi, FinishShell
    <2>1. Failing(s) /\ (mpc = "pool" => Failing(s)')
      BY <2>0 DEF Failing
    <2>2. \A q \in Package : pypi'[q] = "part" => q \in cut'
      BY <2>0
    <2>3. \A u \in Shell : ~unread'[u] => pc'[u] = "put" /\ Packages[u][next'[u]] \in cut'
      BY <2>0
    <2> QED
      BY <2>0, <2>1, <2>2, <2>3
  <1>9. ASSUME NEW s \in Shell, FinishNext(s)
        PROVE  StoredInv'
    BY <1>9 DEF FinishNext, Finishing, Failing, Stored
  <1>10. CASE PoolEnds
    BY <1>10 DEF PoolEnds, PreparationFailed, Failing, Stored
  <1>11. CASE EnterFinish
    BY <1>11 DEF EnterFinish, Failing, Stored
  <1>12. CASE FinishEnds
    BY <1>12 DEF FinishEnds, Failing, Stored
  <1>u. CASE UNCHANGED vars
    BY <1>u DEF vars, Failing, Stored
  <1> QED
    BY <1>1, <1>2, <1>3, <1>4, <1>5, <1>6, <1>7, <1>8, <1>9, <1>10, <1>11, <1>12,
       <1>u DEF Next, ShellStep, MainStep, Terminated

\* What the tests find when the shells are handed out.
LEMMA InPlaceStep ==
    TypeOK /\ PcInv /\ StoredInv /\ PackagesInPlace /\ [Next]_vars => PackagesInPlace'
  <1> SUFFICES ASSUME TypeOK, PcInv, StoredInv, PackagesInPlace, [Next]_vars, mpc' = "use"
               PROVE  PackagesInPlace'
    BY DEF PackagesInPlace
  <1>1. CASE mpc = "use"
    <2>1. \A s \in Shell : pc[s] = "prepared"
      BY <1>1 DEF PcInv
    <2>2. UNCHANGED <<pypi, standards, installed, cut>>
      BY <1>1, <2>1
         DEF Next, ShellStep, MainStep, Terminated, vars, smbVars, NextPackage, PutPackage,
             ListStandards, PutStandards, InstallShell, RemoveShell, ListPypi, ClearPypi,
             FinishNext, Finishing, PoolEnds, EnterFinish, FinishEnds
    <2> QED
      BY <1>1, <2>2 DEF PackagesInPlace
  <1>2. CASE mpc # "use"
    <2>1. \A s \in Shell : ~ShellStep(s)
      BY <1>2
         DEF ShellStep, mainVars, NextPackage, PutPackage, ListStandards, PutStandards,
             InstallShell, RemoveShell, ListPypi, ClearPypi, FinishNext, FinishShell
    <2>2. PoolEnds /\ ~PreparationFailed /\ mpc = "pool"
      BY <1>2, <2>1
         DEF Next, MainStep, Terminated, vars, mainVars, PoolEnds, EnterFinish,
             FinishEnds
    <2>3. /\ \A s \in Shell : pc[s] = "prepared"
          /\ UNCHANGED <<pypi, standards, installed, cut>>
      BY <2>2 DEF PoolEnds, PreparationFailed, smbVars
    <2>4. \A s \in Shell : Stored(s) = 1..Len(Packages[s])
      <3> SUFFICES ASSUME NEW s \in Shell
                   PROVE  Stored(s) = 1..Len(Packages[s])
        OBVIOUS
      <3>1. next[s] > Len(Packages[s]) /\ next[s] \in Nat /\ Len(Packages[s]) \in Nat
        BY <2>2, <2>3, Brought DEF StoredInv, TypeOK
      <3> QED
        BY <3>1 DEF Stored
    <2>5. \A s \in Shell : \A i \in 1..Len(Packages[s]) : pypi[Packages[s][i]] # "absent"
      BY <2>2, <2>3, <2>4 DEF StoredInv, Failing
    <2>6. \A p \in Package : pypi[p] # "absent"
      BY <2>5 DEF Package
    <2>7. \A p \in Package : pypi[p] = "whole" \/ (pypi[p] = "part" /\ p \in cut)
      BY <2>6 DEF StoredInv, TypeOK
    <2>8. Standard \subseteq standards /\ installed = Shell
      BY <2>2, <2>3 DEF StoredInv, Standard, TypeOK
    <2> QED
      BY <2>3, <2>7, <2>8 DEF PackagesInPlace
  <1> QED
    BY <1>1, <1>2

\* When the shells are handed out for tests, the packages, the standards and the
\* shells themselves are all there: none was cleared by a shell that failed, and
\* a package is truncated only after a timeout of its own transfer.
THEOREM ShellsAreComplete == Spec => []PackagesInPlace
  <1>1. Init => StoredInv /\ PackagesInPlace
    BY Brought DEF Init, StoredInv, Stored, PackagesInPlace
  <1> QED
    BY <1>1, InitTypes, TypesStep, PcStep, StoredStep, InPlaceStep, PTL DEF Spec

-----------------------------------------------------------------------------
(* The offline PyPI at the end *)

\* Every step leaves a shell that owes what is in the PyPI.
LEMMA OwedStep ==
    TypeOK /\ PcInv /\ OwedInv /\ [Next]_vars => OwedInv'
  <1> SUFFICES ASSUME TypeOK, PcInv, OwedInv, [Next]_vars
               PROVE  OwedInv'
    OBVIOUS
  <1> USE Brought DEF Goto, smbVars, mainVars
  <1>1. ASSUME NEW s \in Shell, NextPackage(s)
        PROVE  OwedInv'
    <2>1. /\ UNCHANGED <<pypi, refused, listing, mpc, handlers>>
          /\ \A u \in Shell \ {s} : pc'[u] = pc[u]
          /\ pc[s] \in {"deps", "standards", "extra", "install"}
          /\ \/ pc'[s] \in {"put", "standards", "extra", "install", "remove"}
             \/ pc'[s] = "prepared" /\ mpc = "pool"
      BY <1>1 DEF NextPackage, PcInv, TypeOK
    <2>2. \A p \in Package, u \in Shell : Owes(u, p) => Owes(u, p)'
      BY <2>1 DEF Owes
    <2> QED
      BY <2>1, <2>2 DEF OwedInv
  <1>2. ASSUME NEW s \in Shell, PutPackage(s)
        PROVE  OwedInv'
    <2> DEFINE q == Packages[s][next[s]]
    <2>0. q \in Package /\ HasDependencies(s) /\ pc[s] = "put"
      BY <1>2, StoresPackage DEF PutPackage
    <2>1. /\ UNCHANGED <<refused, listing, mpc, handlers>>
          /\ \A u \in Shell \ {s} : pc'[u] = pc[u]
          /\ pc'[s] \in {"put", "deps", "remove"}
          /\ \A p \in Package \ {q} : pypi'[p] = pypi[p]
      BY <1>2, <2>0 DEF PutPackage, CleanUp, TypeOK
    <2>2. \A p \in Package, u \in Shell : Owes(u, p) => Owes(u, p)'
      BY <2>0, <2>1 DEF Owes
    <2>3. \A p \in Package : Owes(s, p)'
      BY <2>0, <2>1 DEF Owes
    <2>4. ASSUME ~refused, NEW p \in Package, pypi'[p] # "absent"
          PROVE  \E u \in Shell : Owes(u, p)'
      <3>1. CASE p = q
        BY <2>3, <3>1
      <3>2. CASE p # q
        BY <2>1, <2>2, <2>4, <3>2 DEF OwedInv
      <3> QED
        BY <3>1, <3>2
    <2> QED
      BY <2>1, <2>4 DEF OwedInv
  <1>3. ASSUME NEW s \in Shell, ListStandards(s)
        PROVE  OwedInv'
    <2>1. /\ UNCHANGED <<pypi, refused, listing, mpc, handlers>>
          /\ \A u \in Shell \ {s} : pc'[u] = pc[u]
          /\ pc[s] \in {"deps", "standards", "extra", "install"}
          /\ \/ pc'[s] \in {"put", "standards", "extra", "install", "remove"}
             \/ pc'[s] = "prepared" /\ mpc = "pool"
      BY <1>3 DEF ListStandards, CleanUp, PcInv, TypeOK
    <2>2. \A p \in Package, u \in Shell : Owes(u, p) => Owes(u, p)'
      BY <2>1 DEF Owes
    <2> QED
      BY <2>1, <2>2 DEF OwedInv
  <1>4. ASSUME NEW s \in Shell, PutStandards(s)
        PROVE  OwedInv'
    <2>1. /\ UNCHANGED <<pypi, refused, listing, mpc, handlers>>
          /\ \A u \in Shell \ {s} : pc'[u] = pc[u]
          /\ pc[s] \in {"deps", "standards", "extra", "install"}
          /\ \/ pc'[s] \in {"put", "standards", "extra", "install", "remove"}
             \/ pc'[s] = "prepared" /\ mpc = "pool"
      BY <1>4 DEF PutStandards, CleanUp, PcInv, TypeOK
    <2>2. \A p \in Package, u \in Shell : Owes(u, p) => Owes(u, p)'
      BY <2>1 DEF Owes
    <2> QED
      BY <2>1, <2>2 DEF OwedInv
  <1>5. ASSUME NEW s \in Shell, InstallShell(s)
        PROVE  OwedInv'
    <2>1. /\ UNCHANGED <<pypi, refused, listing, mpc, handlers>>
          /\ \A u \in Shell \ {s} : pc'[u] = pc[u]
          /\ pc[s] \in {"deps", "standards", "extra", "install"}
          /\ \/ pc'[s] \in {"put", "standards", "extra", "install", "remove"}
             \/ pc'[s] = "prepared" /\ mpc = "pool"
      BY <1>5 DEF InstallShell, CleanUp, PcInv, TypeOK
    <2>2. \A p \in Package, u \in Shell : Owes(u, p) => Owes(u, p)'
      BY <2>1 DEF Owes
    <2> QED
      BY <2>1, <2>2 DEF OwedInv
  <1>6. ASSUME NEW s \in Shell, RemoveShell(s)
        PROVE  OwedInv'
    <2>1. CASE refused'
      BY <2>1 DEF OwedInv
    <2>2. CASE ~refused'
      <3>1. /\ UNCHANGED <<pypi, refused, listing, mpc>> /\ pc[s] = "remove"
            /\ \A u \in Shell \ {s} : pc'[u] = pc[u]
            /\ HasDependencies(s) => pc'[s] = "list"
            /\ handlers \ {s} \subseteq handlers'
        BY <1>6, <2>2 DEF RemoveShell, FinishShell, TypeOK
      <3>2. \A p \in Package, u \in Shell : Owes(u, p) => Owes(u, p)'
        BY <3>1 DEF Owes
      <3> QED
        BY <3>1, <3>2 DEF OwedInv
    <2> QED
      BY <2>1, <2>2
  <1>7. ASSUME NEW s \in Shell, ListPypi(s)
        PROVE  OwedInv'
    <2>1. CASE refused'
      BY <2>1 DEF OwedInv
    <2>2. CASE ~refused'
      <3>1. /\ UNCHANGED <<pypi, refused, mpc, handlers>> /\ pc[s] = "list" /\ pc'[s] = "clear"
            /\ \A u \in Shell \ {s} : pc'[u] = pc[u] /\ listing'[u] = listing[u]
            /\ listing'[s] = {p \in Package : pypi[p] # "absent"}
        BY <1>7, <2>2 DEF ListPypi, TypeOK
      <3>2. \A p \in Package, u \in Shell : pypi[p] # "absent" /\ Owes(u, p) => Owes(u, p)'
        BY <3>1 DEF Owes
      <3> QED
        BY <3>1, <3>2 DEF OwedInv
    <2> QED
      BY <2>1, <2>2
  <1>8. ASSUME NEW s \in Shell, ClearPypi(s)
        PROVE  OwedInv'
    <2>1. CASE refused'
      BY <2>1 DEF OwedInv
    <2>2. ASSUME ~refused', listing[s] = {}, FinishShell(s, FALSE),
                 UNCHANGED <<listing, pypi, refused>>
          PROVE  OwedInv'
      <3>1. /\ pc[s] = "clear" /\ mpc' = mpc /\ handlers \ {s} \subseteq handlers'
            /\ \A u \in Shell \ {s} : pc'[u] = pc[u]
        BY <1>8, <2>2 DEF ClearPypi, FinishShell, TypeOK
      <3>2. \A p \in Package, u \in Shell : Owes(u, p) => Owes(u, p)'
        BY <2>2, <3>1 DEF Owes
      <3> QED
        BY <2>2, <3>2 DEF OwedInv
    <2>3. ASSUME NEW q \in listing[s], pypi' = [pypi EXCEPT ![q] = "absent"],
                 listing' = [listing EXCEPT ![s] = @ \ {q}],
                 UNCHANGED <<pc, refused, mpc, handlers>>
          PROVE  OwedInv'
      <3>1. /\ q \in Package /\ pypi'[q] = "absent"
            /\ \A p \in Package \ {q} : pypi'[p] = pypi[p]
            /\ \A u \in Shell : listing[u] \ {q} \subseteq listing'[u]
        BY <2>3 DEF TypeOK
      <3>2. \A p \in Package \ {q}, u \in Shell : Owes(u, p) => Owes(u, p)'
        BY <2>3, <3>1 DEF Owes
      <3> QED
        BY <2>3, <3>1, <3>2 DEF OwedInv
    <2> QED
      BY <1>8, <2>1, <2>2, <2>3 DEF ClearPypi
  <1>9. ASSUME NEW s \in Shell, FinishNext(s)
        PROVE  OwedInv'
    <2>1. /\ UNCHANGED <<pypi, refused, listing, mpc, handlers>> /\ pc'[s] = "remove"
          /\ \A u \in Shell \ {s} : pc'[u] = pc[u]
      BY <1>9 DEF FinishNext, TypeOK
    <2>2. \A p \in Package, u \in Shell : Owes(u, p) => Owes(u, p)'
      BY <2>1 DEF Owes
    <2> QED
      BY <2>1, <2>2 DEF OwedInv
  <1>10. CASE PoolEnds
    <2>1. \A p \in Package, u \in Shell : Owes(u, p) => Owes(u, p)'
      BY <1>10 DEF PoolEnds, Owes, PcInv
    <2> QED
      BY <1>10, <2>1 DEF PoolEnds, OwedInv
  <1>11. CASE EnterFinish
    <2>1. \A p \in Package, u \in Shell : Owes(u, p) => Owes(u, p)'
      BY <1>11 DEF EnterFinish, Owes, PcInv
    <2> QED
      BY <1>11, <2>1 DEF EnterFinish, OwedInv
  <1>12. CASE FinishEnds
    <2>1. \A p \in Package, u \in Shell : Owes(u, p) => Owes(u, p)'
      BY <1>12 DEF FinishEnds, Owes, PcInv
    <2> QED
      BY <1>12, <2>1 DEF FinishEnds, OwedInv
  <1>u. CASE UNCHANGED vars
    BY <1>u DEF vars, OwedInv, Owes
  <1> QED
    BY <1>1, <1>2, <1>3, <1>4, <1>5, <1>6, <1>7, <1>8, <1>9, <1>10, <1>11, <1>12,
       <1>u DEF Next, ShellStep, MainStep, Terminated

\* At the end the offline PyPI is empty unless a removal failed: whoever stored a
\* package clears all of them after its last transfer.
THEOREM PypiEndsEmpty == Spec => []PypiIsCleared
  <1>1. Init => OwedInv
    BY DEF Init, OwedInv
  <1>2. PcInv /\ OwedInv => PypiIsCleared
    BY DEF PcInv, OwedInv, Owes, PypiIsCleared
  <1> QED
    BY <1>1, <1>2, InitTypes, TypesStep, PcStep, OwedStep, PTL DEF Spec

-----------------------------------------------------------------------------
(* The cached connection.  The lock keeps two calls made under it apart, so *)
(* a call that nobody crossed has the session for itself.                   *)

SmbLabel ==
    {"idle", "probe", "drop", "check", "create", "connect", "createDirect",
     "connectDirect", "return", "request", "failed"}

\* The types of the state the module's TypeOK leaves out, too.
SessionTypes ==
    /\ pc \in [Thread -> SmbLabel]
    /\ next \in [Thread -> Nat \ {0}]
    /\ clearing \in [Thread -> BOOLEAN]
    /\ attempts \in [Thread -> 1 .. MaxAttempts]
    /\ disturbed \in [Thread -> BOOLEAN]
    /\ crossed \in [Thread -> BOOLEAN]
    /\ lock \in Thread \cup {Nobody}
    /\ conn \in Seq({"new", "open", "lost"})
    /\ session \in 0 .. Len(conn)
    /\ got \in [Thread -> 0 .. Len(conn)]
    /\ faults \in Nat

\* A thread inside a locked request is the one that has the lock.
LockInv == \A t \in Thread : Smb!InCall(t) /\ Smb!Locked(t) => lock = t

\* The connection is open, or it was lost while this call was under way.
GoodFor(t, c) == conn[c] = "open" \/ (conn[c] = "lost" /\ disturbed[t])

\* In a call that nobody crossed: after the probe the cached connection is gone
\* or good; a connection is there to be connected and to be returned.
SessionInv ==
    \A t \in Thread : ~crossed[t] =>
        /\ pc[t] = "check" => session = 0 \/ GoodFor(t, session)
        /\ pc[t] \in {"connect", "connectDirect"} => session # 0
        /\ pc[t] = "return" => session # 0 /\ GoodFor(t, session)

\* The connection of such a request is good, and a second way of connecting or a
\* failure has a cause.
GotInv ==
    \A t \in Thread : ~crossed[t] =>
        /\ pc[t] = "request" => got[t] # 0 /\ GoodFor(t, got[t])
        /\ pc[t] \in {"createDirect", "connectDirect", "failed"} => disturbed[t]

SmbInv == SessionTypes /\ LockInv /\ SessionInv /\ GotInv

\* At the start there is no session and the lock is free.
LEMMA SmbInitInv == Smb!Init => SmbInv
  BY ShareAssumption
     DEF Smb!CallsAreProper, Smb!Init, SmbInv, SessionTypes, LockInv, SessionInv, GotInv,
         SmbLabel, Smb!InCall

\* connect() and a lost connection change one element of the connections made.
LEMMA ConnChanged ==
    ASSUME conn \in Seq({"new", "open", "lost"}), NEW c \in 1 .. Len(conn),
           NEW v \in {"new", "open", "lost"},
           conn' = [conn EXCEPT ![c] = v]
    PROVE  /\ conn' \in Seq({"new", "open", "lost"})
           /\ Len(conn') = Len(conn)
           /\ conn'[c] = v
           /\ \A i \in 1 .. Len(conn) : i # c => conn'[i] = conn[i]
  BY ExceptSeq

\* A new connection is the last one made, and the others stay.
LEMMA ConnAdded ==
    ASSUME conn \in Seq({"new", "open", "lost"}), conn' = Append(conn, "new")
    PROVE  /\ conn' \in Seq({"new", "open", "lost"})
           /\ Len(conn') = Len(conn) + 1
           /\ conn'[Len(conn')] = "new"
           /\ \A i \in 1 .. Len(conn) : conn'[i] = conn[i]
  BY AppendProperties

\* A fault marks every call that is under way and clears no mark.
LEMMA FaultMarks ==
    ASSUME SessionTypes, Smb!Fault
    PROVE  /\ faults' \in Nat
           /\ disturbed' \in [Thread -> BOOLEAN]
           /\ \A t \in Thread : disturbed[t] \/ pc[t] # "idle" => disturbed'[t]
  <1>1. faults' \in Nat
    BY DEF SessionTypes, Smb!Fault
  <1>2. disturbed' = [t \in Thread |-> disturbed[t] \/ pc[t] # "idle"]
    BY DEF Smb!Fault
  <1>3. disturbed' \in [Thread -> BOOLEAN]
    BY <1>2, Zenon
  <1>4. \A t \in Thread : disturbed[t] \/ pc[t] # "idle" => disturbed'[t]
    BY <1>2, Zenon
  <1> QED
    BY <1>1, <1>3, <1>4

\* A step that writes the session crosses the other calls under way: no two of
\* them have the lock.
LEMMA CrossesOthers ==
    ASSUME SessionTypes, LockInv, NEW t \in Thread, Smb!InCall(t), Smb!Crosses(t)
    PROVE  \A u \in Thread :
             /\ crossed[u] => crossed'[u]
             /\ u # t /\ Smb!InCall(u) => crossed'[u]
  <1> SUFFICES ASSUME NEW u \in Thread
               PROVE  /\ crossed[u] => crossed'[u]
                      /\ u # t /\ Smb!InCall(u) => crossed'[u]
    OBVIOUS
  <1>1. crossed'[u] = (crossed[u] \/ (u # t /\ Smb!InCall(u)
                                        /\ ~(Smb!Locked(u) /\ Smb!Locked(t))))
    BY Zenon DEF Smb!Crosses
  <1>2. u # t /\ Smb!InCall(u) => ~(Smb!Locked(u) /\ Smb!Locked(t))
    BY DEF LockInv
  <1> QED
    BY <1>1, <1>2, Zenon

\* It keeps the type of the marks.
LEMMA CrossedType ==
    ASSUME SessionTypes, NEW t \in Thread, Smb!Crosses(t)
    PROVE  crossed' \in [Thread -> BOOLEAN]
  <1>1. \A u \in Thread : crossed[u] \in BOOLEAN
    BY DEF SessionTypes
  <1> QED
    BY <1>1, Zenon DEF Smb!Crosses

\* Every step keeps the types, with the lock or without it.
LEMMA SessionTypesStep ==
    SessionTypes /\ [Smb!Next]_(Smb!vars) => SessionTypes'
  <1> SUFFICES ASSUME SessionTypes, [Smb!Next]_(Smb!vars)
               PROVE  SessionTypes'
    OBVIOUS
  <1> USE ShareAssumption DEF Smb!CallsAreProper, SmbLabel, Smb!Goto, Smb!NoFault
  <1>1. ASSUME NEW t \in Thread, Smb!Call(t)
        PROVE  SessionTypes'
    BY <1>1 DEF Smb!Call, Smb!TakeLock, SessionTypes
  <1>2. ASSUME NEW t \in Thread, Smb!Probe(t) \/ Smb!Check(t)
        PROVE  SessionTypes'
    BY <1>2 DEF Smb!Probe, Smb!Check, SessionTypes
  <1>2d. ASSUME NEW t \in Thread, Smb!Drop(t)
         PROVE  SessionTypes'
    BY <1>2d, CrossedType DEF Smb!Drop, SessionTypes
  <1>2r. ASSUME NEW t \in Thread, Smb!Return(t)
         PROVE  SessionTypes'
    BY <1>2r DEF Smb!Return, SessionTypes
  <1>3. ASSUME NEW t \in Thread, Smb!Create(t)
        PROVE  SessionTypes'
    <2>1. /\ conn' = Append(conn, "new") /\ conn' \in Seq({"new", "open", "lost"})
          /\ Len(conn') = Len(conn) + 1
      BY <1>3, ConnAdded DEF Smb!Create, SessionTypes
    <2> QED
      BY <1>3, <2>1, CrossedType DEF Smb!Create, SessionTypes
  <1>4. ASSUME NEW t \in Thread, Smb!Connect(t)
        PROVE  SessionTypes'
    <2>1. session \in 1 .. Len(conn) /\ conn' = [conn EXCEPT ![session] = "open"]
      BY <1>4 DEF Smb!Connect, SessionTypes
    <2> QED
      BY <1>4, <2>1, ConnChanged, CrossedType DEF Smb!Connect, SessionTypes
  <1>5. ASSUME NEW t \in Thread, Smb!ConnectFails(t)
        PROVE  SessionTypes'
    BY <1>5, FaultMarks DEF Smb!ConnectFails, Smb!Raise, Smb!ReleaseLock, SessionTypes
  <1>6. ASSUME NEW t \in Thread, Smb!RequestSucceeds(t)
        PROVE  SessionTypes'
    BY <1>6 DEF Smb!RequestSucceeds, Smb!ReleaseLock, SessionTypes
  <1>7. ASSUME NEW t \in Thread, Smb!RequestRetried(t)
        PROVE  SessionTypes'
    BY SMTT(30), <1>7, FaultMarks DEF Smb!RequestRetried, Smb!AttemptsLeft, SessionTypes
  <1>8. ASSUME NEW t \in Thread, Smb!RequestFails(t)
        PROVE  SessionTypes'
    BY <1>8, FaultMarks DEF Smb!RequestFails, Smb!Raise, Smb!ReleaseLock, SessionTypes
  <1>9. ASSUME NEW c \in DOMAIN conn, Smb!ConnectionLost(c)
        PROVE  SessionTypes'
    <2>1. c \in 1 .. Len(conn) /\ conn' = [conn EXCEPT ![c] = "lost"] /\ Smb!Fault
      BY <1>9 DEF Smb!ConnectionLost, SessionTypes
    <2> QED
      BY <1>9, <2>1, ConnChanged, FaultMarks DEF Smb!ConnectionLost, SessionTypes
  <1>9c. ASSUME NEW t \in Thread, Smb!Clear(t)
         PROVE  SessionTypes'
    BY <1>9c DEF Smb!Clear, SessionTypes
  <1>10. CASE UNCHANGED Smb!vars
    BY <1>10 DEF Smb!vars, SessionTypes
  <1> QED
    BY <1>1, <1>2, <1>2d, <1>2r, <1>3, <1>4, <1>5, <1>6, <1>7, <1>8, <1>9, <1>9c, <1>10
       DEF Smb!Next, Smb!Step, Smb!Terminated

\* Every step keeps the invariant: only a call that nobody crosses is looked at.
LEMMA SmbInvStep ==
    SmbInv /\ [Smb!Next]_(Smb!vars) => SmbInv'
  <1> SUFFICES ASSUME SmbInv, [Smb!Next]_(Smb!vars)
               PROVE  SmbInv'
    OBVIOUS
  <1> USE ShareAssumption DEF Smb!CallsAreProper, SmbInv, SmbLabel, Smb!Goto, Smb!NoFault
  <1>t. SessionTypes'
    BY SessionTypesStep
  <1>1. ASSUME NEW t \in Thread, Smb!Call(t)
        PROVE  SmbInv'
    <2>1. LockInv'
      BY <1>1 DEF Smb!Call, Smb!TakeLock, Smb!InCall, Smb!Locked, SessionTypes, LockInv
    <2>2. SessionInv' /\ GotInv'
      BY <1>1 DEF Smb!Call, SessionTypes, SessionInv, GotInv, GoodFor
    <2> QED
      BY <1>t, <2>1, <2>2
  <1>2. ASSUME NEW t \in Thread, Smb!Probe(t)
        PROVE  SmbInv'
    <2>1. LockInv'
      BY <1>2 DEF Smb!Probe, Smb!InCall, Smb!Locked, SessionTypes, LockInv
    <2>2. SessionInv' /\ GotInv'
      BY <1>2 DEF Smb!Probe, Smb!EchoAnswers, SessionTypes, SessionInv, GotInv, GoodFor
    <2> QED
      BY <1>t, <2>1, <2>2
  <1>3. ASSUME NEW t \in Thread, Smb!Drop(t)
        PROVE  SmbInv'
    <2>1. Smb!InCall(t) /\ Smb!Crosses(t)
      BY <1>3 DEF Smb!Drop, Smb!InCall
    <2>2. LockInv'
      BY <1>3 DEF Smb!Drop, Smb!InCall, Smb!Locked, SessionTypes, LockInv
    <2>3. SessionInv'
      BY <1>3, <2>1, CrossesOthers DEF Smb!Drop, Smb!InCall, SessionTypes, SessionInv,
         GoodFor
    <2>4. GotInv'
      BY <1>3, <2>1, CrossesOthers DEF Smb!Drop, SessionTypes, GotInv, GoodFor
    <2> QED
      BY <1>t, <2>2, <2>3, <2>4
  <1>3c. ASSUME NEW t \in Thread, Smb!Check(t)
        PROVE  SmbInv'
    <2>2. LockInv'
      BY <1>3c DEF Smb!Check, Smb!InCall, Smb!Locked, SessionTypes, LockInv
    <2>3. SessionInv' /\ GotInv'
      BY <1>3c DEF Smb!Check, SessionTypes, SessionInv, GotInv, GoodFor
    <2> QED
      BY <1>t, <2>2, <2>3
  <1>4. ASSUME NEW t \in Thread, Smb!Create(t)
        PROVE  SmbInv'
    <2>c. /\ conn' = Append(conn, "new") /\ conn' \in Seq({"new", "open", "lost"})
          /\ Len(conn') = Len(conn) + 1
      BY <1>4, ConnAdded DEF Smb!Create, SessionTypes
    <2>1. Smb!InCall(t) /\ Smb!Crosses(t)
      BY <1>4 DEF Smb!Create, Smb!InCall
    <2>2. LockInv'
      BY <1>4 DEF Smb!Create, Smb!InCall, Smb!Locked, SessionTypes, LockInv
    <2>3. SessionInv'
      <3>1. session' # 0
        BY <1>4, <2>c DEF Smb!Create, SessionTypes
      <3>2. \A u \in Thread : u # t => pc'[u] = pc[u]
        BY <1>4 DEF Smb!Create, SessionTypes
      <3>3. pc'[t] \in {"connect", "connectDirect"}
        BY <1>4 DEF Smb!Create, SessionTypes
      <3> QED
        BY <3>1, <3>2, <3>3, <2>1, CrossesOthers DEF SessionInv, Smb!InCall
    <2>4. GotInv'
      BY <1>4, <2>1, ConnAdded, CrossesOthers DEF Smb!Create, SessionTypes, GotInv, GoodFor
    <2> QED
      BY <1>t, <2>2, <2>3, <2>4
  <1>5. ASSUME NEW t \in Thread, Smb!Connect(t)
        PROVE  SmbInv'
    <2>1. session \in 1 .. Len(conn) /\ conn' = [conn EXCEPT ![session] = "open"]
      BY <1>5 DEF Smb!Connect, SessionTypes
    <2>2. Smb!InCall(t) /\ Smb!Crosses(t)
      BY <1>5 DEF Smb!Connect, Smb!InCall
    <2>3. LockInv'
      BY <1>5 DEF Smb!Connect, Smb!InCall, Smb!Locked, SessionTypes, LockInv
    <2>4. SessionInv'
      BY <1>5, <2>1, <2>2, ConnChanged, CrossesOthers
         DEF Smb!Connect, Smb!InCall, SessionTypes, SessionInv, GoodFor
    <2>5. GotInv'
      BY <1>5, <2>1, <2>2, ConnChanged, CrossesOthers
         DEF Smb!Connect, SessionTypes, GotInv, GoodFor
    <2> QED
      BY <1>t, <2>3, <2>4, <2>5
  <1>6. ASSUME NEW t \in Thread, Smb!ConnectFails(t)
        PROVE  SmbInv'
    <2>1. crossed' = crossed
      BY <1>6 DEF Smb!ConnectFails, Smb!Raise
    <2>2. ~crossed[t] => session # 0
      BY <1>6 DEF Smb!ConnectFails, SessionInv
    <2>3. LockInv'
      <3>1. \A u \in Thread : u # t => pc'[u] = pc[u]
        BY <1>6 DEF Smb!ConnectFails, Smb!Raise, SessionTypes
      <3>2. next' = next /\ clearing' = clearing
        BY <1>6 DEF Smb!ConnectFails, Smb!Raise
      <3>3. lock' = lock \/ (pc'[t] = "failed" /\ lock' = IF lock = t THEN Nobody ELSE lock)
        BY <1>6 DEF Smb!ConnectFails, Smb!Raise, Smb!ReleaseLock, SessionTypes
      <3>4. Smb!InCall(t)
        BY <1>6 DEF Smb!ConnectFails, Smb!InCall
      <3> QED
        BY <3>1, <3>2, <3>3, <3>4 DEF Smb!InCall, Smb!Locked, LockInv
    <2>4. CASE session # 0
      <3>1. Smb!Fault
        BY <1>6, <2>4 DEF Smb!ConnectFails
      <3>2. SessionInv'
        BY SMTT(30), <1>6, <2>1, <2>4, <3>1, FaultMarks DEF Smb!ConnectFails, Smb!Raise,
           SessionTypes, SessionInv, GoodFor
      <3>3. GotInv'
        BY SMTT(30), <1>6, <2>1, <2>4, <3>1, FaultMarks DEF Smb!ConnectFails, Smb!Raise,
           SessionTypes, GotInv, GoodFor
      <3> QED
        BY <1>t, <2>3, <3>2, <3>3
    <2>5. CASE session = 0
      <3>1. SessionInv' /\ GotInv'
        BY SMTT(30), <1>6, <2>1, <2>2, <2>5 DEF Smb!ConnectFails, Smb!Raise, SessionTypes,
           SessionInv, GotInv, GoodFor
      <3> QED
        BY <1>t, <2>3, <3>1
    <2> QED
      BY <2>4, <2>5
  <1>7. ASSUME NEW t \in Thread, Smb!Return(t)
        PROVE  SmbInv'
    <2>1. LockInv'
      BY <1>7 DEF Smb!Return, Smb!InCall, Smb!Locked, SessionTypes, LockInv
    <2>2. SessionInv' /\ GotInv'
      BY <1>7 DEF Smb!Return, SessionTypes, SessionInv, GotInv, GoodFor
    <2> QED
      BY <1>t, <2>1, <2>2
  <1>8. ASSUME NEW t \in Thread, Smb!RequestSucceeds(t)
        PROVE  SmbInv'
    <2>1. LockInv'
      BY <1>8 DEF Smb!RequestSucceeds, Smb!ReleaseLock, Smb!InCall, Smb!Locked,
         SessionTypes, LockInv
    <2>2. SessionInv' /\ GotInv'
      BY <1>8 DEF Smb!RequestSucceeds, SessionTypes, SessionInv, GotInv, GoodFor
    <2> QED
      BY <1>t, <2>1, <2>2
  <1>9. ASSUME NEW t \in Thread, Smb!RequestRetried(t)
        PROVE  SmbInv'
    <2>1. LockInv'
      BY <1>9 DEF Smb!RequestRetried, Smb!InCall, Smb!Locked, SessionTypes, LockInv
    <2>2. SessionInv' /\ GotInv'
      BY SMTT(30), <1>9, FaultMarks DEF Smb!RequestRetried, SessionTypes, SessionInv,
         GotInv, GoodFor
    <2> QED
      BY <1>t, <2>1, <2>2
  <1>10. ASSUME NEW t \in Thread, Smb!RequestFails(t)
         PROVE  SmbInv'
    <2>2. LockInv'
      BY <1>10 DEF Smb!RequestFails, Smb!Raise, Smb!ReleaseLock, Smb!InCall, Smb!Locked,
         SessionTypes, LockInv
    <2>3. SessionInv'
      BY <1>10, FaultMarks DEF Smb!RequestFails, Smb!Raise, SessionTypes, SessionInv,
         GoodFor
    <2>4. GotInv'
      BY <1>10, FaultMarks DEF Smb!RequestFails, Smb!Raise, Smb!Usable, SessionTypes,
         GotInv, GoodFor
    <2> QED
      BY <1>t, <2>2, <2>3, <2>4
  <1>11. ASSUME NEW c \in DOMAIN conn, Smb!ConnectionLost(c)
         PROVE  SmbInv'
    <2>1. c \in 1 .. Len(conn) /\ conn' = [conn EXCEPT ![c] = "lost"] /\ Smb!Fault
      BY <1>11 DEF Smb!ConnectionLost, SessionTypes
    <2>3. LockInv'
      BY <1>11 DEF Smb!ConnectionLost, Smb!InCall, Smb!Locked, LockInv
    <2>4. SessionInv'
      BY SMTT(30), <1>11, <2>1, ConnChanged, FaultMarks
         DEF Smb!ConnectionLost, SessionTypes, SessionInv, GoodFor
    <2>5. GotInv'
      BY SMTT(30), <1>11, <2>1, ConnChanged, FaultMarks DEF Smb!ConnectionLost,
         SessionTypes, GotInv, GoodFor
    <2> QED
      BY <1>t, <2>3, <2>4, <2>5
  <1>11c. ASSUME NEW t \in Thread, Smb!Clear(t)
          PROVE  SmbInv'
    <2>1. LockInv'
      BY <1>11c DEF Smb!Clear, Smb!InCall, Smb!Locked, SessionTypes, LockInv
    <2>2. SessionInv' /\ GotInv'
      BY <1>11c DEF Smb!Clear, SessionTypes, SessionInv, GotInv, GoodFor
    <2> QED
      BY <1>t, <2>1, <2>2
  <1>12. CASE UNCHANGED Smb!vars
    BY <1>12 DEF Smb!vars, SessionTypes, LockInv, SessionInv, GotInv, GoodFor, Smb!InCall,
       Smb!Locked
  <1> QED
    BY <1>1, <1>2, <1>3, <1>3c, <1>4, <1>5, <1>6, <1>7, <1>8, <1>9, <1>10, <1>11, <1>11c,
       <1>12
       DEF Smb!Next, Smb!Step, Smb!Terminated

\* So it holds in every reachable state of the inside.
LEMMA SmbInvariant == ShareSpec => [](view = "session" => SmbInv)
  <1> DEFINE I == view = "session" => SmbInv
  <1>1. FilesInit \/ SessionInit => I
    BY SmbInitInv DEF FilesInit, SessionInit
  <1>2. I /\ [FilesNext \/ SessionNext]_allVars => I'
    <2>1. CASE FilesNext
      BY <2>1 DEF FilesNext
    <2>2. CASE SessionNext
      BY <2>2, SmbInvStep DEF SessionNext
    <2>3. CASE UNCHANGED allVars
      BY <2>3, SmbInvStep DEF allVars
    <2> QED
      BY <2>1, <2>2, <2>3
  <1> HIDE DEF I
  <1>3. ShareSpec => []I
    BY <1>1, <1>2, PTL DEF ShareSpec
  <1> QED
    BY <1>3 DEF I

\* The fields of SmbHandler keep their types, for every mix of calls.
THEOREM SmbTypes == ShareSpec => [](view = "session" => Smb!TypeOK)
  <1>1. (view = "session" => SmbInv) => (view = "session" => Smb!TypeOK)
    BY DEF SmbInv, SessionTypes, Smb!TypeOK
  <1> QED
    BY <1>1, SmbInvariant, PTL

\* For every mix of locked and unlocked requests: the property session hands out
\* None or a connection whose connect() has not returned only if another thread
\* wrote the session during the call, one of the two without the lock.
THEOREM SessionConnected == ShareSpec => []SessionIsConnected
  <1>1. (view = "session" => SmbInv) => SessionIsConnected
    BY DEF SmbInv, SessionTypes, GotInv, GoodFor, SessionIsConnected,
       Smb!SessionIsConnected
  <1> QED
    BY <1>1, SmbInvariant, PTL

\* For every mix of locked and unlocked requests: one fails only because of a fault
\* or a crossing during the call, so what an earlier call left in _session never
\* makes it fail.
THEOREM SmbFailureCaused == ShareSpec => []SmbFailureHasCause
  <1>1. (view = "session" => SmbInv) => SmbFailureHasCause
    BY DEF SmbInv, GotInv, SmbFailureHasCause, Smb!SmbFailureHasCause
  <1> QED
    BY <1>1, SmbInvariant, PTL
=============================================================================
