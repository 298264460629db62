-------------------------- MODULE PreparationProofs --------------------------
(***************************************************************************)
(* Proofs about the parts of CommandLine, for every configuration: the     *)
(* configuration file, the choice of the test cases, prepare-env,          *)
(* check_shellfoundry_templates, and the resources on CloudShell.  Each    *)
(* part has its invariant; CommandInv is that of the part a behaviour      *)
(* follows.                                                                *)
(***************************************************************************)
EXTENDS CommandLine, SequenceTheorems, TLAPS

-----------------------------------------------------------------------------
(* check_shellfoundry_templates *)

\* As long as no check was aborted, a check starts without a folder and a zip
\* file, and what is there was made from the template that is asked for.
CheckInv ==
    ~aborted =>
        /\ pc \in {"start", "new", "returned"} => folder = None /\ zip = None
        /\ {folder, zip, tested} \subseteq {None, asked}

\* Every step of the check keeps it.
LEMMA CheckStep == CheckInv /\ Checking!Next => CheckInv'
  BY DEF CheckInv, Checking!Next, Checking!Begin, Checking!CommandRaises, Checking!New,
     Checking!EnterFolder, Checking!Pack, Checking!FindZip, Checking!RunTests,
     Checking!CleanUp, Checking!RemoveFolder, Checking!Ended, Checking!vars

-----------------------------------------------------------------------------
(* The configuration *)

\* A file that DownloadFile does not know is what the download that ended the
\* program left of it.
DownloadInv ==
    /\ DOMAIN disk = Parsing!Url
    /\ pc \notin {"exit", "exited"} => exc = "none"
    /\ pc # "exited" =>
          \A u \in Parsing!Url : disk[u] # "none" =>
              u \in downloaded \/ (disk[u] = "partial" /\ exc = "URLError")
    /\ Parsing!DownloadsAreRemoved

\* A resource has its own object, which is new until it is merged with that of
\* its shell.
MergeInv ==
    /\ merged \subseteq Parsing!InFile
    /\ pc \in {"version", "cs", "shells"} => merged = {}
    /\ pc = "merge" \/ merged # {} =>
          /\ DOMAIN heap = Parsing!InFile \cup {0}
          /\ \A i \in Parsing!InFile :
                /\ resources[i] \in ResourceConf
                /\ i \notin merged => heap[i] = Parsing!NewObject(resources[i].tests)
                /\ i \in merged => /\ heap[i].ef = Parsing!Wanted(i).ef
                                   /\ heap[i].run = Parsing!Wanted(i).run

\* Every step keeps the files in order.
LEMMA DownloadStep == DownloadInv /\ Parsing!Next => DownloadInv'
  <1> SUFFICES ASSUME DownloadInv, Parsing!Next PROVE DownloadInv'
    OBVIOUS
  <1> USE DEF DownloadInv, Parsing!DownloadsAreRemoved, Parsing!Goto, Parsing!Raise,
          Parsing!fileVars
  <1>1. CASE Parsing!ReadVersion \/ Parsing!ReadDoAndCs \/ Parsing!ReadResources
    BY <1>1 DEF Parsing!ReadVersion, Parsing!ReadDoAndCs, Parsing!ReadResources
  <1>2. CASE Parsing!ReadShell
    <2>1. PICK s \in ShellConf :
             \/ s.file = "local" /\ UNCHANGED <<pc, exc, disk, downloaded, refused>>
             \/ /\ s.file # "local"
                /\ \/ /\ disk' = [disk EXCEPT ![s.file] = "whole"]
                      /\ downloaded' = downloaded \cup {s.file}
                      /\ UNCHANGED <<pc, exc>>
                   \/ /\ disk' \in {disk, [disk EXCEPT ![s.file] = "partial"]}
                      /\ pc' = "exit" /\ exc' = "URLError"
                      /\ UNCHANGED downloaded
      BY <1>2 DEF Parsing!ReadShell, Parsing!DownloadRaises
    <2>2. pc = "shells"
      BY <1>2 DEF Parsing!ReadShell
    <2> QED
      BY <2>1, <2>2
  <1>3. ASSUME NEW i \in Parsing!InFile, Parsing!MergeTestsConfig(i) PROVE DownloadInv'
    BY <1>3 DEF Parsing!MergeTestsConfig
  <1>4. CASE Parsing!ReadDeployments
    BY <1>4 DEF Parsing!ReadDeployments
  <1>5. CASE Parsing!UpdateFromCli \/ Parsing!CheckAlive \/ Parsing!PrepareDo \/ Parsing!Run
    BY <1>5 DEF Parsing!UpdateFromCli, Parsing!CheckAlive, Parsing!PrepareDo, Parsing!Run,
          Parsing!Stays
  <1>6. CASE Parsing!Exit
    BY <1>6 DEF Parsing!Exit, Parsing!ToRemove
  <1>7. CASE Parsing!Ended
    BY <1>7 DEF Parsing!Ended, Parsing!vars
  <1> QED
    BY <1>1, <1>2, <1>3, <1>4, <1>5, <1>6, <1>7 DEF Parsing!Next

\* A resource whose shell is not in the file keeps its new object.
LEMMA NewIsWanted ==
    ASSUME NEW i \in Parsing!InFile, resources[i] \in ResourceConf,
           Parsing!ShellsOf(i) = {}
    PROVE  /\ Parsing!NewObject(resources[i].tests).ef = Parsing!Wanted(i).ef
           /\ Parsing!NewObject(resources[i].tests).run = Parsing!Wanted(i).run
  <1> DEFINE own == resources[i].tests
  <1>1. own.ef \in [Test -> Reason \cup {Absent}]
    BY CommandAssumption DEF Parsing!ConfAssumption
  <1>2. Parsing!NewObject(own).ef = own.ef
    BY DEF Parsing!NewObject
  <1>3. Parsing!NewObject(own).run = IF own.run = Absent THEN TRUE ELSE own.run
    BY DEF Parsing!NewObject
  <1>4. Parsing!Wanted(i).ef =
            [t \in Test |-> IF own.ef[t] # Absent THEN own.ef[t] ELSE Absent]
    BY DEF Parsing!Wanted
  <1>5. Parsing!Wanted(i).run = IF own.run # Absent THEN own.run ELSE TRUE
    BY DEF Parsing!Wanted
  <1> HIDE DEF own
  <1>6. own.ef = [t \in Test |-> IF own.ef[t] # Absent THEN own.ef[t] ELSE Absent]
    BY <1>1
  <1> QED
    BY <1>2, <1>3, <1>4, <1>5, <1>6 DEF own

\* TestsConfig.__iadd__ on a new object gives the wanted configuration.
LEMMA SumIsWanted ==
    ASSUME NEW i \in Parsing!InFile, resources[i] \in ResourceConf,
           Parsing!ShellsOf(i) # {},
           NEW sum, sum = Parsing!IAdd(Parsing!NewObject(resources[i].tests),
                              shells[Parsing!FirstOf(Parsing!ShellsOf(i))].tests)
    PROVE  sum.ef = Parsing!Wanted(i).ef /\ sum.run = Parsing!Wanted(i).run
  <1> DEFINE own == resources[i].tests
             other == shells[Parsing!FirstOf(Parsing!ShellsOf(i))].tests
             new == Parsing!NewObject(own)
             Given(v, w) == IF v # Absent THEN v ELSE w
  <1>1. /\ new.ef = own.ef /\ new.original = own.run
        /\ new.run = IF own.run = Absent THEN TRUE ELSE own.run
        /\ DOMAIN new = {"ef", "original", "run"}
    BY DEF Parsing!NewObject
  <1>2. /\ Parsing!Wanted(i).ef = [t \in Test |-> Given(own.ef[t], other.ef[t])]
        /\ Parsing!Wanted(i).run = Given(Given(own.run, other.run), TRUE)
    BY DEF Parsing!Wanted
  <1> HIDE DEF new, own, other
  <1>3. sum.ef = [t \in Test |-> IF new.ef[t] # Absent THEN new.ef[t] ELSE other.ef[t]]
    BY <1>1 DEF Parsing!IAdd, new, own, other
  <1>4. sum.run = IF new.original # Absent THEN new.original
                  ELSE IF other.run # Absent THEN other.run ELSE new.run
    BY <1>1 DEF Parsing!IAdd, new, own, other
  <1>5. sum.ef = [t \in Test |-> Given(own.ef[t], other.ef[t])]
    BY <1>1, <1>3
  <1>6. sum.run = Given(Given(own.run, other.run), TRUE)
    BY <1>1, <1>4
  <1> QED
    BY <1>2, <1>5, <1>6

\* The wanted configuration depends on the configuration file alone.
LEMMA WantedKept ==
    ASSUME UNCHANGED <<resources, shells>>, NEW j \in Parsing!InFile
    PROVE  Parsing!Wanted(j)' = Parsing!Wanted(j)
  <1>1. resources' = resources /\ shells' = shells
    OBVIOUS
  <1>2. Parsing!ShellsOf(j)' = Parsing!ShellsOf(j)
    BY <1>1 DEF Parsing!ShellsOf
  <1>3. Parsing!FirstOf(Parsing!ShellsOf(j))' = Parsing!FirstOf(Parsing!ShellsOf(j))
    BY <1>2 DEF Parsing!FirstOf
  <1> QED
    BY <1>1, <1>2, <1>3 DEF Parsing!Wanted

\* Every step keeps the merged configurations.
LEMMA MergeStep == MergeInv /\ Parsing!Next => MergeInv'
  <1> SUFFICES ASSUME MergeInv, Parsing!Next PROVE MergeInv'
    OBVIOUS
  <1> USE DEF MergeInv, Parsing!Goto, Parsing!Raise, Parsing!confVars
  <1>0. ASSUME UNCHANGED <<resources, heap, merged, shells>>,
               pc' \in {"version", "cs", "shells"} => merged = {},
               pc' = "merge" => pc = "merge"
        PROVE  MergeInv'
    <2>1. \A j \in Parsing!InFile : Parsing!Wanted(j)' = Parsing!Wanted(j)
      BY <1>0, WantedKept
    <2> QED
      BY <1>0, <2>1
  <1>1. CASE Parsing!ReadVersion
    BY <1>0, <1>1 DEF Parsing!ReadVersion
  <1>1d. CASE Parsing!ReadDoAndCs
    BY <1>0, <1>1d DEF Parsing!ReadDoAndCs
  <1>2. CASE Parsing!ReadShell
    BY <1>2 DEF Parsing!ReadShell, Parsing!DownloadRaises
  <1>3. CASE Parsing!ReadResources
    <2>1. /\ pc' = "merge" /\ merged = {} /\ merged' = {}
          /\ resources' \in [Parsing!InFile -> ResourceConf]
          /\ heap' = [o \in Parsing!InFile \cup {0} |->
                         LET i == IF o = 0 THEN 1 ELSE o
                         IN  Parsing!NewObject(resources'[i].tests)]
      BY <1>3 DEF Parsing!ReadResources
    <2>2. \A i \in Parsing!InFile : i # 0
      BY DEF Parsing!InFile
    <2> QED
      BY <2>1, <2>2
  <1>4. ASSUME NEW i \in Parsing!InFile, Parsing!MergeTestsConfig(i) PROVE MergeInv'
    <2>1. /\ pc = "merge" /\ pc' = "merge" /\ i \notin merged
          /\ merged' = merged \cup {i}
          /\ UNCHANGED <<resources, shells>>
      BY <1>4 DEF Parsing!MergeTestsConfig, Parsing!InFile
    <2>2. resources[i] \in ResourceConf /\ heap[i] = Parsing!NewObject(resources[i].tests)
      BY <2>1
    <2>3. /\ DOMAIN heap' = Parsing!InFile \cup {0}
          /\ \A j \in Parsing!InFile : j # i => heap'[j] = heap[j]
          /\ IF Parsing!ShellsOf(i) = {} THEN heap'[i] = heap[i]
             ELSE heap'[i] = Parsing!IAdd(heap[i],
                                 shells[Parsing!FirstOf(Parsing!ShellsOf(i))].tests)
      BY <1>4, <2>1 DEF Parsing!MergeTestsConfig, Parsing!ObjectOf
    <2>4. heap'[i].ef = Parsing!Wanted(i).ef /\ heap'[i].run = Parsing!Wanted(i).run
      <3>1. CASE Parsing!ShellsOf(i) = {}
        BY <2>2, <2>3, <3>1, NewIsWanted
      <3>2. CASE Parsing!ShellsOf(i) # {}
        BY <2>2, <2>3, <3>2, SumIsWanted
      <3> QED
        BY <3>1, <3>2
    <2>5. \A j \in Parsing!InFile : Parsing!Wanted(j)' = Parsing!Wanted(j)
      BY <2>1, WantedKept
    <2> QED
      BY <2>1, <2>3, <2>4, <2>5
  <1>5. CASE Parsing!ReadDeployments
    BY <1>0, <1>5 DEF Parsing!ReadDeployments
  <1>6. CASE Parsing!UpdateFromCli \/ Parsing!CheckAlive \/ Parsing!PrepareDo \/ Parsing!Run
    BY <1>0, <1>6 DEF Parsing!UpdateFromCli, Parsing!CheckAlive, Parsing!PrepareDo,
          Parsing!Run, Parsing!Stays
  <1>7. CASE Parsing!Exit
    BY <1>0, <1>7 DEF Parsing!Exit
  <1>8. CASE Parsing!Ended
    BY <1>0, <1>8 DEF Parsing!Ended, Parsing!vars
  <1> QED
    BY <1>1, <1>1d, <1>2, <1>3, <1>4, <1>5, <1>6, <1>7, <1>8 DEF Parsing!Next

\* Once all resources are merged the property holds.
LEMMA MergeEnd == MergeInv => Parsing!MergedTests
  BY DEF MergeInv, Parsing!MergedTests, Parsing!ObjectOf, Parsing!InFile

-----------------------------------------------------------------------------
(* prepare-env *)

\* The providers of the apps are resources of the configuration.
ProvidersAreKnown ==
    \A a \in Preparing!Members(Apps) : conf.cpOf[a] \in Preparing!Members(Resources)

\* What the package of the apps has for an app.
AppEntry(a) == Preparing!AppXml(a, FALSE)

\* All apps are on CloudShell.
AppsAreThere == \A a \in Preparing!Members(Apps) : AppEntry(a) \in csApps

AllCreated == Preparing!Members(Resources) \subseteq created
AllLoaded == Preparing!Members(Resources) \subseteq loaded

\* A blueprint with apps of the configuration only.
MadeOfApps(b) ==
    \A i \in DOMAIN b.apps :
        \E a \in Preparing!Members(Apps) : b.apps[i] = Preparing!AppXml(a, TRUE)

\* Steps that come after the resources.
Packaging == {"models", "package", "add", "exit", "exitFailed", "sandboxes"}

\* The resources are loaded in their order, and all of them before the packages.
LoadingInv ==
    /\ next \in Nat \ {0}
    /\ pc \in {"start", "debug", "resources"} => next = 1
    /\ pc = "autoload" =>
          \A k \in 1 .. Len(Resources) : k < next => Resources[k] \in loaded
    /\ pc \in Packaging \cup {"autoload"} => AllCreated
    /\ pc \in Packaging => AllLoaded

\* The package of the apps has all of them before it is imported, and it is
\* imported before that of the blueprints is made, of apps of the configuration.
PackageInv ==
    /\ phase \in {"apps", "blueprints"}
    /\ pc \in {"package", "add", "exit"} => ProvidersAreKnown
    /\ pc \in {"add", "exit"} /\ phase = "apps" =>
          \A k \in 1 .. Len(Apps) : k < next => AppEntry(Apps[k]) \in xml
    /\ pc = "exit" => AppsAreThere
    /\ pc \in {"models", "package", "add"} /\ phase = "blueprints" => AppsAreThere
    /\ pc \in {"add", "exit"} /\ phase = "blueprints" => \A b \in xml : MadeOfApps(b)

\* A blueprint came to CloudShell after its apps, and the resources are there as
\* long as the storage has not deleted them.
BlueprintsInv ==
    /\ pc \in {"start", "debug", "resources"} => csBps = {}
    /\ csBps # {} => AppsAreThere /\ ProvidersAreKnown
    /\ csBps # {} /\ pc # "undone" => AllCreated /\ AllLoaded
    /\ \A b \in csBps : MadeOfApps(b)

PrepareInv ==
    conf \in Conf /\ Preparing!NoFileLeft /\ LoadingInv /\ PackageInv /\ BlueprintsInv

\* The service of an app is a path below the model of its provider.
LEMMA QualifiedByModel ==
    ASSUME NEW model, NEW path \in Seq(STRING), path # <<>>
    PROVE  LET q == Preparing!Qualified(model, path)
           IN  q[1] = model /\ Len(q) > 1
  <1>1. CASE Len(path) > 1 /\ path[1] = model
    BY <1>1 DEF Preparing!Qualified
  <1>2. CASE ~(Len(path) > 1 /\ path[1] = model)
    <2>1. /\ <<model>> \in Seq({model} \cup STRING) /\ Len(<<model>>) = 1
          /\ path \in Seq({model} \cup STRING) /\ Len(path) \in Nat \ {0}
      OBVIOUS
    <2>2. /\ Len(<<model>> \o path) = Len(path) + 1
          /\ (<<model>> \o path)[1] = model
      BY <2>1, ConcatProperties
    <2> QED
      BY <1>2, <2>1, <2>2 DEF Preparing!Qualified
  <1> QED
    BY <1>1, <1>2

\* The elements of a sequence are those at its positions.
LEMMA MembersAt ==
    ASSUME NEW s, s \in Seq(Preparing!Members(s))
    PROVE  /\ Len(s) \in Nat
           /\ \A x \in Preparing!Members(s) : \E k \in 1 .. Len(s) : x = s[k]
           /\ \A k \in 1 .. Len(s) : s[k] \in Preparing!Members(s)
  BY DEF Preparing!Members

\* Every step of prepare-env keeps its invariant.
LEMMA PrepareStep == PrepareInv /\ Preparing!Next => PrepareInv'
  <1> SUFFICES ASSUME PrepareInv, Preparing!Next PROVE PrepareInv'
    OBVIOUS
  <1> USE DEF Preparing!pkgVars, Preparing!csVars, Packaging
  <1>s. /\ Resources \in Seq(Preparing!Members(Resources))
        /\ Apps \in Seq(Preparing!Members(Apps))
        /\ Blueprints \in Seq(Preparing!Members(Blueprints))
    BY CommandAssumption DEF Preparing!PrepareAssumption
  \* What the steps do not change of what the invariant says.
  <1>k. UNCHANGED conf
    BY DEF Preparing!Next, Preparing!Begin, Preparing!SetDebugLevel,
       Preparing!CreateResources, Preparing!AutoloadNext, Preparing!AutoloadDone,
       Preparing!AppModels, Preparing!CreatePackage, Preparing!AddNext,
       Preparing!ImportPackage, Preparing!PackageRaises, Preparing!ExitPackage,
       Preparing!ExitRaises, Preparing!CreateSandboxes, Preparing!Terminated, Preparing!vars
  <1>x. /\ \A a : AppEntry(a)' = AppEntry(a)
        /\ ProvidersAreKnown' <=> ProvidersAreKnown
    BY <1>k DEF Preparing!AppXml, AppEntry, ProvidersAreKnown
  <1>m. \A b : MadeOfApps(b)' <=> MadeOfApps(b)
    BY <1>k DEF Preparing!AppXml, MadeOfApps
  <1>l. /\ loaded \subseteq loaded' => (AllLoaded => AllLoaded')
        /\ created' = created => (AllCreated' <=> AllCreated)
    BY DEF AllLoaded, AllCreated
  <1>a. csApps \subseteq csApps' => (AppsAreThere => AppsAreThere')
    BY <1>k DEF AppsAreThere, AppEntry, Preparing!AppXml
  <1>f. /\ UNCHANGED conf
        /\ \A a : AppEntry(a)' = AppEntry(a)
        /\ ProvidersAreKnown' <=> ProvidersAreKnown
        /\ \A b : MadeOfApps(b)' <=> MadeOfApps(b)
        /\ loaded \subseteq loaded' => (AllLoaded => AllLoaded')
        /\ created' = created => (AllCreated' <=> AllCreated)
        /\ csApps \subseteq csApps' => (AppsAreThere => AppsAreThere')
        /\ Len(Resources) \in Nat /\ Len(Apps) \in Nat
    BY <1>k, <1>x, <1>m, <1>l, <1>a, <1>s, MembersAt
  <1> USE DEF PrepareInv, LoadingInv, PackageInv, BlueprintsInv, Preparing!NoFileLeft
  <1>1. CASE Preparing!Begin \/ Preparing!SetDebugLevel
    <2>1. conf \in Conf /\ Preparing!NoFileLeft'
      BY <1>1, <1>f DEF Preparing!Begin, Preparing!SetDebugLevel
    <2>2. LoadingInv'
      BY <1>1, <1>f DEF Preparing!Begin, Preparing!SetDebugLevel
    <2>3. PackageInv'
      BY <1>1, <1>f DEF Preparing!Begin, Preparing!SetDebugLevel
    <2>4. BlueprintsInv'
      BY <1>1, <1>f DEF Preparing!Begin, Preparing!SetDebugLevel
    <2> QED
      BY <2>1, <2>2, <2>3, <2>4, <1>f
  <1>1r. CASE Preparing!CreateResources
    <2>1. AllCreated' \/ pc' = "failed"
      BY <1>1r DEF Preparing!CreateResources, AllCreated
    <2>2. csBps = {}
      <3>1. pc = "resources"
        BY <1>1r DEF Preparing!CreateResources
      <3> QED
        BY <3>1
    <2> QED
      BY <1>1r, <2>1, <2>2, <1>f DEF Preparing!CreateResources
  <1>2. CASE Preparing!AutoloadNext
    <2>1. /\ pc = "autoload" /\ next' = next + 1
          /\ \/ loaded' = loaded \cup {Resources[next]} /\ pc' = "autoload"
             \/ loaded' = loaded /\ pc' = "failed"
          /\ UNCHANGED <<phase, file, entries, xml, driverIn, created, csApps, csBps>>
      BY <1>2 DEF Preparing!AutoloadNext, Preparing!LoadRaises
    <2>2. LoadingInv'
      BY <2>1, <1>f
    <2> QED
      BY <2>1, <2>2, <1>f
  <1>3. CASE Preparing!AutoloadDone
    <2>1. /\ pc = "autoload" /\ pc' = "models" /\ next > Len(Resources) /\ phase' = "apps"
          /\ UNCHANGED <<next, loaded, file, entries, xml, driverIn, created, csApps, csBps>>
      BY <1>3 DEF Preparing!AutoloadDone, Preparing!Phases
    <2>2. \A x \in Preparing!Members(Resources) : \E k \in 1 .. Len(Resources) : x = Resources[k]
      BY <1>s, MembersAt
    <2>3. \A k \in 1 .. Len(Resources) : k < next
      BY <2>1, <1>f
    <2>4. AllLoaded
      BY <2>1, <2>2, <2>3 DEF AllLoaded
    <2> QED
      BY <2>1, <2>4, <1>f
  <1>4. CASE Preparing!AppModels
    BY <1>4, <1>f DEF Preparing!AppModels, ProvidersAreKnown
  <1>5. CASE Preparing!CreatePackage
    BY <1>5, <1>f DEF Preparing!CreatePackage, Preparing!FileRemoved
  <1>6. CASE Preparing!AddNext
    <2>0. /\ pc = "add" /\ pc' = "add" /\ next' = next + 1 /\ ~Preparing!Raises
          /\ next <= Len(Preparing!ToAdd)
          /\ UNCHANGED <<phase, loaded, file, created, csApps, csBps>>
      BY <1>6 DEF Preparing!AddNext
    <2>1. CASE phase = "apps"
      <3>1. xml' = xml \cup {AppEntry(Apps[next])}
        BY <1>6, <2>1 DEF Preparing!AddNext, AppEntry
      <3>2. \A k \in 1 .. Len(Apps) :
                k < next' => AppEntry(Apps[k]) \in xml'
        BY <2>0, <2>1, <3>1, <1>f
      <3> QED
        BY <2>0, <2>1, <3>2, <1>f
    <2>2. CASE phase = "blueprints"
      <3>1. PICK position : xml' = xml \cup {Preparing!BlueprintXml(Blueprints[next], position)}
        BY <1>6, <2>2 DEF Preparing!AddNext
      <3>2. Preparing!Members(conf.appNames[Blueprints[next]]) \subseteq Preparing!Members(Apps)
        BY <2>0, <2>2 DEF Preparing!Raises
      <3>3. MadeOfApps(Preparing!BlueprintXml(Blueprints[next], position))
        <4> DEFINE names == conf.appNames[Blueprints[next]]
                   b == Preparing!BlueprintXml(Blueprints[next], position)
        <4>1. b.apps = [i \in DOMAIN names |-> Preparing!AppXml(names[i], TRUE)]
          BY DEF Preparing!BlueprintXml
        <4>2. \A i \in DOMAIN names : names[i] \in Preparing!Members(Apps)
          BY <3>2 DEF Preparing!Members
        <4> HIDE DEF b, names
        <4>3. MadeOfApps(b)
          BY <4>1, <4>2 DEF MadeOfApps
        <4> QED
          BY <4>3 DEF b
      <3>4. \A b \in xml' : MadeOfApps(b)
        BY <2>0, <2>2, <3>1, <3>3
      <3> QED
        BY <2>0, <2>2, <3>4, <1>f
    <2> QED
      BY <2>1, <2>2
  <1>7. CASE Preparing!ImportPackage
    <2>0. /\ pc = "add" /\ pc' \in {"exit", "exitFailed"} /\ next > Len(Preparing!ToAdd)
          /\ UNCHANGED <<phase, next, loaded, file, xml, created>>
      BY <1>7 DEF Preparing!ImportPackage
    <2>1. CASE phase = "apps"
      <3>1. csApps' = csApps \cup xml /\ csBps' = csBps /\ next > Len(Apps)
        BY <1>7, <2>0, <2>1 DEF Preparing!ImportPackage, Preparing!ToAdd
      <3>2. \A x \in Preparing!Members(Apps) : \E k \in 1 .. Len(Apps) : x = Apps[k]
        BY <1>s, MembersAt
      <3>3. \A k \in 1 .. Len(Apps) : AppEntry(Apps[k]) \in xml
        BY <2>0, <2>1, <3>1, <1>f
      <3>4. \A x \in Preparing!Members(Apps) : AppEntry(x) \in csApps'
        BY <3>1, <3>2, <3>3
      <3>5. AppsAreThere'
        BY <3>4, <1>f DEF AppsAreThere
      <3> QED
        BY <2>0, <2>1, <3>1, <3>5, <1>f
    <2>2. CASE phase = "blueprints"
      <3>1. csBps' = csBps \cup xml /\ csApps' = csApps
        BY <1>7, <2>2 DEF Preparing!ImportPackage
      <3> QED
        BY <2>0, <2>2, <3>1, <1>f
    <2> QED
      BY <2>1, <2>2
  <1>8. CASE Preparing!PackageRaises
    BY <1>8, <1>f DEF Preparing!PackageRaises
  <1>9. CASE Preparing!ExitPackage
    BY <1>9, <1>f DEF Preparing!ExitPackage, Preparing!Phases
  <1>9r. CASE Preparing!ExitRaises
    BY <1>9r, <1>f DEF Preparing!ExitRaises
  <1>10. CASE Preparing!CreateSandboxes
    BY <1>10, <1>f DEF Preparing!CreateSandboxes
  <1>11. CASE Preparing!Terminated
    BY <1>11, <1>f DEF Preparing!Terminated, Preparing!vars
  <1> QED
    BY <1>1, <1>1r, <1>2, <1>3, <1>4, <1>5, <1>6, <1>7, <1>8, <1>9, <1>9r, <1>10, <1>11
       DEF Preparing!Next

\* What the invariant says of the blueprints is the property.
LEMMA PrepareEnd == PrepareInv => Preparing!BlueprintsAreDeployable
  <1> SUFFICES ASSUME PrepareInv, NEW b \in csBps, NEW i \in DOMAIN b.apps
               PROVE  /\ b.apps[i].default
                      /\ pc # "undone" => b.apps[i].cp \in created \cap loaded
                      /\ \E a \in csApps : /\ a.app = b.apps[i].app
                                           /\ a.service = b.apps[i].service
                      /\ b.apps[i].service[1] = ModelOf[b.apps[i].cp]
                      /\ Len(b.apps[i].service) > 1
    BY DEF Preparing!BlueprintsAreDeployable
  <1>1. PICK a \in Preparing!Members(Apps) : b.apps[i] = Preparing!AppXml(a, TRUE)
    BY DEF PrepareInv, BlueprintsInv, MadeOfApps
  <1> DEFINE service == Preparing!Qualified(ModelOf[conf.cpOf[a]], conf.deployment[a])
  <1>2. /\ b.apps[i].default /\ b.apps[i].cp = conf.cpOf[a]
        /\ b.apps[i].app = a /\ b.apps[i].service = service
    BY <1>1 DEF Preparing!AppXml
  <1>3. /\ Preparing!AppXml(a, FALSE).app = a
        /\ Preparing!AppXml(a, FALSE).service = service
        /\ Preparing!AppXml(a, FALSE) \in csApps
    BY DEF Preparing!AppXml, PrepareInv, BlueprintsInv, AppsAreThere, AppEntry
  <1>4. pc # "undone" => conf.cpOf[a] \in created \cap loaded
    BY DEF PrepareInv, BlueprintsInv, AllCreated, AllLoaded, ProvidersAreKnown
  <1>5. conf.deployment[a] \in Seq(STRING) /\ conf.deployment[a] # <<>>
    BY CommandAssumption DEF PrepareInv, Preparing!PrepareAssumption
  <1>6. service[1] = ModelOf[conf.cpOf[a]] /\ Len(service) > 1
    BY <1>5, QualifiedByModel
  <1> HIDE DEF service
  <1> QED
    BY <1>2, <1>3, <1>4, <1>6

-----------------------------------------------------------------------------
(* The choice of the test cases *)

\* An entry of a table: nothing, a test case that reads no file server, or one
\* test case for each server; autoload test cases belong to the command autoload.
PlainCase(c, n) ==
    /\ Planning!Needs(n) = {}
    /\ n \in Planning!AutoloadCases => c = "autoload"

EntryShape(c, e) ==
    \/ e = <<>>
    \/ \E n : e = Planning!Case(n) /\ PlainCase(c, n)
    \/ e = Planning!SAVE_TEST_CASES
    \/ e = Planning!RESTORE_TEST_CASES

\* The tables of the families have such entries only.
LEMMA TableShape ==
    ASSUME NEW f, NEW d \in Planning!DeviceTypes(f), NEW c
    PROVE  EntryShape(c, Planning!TestCasesMap(f, d, c))
  <1> USE DEF Planning!Real, Planning!Simulator, Planning!WithoutDevice,
          Planning!FromTemplate
  <1>0. ASSUME NEW n, PlainCase(c, n) PROVE EntryShape(c, Planning!Case(n))
    BY <1>0 DEF EntryShape
  <1>e. EntryShape(c, <<>>)
    BY DEF EntryShape
  <1>a. ASSUME NEW n \in Planning!AutoloadCases
        PROVE  EntryShape(c, Planning!Autoload(c, n))
    <2>1. c = "autoload" => PlainCase(c, n)
      BY DEF PlainCase, Planning!Needs, Planning!AutoloadCases
    <2> QED
      BY <1>0, <1>e, <2>1 DEF Planning!Autoload
  <1>1. EntryShape(c, Planning!TemplateCases(c))
    <2>1. /\ c = "autoload" => PlainCase(c, "TestAutoloadShellFromTemplate")
          /\ PlainCase(c, "TestRunCustomCommandShellFromTemplate")
          /\ PlainCase(c, "TestSaveConfigFromTemplate")
          /\ PlainCase(c, "TestRestoreConfigFromTemplate")
      BY DEF PlainCase, Planning!Needs, Planning!AutoloadCases
    <2> QED
      BY <1>0, <1>e, <2>1 DEF Planning!TemplateCases
  <1>2. EntryShape(c, Planning!WithoutDeviceCases(c))
    <2>1. /\ c = "autoload" => PlainCase(c, "TestAutoloadWithoutDevice")
          /\ PlainCase(c, "TestRunCustomCommandWithoutDevice")
          /\ PlainCase(c, "TestSaveConfigWithoutDevice")
          /\ PlainCase(c, "TestRestoreConfigWithoutDevice")
      BY DEF PlainCase, Planning!Needs, Planning!AutoloadCases
    <2> QED
      BY <1>0, <1>e, <2>1 DEF Planning!WithoutDeviceCases
  <1>3. EntryShape(c, Planning!RealDeviceCases(c))
    <2>1. /\ c = "autoload" => PlainCase(c, "TestAutoloadNetworkDevices")
          /\ PlainCase(c, "TestRunCustomCommand")
      BY DEF PlainCase, Planning!Needs, Planning!AutoloadCases
    <2>2. /\ EntryShape(c, Planning!SAVE_TEST_CASES)
          /\ EntryShape(c, Planning!RESTORE_TEST_CASES)
      BY DEF EntryShape
    <2> QED
      BY <1>0, <1>e, <2>1, <2>2 DEF Planning!RealDeviceCases
  <1>4. d \in {Planning!Real, Planning!Simulator, Planning!WithoutDevice,
               Planning!FromTemplate} =>
            /\ EntryShape(c, Planning!FirewallCases(d, c))
            /\ EntryShape(c, Planning!RouterCases(d, c))
    <2>1. PlainCase(c, "TestConnectivity")
      BY DEF PlainCase, Planning!Needs, Planning!AutoloadCases
    <2>2. EntryShape(c, Planning!Autoload(c, "TestAutoloadNetworkDevices"))
      BY <1>a DEF Planning!AutoloadCases
    <2> QED
      BY <1>0, <1>1, <1>2, <1>3, <2>1, <2>2
         DEF Planning!FirewallCases, Planning!RouterCases
  <1>5. EntryShape(c, Planning!ControllerCases(d, c))
    <2>1. \A n \in {"TestLoadConfig", "TestLoadConfigWithoutDevice", "TestStartTraffic",
                    "TestStartTrafficWithoutDevice", "TestStopTraffic",
                    "TestStopTrafficWithoutDevice", "TestGetStatistics",
                    "TestGetStatisticsWithoutDevice", "TestGetTestFile",
                    "TestGetTestFileWithoutDevice"} : PlainCase(c, n)
      BY DEF PlainCase, Planning!Needs, Planning!AutoloadCases
    <2> QED
      BY <1>0, <1>e, <2>1 DEF Planning!ControllerCases
  <1>6. \A n \in {"TestAutoloadWithoutDevice", "TestAutoloadTrafficGeneratorDevices",
                  "TestAutoloadVirtualTrafficGeneratorDevices",
                  "TestAutoloadWithoutPorts"} : EntryShape(c, Planning!Autoload(c, n))
    BY <1>a DEF Planning!AutoloadCases
  <1> QED
    BY <1>1, <1>4, <1>5, <1>6
       DEF Planning!TestCasesMap, Planning!DeviceTypes, Planning!NetworkFamilies

\* A test case of an entry reads no other server than the one it is listed with.
LEMMA EntryFacts ==
    ASSUME NEW c, NEW e, EntryShape(c, e)
    PROVE  /\ DOMAIN e \subseteq 1 .. 3
           /\ \A k \in DOMAIN e :
                 /\ Planning!Needs(e[k].case) \subseteq {e[k].server} \ {"any"}
                 /\ e[k].case \in Planning!AutoloadCases => c = "autoload"
  <1>1. CASE e = <<>>
    BY <1>1
  <1>2. CASE \E n : e = Planning!Case(n) /\ PlainCase(c, n)
    <2>1. PICK n : e = Planning!Case(n) /\ PlainCase(c, n)
      BY <1>2
    <2>2. DOMAIN e = {1} /\ e[1].case = n /\ e[1].server = "any"
      BY <2>1 DEF Planning!Case
    <2> QED
      BY <2>1, <2>2 DEF PlainCase
  <1>3. CASE e = Planning!SAVE_TEST_CASES
    <2>1. /\ DOMAIN e = 1 .. 3
          /\ e[1] = [case |-> "TestSaveConfig", server |-> "ftp"]
          /\ e[2] = [case |-> "TestSaveConfigFromScp", server |-> "scp"]
          /\ e[3] = [case |-> "TestSaveConfigFromTftp", server |-> "tftp"]
      BY <1>3 DEF Planning!SAVE_TEST_CASES
    <2>2. \A k \in DOMAIN e : k = 1 \/ k = 2 \/ k = 3
      BY <2>1
    <2> QED
      BY <2>1, <2>2 DEF Planning!Needs, Planning!AutoloadCases
  <1>4. CASE e = Planning!RESTORE_TEST_CASES
    <2>1. /\ DOMAIN e = 1 .. 3
          /\ e[1] = [case |-> "TestRestoreConfig", server |-> "ftp"]
          /\ e[2] = [case |-> "TestRestoreConfigFromScp", server |-> "scp"]
          /\ e[3] = [case |-> "TestRestoreConfigFromTftp", server |-> "tftp"]
      BY <1>4 DEF Planning!RESTORE_TEST_CASES
    <2>2. \A k \in DOMAIN e : k = 1 \/ k = 2 \/ k = 3
      BY <2>1
    <2> QED
      BY <2>1, <2>2 DEF Planning!Needs, Planning!AutoloadCases
  <1> QED
    BY <1>1, <1>2, <1>3, <1>4 DEF EntryShape

\* The entry of autoload is one autoload test case, except for the controllers.
LEMMA AutoloadEntry ==
    ASSUME NEW f, NEW d \in Planning!DeviceTypes(f)
    PROVE  /\ f # "CS_TrafficGeneratorController" =>
                 /\ f \in Planning!AUTOLOAD_TEST_FOR_FAMILIES
                 /\ \E n \in Planning!AutoloadCases :
                       Planning!TestCasesMap(f, d, "autoload") = Planning!Case(n)
           /\ f = "CS_TrafficGeneratorController" =>
                 /\ f \notin Planning!AUTOLOAD_TEST_FOR_FAMILIES
                 /\ Planning!TestCasesMap(f, d, "autoload") = <<>>
  <1> USE DEF Planning!Real, Planning!Simulator, Planning!WithoutDevice,
          Planning!FromTemplate
  <1>1. \A n : Planning!Autoload("autoload", n) = Planning!Case(n)
    BY DEF Planning!Autoload
  <1>2. /\ Planning!TemplateCases("autoload") = Planning!Case("TestAutoloadShellFromTemplate")
        /\ Planning!WithoutDeviceCases("autoload") = Planning!Case("TestAutoloadWithoutDevice")
        /\ Planning!RealDeviceCases("autoload") = Planning!Case("TestAutoloadNetworkDevices")
        /\ Planning!ControllerCases(d, "autoload") = <<>>
    BY DEF Planning!TemplateCases, Planning!WithoutDeviceCases, Planning!RealDeviceCases,
       Planning!ControllerCases, Planning!RunCommands, Planning!Saves, Planning!Restores
  <1>3. CASE f \in Planning!NetworkFamilies
    <2>1. d \in {Planning!Real, Planning!Simulator, Planning!WithoutDevice,
                 Planning!FromTemplate}
      BY <1>3 DEF Planning!DeviceTypes
    <2>2. Planning!RouterCases(d, "autoload") = Planning!FirewallCases(d, "autoload")
      BY DEF Planning!RouterCases
    <2>3. \E n \in Planning!AutoloadCases :
              Planning!FirewallCases(d, "autoload") = Planning!Case(n)
      BY <1>1, <1>2, <2>1 DEF Planning!FirewallCases, Planning!AutoloadCases
    <2>4. Planning!TestCasesMap(f, d, "autoload") = Planning!FirewallCases(d, "autoload")
      BY <1>3, <2>2 DEF Planning!TestCasesMap, Planning!NetworkFamilies
    <2> QED
      BY <1>3, <2>3, <2>4 DEF Planning!AUTOLOAD_TEST_FOR_FAMILIES, Planning!NetworkFamilies
  <1>4. CASE f \notin Planning!NetworkFamilies
    BY <1>1, <1>2, <1>4 DEF Planning!DeviceTypes, Planning!TestCasesMap,
       Planning!NetworkFamilies, Planning!AutoloadCases, Planning!AUTOLOAD_TEST_FOR_FAMILIES
  <1> QED
    BY <1>3, <1>4

\* A list has each test case of a set once, none that reads a server that is not
\* configured, an autoload test case in front only, and there the first one.
IsSuite(list, cases) ==
    /\ \E T : list \in Seq(T)
    /\ \A i, j \in DOMAIN list : list[i] = list[j] => i = j
    /\ {list[i] : i \in DOMAIN list} = cases
    /\ \A i \in DOMAIN list :
          /\ Planning!Needs(list[i]) \subseteq servers
          /\ list[i] \in Planning!AutoloadCases => i = 1
    /\ family # "CS_TrafficGeneratorController" =>
          1 \in DOMAIN list /\ list[1] \in Planning!AutoloadCases

\* A test case may join the list if its servers are there and it is no new
\* autoload test case.
MayJoin(x, list) ==
    /\ Planning!Needs(x) \subseteq servers
    /\ x \in Planning!AutoloadCases => \E i \in DOMAIN list : list[i] = x

\* if test_case not in test_cases: test_cases.append(test_case) keeps such a list.
LEMMA AppendKeepsSuite ==
    ASSUME NEW list, NEW cases, IsSuite(list, cases), NEW x, MayJoin(x, list)
    PROVE  IsSuite(Planning!AppendNew(list, x), cases \cup {x})
  <1>1. PICK T : list \in Seq(T)
    BY DEF IsSuite
  <1>2. CASE \E i \in DOMAIN list : list[i] = x
    <2>1. Planning!AppendNew(list, x) = list
      BY <1>1, <1>2 DEF Planning!AppendNew, Planning!Contains
    <2>2. cases \cup {x} = cases
      BY <1>2 DEF IsSuite
    <2> QED
      BY <2>1, <2>2
  <1>3. CASE ~ \E i \in DOMAIN list : list[i] = x
    <2> DEFINE new == Append(list, x)
    <2>1. Planning!AppendNew(list, x) = new
      BY <1>1, <1>3 DEF Planning!AppendNew, Planning!Contains
    <2>2. list \in Seq(T \cup {x})
      BY <1>1
    <2>3. /\ new \in Seq(T \cup {x})
          /\ DOMAIN list = 1 .. Len(list)
          /\ Len(list) \in Nat
          /\ DOMAIN new = 1 .. (Len(list) + 1)
          /\ \A i \in DOMAIN list : new[i] = list[i]
          /\ new[Len(list) + 1] = x
      BY <2>2
    <2> HIDE DEF new
    <2>4. \A i \in DOMAIN new : i \in DOMAIN list \/ i = Len(list) + 1
      BY <2>3
    <2>5. DOMAIN new = DOMAIN list \cup {Len(list) + 1}
      BY <2>3
    <2>6. \A i, j \in DOMAIN new : new[i] = new[j] => i = j
      BY <1>3, <2>3, <2>4 DEF IsSuite
    <2>7. {new[i] : i \in DOMAIN new} = cases \cup {x}
      BY <2>3, <2>5 DEF IsSuite
    <2>8. x \notin Planning!AutoloadCases
      BY <1>3 DEF MayJoin
    <2>9. \A i \in DOMAIN new :
             /\ Planning!Needs(new[i]) \subseteq servers
             /\ new[i] \in Planning!AutoloadCases => i = 1
      BY <2>3, <2>4, <2>8 DEF IsSuite, MayJoin
    <2>10. family # "CS_TrafficGeneratorController" =>
              1 \in DOMAIN new /\ new[1] \in Planning!AutoloadCases
      BY <2>3, <2>5 DEF IsSuite
    <2>11. \E U : new \in Seq(U)
      BY <2>3
    <2>12. IsSuite(new, cases \cup {x})
      BY <2>6, <2>7, <2>9, <2>10, <2>11 DEF IsSuite
    <2> QED
      BY <2>1, <2>12
  <1> QED
    BY <1>2, <1>3

\* The suitable test cases among some of an entry.
Suited(entry, K) ==
    {entry[k].case : k \in {i \in DOMAIN entry \cap K : Planning!IsSuitable(entry[i])}}

\* One turn of the loop adds the test case if it is suitable.
LEMMA OfferKeepsSuite ==
    ASSUME NEW list, NEW cases, IsSuite(list, cases), NEW entry, NEW k,
           k \in DOMAIN entry /\ Planning!IsSuitable(entry[k]) => MayJoin(entry[k].case, list)
    PROVE  IsSuite(Planning!Offer(list, entry, k), cases \cup Suited(entry, {k}))
  <1>1. CASE k \in DOMAIN entry /\ Planning!IsSuitable(entry[k])
    <2>1. Suited(entry, {k}) = {entry[k].case}
      BY <1>1 DEF Suited
    <2> QED
      BY <1>1, <2>1, AppendKeepsSuite DEF Planning!Offer
  <1>2. CASE ~ (k \in DOMAIN entry /\ Planning!IsSuitable(entry[k]))
    <2>1. Suited(entry, {k}) = {}
      BY <1>2 DEF Suited
    <2>2. cases \cup Suited(entry, {k}) = cases
      BY <2>1
    <2> QED
      BY <1>2, <2>2 DEF Planning!Offer
  <1> QED
    BY <1>1, <1>2

\* The test cases that the commands so far lead to, the first one included.
Chosen ==
    Planning!ToSet(Planning!FirstCases) \cup UNION {Planning!CasesOf(c) : c \in seen}

\* Once the tables are looked up, the list is the suite of the commands so far.
SuiteInv ==
    /\ pc = "lookup" => seen = {}
    /\ pc \in {"commands", "suite"} =>
          /\ Planning!DeviceType \in Planning!DeviceTypes(family)
          /\ IsSuite(testCases, Chosen)

\* The list before the first command is the autoload test case, or empty for a
\* traffic generator controller.
LEMMA FirstIsSuite ==
    ASSUME Planning!DeviceType \in Planning!DeviceTypes(family)
    PROVE  IsSuite(Planning!FirstCases, Planning!ToSet(Planning!FirstCases))
  <1>1. CASE family = "CS_TrafficGeneratorController"
    <2>1. Planning!FirstCases = <<>>
      BY <1>1, AutoloadEntry DEF Planning!FirstCases
    <2>2. /\ <<>> \in Seq({})
          /\ DOMAIN <<>> = {}
      OBVIOUS
    <2> QED
      BY <1>1, <2>1, <2>2 DEF IsSuite, Planning!ToSet
  <1>2. CASE family # "CS_TrafficGeneratorController"
    <2>1. PICK n \in Planning!AutoloadCases :
             Planning!TestCasesMap(family, Planning!DeviceType, "autoload")
                = Planning!Case(n)
      BY <1>2, AutoloadEntry
    <2>2. Planning!Case(n)[1].case = n
      BY DEF Planning!Case
    <2>3. Planning!FirstCases = <<n>>
      BY <1>2, <2>1, <2>2, AutoloadEntry DEF Planning!FirstCases
    <2>4. /\ <<n>> \in Seq({n})
          /\ DOMAIN <<n>> = {1} /\ <<n>>[1] = n
      OBVIOUS
    <2>5. Planning!Needs(n) = {}
      BY <2>1 DEF Planning!Needs, Planning!AutoloadCases
    <2>6. /\ \E T : <<n>> \in Seq(T)
          /\ \A i, j \in DOMAIN <<n>> : <<n>>[i] = <<n>>[j] => i = j
          /\ \A i \in DOMAIN <<n>> : /\ Planning!Needs(<<n>>[i]) \subseteq servers
                                     /\ <<n>>[i] \in Planning!AutoloadCases => i = 1
          /\ 1 \in DOMAIN <<n>> /\ <<n>>[1] \in Planning!AutoloadCases
      BY <2>4, <2>5
    <2>7. IsSuite(<<n>>, Planning!ToSet(<<n>>))
      BY <2>6 DEF IsSuite, Planning!ToSet
    <2> QED
      BY <2>3, <2>7
  <1> QED
    BY <1>1, <1>2

\* An autoload test case that a command leads to is the first test case.
LEMMA AutoloadIsFirst ==
    ASSUME NEW c, NEW k \in DOMAIN Planning!EntryOf(c),
           Planning!DeviceType \in Planning!DeviceTypes(family),
           Planning!EntryOf(c)[k].case \in Planning!AutoloadCases
    PROVE  Planning!EntryOf(c)[k].case \in Planning!ToSet(Planning!FirstCases)
  <1>1. c = "autoload"
    <2>1. EntryShape(c, Planning!EntryOf(c))
      BY TableShape DEF Planning!EntryOf
    <2> QED
      BY <2>1, EntryFacts
  <1>2. family # "CS_TrafficGeneratorController"
    BY <1>1, AutoloadEntry DEF Planning!EntryOf
  <1>3. PICK n \in Planning!AutoloadCases :
           Planning!TestCasesMap(family, Planning!DeviceType, "autoload") = Planning!Case(n)
    BY <1>2, AutoloadEntry
  <1>4. /\ DOMAIN Planning!Case(n) = {1}
        /\ Planning!Case(n)[1].case = n
    BY DEF Planning!Case
  <1>5. Planning!FirstCases = <<n>>
    BY <1>2, <1>3, <1>4, AutoloadEntry DEF Planning!FirstCases
  <1>6. n \in Planning!ToSet(<<n>>)
    BY DEF Planning!ToSet
  <1> QED
    BY <1>1, <1>3, <1>4, <1>5, <1>6 DEF Planning!EntryOf

\* A suitable test case of an entry may join the list.
LEMMA EntryMayJoin ==
    ASSUME NEW c, Planning!DeviceType \in Planning!DeviceTypes(family),
           NEW list, NEW cases, IsSuite(list, cases),
           Planning!ToSet(Planning!FirstCases) \subseteq cases,
           NEW k \in DOMAIN Planning!EntryOf(c),
           Planning!IsSuitable(Planning!EntryOf(c)[k])
    PROVE  MayJoin(Planning!EntryOf(c)[k].case, list)
  <1> DEFINE t == Planning!EntryOf(c)[k]
  <1>1. Planning!Needs(t.case) \subseteq {t.server} \ {"any"}
    <2>1. EntryShape(c, Planning!EntryOf(c))
      BY TableShape DEF Planning!EntryOf
    <2> QED
      BY <2>1, EntryFacts
  <1>2. t.server \in servers \cup {"any"}
    BY DEF Planning!IsSuitable
  <1>3. t.case \in Planning!AutoloadCases => t.case \in cases
    BY AutoloadIsFirst
  <1> HIDE DEF t
  <1>4. MayJoin(t.case, list)
    BY <1>1, <1>2, <1>3 DEF MayJoin, IsSuite
  <1> QED
    BY <1>4 DEF t

\* The loop over an entry adds its suitable test cases.
LEMMA EntryKeepsSuite ==
    ASSUME NEW c, Planning!DeviceType \in Planning!DeviceTypes(family),
           NEW list, NEW cases, IsSuite(list, cases),
           Planning!ToSet(Planning!FirstCases) \subseteq cases
    PROVE  IsSuite(Planning!OfferAll(list, Planning!EntryOf(c)),
                   cases \cup Planning!CasesOf(c))
  <1> DEFINE e == Planning!EntryOf(c)
             l1 == Planning!Offer(list, e, 1)
             l2 == Planning!Offer(l1, e, 2)
             c1 == cases \cup Suited(e, {1})
             c2 == c1 \cup Suited(e, {2})
             c3 == c2 \cup Suited(e, {3})
  <1>1. IsSuite(l1, c1)
    BY EntryMayJoin, OfferKeepsSuite
  <1>2. IsSuite(l2, c2)
    <2>1. Planning!ToSet(Planning!FirstCases) \subseteq c1
      OBVIOUS
    <2> HIDE DEF l1, c1
    <2> QED
      BY <1>1, <2>1, EntryMayJoin, OfferKeepsSuite
  <1>3. IsSuite(Planning!Offer(l2, e, 3), c3)
    <2>1. Planning!ToSet(Planning!FirstCases) \subseteq c2
      OBVIOUS
    <2> HIDE DEF l2, c2
    <2> QED
      BY <1>2, <2>1, EntryMayJoin, OfferKeepsSuite
  <1>4. c3 = cases \cup Planning!CasesOf(c)
    <2>1. EntryShape(c, e)
      BY TableShape DEF Planning!EntryOf
    <2>2. DOMAIN e \subseteq 1 .. 3
      BY <2>1, EntryFacts
    <2>3. DOMAIN e \subseteq {1, 2, 3}
      BY <2>2
    <2>4. Planning!CasesOf(c) =
              {e[k].case : k \in {i \in DOMAIN e : Planning!IsSuitable(e[i])}}
      BY DEF Planning!CasesOf, Planning!ToSet
    <2> HIDE DEF e
    <2>5. Planning!CasesOf(c) = Suited(e, {1}) \cup Suited(e, {2}) \cup Suited(e, {3})
      BY <2>3, <2>4 DEF Suited
    <2> QED
      BY <2>5
  <1> QED
    BY <1>3, <1>4 DEF Planning!OfferAll

\* What a suite is depends on the resource and the servers only.
LEMMA SuiteFrame ==
    UNCHANGED <<family, conf, servers>> =>
        /\ Planning!DeviceType' = Planning!DeviceType
        /\ Planning!DeviceTypes(family)' = Planning!DeviceTypes(family)
        /\ Planning!FirstCases' = Planning!FirstCases
        /\ \A c : Planning!CasesOf(c)' = Planning!CasesOf(c)
        /\ \A s : Planning!ToSet(s)' = Planning!ToSet(s)
        /\ \A list, cases : IsSuite(list, cases)' = IsSuite(list, cases)
  BY DEF Planning!DeviceType, Planning!FirstCases, Planning!CasesOf, Planning!EntryOf,
     Planning!IsSuitable, IsSuite

\* Every step of get_test_suite keeps it.
LEMMA SuiteStep == SuiteInv /\ Planning!Next => SuiteInv'
  <1> SUFFICES ASSUME SuiteInv, Planning!Next PROVE SuiteInv'
    OBVIOUS
  <1>0. UNCHANGED <<family, conf, servers>>
    BY DEF Planning!Next, Planning!Lookup, Planning!AddCommand, Planning!BuildSuite,
       Planning!Ended, Planning!vars
  <1>1. CASE Planning!Lookup
    <2>1. CASE pc' = "KeyError"
      BY <2>1 DEF SuiteInv
    <2>2. CASE pc' # "KeyError"
      <3>1. /\ pc' = "commands" /\ seen' = {} /\ testCases' = Planning!FirstCases
            /\ Planning!DeviceType \in Planning!DeviceTypes(family)
        BY <1>1, <2>2 DEF Planning!Lookup, SuiteInv
      <3>2. Chosen' = Planning!ToSet(Planning!FirstCases)
        BY SuiteFrame, <1>0, <3>1 DEF Chosen
      <3>3. IsSuite(testCases', Chosen')
        BY <3>1, <3>2, FirstIsSuite
      <3> QED
        BY SuiteFrame, <1>0, <3>1, <3>3 DEF SuiteInv, IsSuite
    <2> QED
      BY <2>1, <2>2
  <1>2. ASSUME NEW c \in Command, Planning!AddCommand(c) PROVE SuiteInv'
    <2>1. /\ pc = "commands" /\ pc' = pc /\ seen' = seen \cup {c}
          /\ testCases' = Planning!OfferAll(testCases, Planning!EntryOf(c))
      BY <1>2 DEF Planning!AddCommand
    <2>2. Chosen' = Chosen \cup Planning!CasesOf(c)
      BY SuiteFrame, <1>0, <2>1 DEF Chosen
    <2>3. IsSuite(testCases', Chosen')
      BY <2>1, <2>2, EntryKeepsSuite DEF SuiteInv, Chosen
    <2> QED
      BY SuiteFrame, <1>0, <2>1, <2>3 DEF SuiteInv, IsSuite
  <1>3. CASE Planning!BuildSuite \/ Planning!Ended
    <2>1. /\ pc \in {"commands", "suite", "KeyError"} /\ UNCHANGED <<seen, testCases>>
          /\ pc' \in {"suite", "KeyError"} /\ (pc' = "suite" => pc # "KeyError")
      BY <1>3 DEF Planning!BuildSuite, Planning!Ended, Planning!vars
    <2>2. Chosen' = Chosen
      BY SuiteFrame, <1>0, <2>1 DEF Chosen
    <2> QED
      BY SuiteFrame, <1>0, <2>1, <2>2 DEF SuiteInv, IsSuite
  <1> QED
    BY <1>1, <1>2, <1>3 DEF Planning!Next

\* The list of the finished loop is the suite that is promised.
LEMMA SuiteEnd == SuiteInv => Planning!SuiteIsExact
  <1> SUFFICES ASSUME SuiteInv, pc = "suite" PROVE Planning!SuiteIsExact
    BY DEF Planning!SuiteIsExact
  <1>1. IsSuite(testCases, Chosen)
    BY DEF SuiteInv
  <1>2. PICK T : testCases \in Seq(T)
    BY <1>1 DEF IsSuite
  <1>3. family # "CS_TrafficGeneratorController" => testCases # <<>>
    BY <1>1, <1>2 DEF IsSuite
  <1> QED
    BY <1>1, <1>3 DEF IsSuite, Chosen, Planning!SuiteIsExact, Planning!IsInjective,
       Planning!ToSet

-----------------------------------------------------------------------------
(* The resources on CloudShell *)

\* The states between create() and the end, in which a handler uses its name.
Using == {"attributes", "ready", "rename", "load", "reload", "ports", "children"}

\* The states that a handler reaches only once all handlers are created.
Testing == {"rename", "load", "reload", "ports", "children"}

Creating == \E q \in Resource : pc[q] \in {"create", "attributes"}

\* A handler whose resource is there: it uses it, or the first finish() has yet
\* to delete it.
Holds(r) == pc[r] \in Using \/ (passes = 1 /\ r \in todo)

\* What the rest needs of the types.
SetupTypes ==
    /\ pc \in [Resource -> {"create", "finish", "failed"} \cup Using]
    /\ DOMAIN name = Resource /\ DOMAIN newName = Resource
    /\ DOMAIN success = Resource
    /\ \A r \in Resource : pc[r] \in {"create", "attributes"} => success[r] = "None"
    /\ DOMAIN at = Setup!Id /\ DOMAIN origin = Setup!Id
    /\ DOMAIN tree = Setup!Id /\ DOMAIN configured = Setup!Id
    /\ \A r \in Resource : name[r] # Setup!NoName /\ newName[r] # Setup!NoName
    /\ \A r \in Resource : Setup!IsName(name[r]) /\ Setup!IsName(newName[r])
    /\ renumber \in BOOLEAN

\* The calls of finish() begin when no handler is used any more.
PassInv ==
    /\ passes \in 0 .. 2
    /\ passes = 0 => todo = {} /\ \A r \in Resource : pc[r] # "finish"
    /\ passes # 0 => \A r \in Resource : pc[r] \in {"finish", "failed"}
    /\ \A r \in todo : r \in Resource /\ pc[r] = "finish"

\* CloudShell has a name once, and a handler that creates has no resource yet.
NamesInv ==
    /\ \A i, j \in Setup!Id : at[i] = at[j] /\ at[i] # Setup!NoName => i = j
    /\ \A r \in Resource : pc[r] = "create" => at[r] = Setup!NoName
    /\ \A f \in Foreign : origin[f] = Setup!NoName => at[f] = Setup!NoName

\* As long as a resource is created nothing is renamed; without new names every
\* resource then has the name of its configuration.
CreatingInv ==
    /\ \A r \in Resource : pc[r] \in Testing => Setup!AllPrepared
    /\ Creating /\ ~renumber =>
          \A q \in Resource : name[q] = ConfName[q] /\ at[q] \in {Setup!NoName, ConfName[q]}

\* The name of a handler is that of no other handler.  As long as it holds one,
\* it is that of a resource: its own or one that create() took over.
HoldingInv ==
    /\ \A r \in Resource : Holds(r) => Setup!Taken(name[r])
    /\ \A r, q \in Resource :
          /\ pc[r] \in Using \cup {"finish"} /\ pc[q] \in Using \cup {"finish"}
          /\ name[r] = name[q]
          => r = q
    /\ \A r \in Resource, i \in Setup!Id :
          pc[r] \in Using \cup {"finish"} /\ at[i] = name[r] /\ i # r =>
              i \in Foreign /\ (Holds(r) => i \in adopted)
    /\ \A r \in Resource :
          pc[r] \in Using \cup {"finish"} => at[r] \in {Setup!NoName, name[r]}

PortsIn(r, t) ==
    \E c \in Setup!Chassis :
        \A i \in DOMAIN AdditionalPorts[r] :
            {<<c>>, <<c, AdditionalPorts[r][i]>>} \subseteq t

\* The ports are there before the children are looked at, and after a success
\* the children are configured; the resource of the handler is the one meant.
LoadedInv ==
    \A r \in Resource, i \in Setup!Id :
        at[i] = name[r] =>
            /\ pc[r] = "children" => PortsIn(r, tree[i])
            /\ pc[r] \in {"ready", "rename"} /\ success[r] = "True" =>
                  PortsIn(r, tree[i]) /\ ChildrenConf[r] \subseteq configured[i]

SetupInv ==
    /\ SetupTypes /\ PassInv /\ NamesInv /\ CreatingInv /\ HoldingInv
    /\ Setup!ForeignIsSafe /\ LoadedInv

\* Increasing the index of a name, or adding one, gives a name.
LEMMA NewNameIsName ==
    ASSUME NEW n, Setup!IsName(n)
    PROVE  Setup!IsName(Setup!generate_new_resource_name(n))
  <1>1. CASE n = <<n[1]>>
    <2>1. PICK a : n = <<a>>
      BY <1>1
    <2>2. <<a>> \in Seq({a}) /\ Len(<<a>>) = 1
      OBVIOUS
    <2>3. Append(<<a>>, 1) = <<a, 1>>
      <3> DEFINE s == Append(<<a>>, 1)
      <3>1. s \in Seq({a, 1}) /\ Len(s) = 2 /\ s[1] = a /\ s[2] = 1
        BY <2>2
      <3> HIDE DEF s
      <3>2. s = <<s[1], s[2]>>
        BY <3>1
      <3> QED
        BY <3>1, <3>2 DEF s
    <2>4. Setup!generate_new_resource_name(n) = <<a, 1>>
      BY <2>1, <2>2, <2>3 DEF Setup!generate_new_resource_name
    <2> QED
      BY <2>4 DEF Setup!IsName
  <1>2. CASE n = <<n[1], n[2]>> /\ n[2] \in Nat
    <2> DEFINE a == n[1]
               b == n[2]
    <2>1. n = <<a, b>> /\ Len(n) = 2 /\ b \in Nat
      BY <1>2
    <2> HIDE DEF a, b
    <2>2. Setup!generate_new_resource_name(n) = [<<a, b>> EXCEPT ![2] = b + 1]
      BY <2>1 DEF Setup!generate_new_resource_name
    <2>3. [<<a, b>> EXCEPT ![2] = b + 1] = <<a, b + 1>>
      OBVIOUS
    <2> QED
      BY <2>1, <2>2, <2>3 DEF Setup!IsName
  <1> QED
    BY <1>1, <1>2 DEF Setup!IsName

\* A name is not the empty one.
LEMMA NameIsNotEmpty ==
    ASSUME NEW n, Setup!IsName(n)
    PROVE  n # Setup!NoName
  BY DEF Setup!IsName, Setup!NoName

\* A handler whose name is taken finds exactly one resource under it.
LEMMA HeldOfTaken ==
    ASSUME SetupInv, NEW r \in Resource, Setup!Taken(name[r])
    PROVE  /\ Setup!Held(r) \in Setup!Id /\ at[Setup!Held(r)] = name[r]
           /\ \A i \in Setup!Id : at[i] = name[r] => i = Setup!Held(r)
  <1>1. PICK i \in Setup!Id : at[i] = name[r]
    BY DEF Setup!Taken
  <1>2. \A j \in Setup!Id : at[j] = name[r] => j = i
    BY <1>1 DEF SetupInv, NamesInv, SetupTypes
  <1>3. Setup!Held(r) = i
    BY <1>1, <1>2 DEF Setup!Held
  <1> QED
    BY <1>1, <1>2, <1>3

\* A handler that uses its name does.
LEMMA HeldIsTheOne ==
    ASSUME SetupInv, NEW r \in Resource, pc[r] \in Using
    PROVE  /\ Setup!Held(r) \in Setup!Id /\ at[Setup!Held(r)] = name[r]
           /\ \A i \in Setup!Id : at[i] = name[r] => i = Setup!Held(r)
  BY HeldOfTaken DEF SetupInv, HoldingInv, Holds

\* Two handlers hold two resources.
LEMMA HeldDiffer ==
    ASSUME SetupInv, NEW r \in Resource, NEW q \in Resource,
           pc[r] \in Using, pc[q] \in Using, NEW i \in Setup!Id,
           at[i] = name[r], at[i] = name[q]
    PROVE  r = q
  BY DEF SetupInv, HoldingInv

\* At the start no name is taken.
LEMMA SetupInit == Setup!Init => SetupInv
  <1> SUFFICES ASSUME Setup!Init PROVE SetupInv
    OBVIOUS
  <1>1. SetupTypes
    BY NameIsNotEmpty, CommandAssumption DEF Setup!NamesAreProper, Setup!Init,
       SetupTypes, Setup!Id
  <1>2. NamesInv /\ Setup!ForeignIsSafe
    BY DEF Setup!Init, NamesInv, Setup!ForeignIsSafe, Setup!Id
  <1>3. PassInv /\ CreatingInv /\ HoldingInv
    BY DEF Setup!Init, PassInv, CreatingInv, HoldingInv, Holds, Using, Testing, Creating,
       Setup!Id
  <1>4. LoadedInv
    BY DEF Setup!Init, LoadedInv
  <1> QED
    BY <1>1, <1>2, <1>3, <1>4 DEF SetupInv

-----------------------------------------------------------------------------

\* Every step keeps the types.
LEMMA SetupTypesStep ==
    SetupTypes /\ [Setup!Next]_(Setup!vars) => SetupTypes'
  <1> SUFFICES ASSUME SetupTypes, [Setup!Next]_(Setup!vars)
               PROVE  SetupTypes'
    OBVIOUS
  <1> USE DEF SetupTypes, Using, Setup!Goto
  <1>1. ASSUME NEW r \in Resource, Setup!create_resource(r) PROVE SetupTypes'
    <2>1. /\ Setup!IsName(Setup!generate_new_resource_name(name[r]))
          /\ Setup!generate_new_resource_name(name[r]) # Setup!NoName
      BY NewNameIsName, NameIsNotEmpty
    <2>2. UNCHANGED <<newName, renumber, tree, configured, success>>
      BY <1>1 DEF Setup!create_resource, Setup!loadVars
    <2> QED
      BY <1>1, <2>1, <2>2 DEF Setup!create_resource
  <1>2. ASSUME NEW r \in Resource, Setup!rename_resource(r) PROVE SetupTypes'
    <2>1. /\ Setup!IsName(Setup!generate_new_resource_name(newName[r]))
          /\ Setup!generate_new_resource_name(newName[r]) # Setup!NoName
      BY NewNameIsName, NameIsNotEmpty
    <2>2. UNCHANGED <<origin, renumber, tree, configured, success>>
      BY <1>2 DEF Setup!rename_resource, Setup!loadVars
    <2> QED
      BY <1>2, <2>1, <2>2 DEF Setup!rename_resource
  <1>3. ASSUME NEW r \in Resource, NEW n \in NewName, Setup!Rename(r, n) PROVE SetupTypes'
    BY <1>3, NameIsNotEmpty, CommandAssumption DEF Setup!NamesAreProper, Setup!Rename,
       Setup!csVars, Setup!loadVars
  <1>4. ASSUME NEW r \in Resource,
               Setup!SetAttributes(r) \/ Setup!CreateRaises(r) \/ Setup!RenameRaises(r)
        PROVE  SetupTypes'
    BY <1>4 DEF Setup!SetAttributes, Setup!CreateRaises, Setup!RenameRaises,
       Setup!csVars, Setup!loadVars
  <1>5. ASSUME NEW r \in Resource,
               Setup!Autoload(r) \/ Setup!UpdateDriver(r) \/ Setup!AutoloadRaises(r)
        PROVE  SetupTypes'
    BY <1>5 DEF Setup!Autoload, Setup!UpdateDriver, Setup!AutoloadRaises,
       Setup!LoadFails, Setup!csVars, Setup!loadVars
  <1>6. ASSUME NEW r \in Resource, Setup!DependenciesBroken(r) \/ Setup!AutoLoadFinds(r)
        PROVE  SetupTypes'
    BY <1>6 DEF Setup!DependenciesBroken, Setup!LoadFails, Setup!AutoLoadFinds,
       Setup!loadVars
  <1>7. ASSUME NEW r \in Resource, Setup!AddAdditionalPorts(r) \/ Setup!AddPortsRaises(r)
        PROVE  SetupTypes'
    BY <1>7 DEF Setup!AddAdditionalPorts, Setup!AddPortsRaises, Setup!LoadFails,
       Setup!loadVars
  <1>8. ASSUME NEW r \in Resource,
               Setup!SetChildrenAttributes(r) \/ Setup!Finish(r) \/ Setup!FinishRaises(r)
        PROVE  SetupTypes'
    BY <1>8 DEF Setup!SetChildrenAttributes, Setup!Finish, Setup!FinishRaises,
       Setup!csVars, Setup!loadVars
  <1>9. ASSUME NEW f \in Foreign, NEW n \in ForeignName, Setup!ForeignCreates(f, n)
        PROVE  SetupTypes'
    BY <1>9 DEF Setup!ForeignCreates, Setup!loadVars
  <1>9b. ASSUME Setup!BeginFinish PROVE SetupTypes'
    BY <1>9b DEF Setup!BeginFinish, Setup!csVars, Setup!loadVars
  <1>10. ASSUME UNCHANGED Setup!vars PROVE SetupTypes'
    BY <1>10 DEF Setup!vars, Setup!csVars, Setup!loadVars
  <1> QED
    BY <1>1, <1>2, <1>3, <1>4, <1>5, <1>6, <1>7, <1>8, <1>9, <1>9b, <1>10
       DEF Setup!Next, Setup!Step, Setup!Raise, Setup!Terminated

\* A step that changes neither names nor resources and takes no handler back.
Quiet(r, l) ==
    /\ pc[r] \in {"create"} \cup Using
    /\ pc' = [pc EXCEPT ![r] = l]
    /\ UNCHANGED <<name, at, origin, adopted, renumber, passes, todo>>
    /\ l \in {"failed"} \cup (Using \ {"attributes"})
    /\ l \in Using => pc[r] \in Using
    /\ l \in Testing => Setup!AllPrepared
    /\ l = "failed" => ~Setup!AllPrepared

\* Such a step keeps what is said about names.
LEMMA QuietStep ==
    ASSUME SetupInv, NEW r \in Resource, NEW l, Quiet(r, l)
    PROVE  PassInv' /\ NamesInv' /\ CreatingInv' /\ HoldingInv' /\ Setup!ForeignIsSafe'
  <1> USE DEF Quiet, SetupInv, SetupTypes
  <1>0. passes = 0 /\ todo = {}
    BY DEF PassInv, Using
  <1>1. /\ pc'[r] = l
        /\ \A q \in Resource : q # r => pc'[q] = pc[q]
        /\ \A q \in Resource : pc'[q] \in Using => pc[q] \in Using
        /\ \A q \in Resource : pc'[q] # "finish" /\ pc[q] # "finish"
        /\ \A q \in Resource :
              pc'[q] \in {"create", "attributes"} => pc[q] = pc'[q]
    BY <1>0 DEF Using, PassInv
  <1>2. NamesInv' /\ PassInv'
    BY <1>0, <1>1 DEF NamesInv, PassInv
  <1>2s. Setup!ForeignIsSafe'
    BY <1>0, <1>1 DEF Setup!ForeignIsSafe
  <1>3. HoldingInv'
    BY <1>0, <1>1 DEF HoldingInv, Holds, Setup!Taken
  <1>4. Creating' => Creating
    BY <1>1 DEF Creating
  <1>5. Setup!AllPrepared => Setup!AllPrepared'
    BY <1>1 DEF Setup!AllPrepared
  <1>6. ASSUME NEW q \in Resource, pc'[q] \in Testing PROVE Setup!AllPrepared
    <2>1. CASE q = r
      BY <1>6, <2>1, <1>1
    <2>2. CASE q # r
      BY <1>6, <2>2, <1>1 DEF CreatingInv
    <2> QED
      BY <2>1, <2>2
  <1>7. CreatingInv'
    BY <1>4, <1>5, <1>6 DEF CreatingInv
  <1> QED
    BY <1>2, <1>2s, <1>3, <1>7

\* create_resource: the resource is new, or it is that of another user.
LEMMA CreateStep ==
    ASSUME SetupInv, NEW r \in Resource, Setup!create_resource(r)
    PROVE  PassInv' /\ NamesInv' /\ CreatingInv' /\ HoldingInv' /\ Setup!ForeignIsSafe'
  <1> USE DEF SetupInv, SetupTypes, Setup!Goto
  <1>0. /\ pc[r] = "create" /\ at[r] = Setup!NoName /\ Creating /\ ~Setup!AllPrepared
        /\ r \in Setup!Id /\ r \notin Foreign /\ UNCHANGED <<renumber, passes, todo>>
    BY CommandAssumption DEF Setup!NamesAreProper, Setup!create_resource, NamesInv,
       Creating, Setup!AllPrepared, Setup!Id, Setup!endVars
  <1>p. passes = 0 /\ todo = {} /\ \A q \in Resource : pc[q] # "finish"
    BY <1>0 DEF PassInv
  <1>o. \A f \in Foreign : f \notin adopted => at[f] = origin[f]
    BY <1>p DEF Setup!ForeignIsSafe
  <1>1. \A q \in Resource : pc[q] \notin Testing
    BY <1>0 DEF CreatingInv
  <1>2. CASE /\ ~Setup!Taken(name[r])
             /\ at' = [at EXCEPT ![r] = name[r]]
             /\ origin' = [origin EXCEPT ![r] = name[r]]
             /\ pc' = [pc EXCEPT ![r] = "attributes"]
             /\ UNCHANGED <<name, adopted>>
    <2>1. /\ at'[r] = name[r] /\ pc'[r] = "attributes"
          /\ \A i \in Setup!Id : i # r => at'[i] = at[i] /\ origin'[i] = origin[i]
          /\ \A q \in Resource : q # r => pc'[q] = pc[q]
      BY <1>0, <1>2
    <2>2. \A i \in Setup!Id : at[i] # name[r]
      BY <1>2 DEF Setup!Taken
    <2>3. NamesInv' /\ PassInv'
      BY <1>0, <1>p, <2>1, <2>2 DEF NamesInv, PassInv, Setup!Id
    <2>4. Setup!ForeignIsSafe'
      BY <1>0, <1>o, <1>2, <2>1 DEF Setup!ForeignIsSafe, Setup!Id
    <2>5. \A q \in Resource : pc'[q] \notin Testing
      BY <1>1, <2>1 DEF Testing
    <2>6. CreatingInv'
      BY <1>0, <1>2, <2>1, <2>5 DEF CreatingInv, Setup!Id
    <2>7. \A q \in Resource : pc'[q] \in Using => Setup!Taken(name[q])'
      <3> SUFFICES ASSUME NEW q \in Resource, pc'[q] \in Using
                   PROVE  \E i \in Setup!Id : at'[i] = name'[q]
        BY DEF Setup!Taken
      <3>1. CASE q = r
        BY <1>0, <1>2, <2>1, <3>1
      <3>2. CASE q # r
        <4>1. PICK i \in Setup!Id : at[i] = name[q]
          BY <2>1, <3>2 DEF HoldingInv, Holds, Setup!Taken
        <4> QED
          BY <1>0, <1>2, <2>1, <4>1
      <3> QED
        BY <3>1, <3>2
    <2>8. \A q \in Resource : q # r /\ pc[q] \in Using => name[q] # name[r]
      BY <2>2 DEF HoldingInv, Holds, Setup!Taken
    <2>h. \A q \in Resource : pc'[q] # "finish" /\ (Holds(q)' <=> pc'[q] \in Using)
      BY <1>0, <1>p, <2>1 DEF Holds
    <2>9. HoldingInv'
      <3>1. \A q \in Resource : Holds(q)' => Setup!Taken(name[q])'
        BY <2>7, <2>h
      <3>2. \A q, s \in Resource :
                pc'[q] \in Using /\ pc'[s] \in Using /\ name'[q] = name'[s] => q = s
        BY <1>2, <2>1, <2>8 DEF HoldingInv
      <3>3. ASSUME NEW q \in Resource, NEW i \in Setup!Id,
                   pc'[q] \in Using, at'[i] = name'[q], i # q
            PROVE  i \in Foreign /\ i \in adopted'
        <4>1. i # r
          BY <1>2, <2>1, <2>8, <3>3
        <4>2. q # r
          BY <1>2, <2>1, <2>2, <3>3, <4>1
        <4> QED
          BY <1>2, <2>1, <3>3, <4>1, <4>2 DEF HoldingInv, Holds
      <3>4. \A q \in Resource : pc'[q] \in Using => at'[q] \in {Setup!NoName, name'[q]}
        BY <1>0, <1>2, <2>1 DEF HoldingInv, Setup!Id
      <3> QED
        BY <2>h, <3>1, <3>2, <3>3, <3>4 DEF HoldingInv
    <2> QED
      BY <2>3, <2>4, <2>6, <2>9
  <1>3. CASE /\ Setup!Taken(name[r]) /\ renumber
             /\ name' = [name EXCEPT ![r] = Setup!generate_new_resource_name(@)]
             /\ UNCHANGED <<pc, at, origin, adopted>>
    <2>1. \A q \in Resource : pc[q] \in Using => name'[q] = name[q]
      BY <1>0, <1>3 DEF Using
    <2>2. NamesInv' /\ PassInv'
      BY <1>0, <1>3 DEF NamesInv, PassInv
    <2>s. Setup!ForeignIsSafe'
      BY <1>o, <1>3 DEF Setup!ForeignIsSafe
    <2>3. CreatingInv'
      BY <1>0, <1>1, <1>3 DEF CreatingInv, Creating
    <2>h. \A q \in Resource : (Holds(q)' <=> pc[q] \in Using) /\ (Holds(q) <=> pc[q] \in Using)
      BY <1>0, <1>p, <1>3 DEF Holds
    <2>4. HoldingInv'
      BY <1>p, <1>3, <2>1, <2>h DEF HoldingInv, Setup!Taken
    <2> QED
      BY <2>2, <2>s, <2>3, <2>4
  <1>4. CASE /\ Setup!Taken(name[r]) /\ ~renumber
             /\ adopted' = adopted \cup {Setup!Held(r)}
             /\ pc' = [pc EXCEPT ![r] = "attributes"]
             /\ UNCHANGED <<name, at, origin>>
    <2>1. /\ pc'[r] = "attributes"
          /\ \A q \in Resource : q # r => pc'[q] = pc[q]
      BY <1>4
    <2>2. NamesInv' /\ PassInv'
      BY <1>0, <1>p, <1>4, <2>1 DEF NamesInv, PassInv
    <2>s. Setup!ForeignIsSafe'
      BY <1>o, <1>4 DEF Setup!ForeignIsSafe
    <2>3. \A q \in Resource : pc'[q] \notin Testing
      BY <1>1, <2>1 DEF Testing
    <2>4. \A q \in Resource : name[q] = ConfName[q] /\ at[q] \in {Setup!NoName, ConfName[q]}
      BY <1>0, <1>4 DEF CreatingInv
    <2>5. CreatingInv'
      BY <1>0, <1>4, <2>3, <2>4 DEF CreatingInv
    <2>6. \A i \in Setup!Id : at[i] = name[r] => i \in Foreign /\ i \in adopted'
      <3>1. \A i \in Setup!Id : at[i] = name[r] => i = Setup!Held(r)
        BY <1>4, HeldOfTaken
      <3>2. \A i \in Setup!Id : at[i] = name[r] => i \in Foreign
        BY <1>0, <2>4, CommandAssumption DEF Setup!NamesAreProper, Setup!Id
      <3> QED
        BY <1>4, <3>1, <3>2
    <2>7. \A q, s \in Resource : name[q] = name[s] => q = s
      BY <2>4, CommandAssumption DEF Setup!NamesAreProper
    <2>h. \A q \in Resource : pc'[q] # "finish" /\ (Holds(q)' <=> pc'[q] \in Using)
      BY <1>0, <1>p, <2>1 DEF Holds
    <2>8. HoldingInv'
      <3>1. \A q \in Resource : Holds(q)' => Setup!Taken(name[q])'
        BY <1>4, <2>1, <2>h DEF HoldingInv, Holds, Setup!Taken
      <3>2. ASSUME NEW q \in Resource, NEW i \in Setup!Id,
                   pc'[q] \in Using, at'[i] = name'[q], i # q
            PROVE  i \in Foreign /\ i \in adopted'
        <4>1. CASE q = r
          BY <1>4, <2>6, <3>2, <4>1
        <4>2. CASE q # r
          BY <1>4, <2>1, <3>2, <4>2 DEF HoldingInv, Holds
        <4> QED
          BY <4>1, <4>2
      <3>3. \A q \in Resource : at'[q] \in {Setup!NoName, name'[q]}
        BY <1>4, <2>4
      <3> QED
        BY <1>4, <2>7, <2>h, <3>1, <3>2, <3>3 DEF HoldingInv
    <2> QED
      BY <2>2, <2>s, <2>5, <2>8
  <1> QED
    BY <1>2, <1>3, <1>4 DEF Setup!create_resource

\* The turn of rename_resource that renames: the handler's resource moves.
LEMMA RenameStep ==
    ASSUME SetupInv, NEW r \in Resource,
           pc[r] = "rename", ~Setup!Taken(newName[r]),
           at' = [at EXCEPT ![Setup!Held(r)] = newName[r]],
           name' = [name EXCEPT ![r] = newName[r]],
           pc' = [pc EXCEPT ![r] = "ready"],
           UNCHANGED <<origin, adopted, renumber, passes, todo>>
    PROVE  PassInv' /\ NamesInv' /\ CreatingInv' /\ HoldingInv' /\ Setup!ForeignIsSafe'
  <1> USE DEF SetupInv, SetupTypes
  <1> DEFINE h == Setup!Held(r)
  <1>0. h \in Setup!Id /\ at[h] = name[r] /\ \A i \in Setup!Id : at[i] = name[r] => i = h
    BY HeldIsTheOne DEF Using
  <1> HIDE DEF h
  <1>p. passes = 0 /\ todo = {} /\ \A q \in Resource : pc[q] # "finish"
    BY DEF PassInv
  <1>1. /\ at'[h] = newName[r] /\ name'[r] = newName[r] /\ pc'[r] = "ready"
        /\ \A i \in Setup!Id : i # h => at'[i] = at[i]
        /\ \A q \in Resource : q # r => pc'[q] = pc[q] /\ name'[q] = name[q]
        /\ \A i \in Setup!Id : at[i] # newName[r]
    BY <1>0 DEF h, Setup!Taken
  <1>2. Setup!AllPrepared /\ Setup!AllPrepared' /\ ~Creating'
    BY <1>1 DEF CreatingInv, Setup!AllPrepared, Creating, Testing
  <1>3. h = r \/ (h \in Foreign /\ h \in adopted /\ at[r] = Setup!NoName)
    BY <1>0 DEF HoldingInv, Holds, Using, Setup!Id
  <1>4. NamesInv' /\ PassInv'
    <2>1. PassInv'
      BY <1>p, <1>1 DEF PassInv
    <2>2. NamesInv'
      BY <1>0, <1>1, <1>2, <1>3, CommandAssumption
         DEF NamesInv, Setup!AllPrepared, Setup!Id, Setup!NamesAreProper
    <2> QED
      BY <2>1, <2>2
  <1>5. Setup!ForeignIsSafe'
    <2>1. \A f \in Foreign : f \notin adopted => at[f] = origin[f]
      BY <1>p DEF Setup!ForeignIsSafe
    <2> QED
      BY <1>0, <1>1, <1>3, <2>1, CommandAssumption
         DEF Setup!NamesAreProper, Setup!ForeignIsSafe, Setup!Id
  <1>6. CreatingInv'
    BY <1>2 DEF CreatingInv
  <1>7. ASSUME NEW q \in Resource, q # r, pc[q] \in Using
        PROVE  /\ name[q] # name[r] /\ name[q] # newName[r]
               /\ \E i \in Setup!Id : at'[i] = name'[q]
    <2>1. PICK i \in Setup!Id : at[i] = name[q]
      BY <1>7 DEF HoldingInv, Holds, Setup!Taken
    <2>2. name[q] # name[r]
      BY <1>7 DEF HoldingInv, Using
    <2> QED
      BY <1>0, <1>1, <1>7, <2>1, <2>2
  <1>h. \A q \in Resource : pc'[q] # "finish" /\ (Holds(q)' <=> pc'[q] \in Using)
    BY <1>p, <1>1 DEF Holds
  <1>8. \A q \in Resource : Holds(q)' => Setup!Taken(name[q])'
    BY <1>0, <1>1, <1>7, <1>h DEF Setup!Taken
  <1>9. ASSUME NEW q \in Resource, NEW i \in Setup!Id,
               pc'[q] \in Using, at'[i] = name'[q], i # q
        PROVE  i \in Foreign /\ i \in adopted'
    <2>1. CASE q = r
      BY <1>0, <1>1, <1>3, <1>9, <2>1
    <2>2. CASE q # r
      BY <1>1, <1>7, <1>9, <2>2 DEF HoldingInv, Holds
    <2> QED
      BY <2>1, <2>2
  <1>10. ASSUME NEW q \in Resource, pc'[q] \in Using
         PROVE  at'[q] \in {Setup!NoName, name'[q]}
    <2>1. CASE q = r
      BY <1>0, <1>1, <1>3, <2>1 DEF Setup!Id
    <2>2. CASE q # r
      <3>1. q # h
        BY <1>3, <2>2, CommandAssumption DEF Setup!NamesAreProper
      <3> QED
        BY <1>1, <1>10, <2>2, <3>1 DEF HoldingInv, Setup!Id
    <2> QED
      BY <2>1, <2>2
  <1>11. \A q, s \in Resource :
            pc'[q] \in Using /\ pc'[s] \in Using /\ name'[q] = name'[s] => q = s
    BY <1>1, <1>7 DEF HoldingInv
  <1>12. HoldingInv'
    BY <1>h, <1>8, <1>9, <1>10, <1>11 DEF HoldingInv
  <1> QED
    BY <1>4, <1>5, <1>6, <1>12

\* A call of finish() begins: the first one when every handler still holds its
\* resource.
LEMMA BeginStep ==
    ASSUME SetupInv, Setup!BeginFinish
    PROVE  PassInv' /\ NamesInv' /\ CreatingInv' /\ HoldingInv' /\ Setup!ForeignIsSafe'
  <1> USE DEF SetupInv, SetupTypes
  <1>1. /\ passes \in {0, 1} /\ passes' = passes + 1
        /\ UNCHANGED <<name, at, origin, adopted, renumber>>
    BY DEF Setup!BeginFinish, Setup!LastPass, Setup!csVars, PassInv
  <1>2. /\ \A q \in Resource : pc[q] \in {"ready", "finish"} => pc'[q] = "finish"
        /\ \A q \in Resource : pc'[q] = "finish" => pc[q] \in {"ready", "finish"}
        /\ \A q \in Resource : pc'[q] \in {"finish", "failed"}
    BY DEF Setup!BeginFinish
  <1>3. \A q \in todo' : q \in Resource /\ pc[q] \in {"ready", "finish"}
    BY DEF Setup!BeginFinish, Setup!ToFinish
  <1>4. PassInv'
    BY <1>1, <1>2, <1>3 DEF PassInv
  <1>5. NamesInv' /\ CreatingInv'
    BY <1>1, <1>2 DEF NamesInv, CreatingInv, Creating, Testing
  <1>6. Setup!ForeignIsSafe'
    BY <1>1, <1>2 DEF Setup!ForeignIsSafe
  <1>7. \A q \in Resource : Holds(q)' => Holds(q)
    <2>1. CASE passes = 0
      BY <1>2, <1>3, <2>1 DEF Holds, PassInv, Using
    <2>2. CASE passes = 1
      BY <1>1, <1>2, <2>2 DEF Holds, Using
    <2> QED
      BY <1>1, <2>1, <2>2
  <1>8. \A q \in Resource : pc'[q] \in Using \cup {"finish"} => pc[q] \in Using \cup {"finish"}
    BY <1>2 DEF Using
  <1>9. HoldingInv'
    BY <1>1, <1>7, <1>8 DEF HoldingInv, Setup!Taken
  <1> QED
    BY <1>4, <1>5, <1>6, <1>9

\* finish(): what has the handler's name goes, the others keep theirs.
LEMMA FinishStep ==
    ASSUME SetupInv, NEW r \in Resource, Setup!Finish(r), Setup!Taken(name[r]),
           at' = [at EXCEPT ![Setup!Held(r)] = Setup!NoName], todo' = todo \ {r}
    PROVE  PassInv' /\ NamesInv' /\ CreatingInv' /\ HoldingInv' /\ Setup!ForeignIsSafe'
  <1> USE DEF SetupInv, SetupTypes
  <1> DEFINE h == Setup!Held(r)
  <1>0. h \in Setup!Id /\ at[h] = name[r] /\ \A i \in Setup!Id : at[i] = name[r] => i = h
    BY HeldOfTaken
  <1> HIDE DEF h
  <1>1. /\ at'[h] = Setup!NoName /\ pc[r] = "finish" /\ r \in todo
        /\ \A i \in Setup!Id : i # h => at'[i] = at[i]
        /\ UNCHANGED <<pc, name, origin, adopted, renumber, passes>>
    BY <1>0 DEF h, Setup!Finish, PassInv
  <1>2. passes \in {1, 2} /\ \A q \in Resource : pc[q] \in {"finish", "failed"}
    BY <1>1 DEF PassInv
  <1>3. h = r \/ (h \in Foreign /\ at[r] = Setup!NoName /\ (passes = 1 => h \in adopted))
    BY <1>0, <1>1 DEF HoldingInv, Holds, Setup!Id
  <1>4. NamesInv' /\ PassInv' /\ CreatingInv'
    BY <1>0, <1>1, <1>2 DEF NamesInv, PassInv, CreatingInv, Creating, Testing, Setup!Id
  <1>5. Setup!ForeignIsSafe'
    <2> SUFFICES ASSUME NEW f \in Foreign, at'[f] # origin[f], f \notin adopted
                 PROVE  /\ passes = 2 /\ at'[f] = Setup!NoName
                        /\ \E q \in Resource : /\ pc[q] = "finish" /\ origin[f] = name[q]
                                               /\ at'[q] = Setup!NoName
      BY <1>1 DEF Setup!ForeignIsSafe
    <2>1. f \in Setup!Id /\ f \notin Resource
      BY CommandAssumption DEF Setup!NamesAreProper, Setup!Id
    <2>2. CASE f = h
      <3>1. passes = 2 /\ at[r] = Setup!NoName /\ r # h
        BY <1>2, <1>3, <2>1, <2>2
      <3>2. at[f] = origin[f]
        BY <1>0, <2>2 DEF Setup!ForeignIsSafe
      <3> QED
        BY <1>0, <1>1, <2>2, <3>1, <3>2 DEF Setup!Id
    <2>3. CASE f # h
      <3>1. at[f] # origin[f] /\ at'[f] = at[f]
        BY <1>1, <2>1, <2>3
      <3>2. /\ passes = 2 /\ at[f] = Setup!NoName
            /\ \E q \in Resource : /\ pc[q] = "finish" /\ origin[f] = name[q]
                                   /\ at[q] = Setup!NoName
        BY <3>1 DEF Setup!ForeignIsSafe
      <3>3. \A q \in Resource : at[q] = Setup!NoName => at'[q] = Setup!NoName
        BY <1>1 DEF Setup!Id
      <3> QED
        BY <3>1, <3>2, <3>3
    <2> QED
      BY <2>2, <2>3
  <1>6. \A q \in Resource : pc[q] \notin Using
    BY <1>2 DEF Using
  <1>7. \A q \in Resource : Holds(q)' => Holds(q) /\ q # r
    BY <1>1, <1>6 DEF Holds
  <1>8. ASSUME NEW q \in Resource, Holds(q)'
        PROVE  \E i \in Setup!Id : at'[i] = name'[q]
    <2>1. PICK i \in Setup!Id : at[i] = name[q]
      BY <1>7, <1>8 DEF HoldingInv, Setup!Taken
    <2>2. pc[q] = "finish"
      BY <1>6, <1>7, <1>8 DEF Holds, PassInv
    <2>3. name[q] # name[r]
      BY <1>1, <1>7, <1>8, <2>2 DEF HoldingInv
    <2> QED
      BY <1>0, <1>1, <2>1, <2>3
  <1>9. \A q \in Resource : Holds(q)' => Setup!Taken(name[q])'
    BY <1>8 DEF Setup!Taken
  <1>10. \A i \in Setup!Id : at'[i] \in {at[i], Setup!NoName}
    BY <1>0, <1>1
  <1>11. HoldingInv'
    BY <1>1, <1>7, <1>9, <1>10 DEF HoldingInv, Setup!Id
  <1> QED
    BY <1>4, <1>5, <1>11

\* A refused deletion, or one of a name that is gone, leaves finish().
LEMMA LeaveStep ==
    ASSUME SetupInv, todo' = {},
           UNCHANGED <<pc, name, at, origin, adopted, renumber, passes>>
    PROVE  PassInv' /\ NamesInv' /\ CreatingInv' /\ HoldingInv' /\ Setup!ForeignIsSafe'
  <1>1. PassInv' /\ NamesInv' /\ CreatingInv'
    BY DEF SetupInv, PassInv, NamesInv, CreatingInv, Creating, Setup!AllPrepared
  <1>2. Setup!ForeignIsSafe'
    BY DEF SetupInv, Setup!ForeignIsSafe
  <1>3. \A q \in Resource : Holds(q)' => Holds(q)
    BY DEF Holds
  <1>4. HoldingInv'
    BY <1>3 DEF SetupInv, HoldingInv, Setup!Taken
  <1> QED
    BY <1>1, <1>2, <1>4

\* Another user takes a name that is free.
LEMMA ForeignStep ==
    ASSUME SetupInv,
           NEW f \in Foreign, NEW n \in ForeignName, Setup!ForeignCreates(f, n)
    PROVE  PassInv' /\ NamesInv' /\ CreatingInv' /\ HoldingInv' /\ Setup!ForeignIsSafe'
  <1> USE DEF SetupInv, SetupTypes
  <1>1. /\ f \in Setup!Id /\ at[f] = Setup!NoName /\ at'[f] = n /\ origin'[f] = n
        /\ \A i \in Setup!Id : i # f => at'[i] = at[i] /\ origin'[i] = origin[i]
        /\ \A i \in Setup!Id : at[i] # n
        /\ UNCHANGED <<pc, name, renumber, adopted, passes, todo>>
    BY DEF Setup!ForeignCreates, NamesInv, Setup!Id, Setup!Taken, Setup!endVars
  <1>2. \A q \in Resource : q \in Setup!Id /\ q # f /\ f \notin Resource
    BY CommandAssumption DEF Setup!NamesAreProper, Setup!Id
  <1>n. n # Setup!NoName
    BY NameIsNotEmpty, CommandAssumption DEF Setup!NamesAreProper
  <1>3. NamesInv' /\ PassInv'
    BY <1>1, <1>2, <1>n DEF NamesInv, PassInv, Setup!Id
  <1>s. Setup!ForeignIsSafe'
    <2>1. \A g \in Foreign : g \in Setup!Id
      BY DEF Setup!Id
    <2>2. \A q \in Resource : at'[q] = at[q]
      BY <1>1, <1>2
    <2> QED
      BY <1>1, <2>1, <2>2 DEF Setup!ForeignIsSafe
  <1>4. CreatingInv'
    BY <1>1, <1>2 DEF CreatingInv, Creating, Setup!AllPrepared, Setup!Id
  <1>5. \A q \in Resource : Holds(q)' => Holds(q) /\ Setup!Taken(name[q])' /\ name[q] # n
    BY <1>1 DEF HoldingInv, Holds, Setup!Taken
  <1>6. HoldingInv'
    BY <1>1, <1>2, <1>5 DEF HoldingInv
  <1> QED
    BY <1>3, <1>s, <1>4, <1>6

-----------------------------------------------------------------------------

\* What the acting handler says about its own resource is enough, if the
\* resources of the other handlers are left alone.
LEMMA LoadedKept ==
    ASSUME SetupInv, NEW r \in Resource,
           \A q \in Resource :
               q # r => pc'[q] = pc[q] /\ success'[q] = success[q] /\ name'[q] = name[q],
           \A q \in Resource, i \in Setup!Id :
               q # r /\ pc[q] \in Using /\ at'[i] = name[q] =>
                   /\ at[i] = name[q]
                   /\ tree'[i] = tree[i] /\ configured'[i] = configured[i],
           \A i \in Setup!Id :
               at'[i] = name'[r] =>
                   /\ pc'[r] = "children" => PortsIn(r, tree'[i])
                   /\ pc'[r] \in {"ready", "rename"} /\ success'[r] = "True" =>
                         PortsIn(r, tree'[i]) /\ ChildrenConf[r] \subseteq configured'[i]
    PROVE  LoadedInv'
  <1> SUFFICES ASSUME NEW q \in Resource, NEW i \in Setup!Id, at'[i] = name'[q]
               PROVE  /\ pc'[q] = "children" => PortsIn(q, tree'[i])
                      /\ pc'[q] \in {"ready", "rename"} /\ success'[q] = "True" =>
                            PortsIn(q, tree'[i]) /\ ChildrenConf[q] \subseteq configured'[i]
    BY DEF LoadedInv, PortsIn
  <1>1. CASE q = r
    BY <1>1
  <1>2. CASE q # r /\ pc[q] \in Using
    BY <1>2 DEF SetupInv, LoadedInv
  <1>3. CASE q # r /\ pc[q] \notin Using
    BY <1>3 DEF Using
  <1> QED
    BY <1>1, <1>2, <1>3

\* A step of one handler that touches no resource and no name, and that ends
\* its autoload, if any, without success.
LEMMA LoadedUntouched ==
    ASSUME SetupInv, NEW r \in Resource, NEW l,
           pc' = [pc EXCEPT ![r] = l], UNCHANGED <<at, tree, configured>>,
           \A q \in Resource : q # r => name'[q] = name[q] /\ success'[q] = success[q],
           \/ l \notin {"ready", "rename", "children"}
           \/ l # "children" /\ success'[r] # "True"
           \/ /\ l # "children" /\ pc[r] \in {"ready", "rename"}
              /\ UNCHANGED <<success, name>>
    PROVE  LoadedInv'
  <1>1. pc'[r] = l /\ \A q \in Resource : q # r => pc'[q] = pc[q]
    BY DEF SetupInv, SetupTypes
  <1> QED
    BY <1>1, LoadedKept DEF SetupInv, LoadedInv

\* A step of autoload(): the tree of the handler's own resource changes, which
\* no other handler holds.
LEMMA LoadedByHolder ==
    ASSUME SetupInv, NEW r \in Resource, pc[r] \in Using, NEW l, NEW h, h = Setup!Held(r),
           pc' = [pc EXCEPT ![r] = l], UNCHANGED <<at, name>>,
           \A q \in Resource : q # r => success'[q] = success[q],
           \A i \in Setup!Id : i # h => tree'[i] = tree[i] /\ configured'[i] = configured[i],
           l = "children" => PortsIn(r, tree'[h]),
           l \in {"ready", "rename"} /\ success'[r] = "True" =>
               PortsIn(r, tree'[h]) /\ ChildrenConf[r] \subseteq configured'[h]
    PROVE  LoadedInv'
  <1>1. pc'[r] = l /\ \A q \in Resource : q # r => pc'[q] = pc[q]
    BY DEF SetupInv, SetupTypes
  <1>2. h \in Setup!Id /\ at[h] = name[r] /\ \A i \in Setup!Id : at[i] = name[r] => i = h
    BY HeldIsTheOne
  <1>3. \A q \in Resource, i \in Setup!Id :
            q # r /\ pc[q] \in Using /\ at[i] = name[q] => i # h
    BY <1>2, HeldDiffer
  <1> QED
    BY <1>1, <1>2, <1>3, LoadedKept

\* All ports are asked for: they are under the chassis afterwards.
LEMMA PortsAreAdded ==
    ASSUME NEW r \in Resource, NEW t, NEW c \in Setup!Chassis,
           Setup!WithPorts(c, Setup!PrefixOf(AdditionalPorts[r], Len(AdditionalPorts[r])))
               \subseteq t
    PROVE  PortsIn(r, t)
  <1>1. \A i \in DOMAIN AdditionalPorts[r] : i \in 1 .. Len(AdditionalPorts[r])
    BY CommandAssumption DEF Setup!NamesAreProper
  <1> QED
    BY <1>1 DEF PortsIn, Setup!WithPorts, Setup!PrefixOf

\* Every step keeps what a successful autoload() promises.
LEMMA LoadedStep ==
    SetupInv /\ [Setup!Next]_(Setup!vars) => LoadedInv'
  <1> SUFFICES ASSUME SetupInv, [Setup!Next]_(Setup!vars)
               PROVE  LoadedInv'
    OBVIOUS
  <1> USE DEF Setup!Goto
  <1>t. SetupTypes /\ LoadedInv
    BY DEF SetupInv
  <1>1. ASSUME NEW r \in Resource, Setup!create_resource(r) PROVE LoadedInv'
    <2>1. pc[r] = "create" /\ success[r] = "None" /\ at[r] = Setup!NoName
      BY <1>1 DEF Setup!create_resource, SetupInv, SetupTypes, NamesInv
    <2>2. UNCHANGED <<success, tree, configured>>
      BY <1>1 DEF Setup!create_resource, Setup!loadVars
    <2>3. \A q \in Resource : q # r => pc'[q] = pc[q] /\ name'[q] = name[q]
      BY <1>1, <1>t DEF Setup!create_resource, SetupTypes
    <2>4. pc'[r] \in {"create", "attributes"}
      BY <1>1, <1>t DEF Setup!create_resource, SetupTypes
    <2>5. ASSUME NEW q \in Resource, NEW i \in Setup!Id, pc[q] \in Using, at'[i] = name[q]
          PROVE  at[i] = name[q]
      <3>1. at' = at \/ (~Setup!Taken(name[r]) /\ at' = [at EXCEPT ![r] = name[r]])
        BY <1>1 DEF Setup!create_resource
      <3>2. CASE at' = at
        BY <3>2, <2>5
      <3>3. CASE ~Setup!Taken(name[r]) /\ at' = [at EXCEPT ![r] = name[r]]
        <4>1. name[q] # name[r]
          BY <2>5, <3>3 DEF SetupInv, HoldingInv, Holds
        <4> QED
          BY <2>5, <3>3, <4>1, <1>t DEF SetupTypes
      <3> QED
        BY <3>1, <3>2, <3>3
    <2> QED
      BY <2>1, <2>2, <2>3, <2>4, <2>5, LoadedKept
  <1>2. ASSUME NEW r \in Resource, Setup!rename_resource(r) PROVE LoadedInv'
    <2>1. CASE /\ ~Setup!Taken(newName[r])
               /\ at' = [at EXCEPT ![Setup!Held(r)] = newName[r]]
               /\ name' = [name EXCEPT ![r] = newName[r]]
               /\ pc' = [pc EXCEPT ![r] = "ready"]
      <3> DEFINE h == Setup!Held(r)
      <3>0. pc[r] = "rename" /\ UNCHANGED <<success, tree, configured>>
        BY <1>2 DEF Setup!rename_resource, Setup!loadVars
      <3>1. h \in Setup!Id /\ at[h] = name[r] /\ \A i \in Setup!Id : at[i] = name[r] => i = h
        BY <3>0, HeldIsTheOne DEF Using
      <3> HIDE DEF h
      <3>2. /\ at'[h] = newName[r] /\ name'[r] = newName[r] /\ pc'[r] = "ready"
            /\ \A i \in Setup!Id : i # h => at'[i] = at[i]
            /\ \A q \in Resource : q # r => pc'[q] = pc[q] /\ name'[q] = name[q]
            /\ \A i \in Setup!Id : at[i] # newName[r]
        BY <3>1, <2>1, <1>t DEF h, Setup!Taken, SetupTypes
      <3>3. \A i \in Setup!Id : at'[i] = name'[r] => i = h
        BY <3>2
      <3>4. \A q \in Resource, i \in Setup!Id :
                q # r /\ pc[q] \in Using /\ at'[i] = name[q] => at[i] = name[q]
        <4> SUFFICES ASSUME NEW q \in Resource, NEW i \in Setup!Id, q # r, pc[q] \in Using,
                            at'[i] = name[q]
                     PROVE  at[i] = name[q]
          OBVIOUS
        <4>1. name[q] # newName[r]
          BY <3>2 DEF SetupInv, HoldingInv, Holds, Setup!Taken
        <4> QED
          BY <3>2, <4>1
      <3>5. success[r] = "True" =>
                PortsIn(r, tree[h]) /\ ChildrenConf[r] \subseteq configured[h]
        BY <3>0, <3>1, <1>t DEF LoadedInv
      <3> QED
        BY <3>0, <3>2, <3>3, <3>4, <3>5, LoadedKept
    <2>2. CASE UNCHANGED <<pc, name, at>>
      BY ZenonT(30), <1>2, <2>2, <1>t DEF Setup!rename_resource, LoadedInv, PortsIn, Setup!loadVars
    <2> QED
      BY <1>2, <2>1, <2>2 DEF Setup!rename_resource
  <1>3. ASSUME NEW r \in Resource, NEW n \in NewName, Setup!Rename(r, n) PROVE LoadedInv'
    BY <1>3, LoadedUntouched DEF Setup!Rename, Setup!csVars, Setup!loadVars
  <1>4. ASSUME NEW r \in Resource, Setup!SetAttributes(r) PROVE LoadedInv'
    <2>1. success[r] = "None"
      BY <1>4, <1>t DEF Setup!SetAttributes, SetupTypes
    <2> QED
      BY <1>4, <2>1, LoadedUntouched DEF Setup!SetAttributes, Setup!csVars, Setup!loadVars
  <1>5. ASSUME NEW r \in Resource, Setup!CreateRaises(r) PROVE LoadedInv'
    BY <1>5, LoadedUntouched DEF Setup!CreateRaises, Setup!csVars, Setup!loadVars
  <1>6. ASSUME NEW r \in Resource, Setup!RenameRaises(r) PROVE LoadedInv'
    BY <1>6, LoadedUntouched DEF Setup!RenameRaises, Setup!csVars, Setup!loadVars
  <1>7. ASSUME NEW r \in Resource, Setup!Autoload(r) PROVE LoadedInv'
    BY <1>7, LoadedUntouched DEF Setup!Autoload, Setup!csVars
  <1>8. ASSUME NEW r \in Resource, Setup!UpdateDriver(r) PROVE LoadedInv'
    BY <1>8, LoadedUntouched DEF Setup!UpdateDriver, Setup!loadVars
  <1>9. ASSUME NEW r \in Resource, Setup!LoadFails(r)
        PROVE  /\ pc' = [pc EXCEPT ![r] = "ready"] /\ UNCHANGED <<at, name>>
               /\ success'[r] = "False"
               /\ \A q \in Resource : q # r => success'[q] = success[q]
    BY <1>9, <1>t DEF Setup!LoadFails, SetupTypes
  <1>10. ASSUME NEW r \in Resource, Setup!AutoloadRaises(r) \/ Setup!DependenciesBroken(r)
         PROVE  LoadedInv'
    <2>1. Setup!LoadFails(r) /\ UNCHANGED <<tree, configured>>
      BY <1>10 DEF Setup!AutoloadRaises, Setup!DependenciesBroken
    <2> QED
      BY <1>9, <2>1, LoadedUntouched
  <1>11. ASSUME NEW r \in Resource, Setup!AutoLoadFinds(r) PROVE LoadedInv'
    <2>1. PICK h : h = Setup!Held(r)
      OBVIOUS
    <2>2. /\ pc[r] \in Using /\ pc' = [pc EXCEPT ![r] = "ports"]
          /\ UNCHANGED <<at, name, success>>
      BY <1>11 DEF Setup!AutoLoadFinds, Setup!loadVars, Using
    <2>3. \A i \in Setup!Id : i # h => tree'[i] = tree[i] /\ configured'[i] = configured[i]
      BY <1>11, <2>1, <1>t DEF Setup!AutoLoadFinds, SetupTypes
    <2> QED
      BY <2>1, <2>2, <2>3, LoadedByHolder
  <1>12. ASSUME NEW r \in Resource, Setup!AddAdditionalPorts(r) PROVE LoadedInv'
    <2>1. PICK h : h = Setup!Held(r)
      OBVIOUS
    <2>2. /\ pc[r] \in Using /\ pc' = [pc EXCEPT ![r] = "children"]
          /\ UNCHANGED <<at, name, success, configured>>
      BY <1>12 DEF Setup!AddAdditionalPorts, Setup!loadVars, Using
    <2>3. h \in Setup!Id
      BY <2>1, <2>2, HeldIsTheOne
    <2>4. CASE AdditionalPorts[r] = <<>> /\ UNCHANGED tree
      <3>1. PortsIn(r, tree'[h])
        BY <2>4 DEF PortsIn, Setup!Chassis
      <3> QED
        BY <2>1, <2>2, <2>4, <3>1, LoadedByHolder
    <2>5. ASSUME NEW c \in Setup!ChassisFor(h),
                 tree' = [tree EXCEPT ![h] =
                            @ \cup Setup!WithPorts(c, Setup!PrefixOf(AdditionalPorts[r],
                                                    Len(AdditionalPorts[r])))]
          PROVE  LoadedInv'
      <3>1. c \in Setup!Chassis
        BY <2>5 DEF Setup!ChassisFor, Setup!Chassis
      <3>2. /\ Setup!WithPorts(c, Setup!PrefixOf(AdditionalPorts[r], Len(AdditionalPorts[r])))
                  \subseteq tree'[h]
            /\ \A i \in Setup!Id : i # h => tree'[i] = tree[i]
        BY <2>3, <2>5, <1>t DEF SetupTypes
      <3>3. PortsIn(r, tree'[h])
        BY <3>1, <3>2, PortsAreAdded
      <3> QED
        BY <2>1, <2>2, <3>2, <3>3, LoadedByHolder
    <2> QED
      BY <1>12, <2>1, <2>4, <2>5 DEF Setup!AddAdditionalPorts
  <1>13. ASSUME NEW r \in Resource, Setup!AddPortsRaises(r) PROVE LoadedInv'
    <2>1. PICK h : h = Setup!Held(r)
      OBVIOUS
    <2>2. pc[r] \in Using /\ Setup!LoadFails(r) /\ UNCHANGED configured
      BY <1>13 DEF Setup!AddPortsRaises, Using
    <2>3. \A i \in Setup!Id : i # h => tree'[i] = tree[i]
      BY <1>13, <2>1, <1>t DEF Setup!AddPortsRaises, SetupTypes
    <2> QED
      BY <1>9, <2>1, <2>2, <2>3, LoadedByHolder
  <1>14. ASSUME NEW r \in Resource, Setup!SetChildrenAttributes(r) PROVE LoadedInv'
    <2>1. PICK h : h = Setup!Held(r)
      OBVIOUS
    <2>2. /\ pc[r] = "children" /\ pc' = [pc EXCEPT ![r] = "ready"]
          /\ ChildrenConf[r] \subseteq tree[h]
          /\ configured' = [configured EXCEPT ![h] = @ \cup (ChildrenConf[r] \cap tree[h])]
          /\ success' = [success EXCEPT ![r] = "True"]
          /\ UNCHANGED <<at, name, tree>>
      BY <1>14, <2>1 DEF Setup!SetChildrenAttributes, Setup!ChildrenAreThere
    <2>3. h \in Setup!Id /\ at[h] = name[r]
      BY <2>1, <2>2, HeldIsTheOne DEF Using
    <2>4. PortsIn(r, tree[h])
      BY <2>2, <2>3, <1>t DEF LoadedInv
    <2>5. /\ ChildrenConf[r] \subseteq configured'[h]
          /\ \A i \in Setup!Id : i # h => configured'[i] = configured[i]
          /\ \A q \in Resource : q # r => success'[q] = success[q]
      BY <2>2, <2>3, <1>t DEF SetupTypes
    <2>6. pc[r] \in Using
      BY <2>2 DEF Using
    <2> QED
      BY <2>1, <2>2, <2>4, <2>5, <2>6, LoadedByHolder
  <1>15. ASSUME NEW r \in Resource, Setup!Finish(r) \/ Setup!FinishRaises(r)
         PROVE  LoadedInv'
    <2>1. UNCHANGED pc /\ r \in todo
      BY <1>15 DEF Setup!Finish, Setup!FinishRaises
    <2>2. \A q \in Resource : pc[q] \in {"finish", "failed"}
      BY <2>1 DEF SetupInv, PassInv
    <2> QED
      BY <2>1, <2>2 DEF LoadedInv
  <1>16. ASSUME Setup!BeginFinish PROVE LoadedInv'
    <2>1. \A q \in Resource : pc'[q] \in {"finish", "failed"}
      BY <1>16 DEF Setup!BeginFinish
    <2> QED
      BY <2>1 DEF LoadedInv
  <1>17. ASSUME NEW f \in Foreign, NEW n \in ForeignName, Setup!ForeignCreates(f, n)
         PROVE  LoadedInv'
    <2>1. /\ ~Setup!Taken(n) /\ at' = [at EXCEPT ![f] = n]
          /\ UNCHANGED <<pc, name, tree, configured, success>>
      BY <1>17 DEF Setup!ForeignCreates, Setup!loadVars
    <2>2. \A q \in Resource, i \in Setup!Id :
              pc[q] \in Using /\ at'[i] = name[q] => at[i] = name[q]
      BY <2>1, <1>t DEF SetupInv, HoldingInv, Holds, SetupTypes
    <2>3. ASSUME NEW q \in Resource, pc[q] \in {"children", "ready", "rename"}
          PROVE  pc[q] \in Using
      BY <2>3 DEF Using
    <2> SUFFICES ASSUME NEW q \in Resource, NEW i \in Setup!Id, at'[i] = name'[q]
                 PROVE  /\ pc[q] = "children" => PortsIn(q, tree[i])
                        /\ pc[q] \in {"ready", "rename"} /\ success[q] = "True" =>
                              PortsIn(q, tree[i]) /\ ChildrenConf[q] \subseteq configured[i]
      BY <2>1 DEF LoadedInv, PortsIn
    <2> QED
      BY <2>1, <2>2, <2>3, <1>t DEF LoadedInv
  <1>18. ASSUME UNCHANGED Setup!vars PROVE LoadedInv'
    BY <1>18, <1>t DEF Setup!vars, Setup!csVars, Setup!loadVars, LoadedInv, PortsIn
  <1> QED
    BY <1>1, <1>2, <1>3, <1>4, <1>5, <1>6, <1>7, <1>8, <1>10, <1>11, <1>12, <1>13,
       <1>14, <1>15, <1>16, <1>17, <1>18 DEF Setup!Next, Setup!Step, Setup!Raise,
       Setup!Terminated

\* Every step keeps what is said about names.
LEMMA SetupNamesStep ==
    SetupInv /\ [Setup!Next]_(Setup!vars) =>
        PassInv' /\ NamesInv' /\ CreatingInv' /\ HoldingInv' /\ Setup!ForeignIsSafe'
  <1> DEFINE Kept == /\ PassInv' /\ NamesInv' /\ CreatingInv'
                     /\ HoldingInv' /\ Setup!ForeignIsSafe'
  <1> SUFFICES ASSUME SetupInv, [Setup!Next]_(Setup!vars)
               PROVE  Kept
    OBVIOUS
  <1> HIDE DEF Kept
  <1>q. ASSUME NEW r \in Resource, NEW l, Quiet(r, l) PROVE Kept
    BY <1>q, QuietStep DEF Kept
  <1>a. \A r \in Resource : pc[r] \in Testing => Setup!AllPrepared
    BY DEF SetupInv, CreatingInv
  <1>u. ASSUME UNCHANGED <<pc, name, at, origin, adopted, renumber, passes, todo>>
        PROVE  Kept
    BY <1>u DEF Kept, SetupInv, PassInv, NamesInv, CreatingInv, HoldingInv, Holds,
       Setup!ForeignIsSafe, Setup!Taken, Creating, Setup!AllPrepared
  <1> USE DEF Setup!Goto, Using, Testing, Setup!endVars
  <1>1. ASSUME NEW r \in Resource, Setup!create_resource(r) PROVE Kept
    BY <1>1, CreateStep DEF Kept
  <1>2. ASSUME NEW r \in Resource, Setup!rename_resource(r) PROVE Kept
    <2>1. CASE /\ ~Setup!Taken(newName[r])
               /\ at' = [at EXCEPT ![Setup!Held(r)] = newName[r]]
               /\ name' = [name EXCEPT ![r] = newName[r]]
               /\ pc' = [pc EXCEPT ![r] = "ready"]
      BY <1>2, <2>1, RenameStep DEF Setup!rename_resource, Kept
    <2>2. CASE UNCHANGED <<pc, name, at>>
      <3>1. UNCHANGED <<origin, adopted, renumber, passes, todo>>
        BY <1>2 DEF Setup!rename_resource, Setup!endVars
      <3> QED
        BY <1>u, <2>2, <3>1
    <2> QED
      BY <1>2, <2>1, <2>2 DEF Setup!rename_resource
  <1>3. ASSUME NEW r \in Resource, NEW n \in NewName, Setup!Rename(r, n) PROVE Kept
    <2>1. Quiet(r, "rename")
      BY <1>3 DEF Setup!Rename, Quiet, Setup!csVars
    <2> QED
      BY <1>q, <2>1
  <1>4. ASSUME NEW r \in Resource, Setup!SetAttributes(r) \/ Setup!RenameRaises(r) PROVE Kept
    <2>1. Quiet(r, "ready")
      BY <1>4 DEF Setup!SetAttributes, Setup!RenameRaises, Quiet, Setup!csVars
    <2> QED
      BY <1>q, <2>1
  <1>5. ASSUME NEW r \in Resource, Setup!CreateRaises(r) PROVE Kept
    <2>1. Quiet(r, "failed")
      BY <1>5 DEF Setup!CreateRaises, Quiet, Setup!AllPrepared, Setup!csVars
    <2> QED
      BY <1>q, <2>1
  <1>6. ASSUME NEW r \in Resource, Setup!Autoload(r) PROVE Kept
    <2>1. Quiet(r, "load")
      BY <1>6 DEF Setup!Autoload, Quiet, Setup!csVars
    <2> QED
      BY <1>q, <2>1
  <1>7. ASSUME NEW r \in Resource, Setup!UpdateDriver(r) PROVE Kept
    <2>1. Quiet(r, "reload")
      BY <1>7, <1>a DEF Setup!UpdateDriver, Quiet
    <2> QED
      BY <1>q, <2>1
  <1>8. ASSUME NEW r \in Resource, Setup!AutoLoadFinds(r) PROVE Kept
    <2>1. Quiet(r, "ports")
      BY <1>8, <1>a DEF Setup!AutoLoadFinds, Quiet
    <2> QED
      BY <1>q, <2>1
  <1>9. ASSUME NEW r \in Resource, Setup!AddAdditionalPorts(r) PROVE Kept
    <2>1. Quiet(r, "children")
      BY <1>9, <1>a DEF Setup!AddAdditionalPorts, Quiet
    <2> QED
      BY <1>q, <2>1
  <1>10. ASSUME NEW r \in Resource,
                \/ Setup!AutoloadRaises(r)
                \/ Setup!DependenciesBroken(r)
                \/ Setup!AddPortsRaises(r)
         PROVE  Kept
    <2>1. pc[r] \in Testing /\ Setup!LoadFails(r)
      BY <1>10 DEF Setup!AutoloadRaises, Setup!DependenciesBroken, Setup!AddPortsRaises
    <2>2. Quiet(r, "ready")
      BY <2>1 DEF Setup!LoadFails, Quiet
    <2> QED
      BY <1>q, <2>2
  <1>11. ASSUME NEW r \in Resource, Setup!SetChildrenAttributes(r) PROVE Kept
    <2>1. Quiet(r, "ready")
      BY <1>11 DEF Setup!SetChildrenAttributes, Quiet
    <2> QED
      BY <1>q, <2>1
  <1>12. ASSUME NEW r \in Resource, Setup!Finish(r) PROVE Kept
    <2>1. CASE /\ Setup!Taken(name[r])
               /\ at' = [at EXCEPT ![Setup!Held(r)] = Setup!NoName]
               /\ todo' = todo \ {r}
      BY <1>12, <2>1, FinishStep DEF Kept
    <2>2. CASE todo' = {} /\ UNCHANGED at
      <3>1. UNCHANGED <<pc, name, at, origin, adopted, renumber, passes>>
        BY <1>12, <2>2 DEF Setup!Finish
      <3> QED
        BY <2>2, <3>1, LeaveStep DEF Kept
    <2> QED
      BY <1>12, <2>1, <2>2 DEF Setup!Finish
  <1>13. ASSUME NEW r \in Resource, Setup!FinishRaises(r) PROVE Kept
    BY <1>13, LeaveStep DEF Setup!FinishRaises, Setup!csVars, Kept
  <1>13b. ASSUME Setup!BeginFinish PROVE Kept
    BY <1>13b, BeginStep DEF Kept
  <1>14. ASSUME NEW f \in Foreign, NEW n \in ForeignName, Setup!ForeignCreates(f, n) PROVE Kept
    BY <1>14, ForeignStep DEF Kept
  <1>15. ASSUME UNCHANGED Setup!vars PROVE Kept
    BY <1>15, <1>u DEF Setup!vars, Setup!csVars
  <1> QED
    BY <1>1, <1>2, <1>3, <1>4, <1>5, <1>6, <1>7, <1>8, <1>9, <1>10, <1>11, <1>12, <1>13,
       <1>13b, <1>14, <1>15 DEF Setup!Next, Setup!Step, Setup!Raise, Setup!Terminated

\* A step of the handlers, of CloudShell or of another user keeps the invariant.
LEMMA SetupStep == SetupInv /\ [Setup!Next]_(Setup!vars) => SetupInv'
  BY SetupTypesStep, SetupNamesStep, LoadedStep DEF SetupInv

\* After a successful load the resource of the handler's name is complete.
LEMMA SetupEnd == SetupInv => Setup!LoadedIsComplete
  <1> SUFFICES ASSUME SetupInv, NEW r \in Resource, pc[r] = "ready", success[r] = "True"
               PROVE  /\ PortsIn(r, tree[Setup!Held(r)])
                      /\ ChildrenConf[r] \subseteq configured[Setup!Held(r)]
    BY DEF Setup!LoadedIsComplete, PortsIn
  <1>1. Setup!Held(r) \in Setup!Id /\ at[Setup!Held(r)] = name[r]
    BY HeldIsTheOne DEF Using
  <1> QED
    BY <1>1 DEF SetupInv, LoadedInv

-----------------------------------------------------------------------------
(* The command line *)

\* The invariant of the part that the process is in.
CommandInv ==
    /\ part = "configuration" => DownloadInv /\ MergeInv
    /\ part = "run-tests" => SuiteInv
    /\ part = "prepare-env" => PrepareInv
    /\ part = "check_shellfoundry_templates" => CheckInv
    /\ part = "resources" => SetupInv

\* It holds when the process starts.
LEMMA CommandInit == Init => CommandInv
  <1> SUFFICES ASSUME Init PROVE CommandInv
    OBVIOUS
  <1>1. CASE part = "configuration"
    <2>1. Parsing!Init
      BY <1>1 DEF Init
    <2>2. DownloadInv
      BY <2>1 DEF Parsing!Init, DownloadInv, Parsing!DownloadsAreRemoved
    <2>3. MergeInv
      BY <2>1 DEF Parsing!Init, MergeInv
    <2> QED
      BY <1>1, <2>2, <2>3 DEF CommandInv
  <1>2. CASE part = "run-tests"
    BY <1>2 DEF Init, Planning!Init, SuiteInv, CommandInv
  <1>3. CASE part = "prepare-env"
    <2>1. Preparing!Init
      BY <1>3 DEF Init
    <2>2. Preparing!NoFileLeft /\ LoadingInv
      BY <2>1 DEF Preparing!Init, Preparing!NoFileLeft, LoadingInv, Packaging
    <2>3. PackageInv /\ BlueprintsInv /\ conf \in Conf
      BY <2>1 DEF Preparing!Init, PackageInv, BlueprintsInv
    <2> QED
      BY <1>3, <2>2, <2>3 DEF CommandInv, PrepareInv
  <1>4. CASE part = "check_shellfoundry_templates"
    BY <1>4 DEF Init, Checking!Init, CheckInv, CommandInv
  <1>5. CASE part = "resources"
    BY <1>5, SetupInit DEF Init, CommandInv
  <1> QED
    BY <1>1, <1>2, <1>3, <1>4, <1>5 DEF Init, CommandInv

\* A step is one of the part that the process is in, and keeps its invariant.
LEMMA CommandStep == CommandInv /\ [Next]_vars => CommandInv'
  <1> SUFFICES ASSUME CommandInv, [Next]_vars PROVE CommandInv'
    OBVIOUS
  <1>1. CASE ReadConfiguration
    BY <1>1, DownloadStep, MergeStep DEF ReadConfiguration, CommandInv
  <1>2. CASE SelectTests
    BY <1>2, SuiteStep DEF SelectTests, CommandInv
  <1>3. CASE PrepareEnvironment
    BY <1>3, PrepareStep DEF PrepareEnvironment, CommandInv
  <1>4. CASE CheckTemplates
    BY <1>4, CheckStep DEF CheckTemplates, CommandInv
  <1>5. CASE SetUpResources
    BY <1>5, SetupStep DEF SetUpResources, CommandInv
  <1>6. CASE UNCHANGED vars
    <2> USE <1>6 DEF vars, parseVars, planVars, prepareVars, checkVars, setupVars
    <2>1. DownloadInv => DownloadInv'
      BY DEF DownloadInv, Parsing!DownloadsAreRemoved
    <2>2. MergeInv => MergeInv'
      <3>1. \A i \in Parsing!InFile : Parsing!Wanted(i)' = Parsing!Wanted(i)
        BY DEF Parsing!Wanted, Parsing!ShellsOf, Parsing!FirstOf
      <3> QED
        BY <3>1 DEF MergeInv
    <2>3. SuiteInv => SuiteInv'
      <3>1. Chosen' = Chosen /\ Planning!DeviceType' = Planning!DeviceType
        BY SuiteFrame DEF Chosen
      <3> QED
        BY <3>1 DEF SuiteInv, IsSuite
    <2>4. PrepareInv => PrepareInv'
      BY DEF PrepareInv, Preparing!NoFileLeft, LoadingInv, PackageInv, BlueprintsInv,
         AllCreated, AllLoaded, AppsAreThere, AppEntry, Preparing!AppXml, MadeOfApps,
         ProvidersAreKnown
    <2>5. CheckInv => CheckInv'
      BY DEF CheckInv
    <2>6. SetupInv => SetupInv'
      <3>1. UNCHANGED Setup!vars
        BY DEF Setup!vars, Setup!csVars, Setup!loadVars, Setup!endVars
      <3> QED
        BY <3>1, SetupStep
    <2> QED
      BY <2>1, <2>2, <2>3, <2>4, <2>5, <2>6 DEF CommandInv
  <1> QED
    BY <1>1, <1>2, <1>3, <1>4, <1>5, <1>6 DEF Next

\* The invariant of the parts holds in every state of the command line.
THEOREM CommandInvariant == Spec => []CommandInv
  BY CommandInit, CommandStep, PTL DEF Spec

\* TestsConfig.__iadd__ merges a shell's configuration into its own resources only.
THEOREM TestsAreMerged == Spec => []MergedTests
  <1>1. CommandInv => MergedTests
    BY MergeEnd DEF CommandInv, MergedTests
  <1> QED
    BY <1>1, CommandInvariant, PTL

\* DownloadFile and PackageApi remove their files, whichever later step failed.
THEOREM NoFileOutlives == Spec => []FilesAreRemoved
  <1>1. CommandInv => FilesAreRemoved
    BY DEF CommandInv, DownloadInv, PrepareInv, FilesAreRemoved
  <1> QED
    BY <1>1, CommandInvariant, PTL

\* get_test_suite gives an exact suite, in whatever order the commands come.
THEOREM SuitesAreExact == Spec => []SuiteIsExact
  <1>1. CommandInv => SuiteIsExact
    BY SuiteEnd DEF CommandInv, SuiteIsExact
  <1> QED
    BY <1>1, CommandInvariant, PTL

\* prepare-env imports blueprints whose apps and providers are on CloudShell.
THEOREM BlueprintsDeploy == Spec => []BlueprintsAreDeployable
  <1>1. CommandInv => BlueprintsAreDeployable
    BY PrepareEnd DEF CommandInv, BlueprintsAreDeployable
  <1> QED
    BY <1>1, CommandInvariant, PTL

\* check_shellfoundry_templates tests a shell of the template that it asked for.
THEOREM RequestedIsTested == Spec => []TestedIsRequested
  <1>1. CheckInv => Checking!TestedIsRequested
    BY DEF CheckInv, Checking!TestedIsRequested
  <1>2. CommandInv => TestedIsRequested
    BY <1>1 DEF CommandInv, TestedIsRequested
  <1> QED
    BY <1>2, CommandInvariant, PTL

\* create_resource and rename_resource, with their search for a free name, and
\* finish() keep off the resources of other users that create() did not take
\* over, except for the second finish() after a creation that failed.
THEOREM ForeignResourcesAreSafe == Spec => []ForeignIsSafe
  <1>1. CommandInv => ForeignIsSafe
    BY DEF CommandInv, SetupInv, ForeignIsSafe
  <1> QED
    BY <1>1, CommandInvariant, PTL

\* After a successful autoload() the ports and the attributes of the children
\* that the configuration asks for are on the resource that the handler names.
THEOREM LoadsAreComplete == Spec => []LoadedIsComplete
  <1>1. CommandInv => LoadedIsComplete
    BY SetupEnd DEF CommandInv, LoadedIsComplete
  <1> QED
    BY <1>1, CommandInvariant, PTL
=============================================================================
