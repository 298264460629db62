------------------------------ MODULE TestPlan ------------------------------
(***************************************************************************)
(* get_test_suite: which test cases a resource gets, from its family, the  *)
(* kind of device its configuration describes, the commands its shell      *)
(* offers and the file servers that are configured.  The commands come     *)
(* from CloudShell one after the other, in any order.                      *)
(***************************************************************************)
EXTENDS Naturals, Sequences, FiniteSets, SequencesExt

CONSTANTS
    Family,        \* the families of the resources under test
    Command,       \* commands a shell may offer, in lower case
    ServerSets,    \* the combinations of FTP, SCP and TFTP sections
    MaxCommands    \* bound: commands of a shell

\* Assumed by CommandLine.
PlanAssumption ==
    /\ ServerSets \subseteq SUBSET {"ftp", "scp", "tftp"}
    /\ MaxCommands \in Nat

VARIABLES
    family,     \* handler.family
    conf,       \* what device_type reads of handler.conf: template, ip, user
    servers,    \* the servers that are configured
    pc,         \* "lookup", "commands", "suite" or "KeyError"
    seen,       \* the commands handled so far
    testCases   \* the list of test cases

vars == <<family, conf, servers, pc, seen, testCases>>

-----------------------------------------------------------------------------
(* The tables *)

\* The members of DeviceType.
Real == "REAL_DEVICE"
Simulator == "SIMULATOR"
WithoutDevice == "WITHOUT_DEVICE"
FromTemplate == "SHELL_FROM_TEMPLATE"

RunCommands == {"run_custom_command", "run_custom_config_command"}
Saves == {"save", "orchestration_save"}
Restores == {"restore", "orchestration_restore"}

\* A tuple of optional test cases, with the server each of them needs.
SAVE_TEST_CASES ==
    <<[case |-> "TestSaveConfig", server |-> "ftp"],
      [case |-> "TestSaveConfigFromScp", server |-> "scp"],
      [case |-> "TestSaveConfigFromTftp", server |-> "tftp"]>>
RESTORE_TEST_CASES ==
    <<[case |-> "TestRestoreConfig", server |-> "ftp"],
      [case |-> "TestRestoreConfigFromScp", server |-> "scp"],
      [case |-> "TestRestoreConfigFromTftp", server |-> "tftp"]>>

\* A plain entry of a table.  A table is an operator that gives the entry of a
\* command, <<>> if there is none.
Case(name) == <<[case |-> name, server |-> "any"]>>

Autoload(c, name) == IF c = "autoload" THEN Case(name) ELSE <<>>

TemplateCases(c) ==
    CASE c = "autoload" -> Case("TestAutoloadShellFromTemplate")
      [] c \in RunCommands -> Case("TestRunCustomCommandShellFromTemplate")
      [] c = "save" -> Case("TestSaveConfigFromTemplate")
      [] c = "restore" -> Case("TestRestoreConfigFromTemplate")
      [] OTHER -> <<>>

WithoutDeviceCases(c) ==
    CASE c = "autoload" -> Case("TestAutoloadWithoutDevice")
      [] c \in RunCommands -> Case("TestRunCustomCommandWithoutDevice")
      [] c \in Saves -> Case("TestSaveConfigWithoutDevice")
      [] c \in Restores -> Case("TestRestoreConfigWithoutDevice")
      [] OTHER -> <<>>

RealDeviceCases(c) ==
    CASE c = "autoload" -> Case("TestAutoloadNetworkDevices")
      [] c \in RunCommands -> Case("TestRunCustomCommand")
      [] c \in Saves -> SAVE_TEST_CASES
      [] c \in Restores -> RESTORE_TEST_CASES
      [] OTHER -> <<>>

FirewallCases(d, c) ==
    CASE d = Simulator -> Autoload(c, "TestAutoloadNetworkDevices")
      [] d = WithoutDevice -> WithoutDeviceCases(c)
      [] d = Real -> RealDeviceCases(c)
      [] d = FromTemplate -> TemplateCases(c)

RouterCases(d, c) ==
    IF d = Real /\ c = "applyconnectivitychanges" THEN Case("TestConnectivity")
    ELSE FirewallCases(d, c)

ControllerCases(d, c) ==
    CASE c = "load_config" ->
            Case(IF d = Real THEN "TestLoadConfig" ELSE "TestLoadConfigWithoutDevice")
      [] c = "start_traffic" ->
            Case(IF d = Real THEN "TestStartTraffic" ELSE "TestStartTrafficWithoutDevice")
      [] c = "stop_traffic" ->
            Case(IF d = Real THEN "TestStopTraffic" ELSE "TestStopTrafficWithoutDevice")
      [] c = "get_statistics" ->
            Case(IF d = Real THEN "TestGetStatistics" ELSE "TestGetStatisticsWithoutDevice")
      [] c = "get_test_file" ->
            Case(IF d = Real THEN "TestGetTestFile" ELSE "TestGetTestFileWithoutDevice")
      [] OTHER -> <<>>

NetworkFamilies == {"CS_Firewall", "CS_LoadBalancer", "CS_Router", "CS_Switch"}

\* The keys of TEST_CASES_MAP[f].
DeviceTypes(f) ==
    CASE f \in NetworkFamilies -> {Real, Simulator, WithoutDevice, FromTemplate}
      [] f = "CS_TrafficGeneratorChassis" -> {Real, Simulator, WithoutDevice}
      [] f = "CS_VirtualTrafficGeneratorChassis" -> {Real}
      [] f = "CS_TrafficGeneratorController" -> {Real, WithoutDevice}
      [] f = "CS_GenericAppFamily" -> {Real, WithoutDevice}
      [] f = "CS_GenericResource" -> {FromTemplate}
      [] OTHER -> {}

\* TEST_CASES_MAP[f][d].get(c)
TestCasesMap(f, d, c) ==
    CASE f \in {"CS_Router", "CS_Switch"} -> RouterCases(d, c)
      [] f \in {"CS_Firewall", "CS_LoadBalancer"} -> FirewallCases(d, c)
      [] f = "CS_TrafficGeneratorChassis" ->
            Autoload(c, IF d = WithoutDevice THEN "TestAutoloadWithoutDevice"
                        ELSE "TestAutoloadTrafficGeneratorDevices")
      [] f = "CS_VirtualTrafficGeneratorChassis" ->
            Autoload(c, "TestAutoloadVirtualTrafficGeneratorDevices")
      [] f = "CS_TrafficGeneratorController" -> ControllerCases(d, c)
      [] f = "CS_GenericAppFamily" ->
            Autoload(c, IF d = Real THEN "TestAutoloadWithoutPorts"
                        ELSE "TestAutoloadWithoutDevice")
      [] f = "CS_GenericResource" -> TemplateCases(c)

AUTOLOAD_TEST_FOR_FAMILIES ==
    NetworkFamilies \cup {"CS_TrafficGeneratorChassis", "CS_GenericResource",
                          "CS_VirtualTrafficGeneratorChassis", "CS_GenericAppFamily"}

-----------------------------------------------------------------------------
(* get_test_suite *)

\* ResourceHandler.device_type
DeviceType ==
    IF conf.template THEN FromTemplate
    ELSE IF ~conf.ip THEN WithoutDevice
    ELSE IF conf.user THEN Real
    ELSE Simulator

Init ==
    /\ family \in Family
    /\ conf \in [template : BOOLEAN, ip : BOOLEAN, user : BOOLEAN]
    /\ servers \in ServerSets
    /\ pc = "lookup"
    /\ seen = {}
    /\ testCases = <<>>

\* The list before the first command.
FirstCases ==
    IF family \in AUTOLOAD_TEST_FOR_FAMILIES
    THEN <<TestCasesMap(family, DeviceType, "autoload")[1].case>>
    ELSE <<>>

Lookup ==
    /\ pc = "lookup"
    /\ \/ DeviceType \in DeviceTypes(family) /\ pc' = "commands" /\ testCases' = FirstCases
       \/ DeviceType \notin DeviceTypes(family) /\ pc' = "KeyError" /\ UNCHANGED testCases
    /\ UNCHANGED <<family, conf, servers, seen>>

\* OptionalTestCase.is_suitable; a plain entry needs no server
IsSuitable(t) == t.server \in servers \cup {"any"}

\* Mutant: the list may hold a test case twice.
AppendAlways(list, case) == Append(list, case)

AppendNew(list, case) == IF Contains(list, case) THEN list ELSE Append(list, case)

\* The entry of the command.
EntryOf(c) == TestCasesMap(family, DeviceType, c)

\* One turn of the loop over the test cases of an entry.
Offer(list, entry, k) ==
    IF k \in DOMAIN entry /\ IsSuitable(entry[k]) THEN AppendNew(list, entry[k].case)
    ELSE list

\* The loop; an entry has three test cases at most, one for each server.
OfferAll(list, entry) == Offer(Offer(Offer(list, entry, 1), entry, 2), entry, 3)

AddCommand(c) ==
    /\ pc = "commands"
    /\ Cardinality(seen) < MaxCommands
    /\ c \notin seen
    /\ seen' = seen \cup {c}
    /\ testCases' = OfferAll(testCases, EntryOf(c))
    /\ UNCHANGED <<family, conf, servers, pc>>

\* The suite holds the test methods of each test case, case by case.
BuildSuite ==
    /\ pc = "commands"
    /\ pc' = "suite"
    /\ UNCHANGED <<family, conf, servers, seen, testCases>>

Ended == pc \in {"suite", "KeyError"} /\ UNCHANGED vars

Next == Lookup \/ (\E c \in Command : AddCommand(c)) \/ BuildSuite \/ Ended

Spec == Init /\ [][Next]_vars

-----------------------------------------------------------------------------
(* Properties *)

\* Type invariant of the selection; no table has more than nine test cases.
TypeOK ==
    /\ family \in Family
    /\ servers \in ServerSets
    /\ pc \in {"lookup", "commands", "suite", "KeyError"}
    /\ seen \subseteq Command
    /\ Len(testCases) <= 9
    /\ pc \in {"lookup", "KeyError"} => testCases = <<>>

AutoloadCases ==
    {"TestAutoloadNetworkDevices", "TestAutoloadWithoutDevice",
     "TestAutoloadShellFromTemplate", "TestAutoloadTrafficGeneratorDevices",
     "TestAutoloadVirtualTrafficGeneratorDevices", "TestAutoloadWithoutPorts"}

\* The file servers a test case reads from the configuration: handler_storage
\* builds their handlers.  TestSaveConfigWithoutDevice reads the FTP server too,
\* but the tables list it as a plain entry, without its server: it is the
\* exception that SuiteIsExact names.
Needs(case) ==
    CASE case \in {"TestSaveConfig", "TestRestoreConfig"} -> {"ftp"}
      [] case \in {"TestSaveConfigFromScp", "TestRestoreConfigFromScp"} -> {"scp"}
      [] case \in {"TestSaveConfigFromTftp", "TestRestoreConfigFromTftp"} -> {"tftp"}
      [] OTHER -> {}

\* The test cases that a command leads to.
CasesOf(c) == {t.case : t \in {u \in ToSet(EntryOf(c)) : IsSuitable(u)}}

\* Several commands lead to the same test case and one to several, and CloudShell
\* lists them in any order, autoload among them or not: the suite has each test
\* case of its commands once and nothing else, no test case but
\* TestSaveConfigWithoutDevice that reads a file server without a section in the
\* configuration, and in front, and only there, the autoload test case, whose
\* structure the others need; only traffic generator controllers have none.
SuiteIsExact ==
    pc = "suite" =>
        /\ IsInjective(testCases)
        /\ ToSet(testCases) = ToSet(FirstCases) \cup UNION {CasesOf(c) : c \in seen}
        /\ \A i \in DOMAIN testCases :
              /\ Needs(testCases[i]) \subseteq servers
              /\ testCases[i] \in AutoloadCases => i = 1
        /\ family # "CS_TrafficGeneratorController" =>
              testCases # <<>> /\ testCases[1] \in AutoloadCases
=============================================================================
