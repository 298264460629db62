--------------------------- MODULE ResourceSetup ---------------------------
(***************************************************************************)
(* The life of a resource on CloudShell: CloudShellHandler.create_resource *)
(* and rename_resource with their search for a free name, and the methods  *)
(* of ResourceHandler that use them: create, autoload with its driver      *)
(* retry, additional ports and children attributes, rename and finish, as  *)
(* HandlerStorage calls them for all resources: finish() runs once, or     *)
(* twice after a creation that failed.  (Tests with the handlers that such *)
(* a creation leaves are in HandlerStorage.)  Everything on CloudShell is  *)
(* known by its name only, and other users of the same CloudShell take     *)
(* names meanwhile.                                                        *)
(* create() never asks create_resource for a new name, and no code of the  *)
(* repository calls rename(): both are operations of the handlers that a   *)
(* test may use, and the model has the calls of either kind.               *)
(*                                                                         *)
(* A name is a sequence: "a" is <<"a">> and "a-1" is <<"a", 1>>.           *)
(***************************************************************************)
EXTENDS Integers, Sequences, FiniteSets

CONSTANTS
    Resource,          \* the resources of the configuration
    ConfName,          \* their names in the configuration
    Foreign,           \* the resources of other users
    ForeignName,       \* the names those may take
    NewName,           \* the names a test may ask rename() for
    AdditionalPorts,   \* conf.additional_ports: a sequence for each resource
    ChildrenConf,      \* conf.children_attributes: a set of paths
    MaxAutoloads       \* bound: calls of autoload() for each resource

\* A name without an index, or with one.
IsName(n) == n = <<n[1]>> \/ (n = <<n[1], n[2]>> /\ n[2] \in Nat)

\* Of a resource that is not on CloudShell.
NoName == <<>>

\* What the configurations of the resources and the other users are like; assumed
\* by CommandLine.
NamesAreProper ==
    /\ Resource \cap Foreign = {}
    /\ DOMAIN ConfName = Resource
    /\ \A r, q \in Resource : ConfName[r] = ConfName[q] => r = q
    /\ \A r \in Resource : IsName(ConfName[r])
    /\ \A n \in ForeignName \cup NewName : IsName(n)
    /\ AdditionalPorts \in [Resource -> Seq(STRING)]
    /\ MaxAutoloads \in [Resource -> Nat]

Id == Resource \cup Foreign

\* The chassis of the driver, and the one _add_additional_ports creates.
Chassis == {"found", "Chassis 1"}

Port == UNION {{AdditionalPorts[r][i] : i \in DOMAIN AdditionalPorts[r]} :
                    r \in Resource}

\* The paths of the children under a resource.
Path == {<<c>> : c \in Chassis} \cup Chassis \X Port

VARIABLES
    \* ResourceHandler
    pc,         \* where the handler's thread is
    name,       \* self.name
    newName,    \* the local new_name of rename_resource
    success,    \* self.is_autoload_success
    broken,     \* the resources with dependencies_are_broken
    loads,      \* how often autoload() was called
    renumber,   \* the argument create_new_resources_if_exists
    \* HandlerStorage
    passes,     \* how often finish() was called
    todo,       \* the resources that the current call has yet to delete
    \* CloudShell
    at,         \* the name of each resource that exists
    origin,     \* history: the name under which it was created
    adopted,    \* history: the resources of others that create_resource took over
    driver,     \* the resources with a driver
    tree,       \* the children of each resource
    configured  \* the children with the configured attributes

csVars == <<at, origin, adopted, driver, tree, configured>>
loadVars == <<success, broken, loads>>
endVars == <<passes, todo>>
vars == <<pc, name, newName, renumber, csVars, loadVars, endVars>>

Goto(r, label) == pc' = [pc EXCEPT ![r] = label]

Taken(n) == \E i \in Id : at[i] = n

\* The resource CloudShell finds under the handler's name.
Held(r) == CHOOSE i \in Id : at[i] = name[r]

Init ==
    /\ pc = [r \in Resource |-> "create"]
    /\ name = ConfName
    /\ newName = ConfName
    /\ success = [r \in Resource |-> "None"]
    /\ broken = {}
    /\ loads = [r \in Resource |-> 0]
    /\ renumber \in BOOLEAN
    /\ at = [i \in Id |-> NoName]
    /\ origin = at
    /\ adopted = {}
    /\ driver \in {{}, Id}
    /\ tree = [i \in Id |-> {}]
    /\ configured = tree
    /\ passes = 0
    /\ todo = {}

-----------------------------------------------------------------------------
(* Names. *)

\* The regular expression splits off the last index; without one it is 0.
generate_new_resource_name(n) ==
    IF Len(n) > 1 THEN [n EXCEPT ![Len(n)] = @ + 1] ELSE Append(n, 1)

\* One turn of the loop of create_resource.  Error 114, the name is taken, is
\* either answered by the next name or, by default, as if it were a success.
create_resource(r) ==
    /\ pc[r] = "create"
    /\ \/ /\ ~Taken(name[r])
          /\ at' = [at EXCEPT ![r] = name[r]]
          /\ origin' = [origin EXCEPT ![r] = name[r]]
          /\ Goto(r, "attributes")
          /\ UNCHANGED <<name, adopted>>
       \/ /\ Taken(name[r]) /\ renumber
          /\ name' = [name EXCEPT ![r] = generate_new_resource_name(@)]
          /\ UNCHANGED <<pc, at, origin, adopted>>
       \/ /\ Taken(name[r]) /\ ~renumber
          /\ adopted' = adopted \cup {Held(r)}
          /\ Goto(r, "attributes")
          /\ UNCHANGED <<name, at, origin>>
    /\ UNCHANGED <<newName, renumber, driver, tree, configured, loadVars, endVars>>

\* set_attributes: the resource is prepared.
SetAttributes(r) ==
    /\ pc[r] = "attributes"
    /\ Goto(r, "ready")
    /\ UNCHANGED <<name, newName, renumber, csVars, loadVars, endVars>>

\* Another error of CloudShell in create(): there is no handler, and a
\* resource that was created stays.
CreateRaises(r) ==
    /\ pc[r] \in {"create", "attributes"}
    /\ Goto(r, "failed")
    /\ UNCHANGED <<name, newName, renumber, csVars, loadVars, endVars>>

\* The storage hands out the handlers once all of them are created.
AllPrepared ==
    \A r \in Resource : pc[r] \notin {"create", "attributes", "failed"}

\* rename(n) is called by a test.
Rename(r, n) ==
    /\ AllPrepared /\ pc[r] = "ready"
    /\ newName[r] = ConfName[r]
    /\ newName' = [newName EXCEPT ![r] = n]
    /\ Goto(r, "rename")
    /\ UNCHANGED <<name, renumber, csVars, loadVars, endVars>>

\* One turn of the loop of rename_resource.
rename_resource(r) ==
    /\ pc[r] = "rename"
    /\ \/ /\ ~Taken(newName[r])
          /\ at' = [at EXCEPT ![Held(r)] = newName[r]]
          /\ name' = [name EXCEPT ![r] = newName[r]]
          /\ Goto(r, "ready")
          /\ UNCHANGED newName
       \/ /\ Taken(newName[r])
          /\ newName' = [newName EXCEPT ![r] = generate_new_resource_name(@)]
          /\ UNCHANGED <<pc, name, at>>
    /\ UNCHANGED <<renumber, origin, adopted, driver, tree, configured, loadVars,
                   endVars>>

\* Another error of CloudShell: the test fails, the name is kept.
RenameRaises(r) ==
    /\ pc[r] = "rename"
    /\ Goto(r, "ready")
    /\ UNCHANGED <<name, newName, renumber, csVars, loadVars, endVars>>

-----------------------------------------------------------------------------
(* autoload(). *)

Autoload(r) ==
    /\ AllPrepared /\ pc[r] = "ready"
    /\ loads[r] < MaxAutoloads[r]
    /\ loads' = [loads EXCEPT ![r] = @ + 1]
    /\ Goto(r, "load")
    /\ UNCHANGED <<name, newName, renumber, csVars, success, broken, endVars>>

\* resource_autoload succeeds: CloudShell has the children the driver found,
\* and of the older ones, with their attributes, those it keeps.
AutoLoadFinds(r) ==
    /\ pc[r] \in {"load", "reload"}
    /\ Held(r) \in driver
    /\ \E found \in SUBSET {<<"found">>}, kept \in SUBSET tree[Held(r)] :
        /\ \A p \in kept : Len(p) = 2 => <<p[1]>> \in found \cup kept
        /\ tree' = [tree EXCEPT ![Held(r)] = found \cup kept]
        /\ configured' = [configured EXCEPT ![Held(r)] = @ \cap kept]
    /\ Goto(r, "ports")
    /\ UNCHANGED <<name, newName, renumber, at, origin, adopted, driver, loadVars,
                   endVars>>

\* _autoload: the error "no driver associated" of the first attempt makes it
\* associate the driver of the model and try once more.
UpdateDriver(r) ==
    /\ pc[r] = "load"
    /\ Held(r) \notin driver
    /\ driver' = driver \cup {Held(r)}
    /\ Goto(r, "reload")
    /\ UNCHANGED <<name, newName, renumber, at, origin, adopted, tree, configured,
                   loadVars, endVars>>

\* An error in autoload() is stored and raised; the resource can be loaded
\* again.
LoadFails(r) ==
    /\ success' = [success EXCEPT ![r] = "False"]
    /\ Goto(r, "ready")
    /\ UNCHANGED <<name, newName, renumber, at, origin, adopted, driver, loads,
                   endVars>>

\* Any other error, at each of the calls of autoload().
AutoloadRaises(r) ==
    /\ pc[r] \in {"load", "reload", "ports", "children"}
    /\ LoadFails(r)
    /\ UNCHANGED <<tree, configured, broken>>

\* "The PyPi server process might be down": DependenciesBrokenError.  The
\* clause that marks the resource guards the first attempt only.
DependenciesBroken(r) ==
    /\ pc[r] \in {"load", "reload"}
    /\ broken' = IF pc[r] = "load" THEN broken \cup {r} ELSE broken
    /\ LoadFails(r)
    /\ UNCHANGED <<tree, configured>>

\* The chassis that are there, or the one that is created.
ChassisFor(i) ==
    LET there == {c \in Chassis : <<c>> \in tree[i]}
    IN  IF there = {} THEN {"Chassis 1"} ELSE there

WithPorts(c, ports) == {<<c>>} \cup {<<c, p>> : p \in ports}

PrefixOf(s, k) == {s[i] : i \in 1 .. k}

\* _add_additional_ports: the first chassis is used; a port that is already
\* there answers 114, which create_resource takes for a success.
AddAdditionalPorts(r) ==
    /\ pc[r] = "ports"
    /\ \/ AdditionalPorts[r] = <<>> /\ UNCHANGED tree
       \/ /\ AdditionalPorts[r] # <<>>
          /\ \E c \in ChassisFor(Held(r)) :
                tree' = [tree EXCEPT ![Held(r)] =
                            @ \cup WithPorts(c, PrefixOf(AdditionalPorts[r],
                                                    Len(AdditionalPorts[r])))]
    /\ Goto(r, "children")
    /\ UNCHANGED <<name, newName, renumber, at, origin, adopted, driver, configured,
                   loadVars, endVars>>

\* One of the calls raises: the ports before it stay.
AddPortsRaises(r) ==
    /\ pc[r] = "ports" /\ AdditionalPorts[r] # <<>>
    /\ \E c \in ChassisFor(Held(r)), k \in 0 .. Len(AdditionalPorts[r]) - 1 :
          tree' = [tree EXCEPT ![Held(r)] =
                      @ \cup WithPorts(c, PrefixOf(AdditionalPorts[r], k))]
    /\ LoadFails(r)
    /\ UNCHANGED <<configured, broken>>

\* Mutant: a child that is not there is passed over.
MissingIsSkipped(r) == TRUE

\* get_resource_details raises for a child that is not there.
ChildrenAreThere(r) == ChildrenConf[r] \subseteq tree[Held(r)]

\* set_children_attributes, and the result of autoload().
SetChildrenAttributes(r) ==
    /\ pc[r] = "children"
    /\ ChildrenAreThere(r)
    /\ configured' = [configured EXCEPT
                        ![Held(r)] = @ \cup (ChildrenConf[r] \cap tree[Held(r)])]
    /\ success' = [success EXCEPT ![r] = "True"]
    /\ Goto(r, "ready")
    /\ UNCHANGED <<name, newName, renumber, at, origin, adopted, driver, tree, broken,
                   loads, endVars>>

-----------------------------------------------------------------------------
(* The end. *)

\* Mutant: also the resources whose creation raised are deleted.
EveryResource == Resource

\* The handlers of the storage: what create() left without one is not deleted.
ToFinish == {r \in Resource : pc[r] \in {"ready", "finish"}}

\* After a creation that failed the storage calls finish() before it raises, and
\* the run calls it again.
LastPass == IF \E q \in Resource : pc[q] = "failed" THEN 2 ELSE 1

BeginFinish ==
    /\ \A q \in Resource : pc[q] \in {"ready", "finish", "failed"}
    /\ todo = {} /\ passes < LastPass
    /\ passes' = passes + 1
    /\ todo' = ToFinish
    /\ pc' = [q \in Resource |-> IF pc[q] = "ready" THEN "finish" ELSE pc[q]]
    /\ UNCHANGED <<name, newName, renumber, csVars, loadVars>>

\* ResourceHandler.finish(): DeleteResource under the handler's name.  Nothing
\* under that name is an error, which leaves the finish() of the storage.
Finish(r) ==
    /\ r \in todo
    /\ \/ /\ Taken(name[r])
          /\ at' = [at EXCEPT ![Held(r)] = NoName]
          /\ todo' = todo \ {r}
       \/ /\ ~Taken(name[r])
          /\ todo' = {}
          /\ UNCHANGED at
    /\ UNCHANGED <<pc, name, newName, renumber, origin, adopted, driver, tree,
                   configured, loadVars, passes>>

\* So does a refusal of CloudShell.
FinishRaises(r) ==
    /\ r \in todo
    /\ todo' = {}
    /\ UNCHANGED <<pc, name, newName, renumber, csVars, loadVars, passes>>

\* Another user creates a resource.
ForeignCreates(f, n) ==
    /\ origin[f] = NoName
    /\ ~Taken(n)
    /\ at' = [at EXCEPT ![f] = n]
    /\ origin' = [origin EXCEPT ![f] = n]
    /\ UNCHANGED <<pc, name, newName, renumber, adopted, driver, tree, configured,
                   loadVars, endVars>>

Ended ==
    /\ \A r \in Resource : pc[r] \in {"finish", "failed"}
    /\ todo = {} /\ passes = LastPass

Terminated == Ended /\ UNCHANGED vars

Step(r) ==
    \/ create_resource(r) \/ SetAttributes(r)
    \/ \E n \in NewName : Rename(r, n)
    \/ rename_resource(r)
    \/ Autoload(r) \/ AutoLoadFinds(r) \/ UpdateDriver(r)
    \/ AddAdditionalPorts(r) \/ SetChildrenAttributes(r)
    \/ Finish(r)

Raise(r) ==
    \/ CreateRaises(r) \/ RenameRaises(r) \/ AutoloadRaises(r)
    \/ DependenciesBroken(r) \/ AddPortsRaises(r) \/ FinishRaises(r)

Next ==
    \/ \E r \in Resource : Step(r) \/ Raise(r)
    \/ BeginFinish
    \/ \E f \in Foreign, n \in ForeignName : ForeignCreates(f, n)
    \/ Terminated

Spec == Init /\ [][Next]_vars

-----------------------------------------------------------------------------
(* Properties. *)

\* What ResourceHandler and CloudShell keep; a port is under a chassis.
TypeOK ==
    /\ pc \in [Resource -> {"create", "attributes", "ready", "rename", "load",
                            "reload", "ports", "children", "finish", "failed"}]
    /\ success \in [Resource -> {"None", "True", "False"}]
    /\ broken \subseteq Resource
    /\ \A r \in Resource : loads[r] \in 0 .. MaxAutoloads[r]
    /\ renumber \in BOOLEAN
    /\ driver \subseteq Id /\ adopted \subseteq Foreign
    /\ passes \in 0 .. 2 /\ todo \subseteq Resource
    /\ \A i \in Id :
        /\ configured[i] \subseteq tree[i] /\ tree[i] \subseteq Path
        /\ \A p \in tree[i] : <<p[1]>> \in tree[i]
    /\ \A i \in Id : at[i] \in {NoName} \/ Len(at[i]) \in {1, 2}

\* A resource of another user is renamed or deleted only if create_resource took
\* it over.  There is one exception: after a creation that failed, the second
\* finish() deletes what another user has created under the name of a handler
\* whose own resource is gone.
ForeignIsSafe ==
    \A f \in Foreign :
        at[f] # origin[f] =>
            \/ f \in adopted
            \/ /\ passes = 2 /\ at[f] = NoName
               /\ \E r \in Resource :
                     pc[r] = "finish" /\ origin[f] = name[r] /\ at[r] = NoName

\* After a successful autoload() all additional ports are under one chassis
\* and all configured children have their attributes, also when an earlier
\* call failed half-way or CloudShell dropped the children in between.
LoadedIsComplete ==
    \A r \in Resource :
        pc[r] = "ready" /\ success[r] = "True" =>
            LET t == tree[Held(r)] IN
            /\ \E c \in Chassis :
                  \A i \in DOMAIN AdditionalPorts[r] :
                      {<<c>>, <<c, AdditionalPorts[r][i]>>} \subseteq t
            /\ ChildrenConf[r] \subseteq configured[Held(r)]
=============================================================================
