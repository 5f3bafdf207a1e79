------------------------- MODULE PolicyAdvertisement --------------------------
(***************************************************************************)
(* Which devices are advertised, and with which attributes: the policy     *)
(* controller (pkg/controller/resourcepolicycontroller.go), the advertised *)
(* set that the device-state manager keeps (UpdatePolicyDevices in         *)
(* pkg/devicestate/state.go), the devices it discovers when it starts      *)
(* (Discovery.tla) and the pool that the driver publishes                  *)
(* (PublishResources in pkg/driver/driver.go).                             *)
(*                                                                         *)
(* The controller has one worker.  A reconcile reads node, policies and    *)
(* attributes one after the other, and each of them may change meanwhile.  *)
(* Objects are ordered by name; their names are numbers.                   *)
(*                                                                         *)
(* External: the API server, the watches and the work queue, and the       *)
(* kubelet plugin helper that turns the pool into ResourceSlices.          *)
(***************************************************************************)
EXTENDS Discovery, Naturals, Sequences, FiniteSets

CONSTANTS PolicyAttributes,  \* attribute keys that discovery does not set
          Queries,        \* the queries of discovery that may fail
          NodeLabels,     \* the labels the node may have
          PolicyChoices,  \* PolicyChoices[n]: what the policy named n may be
          AttrChoices,    \* AttrChoices[n]: what the DeviceAttributes named n may be
          FaultKinds,     \* of "api", "publish", "restart", "query"
          MaxChanges, MaxFaults   \* bounds

NoValue  == "none"    \* the key is not there
NoObject == <<>>      \* the object is not there
Hidden   == <<>>      \* the device is not in the pool

Devices == {v.address : v \in UNION {PCI[a].virtfns : a \in DOMAIN PCI}}
Keys    == ReservedAttributes \cup PolicyAttributes

\* At most one query of a discovery fails.
Failures == {{}} \cup {{q} : q \in Queries}

\* What a discovery finds, with no attribute of a policy yet.
Discovered ==
    [failing \in Failures |->
        LET found == DiscoverSriovDevices(failing)
        IN  [d \in DOMAIN found |->
                [k \in Keys |-> IF k \in ReservedAttributes THEN found[d][k] ELSE NoValue]]]

VARIABLES up,              \* the process has started
          failed,          \* the queries that failed in the last discovery
          node,            \* the node's labels
          policies,        \* the SriovResourcePolicy objects
          attrObjects,     \* the DeviceAttributes objects
          pending,         \* the work queue has a request
          step,            \* what the reconcile does next
          seen,            \* the node and the policies that it has read
          policyDevices,   \* and the device map it made of them
          attributes,      \* attributes[d]: the attributes of the allocatable device d
          policyAttrKeys,  \* advertised devices -> the keys set by policies
          published,       \* the pool last given to the helper
          unpublished,     \* a republish failed and none has succeeded since
          changes, faults

apiVars == <<node, policies, attrObjects, changes>>
managerVars == <<attributes, policyAttrKeys, published, unpublished>>
reconcileVars == <<step, seen, policyDevices>>
processVars == <<up, failed>>
vars == <<apiVars, pending, reconcileVars, managerVars, processVars, faults>>

\* The first and the last of a set of names.
Least(S)    == CHOOSE n \in S : \A m \in S : n <= m
Greatest(S) == CHOOSE n \in S : \A m \in S : n >= m

ASSUME PolicyAssumption ==
    /\ ReservedAttributes \cap PolicyAttributes = {}
    /\ DOMAIN PolicyChoices \subseteq Nat /\ DOMAIN AttrChoices \subseteq Nat
    \* ResourceFilter has fields for attributes of discovery only
    /\ \A n \in DOMAIN PolicyChoices : \A policy \in PolicyChoices[n] \ {NoObject} :
          \A i \in 1..Len(policy.configs) : \A f \in policy.configs[i].filters :
              DOMAIN f \subseteq ReservedAttributes
    /\ \A n \in DOMAIN AttrChoices : AttrChoices[n] # {}
    /\ MaxChanges \in Nat /\ MaxFaults \in Nat
-------------------------------------------------------------------------------
(***************************************************************************)
(* getPolicyDeviceMap                                                      *)
(***************************************************************************)

\* A filter gives, per discovery attribute, the values it accepts; none given
\* means any value.
DeviceMatchesFilter(attrs, filter) ==
    \A k \in DOMAIN filter : filter[k] # {} => attrs[k] \in filter[k]

DeviceMatchesFilters(attrs, filters) ==
    filters = {} \/ \E f \in filters : DeviceMatchesFilter(attrs, f)

\* A selector without terms matches every node.
MatchesNodeSelector(label, selector) == selector = {} \/ label \in selector

\* The DeviceAttributes objects that a selector matches; a nil selector none.
Selected(selector, objects) ==
    {n \in DOMAIN objects : objects[n] # NoObject /\ objects[n].label \in selector}

\* Per key, the last object by name that defines it wins.
ResolveDeviceAttributes(selector, objects) ==
    [k \in Keys |->
        LET defining == {n \in Selected(selector, objects) :
                             objects[n].values[k] # NoValue}
        IN  IF defining = {} THEN NoValue ELSE objects[Greatest(defining)].values[k]]

\* The configs that match a device, in the order of the policies and, in one
\* policy, of its list.
MatchingConfigs(attrs, policy) ==
    {i \in 1..Len(policy.configs) : DeviceMatchesFilters(attrs, policy.configs[i].filters)}

MatchingPolicies(attrs, label, objects) ==
    {n \in DOMAIN objects :
        /\ objects[n] # NoObject
        /\ MatchesNodeSelector(label, objects[n].nodeSelector)
        /\ MatchingConfigs(attrs, objects[n]) # {}}

FirstConfig(attrs, label, objects) ==
    LET policy == objects[Least(MatchingPolicies(attrs, label, objects))]
    IN  policy.configs[Least(MatchingConfigs(attrs, policy))]

\* The map from the devices to advertise to their attributes.
GetPolicyDeviceMap(attrsOf, label, policyObjects, objects) ==
    [d \in {e \in DOMAIN attrsOf : MatchingPolicies(attrsOf[e], label, policyObjects) # {}} |->
        ResolveDeviceAttributes(FirstConfig(attrsOf[d], label, policyObjects).selector,
                                objects)]
-------------------------------------------------------------------------------
(***************************************************************************)
(* UpdatePolicyDevices                                                     *)
(***************************************************************************)

\* Bug variant of PolicyKeys: built-in attributes are not protected.
AllKeys(attrs) == {k \in Keys : attrs[k] # NoValue}

\* The keys that the map sets on a device: reserved ones are skipped.
PolicyKeys(attrs) == {k \in Keys \ ReservedAttributes : attrs[k] # NoValue}

OldKeys(d) == IF d \in DOMAIN policyAttrKeys THEN policyAttrKeys[d] ELSE {}

\* New keys are set, old ones that are not among them are removed.
NewAttributes(map, d) ==
    LET new == IF d \in DOMAIN map THEN PolicyKeys(map[d]) ELSE {}
    IN  [k \in Keys |-> CASE k \in new              -> map[d][k]
                          [] k \in OldKeys(d) \ new -> NoValue
                          [] OTHER                  -> attributes[d][k]]

\* Bug variant of ChangesMade: only the set of devices is compared.
ChangesMadeToSet(map) == DOMAIN policyAttrKeys # DOMAIN map

\* What counts as a change: a device that leaves with keys (one without any is
\* not seen to leave), one that is new, or an attribute that is set or removed.
ChangesMade(map) ==
    \/ \E d \in DOMAIN policyAttrKeys \ DOMAIN map : policyAttrKeys[d] # {}
    \/ DOMAIN map \ DOMAIN policyAttrKeys # {}
    \/ \E d \in DOMAIN map : NewAttributes(map, d) # attributes[d]

\* GetAdvertisedDevices, as it will be after this step.
Advertised == [d \in Devices |-> IF d \in DOMAIN policyAttrKeys' THEN attributes'[d]
                                                                ELSE Hidden]

Fault(kind) == kind \in FaultKinds /\ faults < MaxFaults /\ faults' = faults + 1

\* The reconcile returns, with an error that puts the request back or without.
ReturnFrom(err) ==
    /\ step' = "idle"
    /\ pending' = (pending \/ err)
    /\ policyDevices' = <<>>
    /\ UNCHANGED seen

UpdatePolicyDevices ==
    /\ step = "update"
    /\ attributes' = [d \in DOMAIN attributes |-> NewAttributes(policyDevices, d)]
    /\ policyAttrKeys' = [d \in DOMAIN policyDevices |-> PolicyKeys(policyDevices[d])]
    /\ \/ /\ ChangesMade(policyDevices)
          /\ published' = Advertised
          /\ unpublished' = FALSE
          /\ ReturnFrom(FALSE)
          /\ UNCHANGED faults
       \/ /\ ChangesMade(policyDevices)
          /\ Fault("publish")
          /\ unpublished' = TRUE
          /\ ReturnFrom(TRUE)
          /\ UNCHANGED published
       \/ /\ ~ChangesMade(policyDevices)
          /\ ReturnFrom(FALSE)
          /\ UNCHANGED <<published, unpublished, faults>>
    /\ UNCHANGED <<apiVars, processVars>>
-------------------------------------------------------------------------------
(***************************************************************************)
(* Reconcile                                                               *)
(***************************************************************************)

Reconcile ==
    /\ up /\ step = "idle" /\ pending
    /\ pending' = FALSE
    /\ seen' = [seen EXCEPT !.node = node]
    /\ step' = "policies"
    /\ UNCHANGED <<apiVars, policyDevices, managerVars, processVars, faults>>

ListPolicies ==
    /\ step = "policies"
    /\ seen' = [seen EXCEPT !.policies = policies]
    /\ step' = "attributes"
    /\ UNCHANGED <<apiVars, pending, policyDevices, managerVars, processVars, faults>>

ListAttributes ==
    /\ step = "attributes"
    /\ policyDevices' =
           GetPolicyDeviceMap(attributes, seen.node, seen.policies, attrObjects)
    /\ step' = "update"
    /\ UNCHANGED <<apiVars, pending, seen, managerVars, processVars, faults>>

\* Bug variant of ReadFails: the error is logged and nothing else.
ReadFailsForGood ==
    /\ step \in {"policies", "attributes"}
    /\ Fault("api")
    /\ ReturnFrom(FALSE)
    /\ UNCHANGED <<apiVars, managerVars, processVars>>

\* The node, the policies or the attributes cannot be read.
ReadFails ==
    /\ step \in {"policies", "attributes"}
    /\ Fault("api")
    /\ ReturnFrom(TRUE)
    /\ UNCHANGED <<apiVars, managerVars, processVars>>
-------------------------------------------------------------------------------
(***************************************************************************)
(* The API server and the process                                          *)
(***************************************************************************)

Change == changes < MaxChanges /\ changes' = changes + 1

ChangePolicy(n) ==
    /\ Change
    /\ \E new \in PolicyChoices[n] \ {policies[n]} :
           policies' = [policies EXCEPT ![n] = new]
    /\ pending' = up
    /\ UNCHANGED <<node, attrObjects, reconcileVars, managerVars, processVars, faults>>

ChangeAttributes(n) ==
    /\ Change
    /\ \E new \in AttrChoices[n] \ {attrObjects[n]} :
           attrObjects' = [attrObjects EXCEPT ![n] = new]
    /\ pending' = up
    /\ UNCHANGED <<node, policies, reconcileVars, managerVars, processVars, faults>>

\* A node has no namespace, so namespacePredicate drops its events.
RelabelNode ==
    /\ Change
    /\ \E l \in NodeLabels \ {node} : node' = l
    /\ UNCHANGED <<policies, attrObjects, pending, reconcileVars, managerVars, processVars, faults>>

\* The informers' resync repeats the events of all objects that they hold.
Resync ==
    /\ up
    /\ Change
    /\ pending' = TRUE
    /\ UNCHANGED <<node, policies, attrObjects, reconcileVars, managerVars, processVars, faults>>

\* The process ends; what it published stays.
Exit ==
    /\ up
    /\ Fault("restart")
    /\ up' = FALSE
    /\ pending' = FALSE
    /\ step' = "idle"
    /\ policyDevices' = <<>>
    /\ UNCHANGED <<apiVars, seen, managerVars, failed>>

\* Discovery and an empty pool, published by Start, and the event that
\* SetupWithManager sends itself.
Started(failing) ==
    /\ up' = TRUE
    /\ failed' = failing
    /\ attributes' = Discovered[failing]
    /\ policyAttrKeys' = <<>>
    /\ published' = [d \in Devices |-> Hidden]
    /\ unpublished' = FALSE
    /\ pending' = TRUE
    /\ UNCHANGED <<apiVars, reconcileVars>>

Start ==
    /\ ~up
    /\ Started({})
    /\ UNCHANGED faults

StartWithFailingQuery ==
    /\ ~up
    /\ Fault("query")
    /\ \E q \in Queries :
          IF DiscoveryFails({q})
          THEN UNCHANGED <<apiVars, pending, reconcileVars, managerVars, processVars>>
          ELSE Started({q})

Init ==
    /\ up = FALSE /\ failed = {}
    /\ node \in NodeLabels
    /\ policies \in [DOMAIN PolicyChoices -> {NoObject}]
    /\ attrObjects = [n \in DOMAIN AttrChoices |-> CHOOSE o \in AttrChoices[n] : TRUE]
    /\ attributes = <<>>
    /\ policyAttrKeys = <<>>
    /\ published = [d \in Devices |-> Hidden]
    /\ unpublished = FALSE
    /\ pending = FALSE
    /\ step = "idle"
    /\ seen = [node |-> node, policies |-> policies]
    /\ policyDevices = <<>>
    /\ changes = 0
    /\ faults = 0

ReconcileStep == Reconcile \/ ListPolicies \/ ListAttributes \/ ReadFails
                 \/ UpdatePolicyDevices

Next ==
    \/ ReconcileStep
    \/ \E n \in DOMAIN PolicyChoices : ChangePolicy(n)
    \/ \E n \in DOMAIN AttrChoices : ChangeAttributes(n)
    \/ RelabelNode \/ Resync
    \/ Exit \/ Start \/ StartWithFailingQuery

\* The worker takes requests as long as there are any; a container that ends is
\* started again.
Spec == Init /\ [][Next]_vars /\ WF_vars(ReconcileStep) /\ WF_vars(Start)
-------------------------------------------------------------------------------
TypeOK ==
    /\ node \in NodeLabels
    /\ \A n \in DOMAIN policies : policies[n] \in PolicyChoices[n] \cup {NoObject}
    /\ \A n \in DOMAIN attrObjects : attrObjects[n] \in AttrChoices[n]
    /\ pending \in BOOLEAN
    /\ step \in {"idle", "policies", "attributes", "update"}
    /\ up \in BOOLEAN /\ failed \in Failures
    /\ DOMAIN attributes \subseteq Devices
    /\ \A d \in DOMAIN attributes : DOMAIN attributes[d] = Keys
    /\ DOMAIN policyAttrKeys \subseteq DOMAIN attributes
    /\ \A d \in DOMAIN policyAttrKeys : policyAttrKeys[d] \subseteq PolicyAttributes
    /\ DOMAIN published = Devices /\ unpublished \in BOOLEAN
    /\ changes \in 0..MaxChanges /\ faults \in 0..MaxFaults

\* What the objects on the API server call for on a node with the given label,
\* worked out from scratch.
Wanted(label) ==
    LET found == Discovered[failed]
        map == GetPolicyDeviceMap(found, label, policies, attrObjects)
    IN  [d \in Devices |-> IF d \notin DOMAIN map THEN Hidden ELSE
            [k \in Keys |-> IF k \in PolicyAttributes THEN map[d][k] ELSE found[d][k]]]

Settled == up /\ step = "idle" /\ ~pending

\* Whenever the controller has nothing to do, the published pool is what the
\* policies and the attributes call for, given the node's labels as last read:
\* the incremental update, over any history, ends where one from scratch would.
\* UpdatePolicyDevices: "Devices not in the map have their policy-set attributes
\* cleared and are excluded from advertisement."
\* Excepted is the time from a failed republish to the next successful one.
PoolUpToDate == Settled /\ ~unpublished => published = Wanted(seen.node)

\* Once the objects stop changing, the pool becomes what they call for and stays.
PoolConverges == <>[](unpublished \/ published = Wanted(seen.node))

\* "Dynamic updates when policies, device attributes, or node labels change": the
\* pool of an idle controller is what the node's labels call for now.
PoolFollowsNode == Settled => published = Wanted(node)

\* The attributes of discovery survive every policy that comes and goes, also
\* one whose DeviceAttributes use their keys, so that filters go on matching
\* the devices they matched before.
DiscoveryKept ==
    /\ up => DOMAIN attributes = DOMAIN Discovered[failed]
    /\ \A d \in DOMAIN attributes, k \in ReservedAttributes :
          attributes[d][k] = Discovered[failed][d][k]
===============================================================================
