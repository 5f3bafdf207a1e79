----------------------- MODULE PolicyAdvertisementProofs ----------------------
(***************************************************************************)
(* What the advertised pool is, for every host, every set of policies and  *)
(* attributes, and every history of changes, failures and restarts.        *)
(*                                                                         *)
(* The update is incremental: it works on the attributes that the policies *)
(* before it have left behind.  The invariant says what they leave: the    *)
(* attributes of discovery, and the keys that policyAttrKeys has on record *)
(* and no others.                                                          *)
(***************************************************************************)
EXTENDS PolicyAdvertisement, TLAPS, WellFoundedInduction

(***************************************************************************)
(* The invariant                                                           *)
(***************************************************************************)

\* The SriovResourcePolicy and the DeviceAttributes objects there may be.
PoliciesOK(objects) ==
    /\ objects = [n \in DOMAIN PolicyChoices |-> objects[n]]
    /\ \A n \in DOMAIN PolicyChoices : objects[n] \in PolicyChoices[n] \cup {NoObject}

AttributesOK(objects) ==
    /\ objects = [n \in DOMAIN AttrChoices |-> objects[n]]
    /\ \A n \in DOMAIN AttrChoices : objects[n] \in AttrChoices[n]

\* Every config of a policy selects DeviceAttributes that set an attribute.
SetsAttributes ==
    \A n \in DOMAIN PolicyChoices : \A policy \in PolicyChoices[n] \ {NoObject} :
        \A i \in 1..Len(policy.configs) :
        \A objects \in [DOMAIN AttrChoices -> UNION {AttrChoices[m] : m \in DOMAIN AttrChoices}] :
            AttributesOK(objects) =>
                PolicyKeys(ResolveDeviceAttributes(policy.configs[i].selector, objects)) # {}

\* What the objects call for now, given the node's labels as last read.
Map == GetPolicyDeviceMap(Discovered[failed], seen.node, policies, attrObjects)

ApiInv ==
    /\ node \in NodeLabels
    /\ PoliciesOK(policies) /\ AttributesOK(attrObjects)
    /\ seen = [node |-> seen.node, policies |-> seen.policies] /\ PoliciesOK(seen.policies)
    /\ pending \in BOOLEAN
    /\ step \in {"idle", "policies", "attributes", "update"}
    /\ up \in BOOLEAN /\ failed \in Failures /\ (step # "idle" => up)
    /\ changes \in 0..MaxChanges /\ faults \in 0..MaxFaults

\* The attributes of discovery are as discovered, and a key of a policy is set
\* on a device exactly if it is on record for it.
AttrInv ==
    /\ DOMAIN attributes \subseteq DOMAIN Discovered[failed]
    /\ up => DOMAIN attributes = DOMAIN Discovered[failed]
    /\ \A d \in DOMAIN attributes :
          /\ attributes[d] = [k \in Keys |-> attributes[d][k]]
          /\ \A k \in ReservedAttributes : attributes[d][k] = Discovered[failed][d][k]
          /\ \A k \in PolicyAttributes : attributes[d][k] # NoValue <=> k \in OldKeys(d)
    /\ DOMAIN policyAttrKeys \subseteq DOMAIN attributes
    /\ \A d \in DOMAIN policyAttrKeys : policyAttrKeys[d] \subseteq PolicyAttributes

\* What a reconcile has read is current, unless another is pending.
ReconcileInv ==
    /\ step = "update" =>
          /\ DOMAIN policyDevices \subseteq DOMAIN attributes
          /\ SetsAttributes => \A d \in DOMAIN policyDevices : PolicyKeys(policyDevices[d]) # {}
    /\ pending = FALSE /\ step = "attributes" => seen.policies = policies
    /\ pending = FALSE /\ step = "update" => policyDevices = Map
    /\ pending = FALSE /\ step = "idle" /\ up =>
          /\ DOMAIN policyAttrKeys = DOMAIN Map
          /\ \A d \in DOMAIN Map, k \in PolicyAttributes : attributes[d][k] = Map[d][k]

\* The pool has the advertised devices, and possibly devices that have left
\* without an attribute of a policy to be removed.
PoolInv ==
    /\ published = [d \in Devices |-> published[d]] /\ unpublished \in BOOLEAN
    /\ unpublished = FALSE => \A d \in Devices :
          \/ d \in DOMAIN policyAttrKeys /\ published[d] = attributes[d]
          \/ d \notin DOMAIN policyAttrKeys /\ published[d] = Hidden
          \/ d \in DOMAIN attributes \ DOMAIN policyAttrKeys /\ published[d] = Discovered[failed][d]
    /\ SetsAttributes => \A d \in Devices :
          published[d] = Hidden \/ \E k \in PolicyAttributes : published[d][k] # NoValue

PolicyInv == ApiInv /\ AttrInv /\ ReconcileInv /\ PoolInv

\* The pool of an idle controller is what the policies and attributes call for,
\* with one exception: a device that no policy wants any more may still be in it,
\* if it carries no attribute of a policy.  This holds whatever the policies
\* select; UpdatePolicyDevices sees a device leave only by the keys it removes.
OnlyBareDevicesLinger ==
    Settled /\ ~unpublished => \A d \in Devices :
        \/ published[d] = Wanted(seen.node)[d]
        \/ Wanted(seen.node)[d] = Hidden /\ published[d] = Discovered[failed][d]
-------------------------------------------------------------------------------
(***************************************************************************)
(* The device map                                                          *)
(***************************************************************************)

\* A non-empty set of names has a first one (sorting by name and taking the first match).
LEMMA LeastIsIn ==
    ASSUME NEW S \in SUBSET Nat, S # {}
    PROVE  Least(S) \in S
<1>1. \E x \in S : \A y \in S : ~(<<y, x>> \in OpToRel(<, Nat))
  BY WFMin, NatLessThanWellFounded, Zenon
<1>2. PICK x \in S : \A y \in S : ~(<<y, x>> \in OpToRel(<, Nat))
  BY <1>1, Zenon
<1>3. \A y \in S : <<y, x>> \in Nat \X Nat
  OBVIOUS
<1>4. \A y \in S : ~(y < x)
  BY <1>2, <1>3 DEF OpToRel
<1>5. \A y \in S : x <= y
  BY <1>4
<1> QED
  BY <1>5 DEF Least

\* Two sets of attributes that agree on the attributes of discovery.
SameDiscovery(a, b) == \A k \in ReservedAttributes : a[k] = b[k]

\* The filters of a config see attributes of discovery only.
LEMMA SameConfigsMatch ==
    ASSUME NEW n \in DOMAIN PolicyChoices, NEW p \in PolicyChoices[n], p # NoObject,
           NEW a, NEW b, SameDiscovery(a, b)
    PROVE  MatchingConfigs(a, p) = MatchingConfigs(b, p)
<1>1. \A i \in 1..Len(p.configs) : \A f \in p.configs[i].filters : DOMAIN f \subseteq ReservedAttributes
  BY PolicyAssumption
<1>2. ASSUME NEW i \in 1..Len(p.configs), NEW f \in p.configs[i].filters
      PROVE  DeviceMatchesFilter(a, f) <=> DeviceMatchesFilter(b, f)
  BY <1>1, <1>2 DEF DeviceMatchesFilter, SameDiscovery
<1>3. ASSUME NEW i \in 1..Len(p.configs)
      PROVE  DeviceMatchesFilters(a, p.configs[i].filters) <=> DeviceMatchesFilters(b, p.configs[i].filters)
  BY <1>2 DEF DeviceMatchesFilters
<1> QED
  BY <1>3 DEF MatchingConfigs

\* So the policies that match a device stay the same, whatever attributes policies have set.
LEMMA SamePoliciesMatch ==
    ASSUME NEW objects, PoliciesOK(objects), NEW label, NEW a, NEW b, SameDiscovery(a, b)
    PROVE  MatchingPolicies(a, label, objects) = MatchingPolicies(b, label, objects)
<1>1. DOMAIN objects = DOMAIN PolicyChoices
  BY DEF PoliciesOK
<1>2. ASSUME NEW n \in DOMAIN objects, objects[n] # NoObject
      PROVE  MatchingConfigs(a, objects[n]) = MatchingConfigs(b, objects[n])
  <2>1. objects[n] \in PolicyChoices[n]
    BY <1>1, <1>2 DEF PoliciesOK
  <2> QED
    BY <1>1, <1>2, <2>1, SameConfigsMatch
<1> QED
  BY <1>2 DEF MatchingPolicies

\* The policy and the config that win are objects of the API server.
LEMMA FirstConfigExists ==
    ASSUME NEW objects, PoliciesOK(objects), NEW label, NEW a,
           MatchingPolicies(a, label, objects) # {}
    PROVE  LET n == Least(MatchingPolicies(a, label, objects))
               i == Least(MatchingConfigs(a, objects[n]))
           IN  /\ n \in DOMAIN PolicyChoices
               /\ objects[n] \in PolicyChoices[n] \ {NoObject}
               /\ i \in 1..Len(objects[n].configs)
               /\ FirstConfig(a, label, objects) = objects[n].configs[i]
<1> DEFINE n == Least(MatchingPolicies(a, label, objects))
<1> DEFINE i == Least(MatchingConfigs(a, objects[n]))
<1>1. MatchingPolicies(a, label, objects) \in SUBSET Nat
  BY PolicyAssumption DEF MatchingPolicies, PoliciesOK
<1>2. n \in MatchingPolicies(a, label, objects)
  BY <1>1, LeastIsIn
<1> HIDE DEF n
<1>3. n \in DOMAIN PolicyChoices /\ objects[n] \in PolicyChoices[n] \ {NoObject}
  BY <1>2 DEF MatchingPolicies, PoliciesOK
<1>4. MatchingConfigs(a, objects[n]) # {}
  BY <1>2 DEF MatchingPolicies
<1>5. MatchingConfigs(a, objects[n]) \in SUBSET Nat
  BY DEF MatchingConfigs
<1>6. i \in MatchingConfigs(a, objects[n])
  BY <1>4, <1>5, LeastIsIn
<1> HIDE DEF i
<1>7. i \in 1..Len(objects[n].configs)
  BY <1>6 DEF MatchingConfigs
<1>8. FirstConfig(a, label, objects) = objects[n].configs[i]
  BY DEF FirstConfig, n, i
<1> QED
  BY <1>3, <1>7, <1>8 DEF n, i

\* The config that wins does not depend on what policies have added to a device.
LEMMA SameFirstConfig ==
    ASSUME NEW objects, PoliciesOK(objects), NEW label, NEW a, NEW b, SameDiscovery(a, b),
           MatchingPolicies(a, label, objects) # {}
    PROVE  FirstConfig(a, label, objects) = FirstConfig(b, label, objects)
<1> DEFINE n == Least(MatchingPolicies(a, label, objects))
<1>1. MatchingPolicies(a, label, objects) = MatchingPolicies(b, label, objects)
  BY SamePoliciesMatch
<1>2. n \in DOMAIN PolicyChoices /\ objects[n] \in PolicyChoices[n] /\ objects[n] # NoObject
  BY FirstConfigExists
<1> HIDE DEF n
<1>3. MatchingConfigs(a, objects[n]) = MatchingConfigs(b, objects[n])
  BY <1>2, SameConfigsMatch
<1> QED
  BY <1>1, <1>3 DEF FirstConfig, n

\* getPolicyDeviceMap gives the same map for the devices with their present
\* attributes as for the devices as discovered.
LEMMA SameMap ==
    ASSUME NEW f, NEW g, DOMAIN f = DOMAIN g, \A d \in DOMAIN g : SameDiscovery(f[d], g[d]),
           NEW label, NEW objects, PoliciesOK(objects), NEW attrs
    PROVE  GetPolicyDeviceMap(f, label, objects, attrs) = GetPolicyDeviceMap(g, label, objects, attrs)
<1> DEFINE D(h) == {e \in DOMAIN h : MatchingPolicies(h[e], label, objects) # {}}
<1>1. D(f) = D(g)
  BY SamePoliciesMatch
<1>2. ASSUME NEW d \in D(g)
      PROVE  FirstConfig(f[d], label, objects) = FirstConfig(g[d], label, objects)
  <2>1. SameDiscovery(f[d], g[d]) /\ MatchingPolicies(f[d], label, objects) # {}
    BY <1>1
  <2> QED
    BY <2>1, SameFirstConfig
<1> QED
  BY <1>1, <1>2 DEF GetPolicyDeviceMap

\* The devices of the map are devices that were discovered; under
\* SetsAttributes the map sets an attribute on each.
LEMMA MapFacts ==
    ASSUME NEW f, NEW label, NEW objects, PoliciesOK(objects), NEW attrs, AttributesOK(attrs),
           NEW m, m = GetPolicyDeviceMap(f, label, objects, attrs)
    PROVE  /\ DOMAIN m \subseteq DOMAIN f
           /\ SetsAttributes => \A d \in DOMAIN m : PolicyKeys(m[d]) # {}
<1>1. DOMAIN m = {e \in DOMAIN f : MatchingPolicies(f[e], label, objects) # {}}
  BY DEF GetPolicyDeviceMap
<1>2. ASSUME NEW d \in DOMAIN m
      PROVE  m[d] = ResolveDeviceAttributes(FirstConfig(f[d], label, objects).selector, attrs)
  BY <1>1 DEF GetPolicyDeviceMap
<1>3. ASSUME SetsAttributes, NEW d \in DOMAIN m
      PROVE  PolicyKeys(m[d]) # {}
  <2> DEFINE n == Least(MatchingPolicies(f[d], label, objects))
             i == Least(MatchingConfigs(f[d], objects[n]))
  <2>1. /\ n \in DOMAIN PolicyChoices
        /\ objects[n] \in PolicyChoices[n] \ {NoObject}
        /\ i \in 1..Len(objects[n].configs)
        /\ FirstConfig(f[d], label, objects) = objects[n].configs[i]
    BY <1>1, FirstConfigExists
  <2> HIDE DEF n, i
  <2>2. attrs \in [DOMAIN AttrChoices -> UNION {AttrChoices[x] : x \in DOMAIN AttrChoices}]
    BY DEF AttributesOK
  <2>3. PolicyKeys(ResolveDeviceAttributes(objects[n].configs[i].selector, attrs)) # {}
    BY <1>3, <2>1, <2>2 DEF SetsAttributes
  <2> QED
    BY <2>1, <2>3, <1>2
<1> QED
  BY <1>1, <1>3
-------------------------------------------------------------------------------
(***************************************************************************)
(* Discovery and the update                                                *)
(***************************************************************************)

\* The keys that the map sets are keys of policies.
LEMMA PolicyKeysAre ==
    ASSUME NEW m
    PROVE  PolicyKeys(m) = {k \in PolicyAttributes : m[k] # NoValue}
BY PolicyAssumption DEF PolicyKeys, Keys

\* A query that fails does not change the address of a VF.
LEMMA VFListFacts ==
    ASSUME NEW a \in DOMAIN PCI, NEW failing, NEW x \in GetVFList(a, failing)
    PROVE  \E v \in PCI[a].virtfns : x.address = v.address
<1>1. PICK v \in PCI[a].virtfns :
          x = [v EXCEPT !.deviceID = IF <<v.address, "device">> \in failing THEN "" ELSE @]
  BY DEF GetVFList
<1>2. v \in [address : {v.address}, id : {v.id}, deviceID : {v.deviceID}, rdma : BOOLEAN]
  BY HostAssumption
<1>3. x.address = v.address
  BY <1>1, <1>2
<1> QED
  BY <1>3

\* Discovery finds virtual functions of the host, whatever query fails.
LEMMA FoundAreDevices ==
    ASSUME NEW failing
    PROVE  DOMAIN DiscoverSriovDevices(failing) \subseteq Devices
<1> DEFINE found == UNION {{a} \X GetVFList(a, failing) : a \in PFs(failing)}
<1>1. DOMAIN DiscoverSriovDevices(failing) = {x[2].address : x \in found}
  BY DEF DiscoverSriovDevices
<1>2. ASSUME NEW x \in found
      PROVE  x[2].address \in Devices
  <2>1. PICK a \in PFs(failing) : x \in {a} \X GetVFList(a, failing)
    OBVIOUS
  <2>2. a \in DOMAIN PCI
    BY DEF PFs
  <2>3. x[2] \in GetVFList(a, failing)
    BY <2>1
  <2>4. PICK v \in PCI[a].virtfns : x[2].address = v.address
    BY <2>2, <2>3, VFListFacts
  <2> QED
    BY <2>2, <2>4 DEF Devices
<1> HIDE DEF found
<1> QED
  BY <1>1, <1>2

\* What a discovery starts with: known devices, without attributes of policies.
LEMMA DiscoveredFacts ==
    ASSUME NEW failing \in Failures
    PROVE  /\ DOMAIN Discovered[failing] \subseteq Devices
           /\ \A d \in DOMAIN Discovered[failing] :
                 /\ Discovered[failing][d] = [k \in Keys |-> Discovered[failing][d][k]]
                 /\ \A k \in PolicyAttributes : Discovered[failing][d][k] = NoValue
<1> DEFINE found == DiscoverSriovDevices(failing)
<1>1. Discovered[failing] =
          [d \in DOMAIN found |->
              [k \in Keys |-> IF k \in ReservedAttributes THEN found[d][k] ELSE NoValue]]
  BY DEF Discovered
<1>2. DOMAIN found \subseteq Devices
  BY FoundAreDevices
<1>3. \A k \in PolicyAttributes : k \in Keys /\ k \notin ReservedAttributes
  BY PolicyAssumption DEF Keys
<1> HIDE DEF found
<1> QED
  BY <1>1, <1>2, <1>3

\* One device in UpdatePolicyDevices: the attributes of discovery stay, those of
\* policies become the ones the map sets, also after any policy before.
LEMMA NewAttributesFacts ==
    ASSUME AttrInv, NEW map, NEW d \in DOMAIN attributes, NEW new, new = NewAttributes(map, d)
    PROVE  /\ new = [k \in Keys |-> new[k]]
           /\ \A k \in ReservedAttributes : new[k] = Discovered[failed][d][k]
           /\ d \in DOMAIN map => \A k \in PolicyAttributes : new[k] = map[d][k]
           /\ d \notin DOMAIN map => \A k \in PolicyAttributes : new[k] = NoValue
<1> DEFINE set == IF d \in DOMAIN map THEN PolicyKeys(map[d]) ELSE {}
<1>1. new = [k \in Keys |-> CASE k \in set              -> map[d][k]
                              [] k \in OldKeys(d) \ set -> NoValue
                              [] OTHER                  -> attributes[d][k]]
  BY DEF NewAttributes
<1>2. set \subseteq PolicyAttributes
  BY PolicyKeysAre
<1>3. OldKeys(d) \subseteq PolicyAttributes
  BY DEF AttrInv, OldKeys
<1>4. d \in DOMAIN map => \A k \in PolicyAttributes : k \notin set => map[d][k] = NoValue
  BY PolicyKeysAre
<1>5. d \notin DOMAIN map => set = {}
  OBVIOUS
<1> HIDE DEF set
<1>6. ASSUME NEW k \in Keys
      PROVE  /\ k \in set => new[k] = map[d][k]
             /\ k \in OldKeys(d) /\ k \notin set => new[k] = NoValue
             /\ k \notin OldKeys(d) /\ k \notin set => new[k] = attributes[d][k]
  BY <1>1
<1>7. ASSUME NEW k \in ReservedAttributes
      PROVE  new[k] = Discovered[failed][d][k]
  <2>1. k \in Keys /\ k \notin set /\ k \notin OldKeys(d)
    BY <1>2, <1>3, PolicyAssumption DEF Keys
  <2> QED
    BY <2>1, <1>6 DEF AttrInv
<1>8. ASSUME NEW k \in PolicyAttributes, k \notin set
      PROVE  new[k] = NoValue
  <2>1. k \in Keys
    BY DEF Keys
  <2>2. CASE k \in OldKeys(d)
    BY <2>1, <2>2, <1>6, <1>8
  <2>3. CASE k \notin OldKeys(d)
    BY <2>1, <2>3, <1>6, <1>8 DEF AttrInv
  <2> QED
    BY <2>2, <2>3
<1>9. ASSUME d \in DOMAIN map, NEW k \in PolicyAttributes
      PROVE  new[k] = map[d][k]
  <2>1. k \in Keys
    BY DEF Keys
  <2> QED
    BY <2>1, <1>4, <1>6, <1>8, <1>9
<1>10. new = [k \in Keys |-> new[k]]
  BY <1>1
<1> QED
  BY <1>5, <1>7, <1>8, <1>9, <1>10
-------------------------------------------------------------------------------
(***************************************************************************)
(* The steps                                                               *)
(***************************************************************************)

\* The invariant holds when the process has not started yet.
LEMMA InitInv == Init => PolicyInv
<1> SUFFICES ASSUME Init PROVE PolicyInv
  OBVIOUS
<1> USE DEF Init
<1>1. PoliciesOK(policies) /\ PoliciesOK(seen.policies)
  BY DEF PoliciesOK
<1>2. AttributesOK(attrObjects)
  BY PolicyAssumption DEF AttributesOK
<1>3. failed \in Failures
  BY DEF Failures
<1>4. DOMAIN attributes = {} /\ DOMAIN policyAttrKeys = {}
  OBVIOUS
<1>5. ApiInv
  <2>1. seen = [node |-> seen.node, policies |-> seen.policies]
    OBVIOUS
  <2>2. changes \in 0..MaxChanges /\ faults \in 0..MaxFaults
    BY PolicyAssumption
  <2> QED
    BY <1>1, <1>2, <1>3, <2>1, <2>2 DEF ApiInv
<1>6. AttrInv
  BY <1>4 DEF AttrInv
<1>7. ReconcileInv
  BY DEF ReconcileInv
<1>8. PoolInv
  BY <1>4 DEF PoolInv
<1> QED
  BY <1>5, <1>6, <1>7, <1>8 DEF PolicyInv

\* A fault leaves its count in bounds.
LEMMA FaultBound ==
    ASSUME ApiInv, NEW kind, Fault(kind)
    PROVE  faults' \in 0..MaxFaults
BY PolicyAssumption DEF Fault, ApiInv

\* So does a change.
LEMMA ChangeBound ==
    ASSUME ApiInv, Change
    PROVE  changes' \in 0..MaxChanges
BY PolicyAssumption DEF Change, ApiInv

\* What a step that leaves the manager alone keeps.
LEMMA ManagerUnchanged ==
    ASSUME AttrInv, PoolInv, UNCHANGED <<managerVars, processVars>>
    PROVE  AttrInv' /\ PoolInv'
<1> USE DEF managerVars, processVars
<1>1. AttrInv'
  BY DEF AttrInv, OldKeys
<1>2. PoolInv'
  BY DEF PoolInv
<1> QED
  BY <1>1, <1>2

\* Reconcile reads the node.
LEMMA ReconcileStepInv ==
    ASSUME PolicyInv, Reconcile
    PROVE  PolicyInv'
<1> USE DEF PolicyInv, Reconcile, apiVars, managerVars, processVars
<1>1. seen' = [node |-> node, policies |-> seen.policies]
  BY DEF ApiInv
<1>2. ApiInv'
  BY <1>1 DEF ApiInv
<1>3. AttrInv' /\ PoolInv'
  BY ManagerUnchanged
<1>4. ReconcileInv'
  BY DEF ReconcileInv
<1> QED
  BY <1>2, <1>3, <1>4

\* Reconcile reads the policies: they may change again before the update.
LEMMA ListPoliciesInv ==
    ASSUME PolicyInv, ListPolicies
    PROVE  PolicyInv'
<1> USE DEF PolicyInv, ListPolicies, apiVars, managerVars, processVars
<1>1. seen' = [node |-> seen.node, policies |-> policies]
  BY DEF ApiInv
<1>2. ApiInv'
  BY <1>1 DEF ApiInv
<1>3. AttrInv' /\ PoolInv'
  BY ManagerUnchanged
<1>4. ReconcileInv'
  BY <1>1 DEF ReconcileInv
<1> QED
  BY <1>2, <1>3, <1>4

\* ListAttributes makes the map from the present attributes of the devices:
\* it is the one that the attributes of discovery would give.
LEMMA ListAttributesInv ==
    ASSUME PolicyInv, ListAttributes
    PROVE  PolicyInv'
<1> USE DEF PolicyInv, ListAttributes, apiVars, managerVars, processVars
<1>1. ApiInv'
  BY DEF ApiInv
<1>2. AttrInv' /\ PoolInv'
  BY ManagerUnchanged
<1>3. up /\ PoliciesOK(seen.policies) /\ AttributesOK(attrObjects)
  BY DEF ApiInv
<1>4. DOMAIN attributes = DOMAIN Discovered[failed]
  BY <1>3 DEF AttrInv
<1>5. \A d \in DOMAIN Discovered[failed] : SameDiscovery(attributes[d], Discovered[failed][d])
  BY <1>4 DEF AttrInv, SameDiscovery
<1>6. policyDevices' = GetPolicyDeviceMap(Discovered[failed], seen.node, seen.policies, attrObjects)
  BY <1>3, <1>4, <1>5, SameMap
<1>7. /\ DOMAIN policyDevices' \subseteq DOMAIN attributes
      /\ SetsAttributes => \A d \in DOMAIN policyDevices' : PolicyKeys(policyDevices'[d]) # {}
  BY <1>3, <1>4, <1>6, MapFacts
<1>8. pending = FALSE => policyDevices' = Map
  BY <1>6 DEF ReconcileInv, Map
<1>9. Map' = Map
  BY DEF Map
<1>10. ReconcileInv'
  BY <1>7, <1>8, <1>9 DEF ReconcileInv
<1> QED
  BY <1>1, <1>2, <1>10

\* A read that fails puts the request back, so nothing is claimed of the pool.
LEMMA ReadFailsInv ==
    ASSUME PolicyInv, ReadFails
    PROVE  PolicyInv'
<1> USE DEF PolicyInv, ReadFails, ReturnFrom, apiVars, managerVars, processVars
<1>1. faults' \in 0..MaxFaults
  BY FaultBound
<1>2. pending' = TRUE /\ step' = "idle"
  BY DEF ApiInv
<1>3. ApiInv'
  BY <1>1, <1>2 DEF ApiInv
<1>4. AttrInv' /\ PoolInv'
  BY ManagerUnchanged
<1>5. ReconcileInv'
  BY <1>2 DEF ReconcileInv
<1> QED
  BY <1>3, <1>4, <1>5

\* UpdatePolicyDevices: on every path the attributes are those of discovery and
\* those that the map sets.
LEMMA UpdateAttributes ==
    ASSUME PolicyInv, UpdatePolicyDevices
    PROVE  /\ DOMAIN attributes' = DOMAIN attributes
           /\ DOMAIN policyAttrKeys' = DOMAIN policyDevices
           /\ DOMAIN policyDevices \subseteq DOMAIN attributes
           /\ \A d \in DOMAIN attributes :
                 /\ attributes'[d] = NewAttributes(policyDevices, d)
                 /\ attributes'[d] = [k \in Keys |-> attributes'[d][k]]
                 /\ \A k \in ReservedAttributes : attributes'[d][k] = Discovered[failed][d][k]
                 /\ d \in DOMAIN policyDevices =>
                       \A k \in PolicyAttributes : attributes'[d][k] = policyDevices[d][k]
                 /\ d \notin DOMAIN policyDevices =>
                       \A k \in PolicyAttributes : attributes'[d][k] = NoValue
           /\ AttrInv'
<1>1. /\ attributes' = [d \in DOMAIN attributes |-> NewAttributes(policyDevices, d)]
      /\ policyAttrKeys' = [d \in DOMAIN policyDevices |-> PolicyKeys(policyDevices[d])]
      /\ UNCHANGED <<up, failed>>
  BY DEF UpdatePolicyDevices, processVars
<1>2. DOMAIN policyDevices \subseteq DOMAIN attributes
  BY DEF UpdatePolicyDevices, PolicyInv, ReconcileInv
<1>3. ASSUME NEW d \in DOMAIN attributes
      PROVE  /\ attributes'[d] = NewAttributes(policyDevices, d)
             /\ attributes'[d] = [k \in Keys |-> attributes'[d][k]]
             /\ \A k \in ReservedAttributes : attributes'[d][k] = Discovered[failed][d][k]
             /\ d \in DOMAIN policyDevices =>
                   \A k \in PolicyAttributes : attributes'[d][k] = policyDevices[d][k]
             /\ d \notin DOMAIN policyDevices =>
                   \A k \in PolicyAttributes : attributes'[d][k] = NoValue
  <2>1. attributes'[d] = NewAttributes(policyDevices, d)
    BY <1>1
  <2> QED
    BY <2>1, NewAttributesFacts DEF PolicyInv
<1>4. \A d \in DOMAIN policyDevices :
          policyAttrKeys'[d] = {k \in PolicyAttributes : policyDevices[d][k] # NoValue}
  BY <1>1, PolicyKeysAre
<1>5. ASSUME NEW d \in DOMAIN attributes, NEW k \in PolicyAttributes
      PROVE  k \in OldKeys(d)' <=> d \in DOMAIN policyDevices /\ policyDevices[d][k] # NoValue
  BY <1>1, <1>4 DEF OldKeys
<1>6. ASSUME NEW d \in DOMAIN attributes, NEW k \in PolicyAttributes
      PROVE  attributes'[d][k] # NoValue <=> k \in OldKeys(d)'
  <2>1. k \in OldKeys(d)' <=> d \in DOMAIN policyDevices /\ policyDevices[d][k] # NoValue
    BY <1>5
  <2>2. d \in DOMAIN policyDevices => attributes'[d][k] = policyDevices[d][k]
    BY <1>3
  <2>3. d \notin DOMAIN policyDevices => attributes'[d][k] = NoValue
    BY <1>3
  <2> QED
    BY <2>1, <2>2, <2>3
<1>7. DOMAIN attributes' = DOMAIN attributes /\ DOMAIN policyAttrKeys' = DOMAIN policyDevices
  BY <1>1
<1>8. AttrInv'
  BY <1>1, <1>2, <1>3, <1>4, <1>6, <1>7 DEF AttrInv, PolicyInv
<1> QED
  BY <1>2, <1>3, <1>7, <1>8

\* When nothing counts as a change, every device of the map was advertised with
\* the same attributes, and a device that leaves had no attribute of a policy.
LEMMA NoChangeMade ==
    ASSUME PolicyInv, UpdatePolicyDevices, ~ChangesMade(policyDevices), NEW d \in DOMAIN attributes
    PROVE  /\ d \in DOMAIN policyDevices =>
                 d \in DOMAIN policyAttrKeys /\ attributes'[d] = attributes[d]
           /\ d \in DOMAIN policyAttrKeys \ DOMAIN policyDevices =>
                 attributes[d] = Discovered[failed][d]
<1>1. CASE d \in DOMAIN policyDevices
  BY <1>1, UpdateAttributes DEF ChangesMade
<1>2. CASE d \in DOMAIN policyAttrKeys \ DOMAIN policyDevices
  <2>1. policyAttrKeys[d] = {}
    BY <1>2 DEF ChangesMade
  <2>2. OldKeys(d) = {}
    BY <1>2, <2>1 DEF OldKeys
  <2>3. failed \in Failures /\ d \in DOMAIN Discovered[failed]
    BY DEF PolicyInv, ApiInv, AttrInv
  <2>4. /\ Discovered[failed][d] = [k \in Keys |-> Discovered[failed][d][k]]
        /\ \A k \in PolicyAttributes : Discovered[failed][d][k] = NoValue
    BY <2>3, DiscoveredFacts
  <2>5. \A k \in Keys : attributes[d][k] = Discovered[failed][d][k]
    BY <2>2, <2>4 DEF PolicyInv, AttrInv, Keys
  <2>6. attributes[d] = [k \in Keys |-> attributes[d][k]]
    BY DEF PolicyInv, AttrInv
  <2>7. attributes[d] = Discovered[failed][d]
    BY <2>4, <2>5, <2>6
  <2> QED
    BY <1>2, <2>7
<1> QED
  BY <1>1, <1>2

\* The pool after UpdatePolicyDevices.
LEMMA UpdatePool ==
    ASSUME PolicyInv, UpdatePolicyDevices
    PROVE  PoolInv'
<1>1. UNCHANGED <<up, failed>> /\ failed \in Failures
  BY DEF UpdatePolicyDevices, processVars, PolicyInv, ApiInv
<1>2. /\ DOMAIN attributes' = DOMAIN attributes
      /\ DOMAIN policyAttrKeys' = DOMAIN policyDevices
      /\ DOMAIN policyDevices \subseteq DOMAIN attributes
  BY UpdateAttributes
<1>3. DOMAIN attributes \subseteq Devices
  BY <1>1, DiscoveredFacts DEF PolicyInv, AttrInv
<1>4. CASE published' = Advertised /\ unpublished' = FALSE
  <2>1. published' = [d \in Devices |-> IF d \in DOMAIN policyDevices THEN attributes'[d] ELSE Hidden]
    BY <1>2, <1>4 DEF Advertised
  <2>2. ASSUME SetsAttributes, NEW d \in DOMAIN policyDevices
        PROVE  \E k \in PolicyAttributes : attributes'[d][k] # NoValue
    <3>1. PolicyKeys(policyDevices[d]) # {}
      BY <2>2 DEF PolicyInv, ReconcileInv, UpdatePolicyDevices
    <3>2. PICK k \in PolicyAttributes : policyDevices[d][k] # NoValue
      BY <3>1, PolicyKeysAre
    <3>3. attributes'[d][k] = policyDevices[d][k]
      BY <1>2, UpdateAttributes
    <3> QED
      BY <3>2, <3>3
  <2>3. SetsAttributes => \A d \in Devices :
            published'[d] = Hidden \/ \E k \in PolicyAttributes : published'[d][k] # NoValue
    BY <2>1, <2>2
  <2>4. \A d \in Devices :
            \/ d \in DOMAIN policyAttrKeys' /\ published'[d] = attributes'[d]
            \/ d \notin DOMAIN policyAttrKeys' /\ published'[d] = Hidden
    BY <1>2, <2>1
  <2>5. published' = [d \in Devices |-> published'[d]]
    BY <2>1
  <2> QED
    BY <1>4, <2>3, <2>4, <2>5 DEF PoolInv
<1>5. CASE unpublished' = TRUE /\ UNCHANGED published
  BY <1>5 DEF PolicyInv, PoolInv
<1>6. CASE ~ChangesMade(policyDevices) /\ UNCHANGED <<published, unpublished>>
  <2>1. ASSUME unpublished = FALSE, NEW d \in Devices
        PROVE  \/ d \in DOMAIN policyDevices /\ published[d] = attributes'[d]
               \/ d \notin DOMAIN policyDevices /\ published[d] = Hidden
               \/ d \in DOMAIN attributes \ DOMAIN policyDevices /\ published[d] = Discovered[failed][d]
    <3>1. \/ d \in DOMAIN policyAttrKeys /\ published[d] = attributes[d]
          \/ d \notin DOMAIN policyAttrKeys /\ published[d] = Hidden
          \/ d \in DOMAIN attributes \ DOMAIN policyAttrKeys /\ published[d] = Discovered[failed][d]
      BY <2>1 DEF PolicyInv, PoolInv
    <3>2. DOMAIN policyAttrKeys \subseteq DOMAIN attributes
      BY DEF PolicyInv, AttrInv
    <3>3. CASE d \in DOMAIN policyDevices
      <4>1. d \in DOMAIN policyAttrKeys /\ attributes'[d] = attributes[d]
        BY <1>2, <1>6, <3>3, NoChangeMade
      <4> QED
        BY <3>1, <3>3, <4>1
    <3>4. CASE d \in DOMAIN policyAttrKeys \ DOMAIN policyDevices
      <4>1. attributes[d] = Discovered[failed][d]
        BY <1>6, <3>2, <3>4, NoChangeMade
      <4> QED
        BY <3>1, <3>2, <3>4, <4>1
    <3>5. CASE d \notin DOMAIN policyAttrKeys /\ d \notin DOMAIN policyDevices
      BY <3>1, <3>5
    <3> QED
      BY <3>3, <3>4, <3>5
  <2> QED
    BY <1>1, <1>2, <1>6, <2>1 DEF PolicyInv, PoolInv
<1>7. \/ published' = Advertised /\ unpublished' = FALSE
      \/ unpublished' = TRUE /\ UNCHANGED published
      \/ ~ChangesMade(policyDevices) /\ UNCHANGED <<published, unpublished>>
  BY DEF UpdatePolicyDevices
<1> QED
  BY <1>4, <1>5, <1>6, <1>7

\* The update, and the republication if it changed anything, keep the invariant.
LEMMA UpdatePolicyDevicesInv ==
    ASSUME PolicyInv, UpdatePolicyDevices
    PROVE  PolicyInv'
<1> USE DEF PolicyInv
<1>1. UNCHANGED <<node, policies, attrObjects, changes, up, failed, seen>>
  BY DEF UpdatePolicyDevices, ReturnFrom, apiVars, processVars
<1>2. step' = "idle" /\ pending' \in BOOLEAN /\ (pending' = FALSE => pending = FALSE)
  BY DEF UpdatePolicyDevices, ReturnFrom, ApiInv
<1>3. faults' \in 0..MaxFaults
  BY FaultBound DEF UpdatePolicyDevices, ApiInv
<1>4. ApiInv'
  BY <1>1, <1>2, <1>3 DEF ApiInv
<1>5. AttrInv' /\ PoolInv'
  BY UpdateAttributes, UpdatePool
<1>6. Map' = Map
  BY <1>1 DEF Map
<1>7. pending' = FALSE => policyDevices = Map
  BY <1>2 DEF ReconcileInv, UpdatePolicyDevices
<1>8. /\ DOMAIN policyAttrKeys' = DOMAIN policyDevices
      /\ \A d \in DOMAIN policyDevices, k \in PolicyAttributes :
            attributes'[d][k] = policyDevices[d][k]
  BY UpdateAttributes
<1>9. ReconcileInv'
  BY <1>2, <1>6, <1>7, <1>8 DEF ReconcileInv
<1> QED
  BY <1>4, <1>5, <1>9

\* An object changes: the watch brings a request, if the process is up.
LEMMA ChangePolicyInv ==
    ASSUME PolicyInv, NEW n \in DOMAIN PolicyChoices, ChangePolicy(n)
    PROVE  PolicyInv'
<1> USE DEF PolicyInv, ChangePolicy, reconcileVars, managerVars, processVars
<1>1. PoliciesOK(policies')
  BY DEF ApiInv, PoliciesOK
<1>2. changes' \in 0..MaxChanges
  BY ChangeBound
<1>3. pending' = up /\ pending' \in BOOLEAN
  BY DEF ApiInv
<1>4. ApiInv'
  BY <1>1, <1>2, <1>3 DEF ApiInv
<1>5. AttrInv' /\ PoolInv'
  BY ManagerUnchanged
<1>6. pending' = FALSE => up' = FALSE /\ step' = "idle"
  BY <1>3 DEF ApiInv
<1>7. ReconcileInv'
  BY <1>6 DEF ReconcileInv
<1> QED
  BY <1>4, <1>5, <1>7

\* A DeviceAttributes object is created, changed or deleted: there is an event for it.
LEMMA ChangeAttributesInv ==
    ASSUME PolicyInv, NEW n \in DOMAIN AttrChoices, ChangeAttributes(n)
    PROVE  PolicyInv'
<1> USE DEF PolicyInv, ChangeAttributes, reconcileVars, managerVars, processVars
<1>1. AttributesOK(attrObjects')
  BY DEF ApiInv, AttributesOK
<1>2. changes' \in 0..MaxChanges
  BY ChangeBound
<1>3. pending' = up /\ pending' \in BOOLEAN
  BY DEF ApiInv
<1>4. ApiInv'
  BY <1>1, <1>2, <1>3 DEF ApiInv
<1>5. AttrInv' /\ PoolInv'
  BY ManagerUnchanged
<1>6. pending' = FALSE => up' = FALSE /\ step' = "idle"
  BY <1>3 DEF ApiInv
<1>7. ReconcileInv'
  BY <1>6 DEF ReconcileInv
<1> QED
  BY <1>4, <1>5, <1>7

\* The event of the node is dropped: the map is the one of the labels last read.
LEMMA RelabelNodeInv ==
    ASSUME PolicyInv, RelabelNode
    PROVE  PolicyInv'
<1> USE DEF PolicyInv, RelabelNode, reconcileVars, managerVars, processVars
<1>1. changes' \in 0..MaxChanges
  BY ChangeBound
<1>2. ApiInv'
  BY <1>1 DEF ApiInv
<1>3. AttrInv' /\ PoolInv'
  BY ManagerUnchanged
<1>4. Map' = Map
  BY DEF Map
<1>5. ReconcileInv'
  BY <1>4 DEF ReconcileInv
<1> QED
  BY <1>2, <1>3, <1>5

\* A resync only adds an event.
LEMMA ResyncInv ==
    ASSUME PolicyInv, Resync
    PROVE  PolicyInv'
<1> USE DEF PolicyInv, Resync, reconcileVars, managerVars, processVars
<1>1. changes' \in 0..MaxChanges
  BY ChangeBound
<1>2. ApiInv'
  BY <1>1 DEF ApiInv
<1>3. AttrInv' /\ PoolInv'
  BY ManagerUnchanged
<1>4. ReconcileInv'
  BY DEF ReconcileInv
<1> QED
  BY <1>2, <1>3, <1>4

\* The process ends: the pool stays, and a reconcile under way is lost.
LEMMA ExitInv ==
    ASSUME PolicyInv, Exit
    PROVE  PolicyInv'
<1> USE DEF PolicyInv, Exit, apiVars, managerVars
<1>1. faults' \in 0..MaxFaults
  BY FaultBound
<1>2. ApiInv'
  BY <1>1 DEF ApiInv
<1>3. AttrInv'
  BY DEF AttrInv, OldKeys
<1>4. PoolInv'
  BY DEF PoolInv
<1>5. ReconcileInv'
  BY DEF ReconcileInv
<1> QED
  BY <1>2, <1>3, <1>4, <1>5

\* Discovery, and an empty pool.
LEMMA StartedInv ==
    ASSUME PolicyInv, NEW failing \in Failures, up = FALSE, Started(failing),
           faults' \in 0..MaxFaults
    PROVE  PolicyInv'
<1> USE DEF PolicyInv, Started, apiVars, reconcileVars
<1>1. ApiInv'
  BY DEF ApiInv
<1>2. DOMAIN policyAttrKeys' = {} /\ DOMAIN attributes' = DOMAIN Discovered[failing]
  OBVIOUS
<1>3. AttrInv'
  <2>1. \A d \in DOMAIN attributes' : OldKeys(d)' = {}
    BY <1>2 DEF OldKeys
  <2>2. ASSUME NEW d \in DOMAIN attributes'
        PROVE  /\ attributes'[d] = [k \in Keys |-> attributes'[d][k]]
               /\ \A k \in ReservedAttributes : attributes'[d][k] = Discovered[failed'][d][k]
               /\ \A k \in PolicyAttributes : attributes'[d][k] # NoValue <=> k \in OldKeys(d)'
    BY <1>2, <2>1, DiscoveredFacts
  <2> QED
    BY <1>2, <2>2 DEF AttrInv
<1>4. PoolInv'
  BY <1>2 DEF PoolInv
<1>5. ReconcileInv'
  BY DEF ReconcileInv, ApiInv
<1> QED
  BY <1>1, <1>3, <1>4, <1>5

\* A start with all queries answered.
LEMMA StartInv ==
    ASSUME PolicyInv, Start
    PROVE  PolicyInv'
<1>1. up = FALSE /\ {} \in Failures
  BY DEF Start, PolicyInv, ApiInv, Failures
<1>2. faults' \in 0..MaxFaults
  BY DEF Start, PolicyInv, ApiInv
<1>3. Started({})
  BY DEF Start
<1> QED
  BY <1>1, <1>2, <1>3, StartedInv

\* A start in which a query of discovery fails.
LEMMA StartWithFailingQueryInv ==
    ASSUME PolicyInv, StartWithFailingQuery
    PROVE  PolicyInv'
<1>1. up = FALSE
  BY DEF StartWithFailingQuery, PolicyInv, ApiInv
<1>2. faults' \in 0..MaxFaults
  BY FaultBound DEF StartWithFailingQuery, PolicyInv
<1>3. CASE UNCHANGED <<apiVars, pending, reconcileVars, managerVars, processVars>>
  <2> USE <1>3 DEF PolicyInv, apiVars, reconcileVars, managerVars, processVars
  <2>1. ApiInv'
    BY <1>2 DEF ApiInv
  <2>2. AttrInv' /\ PoolInv'
    BY ManagerUnchanged
  <2>3. ReconcileInv'
    BY <1>1 DEF ReconcileInv, ApiInv
  <2> QED
    BY <2>1, <2>2, <2>3
<1>4. ASSUME NEW q \in Queries, Started({q})
      PROVE  PolicyInv'
  <2>1. {q} \in Failures
    BY DEF Failures
  <2> QED
    BY <1>1, <1>2, <1>4, <2>1, StartedInv
<1> QED
  BY <1>3, <1>4 DEF StartWithFailingQuery

\* A step that changes nothing.
LEMMA StutterInv ==
    ASSUME PolicyInv, UNCHANGED vars
    PROVE  PolicyInv'
<1> USE DEF PolicyInv, vars, apiVars, reconcileVars, managerVars, processVars
<1>1. ApiInv'
  BY DEF ApiInv
<1>2. AttrInv' /\ PoolInv'
  BY ManagerUnchanged
<1>3. Map' = Map
  BY DEF Map
<1>4. ReconcileInv'
  BY <1>3 DEF ReconcileInv
<1> QED
  BY <1>1, <1>2, <1>4
-------------------------------------------------------------------------------
(***************************************************************************)
(* The theorems                                                            *)
(***************************************************************************)

\* The invariant of controller, device-state manager and pool is inductive.
THEOREM PolicyInvariant == Spec => []PolicyInv
<1>1. PolicyInv /\ [Next]_vars => PolicyInv'
  <2> SUFFICES ASSUME PolicyInv, [Next]_vars PROVE PolicyInv'
    OBVIOUS
  <2>1. CASE ReconcileStep
    BY <2>1, ReconcileStepInv, ListPoliciesInv, ListAttributesInv, ReadFailsInv,
       UpdatePolicyDevicesInv DEF ReconcileStep
  <2>2. ASSUME NEW n \in DOMAIN PolicyChoices, ChangePolicy(n) PROVE PolicyInv'
    BY <2>2, ChangePolicyInv
  <2>3. ASSUME NEW n \in DOMAIN AttrChoices, ChangeAttributes(n) PROVE PolicyInv'
    BY <2>3, ChangeAttributesInv
  <2>4. CASE RelabelNode
    BY <2>4, RelabelNodeInv
  <2>5. CASE Resync
    BY <2>5, ResyncInv
  <2>6. CASE Exit
    BY <2>6, ExitInv
  <2>7. CASE Start
    BY <2>7, StartInv
  <2>8. CASE StartWithFailingQuery
    BY <2>8, StartWithFailingQueryInv
  <2>9. CASE UNCHANGED vars
    BY <2>9, StutterInv
  <2> QED
    BY <2>1, <2>2, <2>3, <2>4, <2>5, <2>6, <2>7, <2>8, <2>9 DEF Next
<1> QED
  BY <1>1, InitInv, PTL DEF Spec

\* Every variable keeps its type: what UpdatePolicyDevices has on record is on
\* devices that were discovered, and the counts stay in their bounds.
THEOREM TypeCorrect == Spec => []TypeOK
<1>1. PolicyInv => TypeOK
  <2> SUFFICES ASSUME PolicyInv PROVE TypeOK
    OBVIOUS
  <2>1. DOMAIN attributes \subseteq Devices
    BY DiscoveredFacts DEF PolicyInv, ApiInv, AttrInv
  <2>2. /\ \A n \in DOMAIN policies : policies[n] \in PolicyChoices[n] \cup {NoObject}
        /\ \A n \in DOMAIN attrObjects : attrObjects[n] \in AttrChoices[n]
    BY DEF PolicyInv, ApiInv, PoliciesOK, AttributesOK
  <2>3. \A d \in DOMAIN attributes : DOMAIN attributes[d] = Keys
    BY DEF PolicyInv, AttrInv
  <2>4. DOMAIN published = Devices /\ unpublished \in BOOLEAN
    BY DEF PolicyInv, PoolInv
  <2>5. /\ DOMAIN policyAttrKeys \subseteq DOMAIN attributes
        /\ \A d \in DOMAIN policyAttrKeys : policyAttrKeys[d] \subseteq PolicyAttributes
    BY DEF PolicyInv, AttrInv
  <2> QED
    BY <2>1, <2>2, <2>3, <2>4, <2>5 DEF TypeOK, PolicyInv, ApiInv
<1> QED
  BY <1>1, PolicyInvariant, PTL

\* No policy and no DeviceAttributes object ever changes or removes what
\* discovery has set (UpdatePolicyDevices skips the reserved keys).
THEOREM DiscoveryIsKept == Spec => []DiscoveryKept
<1>1. PolicyInv => DiscoveryKept
  BY DEF PolicyInv, AttrInv, DiscoveryKept
<1> QED
  BY <1>1, PolicyInvariant, PTL

\* The devices of an idle controller that are wanted and those that are not.
LEMMA WantedDevices ==
    ASSUME PolicyInv, Settled, ~unpublished, NEW d \in Devices
    PROVE  \/ published[d] = Wanted(seen.node)[d]
           \/ Wanted(seen.node)[d] = Hidden /\ d \in DOMAIN Discovered[failed]
                                            /\ published[d] = Discovered[failed][d]
<1>1. pending = FALSE /\ unpublished = FALSE /\ step = "idle" /\ up /\ failed \in Failures
  BY DEF Settled, PolicyInv, ApiInv, PoolInv
<1>2. /\ DOMAIN policyAttrKeys = DOMAIN Map
      /\ \A e \in DOMAIN Map, k \in PolicyAttributes : attributes[e][k] = Map[e][k]
  BY <1>1 DEF PolicyInv, ReconcileInv
<1>3. Wanted(seen.node)[d] =
          IF d \notin DOMAIN Map THEN Hidden ELSE
          [k \in Keys |-> IF k \in PolicyAttributes THEN Map[d][k] ELSE Discovered[failed][d][k]]
  BY DEF Wanted, Map
<1>4. CASE d \in DOMAIN Map
  <2>1. d \in DOMAIN policyAttrKeys /\ d \in DOMAIN attributes /\ published[d] = attributes[d]
    BY <1>1, <1>2, <1>4 DEF PolicyInv, PoolInv, AttrInv
  <2>2. attributes[d] = [k \in Keys |-> attributes[d][k]]
    BY <2>1 DEF PolicyInv, AttrInv
  <2>3. \A k \in Keys : attributes[d][k] =
            IF k \in PolicyAttributes THEN Map[d][k] ELSE Discovered[failed][d][k]
    BY <1>2, <1>4, <2>1 DEF PolicyInv, AttrInv, Keys
  <2> QED
    BY <1>3, <1>4, <2>1, <2>2, <2>3
<1>5. CASE d \notin DOMAIN Map
  BY <1>1, <1>2, <1>3, <1>5 DEF PolicyInv, PoolInv, AttrInv
<1> QED
  BY <1>4, <1>5

\* Whatever the policies select: an idle controller has published what the
\* objects call for, except that a device without an attribute of a policy may
\* stay in the pool when no policy wants it any more.
THEOREM OnlyBareDevicesStay == Spec => []OnlyBareDevicesLinger
<1>1. PolicyInv => OnlyBareDevicesLinger
  BY WantedDevices DEF OnlyBareDevicesLinger
<1> QED
  BY <1>1, PolicyInvariant, PTL

\* When every config selects attributes, the pool of an idle controller is
\* what the objects call for: the incremental update of UpdatePolicyDevices,
\* over any history, ends where one from scratch would.
THEOREM PoolIsUpToDate ==
    ASSUME SetsAttributes
    PROVE  Spec => []PoolUpToDate
<1>1. PolicyInv => PoolUpToDate
  <2> SUFFICES ASSUME PolicyInv, Settled, ~unpublished PROVE published = Wanted(seen.node)
    BY DEF PoolUpToDate
  <2>1. ASSUME NEW d \in Devices
        PROVE  published[d] = Wanted(seen.node)[d]
    <3>1. published[d] = Hidden \/ \E k \in PolicyAttributes : published[d][k] # NoValue
      BY SetsAttributes DEF PolicyInv, PoolInv
    <3>2. ASSUME d \in DOMAIN Discovered[failed], published[d] = Discovered[failed][d]
          PROVE  published[d] = Hidden
      <4>1. failed \in Failures
        BY DEF PolicyInv, ApiInv
      <4>2. \A k \in PolicyAttributes : Discovered[failed][d][k] = NoValue
        BY <3>2, <4>1, DiscoveredFacts
      <4> QED
        BY <3>1, <3>2, <4>2
    <3> QED
      BY <3>2, WantedDevices
  <2>2. published = [d \in Devices |-> published[d]]
    BY DEF PolicyInv, PoolInv
  <2>3. Wanted(seen.node) = [d \in Devices |-> Wanted(seen.node)[d]]
    BY DEF Wanted
  <2> QED
    BY <2>1, <2>2, <2>3
<1> QED
  BY <1>1, PolicyInvariant, PTL
===============================================================================
