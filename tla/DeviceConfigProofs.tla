-------------------------- MODULE DeviceConfigProofs --------------------------
(***************************************************************************)
(* What a container gets of its devices, for any devices, any drivers and  *)
(* any configs, over any history of claims and restarts.                   *)
(***************************************************************************)
EXTENDS DeviceConfig, TLAPS, WellFoundedInduction

(***************************************************************************)
(* The invariant                                                           *)
(***************************************************************************)

\* Where a claim with this config takes a device that it finds as it was after boot.
BoundFromBoot(d, config) ==
    CASE config.Driver = ""        -> BootDriver[d]
      [] config.Driver = "default" -> IF IsDpdkDriver(BootDriver[d]) THEN VendorDriver[d] ELSE BootDriver[d]
      [] OTHER                     -> config.Driver

\* A device that no claim has is on its driver of boot, and so is what the claim
\* that has it recorded; the device nodes follow from the config and, for RDMA,
\* from the driver the claim has bound.
PreparedOK(d, p, bound) ==
    /\ bound = BoundFromBoot(d, p.config)
    /\ p.config.Driver # "" => p.original = BootDriver[d]
    /\ \E rdma \in SUBSET {Node("rdma")} :
          /\ p.nodes = (IF p.config.Driver = "vfio-pci" THEN VfioNodes(d) ELSE {})
                       \cup (IF p.config.AddVhostMount THEN {Node("vhost-net"), Node("tun")} ELSE {})
                       \cup rdma
          /\ rdma # {} => bound = VendorDriver[d]

DeviceOK(d, p, bound) == (p = NotPrepared /\ bound = BootDriver[d]) \/ PreparedOK(d, p, bound)

\* A device that has RDMA devices was found capable, or met away from its vendor driver.
CapableOK(capable, away) ==
    /\ capable \subseteq Devices /\ away \subseteq Devices
    /\ \A d \in Devices : RdmaDevices[d] > 0 /\ d \notin away => d \in capable

HostInv ==
    /\ driver = [d \in Devices |-> driver[d]]
    /\ prepared = [d \in Devices |-> prepared[d]]
    /\ \A d \in Devices : DeviceOK(d, prepared[d], driver[d])

ConfigInv == HostInv /\ CapableOK(rdmaCapable, missed)
-------------------------------------------------------------------------------
\* The kernel has RDMA devices for a device only on its vendor driver.
LEMMA RdmaOnVendorDriver ==
    ASSUME NEW d \in Devices, NEW b, GetRDMADevicesForPCI(d, b) > 0
    PROVE  b = VendorDriver[d] /\ RdmaDevices[d] > 0
BY DEF GetRDMADevicesForPCI

\* Discovery finds exactly the devices that are on their vendor driver and have RDMA devices.
LEMMA CapableFacts ==
    ASSUME NEW f
    PROVE  CapableOK({d \in Devices : VerifyRDMACapability(d, f[d])},
                     {d \in Devices : RdmaDevices[d] > 0 /\ f[d] # VendorDriver[d]})
BY DEF CapableOK, VerifyRDMACapability, GetRDMADevicesForPCI

\* After boot no device is with a claim.
LEMMA InitInv == Init => ConfigInv
<1> SUFFICES ASSUME Init PROVE ConfigInv
  OBVIOUS
<1>1. CapableOK(rdmaCapable, missed)
  BY CapableFacts DEF Init
<1>2. HostInv
  BY ConfigAssumption DEF Init, HostInv, DeviceOK
<1> QED
  BY <1>1, <1>2 DEF ConfigInv

\* BindDeviceDriver starts from the driver of boot.
LEMMA BoundFacts ==
    ASSUME NEW d \in Devices, NEW config, driver[d] = BootDriver[d]
    PROVE  Bound(d, config) = BoundFromBoot(d, config)
<1>1. CASE config.Driver = ""
  BY <1>1 DEF Bound, BoundFromBoot
<1>2. CASE config.Driver = "default"
  BY <1>2 DEF Bound, BoundFromBoot
<1>3. CASE config.Driver # "" /\ config.Driver # "default"
  BY <1>3 DEF Bound, BoundFromBoot
<1> QED
  BY <1>1, <1>2, <1>3

\* What applyConfigOnDevice makes of a device.
LEMMA ApplyFacts ==
    ASSUME NEW d \in Devices, NEW config, driver[d] = BootDriver[d], NEW p,
           p.config = config, p.nodes = DeviceNodes(d, config),
           p.original = IF config.Driver = "" THEN "" ELSE driver[d]
    PROVE  PreparedOK(d, p, Bound(d, config))
<1> DEFINE rdma == RdmaNodes(d, Bound(d, config))
<1>1. rdma \in SUBSET {Node("rdma")}
  BY DEF RdmaNodes
<1>2. rdma # {} => Bound(d, config) = VendorDriver[d]
  BY RdmaOnVendorDriver DEF RdmaNodes
<1>3. p.nodes = (IF p.config.Driver = "vfio-pci" THEN VfioNodes(d) ELSE {})
                \cup (IF p.config.AddVhostMount THEN {Node("vhost-net"), Node("tun")} ELSE {})
                \cup rdma
  BY DEF DeviceNodes
<1> HIDE DEF rdma
<1>4. Bound(d, config) = BoundFromBoot(d, p.config)
  BY BoundFacts
<1>5. p.config.Driver # "" => p.original = BootDriver[d]
  OBVIOUS
<1> QED
  BY <1>1, <1>2, <1>3, <1>4, <1>5 DEF PreparedOK

\* PrepareDevicesForClaim, whatever configs it resolves.
LEMMA PrepareFacts ==
    ASSUME ConfigInv, Prepare
    PROVE  \E configOf :
              /\ driver' = [d \in Devices |-> Bound(d, configOf[d])]
              /\ prepared' = [d \in Devices |-> prepared'[d]]
              /\ \A d \in Devices :
                    /\ prepared[d] = NotPrepared /\ driver[d] = BootDriver[d]
                    /\ prepared'[d].config = configOf[d]
                    /\ prepared'[d].nodes = DeviceNodes(d, configOf[d])
                    /\ prepared'[d].original = IF configOf[d].Driver = "" THEN "" ELSE driver[d]
                    /\ PreparedOK(d, prepared'[d], driver'[d])
<1> DEFINE map == getMapOfOpaqueDeviceConfigForDevice(configs)
           configOf == [d \in Devices |-> ConfigFor(map, RequestOf[d])]
           at == [d \in Devices |-> CHOOSE i \in DOMAIN Results : Results[i] = d]
<1>1. /\ driver' = [d \in Devices |-> Bound(d, configOf[d])]
      /\ prepared' = [d \in Devices |->
             [config   |-> configOf[d],
              nodes    |-> DeviceNodes(d, configOf[d]),
              ifName   |-> IfName(at[d], configOf),
              original |-> IF configOf[d].Driver = "" THEN "" ELSE driver[d]]]
  BY DEF Prepare
<1> HIDE DEF configOf, at
<1>2. ASSUME NEW d \in Devices
      PROVE  prepared[d] = NotPrepared /\ driver[d] = BootDriver[d]
  <2>1. prepared[d] = NotPrepared /\ DeviceOK(d, prepared[d], driver[d])
    BY DEF Prepare, ConfigInv, HostInv
  <2>2. NotPrepared.config.Driver = ""
    BY DEF NotPrepared, DefaultVfConfig
  <2> QED
    BY <2>1, <2>2 DEF DeviceOK, PreparedOK, BoundFromBoot
<1>3. ASSUME NEW d \in Devices
      PROVE  /\ prepared'[d].config = configOf[d]
             /\ prepared'[d].nodes = DeviceNodes(d, configOf[d])
             /\ prepared'[d].original = IF configOf[d].Driver = "" THEN "" ELSE driver[d]
             /\ driver'[d] = Bound(d, configOf[d])
  BY <1>1
<1>4. \A d \in Devices : PreparedOK(d, prepared'[d], driver'[d])
  BY <1>2, <1>3, ApplyFacts
<1>5. prepared' = [d \in Devices |-> prepared'[d]]
  BY <1>1
<1> QED
  BY <1>1, <1>2, <1>3, <1>4, <1>5

\* Every step keeps the invariant.
LEMMA NextInv == ConfigInv /\ [Next]_vars => ConfigInv'
<1> SUFFICES ASSUME ConfigInv, [Next]_vars PROVE ConfigInv'
  OBVIOUS
<1>1. CASE AddConfig \/ UNCHANGED vars
  BY <1>1 DEF AddConfig, vars, ConfigInv, HostInv
<1>2. CASE Prepare
  <2>1. UNCHANGED <<rdmaCapable, missed>>
    BY <1>2 DEF Prepare
  <2>2. HostInv'
    BY <1>2, PrepareFacts DEF HostInv, DeviceOK
  <2> QED
    BY <2>1, <2>2 DEF ConfigInv
<1>3. CASE Unprepare
  <2>1. UNCHANGED <<rdmaCapable, missed>>
    BY <1>3 DEF Unprepare
  <2>2. ASSUME NEW d \in Devices
        PROVE  (IF prepared[d].config.Driver = "" THEN driver[d] ELSE prepared[d].original)
                   = BootDriver[d]
    <3>1. DeviceOK(d, prepared[d], driver[d])
      BY DEF ConfigInv, HostInv
    <3>2. NotPrepared.config.Driver = ""
      BY DEF NotPrepared, DefaultVfConfig
    <3> QED
      BY <3>1, <3>2 DEF DeviceOK, PreparedOK, BoundFromBoot
  <2>3. HostInv'
    BY <1>3, <2>2 DEF Unprepare, HostInv, DeviceOK
  <2> QED
    BY <2>1, <2>3 DEF ConfigInv
<1>4. CASE Restart
  <2>1. CapableOK(rdmaCapable', missed')
    BY <1>4, CapableFacts DEF Restart
  <2>2. HostInv'
    BY <1>4 DEF Restart, ConfigInv, HostInv
  <2> QED
    BY <2>1, <2>2 DEF ConfigInv
<1> QED
  BY <1>1, <1>2, <1>3, <1>4 DEF Next

\* The invariant of devices, drivers and capabilities.
THEOREM ConfigInvariant == Spec => []ConfigInv
BY InitInv, NextInv, PTL DEF Spec
-------------------------------------------------------------------------------
\* The device nodes of a container and the driver of its device belong together.
LEMMA NodesOfPrepared ==
    ASSUME NEW d \in Devices, NEW p, NEW b, PreparedOK(d, p, b)
    PROVE  LET vfio == {n \in p.nodes : IsVfio(n)}
           IN  /\ vfio # {} => /\ b = "vfio-pci"
                               /\ {GetVFIODeviceFile(d), Node("vfio")} \subseteq vfio
                               /\ Node("rdma") \notin p.nodes
               /\ b = "vfio-pci" => vfio # {} \/ BootDriver[d] = "vfio-pci"
<1> DEFINE vfio == {n \in p.nodes : IsVfio(n)}
           vhost == IF p.config.AddVhostMount THEN {Node("vhost-net"), Node("tun")} ELSE {}
<1>1. PICK rdma \in SUBSET {Node("rdma")} :
          /\ p.nodes = (IF p.config.Driver = "vfio-pci" THEN VfioNodes(d) ELSE {}) \cup vhost \cup rdma
          /\ rdma # {} => b = VendorDriver[d]
  BY DEF PreparedOK
<1>2. VendorDriver[d] # "vfio-pci"
  BY ConfigAssumption
<1>3. ~IsVfio(Node("rdma")) /\ \A n \in vhost : ~IsVfio(n)
  BY DEF IsVfio, Node
<1>4. \A n \in VfioNodes(d) : IsVfio(n) /\ n # Node("rdma")
  BY DEF VfioNodes, GetVFIODeviceFile, GetVFIOCdevPath, Node, IsVfio
<1>5. \A n \in vhost : n # Node("rdma")
  BY DEF Node
<1>6. {GetVFIODeviceFile(d), Node("vfio")} \subseteq VfioNodes(d)
  BY DEF VfioNodes
<1> HIDE DEF vhost
<1>7. CASE p.config.Driver = "vfio-pci"
  <2>1. b = "vfio-pci"
    BY <1>7 DEF PreparedOK, BoundFromBoot
  <2>2. rdma = {}
    BY <1>1, <1>2, <2>1
  <2> QED
    BY <1>1, <1>3, <1>4, <1>5, <1>6, <1>7, <2>1, <2>2
<1>8. CASE p.config.Driver # "vfio-pci"
  <2>1. vfio = {}
    BY <1>1, <1>3, <1>8
  <2>2. b = "vfio-pci" => BootDriver[d] = "vfio-pci"
    <3>1. CASE p.config.Driver = ""
      BY <3>1 DEF PreparedOK, BoundFromBoot
    <3>2. CASE p.config.Driver = "default"
      BY <1>2, <3>2 DEF PreparedOK, BoundFromBoot
    <3>3. CASE p.config.Driver # "" /\ p.config.Driver # "default"
      BY <1>8, <3>3 DEF PreparedOK, BoundFromBoot
    <3> QED
      BY <3>1, <3>2, <3>3
  <2> QED
    BY <2>1, <2>2
<1> QED
  BY <1>7, <1>8

\* Whatever claims had a device before, and however often the driver restarted:
\* a container gets VFIO nodes exactly for a device that is on vfio-pci for it.
THEOREM NodesMatchTheDriver == Spec => []NodesMatchDriver
<1>1. ConfigInv => NodesMatchDriver
  <2> SUFFICES ASSUME ConfigInv, NEW d \in InUse
               PROVE  LET vfio == {n \in prepared[d].nodes : IsVfio(n)}
                      IN  /\ vfio # {} => /\ driver[d] = "vfio-pci"
                                          /\ {GetVFIODeviceFile(d), Node("vfio")} \subseteq vfio
                                          /\ Node("rdma") \notin prepared[d].nodes
                          /\ driver[d] = "vfio-pci" => vfio # {} \/ BootDriver[d] = "vfio-pci"
    BY DEF NodesMatchDriver
  <2>1. d \in Devices /\ PreparedOK(d, prepared[d], driver[d])
    BY DEF InUse, ConfigInv, HostInv, DeviceOK
  <2> QED
    BY <2>1, NodesOfPrepared
<1> QED
  BY <1>1, ConfigInvariant, PTL

\* A device prepared on its vendor driver comes with its RDMA devices, unless
\* the last discovery met it on another driver.
THEOREM RdmaComesBackWithVendorDriver == Spec => RdmaComesBack
<1> DEFINE A == \A d \in Devices \ missed :
                    prepared[d] = NotPrepared /\ prepared'[d] # NotPrepared
                    /\ driver'[d] = VendorDriver[d] /\ RdmaDevices[d] > 0
                        => Node("rdma") \in prepared'[d].nodes
<1>1. ConfigInv /\ [Next]_vars => [A]_vars
  <2> SUFFICES ASSUME ConfigInv, Next, NEW d \in Devices \ missed,
                      prepared[d] = NotPrepared, prepared'[d] # NotPrepared,
                      driver'[d] = VendorDriver[d], RdmaDevices[d] > 0
               PROVE  Node("rdma") \in prepared'[d].nodes
    OBVIOUS
  <2>1. Prepare
    BY DEF Next, AddConfig, Unprepare, Restart
  <2>2. PICK configOf :
            /\ driver' = [e \in Devices |-> Bound(e, configOf[e])]
            /\ \A e \in Devices : prepared'[e].nodes = DeviceNodes(e, configOf[e])
    BY <2>1, PrepareFacts
  <2>3. d \in rdmaCapable
    BY DEF ConfigInv, CapableOK
  <2>4. GetRDMADevicesForPCI(d, Bound(d, configOf[d])) > 0
    BY <2>2 DEF GetRDMADevicesForPCI
  <2>5. Node("rdma") \in RdmaNodes(d, Bound(d, configOf[d]))
    BY <2>3, <2>4 DEF RdmaNodes
  <2> QED
    BY <2>2, <2>5 DEF DeviceNodes
<1> QED
  BY <1>1, ConfigInvariant, PTL DEF Spec, RdmaComesBack
-------------------------------------------------------------------------------
(***************************************************************************)
(* Induction.  The set of numbers for which a claim fails has no least     *)
(* element, so it is empty.                                                *)
(***************************************************************************)

\* A set of failing steps that has neither the first step nor one that follows
\* a good one is empty.
LEMMA NoFirstFailure ==
    ASSUME NEW n \in Nat, NEW Bad, Bad \subseteq 0..n, 0 \notin Bad,
           \A m \in 1..n : m - 1 \notin Bad => m \notin Bad
    PROVE  Bad = {}
<1> SUFFICES ASSUME Bad # {} PROVE FALSE
  OBVIOUS
<1>1. Bad \subseteq Nat
  OBVIOUS
<1>2. \E x \in Bad : \A y \in Bad : ~(<<y, x>> \in OpToRel(<, Nat))
  BY <1>1, WFMin, NatLessThanWellFounded, Zenon
<1>3. PICK x \in Bad : \A y \in Bad : ~(<<y, x>> \in OpToRel(<, Nat))
  BY <1>2, Zenon
<1>4. x \in 1..n /\ x - 1 \in Nat /\ x - 1 < x
  OBVIOUS
<1>5. x - 1 \in Bad
  BY <1>4
<1>6. <<x - 1, x>> \in Nat \X Nat
  BY <1>4
<1>7. <<x - 1, x>> \in OpToRel(<, Nat)
  BY <1>4, <1>6 DEF OpToRel
<1> QED
  BY <1>3, <1>5, <1>7, Zenon

\* One step of the loop over the configs of a source.
MergeStep(cs, source, before, i) ==
    IF cs[i].source = source THEN Merged(before, cs[i]) ELSE before

\* f[i] is the map after the first i configs.
IsLoop(f, cs, source, before, n) ==
    /\ f = [i \in 0..n |-> f[i]]
    /\ \A i \in 0..n : f[i] = IF i = 0 THEN before ELSE MergeStep(cs, source, f[i - 1], i)

\* The loop has a value after each of the first n configs.
LEMMA LoopExists ==
    ASSUME NEW cs, NEW source, NEW before, NEW n \in Nat
    PROVE  \E f : IsLoop(f, cs, source, before, n)
<1> DEFINE Runs(f, m) == IsLoop(f, cs, source, before, m)
           Bad == {m \in 0..n : ~\E f : Runs(f, m)}
<1>1. 0 \notin Bad
  <2>1. Runs([i \in 0..0 |-> before], 0)
    BY DEF IsLoop
  <2> QED
    BY <2>1
<1>2. ASSUME NEW m \in 1..n, m - 1 \notin Bad
      PROVE  m \notin Bad
  <2>1. m - 1 \in 0..n
    OBVIOUS
  <2>2. PICK f : Runs(f, m - 1)
    BY <1>2, <2>1
  <2> DEFINE g == [i \in 0..m |-> IF i < m THEN f[i] ELSE MergeStep(cs, source, f[m - 1], m)]
  <2>3. \A i \in 0..(m - 1) : g[i] = f[i]
    OBVIOUS
  <2>4. \A i \in 0..(m - 1) : f[i] = IF i = 0 THEN before ELSE MergeStep(cs, source, f[i - 1], i)
    BY <2>2 DEF IsLoop
  <2>5. ASSUME NEW i \in 0..m
        PROVE  g[i] = IF i = 0 THEN before ELSE MergeStep(cs, source, g[i - 1], i)
    <3>1. CASE i = m
      <4>1. g[i] = MergeStep(cs, source, f[m - 1], m) /\ g[m - 1] = f[m - 1] /\ i # 0
        BY <3>1
      <4> QED
        BY <3>1, <4>1
    <3>2. CASE i # m
      <4>1. i \in 0..(m - 1) /\ (i # 0 => i - 1 \in 0..(m - 1))
        BY <3>2
      <4>2. g[i] = f[i] /\ (i # 0 => g[i - 1] = f[i - 1])
        BY <2>3, <4>1
      <4> QED
        BY <2>4, <4>1, <4>2
    <3> QED
      BY <3>1, <3>2
  <2>6. g = [i \in 0..m |-> g[i]]
    OBVIOUS
  <2> HIDE DEF g
  <2>7. Runs(g, m)
    BY <2>5, <2>6 DEF IsLoop
  <2> QED
    BY <2>7
<1>3. Bad = {}
  <2> HIDE DEF Bad
  <2>1. Bad \subseteq 0..n
    BY DEF Bad
  <2> QED
    BY <1>1, <1>2, <2>1, NoFirstFailure
<1> QED
  BY <1>3

\* What the loop over the configs of a source computes, config by config.
LEMMA LoopFacts ==
    ASSUME NEW cs, Len(cs) \in Nat, NEW source, NEW before
    PROVE  \E f : /\ f[0] = before
                  /\ \A i \in 1..Len(cs) : f[i] = MergeStep(cs, source, f[i - 1], i)
                  /\ MergeAll(cs, source, before) = f[Len(cs)]
<1> DEFINE Body(f, i) == IF i = 0 THEN before
                         ELSE IF cs[i].source = source THEN Merged(f[i - 1], cs[i])
                         ELSE f[i - 1]
           F == CHOOSE f : f = [i \in 0..Len(cs) |-> Body(f, i)]
<1>1. \E f : f = [i \in 0..Len(cs) |-> Body(f, i)]
  <2> HIDE DEF F
  <2>1. PICK f : IsLoop(f, cs, source, before, Len(cs))
    BY LoopExists
  <2>2. \A i \in 0..Len(cs) : f[i] = Body(f, i)
    BY <2>1 DEF IsLoop, MergeStep
  <2>3. f = [i \in 0..Len(cs) |-> Body(f, i)]
    BY <2>1, <2>2 DEF IsLoop
  <2> QED
    BY <2>3
<1>2. F = [i \in 0..Len(cs) |-> Body(F, i)]
  BY <1>1
<1>3. MergeAll(cs, source, before) = F[Len(cs)]
  BY DEF MergeAll
<1> HIDE DEF F
<1>4. F[0] = before
  BY <1>2
<1>5. ASSUME NEW i \in 1..Len(cs)
      PROVE  F[i] = MergeStep(cs, source, F[i - 1], i)
  <2>1. i \in 0..Len(cs) /\ i # 0
    OBVIOUS
  <2>2. F[i] = Body(F, i)
    BY <1>2, <2>1
  <2> QED
    BY <2>1, <2>2 DEF MergeStep
<1> QED
  BY <1>3, <1>4, <1>5
-------------------------------------------------------------------------------
(***************************************************************************)
(* Precedence                                                              *)
(***************************************************************************)

\* The configs of S that set the field f for the key r of the map.
SettingFor(S, r, f) ==
    {j \in S : configs[j].driver = "this" /\ r \in Named(configs[j]) /\ configs[j].config[f] # ""}

\* A value is that of the config of highest precedence among those that set the field.
Wins(setting, f, value) ==
    IF setting = {} THEN value = ""
    ELSE \E i \in setting : (\A j \in setting : Over(i, j)) /\ value = configs[i].config[f]

\* The map made of the configs in S.
MapOf(m, S) ==
    /\ \A r : r \in DOMAIN m <=> \E j \in S : configs[j].driver = "this" /\ r \in Named(configs[j])
    /\ \A r \in DOMAIN m :
          /\ DOMAIN m[r] = DOMAIN DefaultVfConfig
          /\ \A f \in Overridden : Wins(SettingFor(S, r, f), f, m[r][f])

\* DefaultVfConfig sets no field.
LEMMA DefaultUnset == \A f \in Overridden : DefaultVfConfig[f] = ""
<1>1. DefaultVfConfig["Driver"] = "" /\ DefaultVfConfig["IfName"] = ""
      /\ DefaultVfConfig["NetAttachDefName"] = ""
  BY DEF DefaultVfConfig
<1> QED
  BY <1>1 DEF Overridden

\* VfConfig.Override: a field that is set replaces the one before.
LEMMA OverrideFacts ==
    ASSUME NEW c, NEW other, DOMAIN c = DOMAIN DefaultVfConfig
    PROVE  /\ DOMAIN Override(c, other) = DOMAIN DefaultVfConfig
           /\ \A f \in Overridden : Override(c, other)[f] = IF other[f] # "" THEN other[f] ELSE c[f]
BY DEF Override, Overridden, DefaultVfConfig

\* One config that takes precedence over all before it.
LEMMA MergedFacts ==
    ASSUME NEW m, NEW S, MapOf(m, S), NEW k, \A j \in S \cup {k} : Over(k, j)
    PROVE  MapOf(Merged(m, configs[k]), S \cup {k})
<1> DEFINE T == S \cup {k}
<1>1. CASE configs[k].driver # "this"
  <2>1. Merged(m, configs[k]) = m
    BY <1>1 DEF Merged
  <2>2. \A r, f : SettingFor(T, r, f) = SettingFor(S, r, f)
    BY <1>1 DEF SettingFor
  <2>3. \A r : r \in DOMAIN m <=> \E j \in T : configs[j].driver = "this" /\ r \in Named(configs[j])
    BY <1>1 DEF MapOf
  <2> QED
    BY <2>1, <2>2, <2>3 DEF MapOf
<1>2. CASE configs[k].driver = "this"
  <2> DEFINE Found(r) == IF r \in DOMAIN m THEN m[r] ELSE DefaultVfConfig
             new == Merged(m, configs[k])
  <2>1. new = [r \in DOMAIN m \cup Named(configs[k]) |->
                  IF r \in Named(configs[k]) THEN Override(Found(r), configs[k].config) ELSE m[r]]
    BY <1>2 DEF Merged
  <2> HIDE DEF new
  <2>2. \A r : r \in DOMAIN new <=> \E j \in T : configs[j].driver = "this" /\ r \in Named(configs[j])
    BY <1>2, <2>1 DEF MapOf
  <2>3. ASSUME NEW r \in DOMAIN new, r \notin Named(configs[k])
        PROVE  /\ DOMAIN new[r] = DOMAIN DefaultVfConfig
               /\ \A f \in Overridden : Wins(SettingFor(T, r, f), f, new[r][f])
    <3>1. r \in DOMAIN m /\ new[r] = m[r]
      BY <2>1, <2>3
    <3>2. \A f : SettingFor(T, r, f) = SettingFor(S, r, f)
      BY <2>3 DEF SettingFor
    <3> QED
      BY <3>1, <3>2 DEF MapOf
  <2>4. ASSUME NEW r \in DOMAIN new, r \in Named(configs[k])
        PROVE  /\ DOMAIN new[r] = DOMAIN DefaultVfConfig
               /\ \A f \in Overridden : Wins(SettingFor(T, r, f), f, new[r][f])
    <3>1. new[r] = Override(Found(r), configs[k].config)
      BY <2>1, <2>4
    <3>2. DOMAIN Found(r) = DOMAIN DefaultVfConfig
      BY DEF MapOf
    <3>3. \A f \in Overridden : Wins(SettingFor(S, r, f), f, Found(r)[f])
      <4>1. CASE r \in DOMAIN m
        BY <4>1 DEF MapOf
      <4>2. CASE r \notin DOMAIN m
        <5>1. \A f : SettingFor(S, r, f) = {}
          BY <4>2 DEF MapOf, SettingFor
        <5>2. \A f \in Overridden : Found(r)[f] = ""
          BY <4>2, DefaultUnset
        <5> QED
          BY <5>1, <5>2 DEF Wins
      <4> QED
        BY <4>1, <4>2
    <3> DEFINE old == Found(r)
    <3> HIDE DEF Found, old
    <3>9. /\ DOMAIN Override(old, configs[k].config) = DOMAIN DefaultVfConfig
          /\ \A f \in Overridden : Override(old, configs[k].config)[f] =
                 IF configs[k].config[f] # "" THEN configs[k].config[f] ELSE old[f]
      BY <3>2, OverrideFacts DEF old
    <3>4. ASSUME NEW f \in Overridden
          PROVE  Wins(SettingFor(T, r, f), f, new[r][f])
      <4>1. CASE configs[k].config[f] # ""
        <5>1. k \in SettingFor(T, r, f)
          BY <1>2, <2>4, <4>1 DEF SettingFor
        <5>2. \A j \in SettingFor(T, r, f) : Over(k, j)
          BY DEF SettingFor
        <5>3. new[r][f] = configs[k].config[f]
          BY <3>1, <3>9, <4>1 DEF old
        <5> QED
          BY <5>1, <5>2, <5>3 DEF Wins
      <4>2. CASE configs[k].config[f] = ""
        <5>1. SettingFor(T, r, f) = SettingFor(S, r, f)
          BY <4>2 DEF SettingFor
        <5>2. new[r][f] = Found(r)[f]
          BY <3>1, <3>9, <4>2 DEF old
        <5> QED
          BY <3>3, <5>1, <5>2
      <4> QED
        BY <4>1, <4>2
    <3>5. DOMAIN new[r] = DOMAIN DefaultVfConfig
      BY <3>1, <3>9 DEF old
    <3> QED
      BY <3>4, <3>5
  <2> QED
    BY <2>2, <2>3, <2>4 DEF MapOf, new
<1> QED
  BY <1>1, <1>2

\* The configs of a source.
From(source) == {j \in 1..Len(configs) : configs[j].source = source}

\* The loop over the configs of a source, where these take precedence over those before.
LEMMA MergeAllFacts ==
    ASSUME Len(configs) \in Nat, NEW source, NEW before, NEW S, MapOf(before, S),
           \A k \in From(source), j \in S : Over(k, j)
    PROVE  MapOf(MergeAll(configs, source, before), S \cup From(source))
<1> DEFINE n == Len(configs)
           Done(i) == S \cup {j \in 1..i : configs[j].source = source}
<1>1. PICK f : /\ f[0] = before
               /\ \A i \in 1..n : f[i] = MergeStep(configs, source, f[i - 1], i)
               /\ MergeAll(configs, source, before) = f[n]
  BY LoopFacts
<1> DEFINE Bad == {i \in 0..n : ~MapOf(f[i], Done(i))}
<1>2. 0 \notin Bad
  <2>1. Done(0) = S
    OBVIOUS
  <2> QED
    BY <1>1, <2>1
<1>3. ASSUME NEW m \in 1..n, m - 1 \notin Bad
      PROVE  m \notin Bad
  <2>1. m - 1 \in 0..n
    OBVIOUS
  <2>2. MapOf(f[m - 1], Done(m - 1))
    BY <1>3, <2>1
  <2>3. f[m] = MergeStep(configs, source, f[m - 1], m)
    BY <1>1
  <2>4. CASE configs[m].source = source
    <3>1. Done(m) = Done(m - 1) \cup {m}
      BY <2>4
    <3>2. \A j \in Done(m - 1) \cup {m} : Over(m, j)
      <4>1. m \in From(source)
        BY <2>4 DEF From
      <4>2. ASSUME NEW j \in 1..m, configs[j].source = source
            PROVE  Over(m, j)
        BY <2>4, <4>2 DEF Over
      <4> QED
        BY <2>4, <4>1, <4>2
    <3>3. f[m] = Merged(f[m - 1], configs[m])
      BY <2>3, <2>4 DEF MergeStep
    <3> HIDE DEF Done
    <3>4. MapOf(Merged(f[m - 1], configs[m]), Done(m - 1) \cup {m})
      BY <2>2, <3>2, MergedFacts
    <3>5. MapOf(f[m], Done(m))
      BY <3>1, <3>3, <3>4
    <3> QED
      BY <3>5
  <2>5. CASE configs[m].source # source
    <3>1. Done(m) = Done(m - 1)
      BY <2>5
    <3>2. f[m] = f[m - 1]
      BY <2>3, <2>5 DEF MergeStep
    <3> QED
      BY <2>2, <3>1, <3>2
  <2> QED
    BY <2>4, <2>5
<1>4. Bad = {}
  <2> HIDE DEF Bad
  <2>1. Bad \subseteq 0..n
    BY DEF Bad
  <2> QED
    BY <1>2, <1>3, <2>1, NoFirstFailure
<1>5. MapOf(f[n], Done(n))
  <2>1. n \in 0..n
    OBVIOUS
  <2>2. n \notin Bad
    <3> HIDE DEF Bad
    <3> QED
      BY <1>4
  <2> HIDE DEF Done, n
  <2> QED
    BY <2>1, <2>2
<1>6. Done(n) = S \cup From(source)
  BY DEF From
<1> QED
  BY <1>1, <1>5, <1>6

\* getMapOfOpaqueDeviceConfigForDevice, where it returns no error.
LEMMA MapFacts ==
    ASSUME Len(configs) \in Nat, DOMAIN configs = 1..Len(configs), Resolvable(configs)
    PROVE  MapOf(getMapOfOpaqueDeviceConfigForDevice(configs), DOMAIN configs)
<1> DEFINE class == MergeAll(configs, "class", NoConfigs)
<1>1. MapOf(NoConfigs, {})
  BY DEF MapOf, NoConfigs
<1>2. MapOf(class, From("class"))
  <2>1. MapOf(class, {} \cup From("class"))
    BY <1>1, MergeAllFacts
  <2> QED
    BY <2>1
<1> HIDE DEF class
<1>3. \A k \in From("claim"), j \in From("class") : Over(k, j)
  BY DEF From, Over
<1>4. MapOf(MergeAll(configs, "claim", class), From("class") \cup From("claim"))
  BY <1>2, <1>3, MergeAllFacts
<1>5. From("class") \cup From("claim") = DOMAIN configs
  BY DEF From, Resolvable
<1> QED
  BY <1>4, <1>5 DEF getMapOfOpaqueDeviceConfigForDevice, class

\* The configs that prepareDevices takes into account for a request: those that name
\* it and, only where none does, those that name none.
Reaching(request) ==
    LET naming == {i \in DOMAIN configs : configs[i].driver = "this" /\ request \in configs[i].requests}
    IN  IF naming # {} THEN naming
        ELSE {i \in DOMAIN configs : configs[i].driver = "this" /\ configs[i].requests = {}}

\* What a device of the request is prepared with.
ConfigOK(request, config) ==
    /\ DOMAIN config = DOMAIN DefaultVfConfig
    /\ \A f \in Overridden :
          Wins({i \in Reaching(request) : configs[i].config[f] # ""}, f, config[f])

\* The config of a request: by precedence among the configs that name it or, if
\* there is none, among those that name no request.
LEMMA ConfigForFacts ==
    ASSUME NEW m, MapOf(m, DOMAIN configs), NEW request, request # "",
           \A i \in DOMAIN configs : "" \notin configs[i].requests
    PROVE  ConfigOK(request, ConfigFor(m, request))
<1>1. \A i \in DOMAIN configs : request \in Named(configs[i]) <=> request \in configs[i].requests
  BY DEF Named
<1>2. \A i \in DOMAIN configs : "" \in Named(configs[i]) <=> configs[i].requests = {}
  BY DEF Named
<1> DEFINE naming == {i \in DOMAIN configs : configs[i].driver = "this" /\ request \in configs[i].requests}
           all == {i \in DOMAIN configs : configs[i].driver = "this" /\ configs[i].requests = {}}
<1>3. Reaching(request) = IF naming # {} THEN naming ELSE all
  BY DEF Reaching
<1>4. request \in DOMAIN m <=> naming # {}
  BY <1>1 DEF MapOf
<1>5. "" \in DOMAIN m <=> all # {}
  BY <1>2 DEF MapOf
<1>6. CASE request \in DOMAIN m
  <2>1. ConfigFor(m, request) = m[request]
    BY <1>6 DEF ConfigFor
  <2>2. \A f : {i \in Reaching(request) : configs[i].config[f] # ""} = SettingFor(DOMAIN configs, request, f)
    BY <1>1, <1>3, <1>4, <1>6 DEF SettingFor
  <2> QED
    BY <1>6, <2>1, <2>2 DEF MapOf, ConfigOK
<1>7. CASE request \notin DOMAIN m /\ "" \in DOMAIN m
  <2>1. ConfigFor(m, request) = m[""]
    BY <1>7 DEF ConfigFor
  <2>2. \A f : {i \in Reaching(request) : configs[i].config[f] # ""} = SettingFor(DOMAIN configs, "", f)
    BY <1>2, <1>3, <1>4, <1>7 DEF SettingFor
  <2> QED
    BY <1>7, <2>1, <2>2 DEF MapOf, ConfigOK
<1>8. CASE request \notin DOMAIN m /\ "" \notin DOMAIN m
  <2>1. ConfigFor(m, request) = DefaultVfConfig
    BY <1>8 DEF ConfigFor
  <2>2. Reaching(request) = {}
    BY <1>3, <1>4, <1>5, <1>8
  <2> QED
    BY <2>1, <2>2, DefaultUnset DEF ConfigOK, Wins
<1> QED
  BY <1>6, <1>7, <1>8
-------------------------------------------------------------------------------
(***************************************************************************)
(* The configs of the claim, and what its devices were prepared with       *)
(***************************************************************************)

ListInv ==
    /\ configs \in Seq(ConfigChoices) /\ Len(configs) <= MaxConfigs
    /\ restarts \in 0..MaxRestarts

\* What a device was prepared with.
ResolvedOK(d, p) ==
    ConfigOK(RequestOf[d], p.config) /\ (p.ifName # <<>> \/ ~Standalone)

ResolvedInv == \A d \in Devices : prepared[d] = NotPrepared \/ ResolvedOK(d, prepared[d])

\* The bounds are numbers.
LEMMA Bounds == MaxConfigs \in Nat /\ MaxRestarts \in Nat
BY ConfigAssumption

\* As long as the configs are not changed, what was right stays right.
LEMMA SameConfigs ==
    ASSUME UNCHANGED configs, NEW d, NEW p, ResolvedOK(d, p)
    PROVE  ResolvedOK(d, p)'
<1>1. \A i, j : Over(i, j)' <=> Over(i, j)
  BY DEF Over
<1>2. \A setting, f, value : Wins(setting, f, value)' <=> Wins(setting, f, value)
  BY <1>1 DEF Wins
<1>3. \A r : Reaching(r)' = Reaching(r)
  BY DEF Reaching
<1> QED
  BY <1>2, <1>3 DEF ResolvedOK, ConfigOK

\* generateIfName: in STANDALONE mode every device has a name.
LEMMA IfNameGiven ==
    ASSUME NEW i, NEW configOf
    PROVE  IfName(i, configOf) # <<>> \/ ~Standalone
<1>1. Standalone \in BOOLEAN
  BY ConfigAssumption
<1>2. CASE configOf[Results[i]].IfName # ""
  BY <1>2 DEF IfName
<1>3. CASE configOf[Results[i]].IfName = "" /\ Standalone
  BY <1>3 DEF IfName
<1> QED
  BY <1>1, <1>2, <1>3

\* prepareDevices gives every device what its configs resolve to.
LEMMA PrepareResolved ==
    ASSUME ListInv, Prepare
    PROVE  ResolvedInv'
<1> DEFINE map == getMapOfOpaqueDeviceConfigForDevice(configs)
           configOf == [d \in Devices |-> ConfigFor(map, RequestOf[d])]
           at == [d \in Devices |-> CHOOSE i \in DOMAIN Results : Results[i] = d]
<1>1. /\ prepared' = [d \in Devices |->
             [config   |-> configOf[d],
              nodes    |-> DeviceNodes(d, configOf[d]),
              ifName   |-> IfName(at[d], configOf),
              original |-> IF configOf[d].Driver = "" THEN "" ELSE driver[d]]]
      /\ UNCHANGED configs
      /\ Resolvable(configs)
  BY DEF Prepare
<1>2. /\ Len(configs) \in Nat /\ DOMAIN configs = 1..Len(configs)
      /\ \A i \in DOMAIN configs : "" \notin configs[i].requests
  <2>1. configs \in Seq(ConfigChoices)
    BY DEF ListInv
  <2>2. \A c \in ConfigChoices : "" \notin c.requests
    BY ConfigAssumption
  <2>3. Len(configs) \in Nat /\ DOMAIN configs = 1..Len(configs)
    BY <2>1
  <2>4. \A i \in DOMAIN configs : configs[i] \in ConfigChoices
    BY <2>1
  <2> QED
    BY <2>2, <2>3, <2>4
<1>3. MapOf(map, DOMAIN configs)
  BY <1>1, <1>2, MapFacts
<1> HIDE DEF map
<1>4. ASSUME NEW d \in Devices
      PROVE  ConfigOK(RequestOf[d], configOf[d])
  <2>1. RequestOf[d] # ""
    BY ConfigAssumption
  <2>2. ConfigOK(RequestOf[d], ConfigFor(map, RequestOf[d]))
    BY <1>2, <1>3, <2>1, ConfigForFacts
  <2> QED
    BY <2>2
<1> HIDE DEF configOf, at
<1>5. ASSUME NEW d \in Devices
      PROVE  ResolvedOK(d, prepared[d])'
  <2>1. prepared'[d].config = configOf[d] /\ prepared'[d].ifName = IfName(at[d], configOf)
    BY <1>1
  <2>2. ASSUME NEW p, p = prepared'[d] PROVE ResolvedOK(d, p)
    BY <1>4, <2>1, <2>2, IfNameGiven DEF ResolvedOK
  <2>3. PICK p : p = prepared'[d]
    OBVIOUS
  <2>4. ResolvedOK(d, p)'
    BY <1>1, <2>2, <2>3, SameConfigs
  <2> QED
    BY <2>3, <2>4
<1> QED
  BY <1>5 DEF ResolvedInv

\* Claims come and go, configs are added, the driver restarts: what was resolved stays.
LEMMA ResolvedNext == ListInv /\ ResolvedInv /\ [Next]_vars => ListInv' /\ ResolvedInv'
<1> SUFFICES ASSUME ListInv, ResolvedInv, [Next]_vars PROVE ListInv' /\ ResolvedInv'
  OBVIOUS
<1>1. ASSUME UNCHANGED <<configs, prepared>> PROVE ResolvedInv'
  BY <1>1, SameConfigs DEF ResolvedInv
<1>2. CASE UNCHANGED vars
  BY <1>1, <1>2 DEF vars, ListInv
<1>3. CASE AddConfig
  <2>1. ListInv'
    <3>1. PICK c \in ConfigChoices : configs' = Append(configs, c)
      BY <1>3 DEF AddConfig
    <3>2. configs' \in Seq(ConfigChoices) /\ Len(configs') = Len(configs) + 1
      BY <3>1 DEF ListInv
    <3>3. Len(configs) < MaxConfigs /\ Len(configs) \in Nat /\ UNCHANGED restarts
      BY <1>3 DEF AddConfig, ListInv
    <3> QED
      BY <3>2, <3>3, Bounds DEF ListInv
  <2>2. ResolvedInv'
    BY <1>3 DEF AddConfig, ResolvedInv
  <2> QED
    BY <2>1, <2>2
<1>4. CASE Prepare
  BY <1>4, PrepareResolved DEF Prepare, ListInv
<1>5. CASE Unprepare
  <2>1. ListInv'
    <3>1. configs' = <<>> /\ UNCHANGED restarts
      BY <1>5 DEF Unprepare
    <3> QED
      BY <3>1, Bounds DEF ListInv
  <2>2. ResolvedInv'
    BY <1>5 DEF Unprepare, ResolvedInv
  <2> QED
    BY <2>1, <2>2
<1>6. CASE Restart
  <2>1. ListInv'
    BY <1>6, Bounds DEF Restart, ListInv
  <2> QED
    BY <1>1, <1>6, <2>1 DEF Restart
<1> QED
  BY <1>2, <1>3, <1>4, <1>5, <1>6 DEF Next

\* Every device of the claim is prepared with what its configs resolve to.
THEOREM ResolvedInvariant == Spec => [](ListInv /\ ResolvedInv)
<1>1. Init => ListInv /\ ResolvedInv
  BY Bounds DEF Init, ListInv, ResolvedInv
<1> QED
  BY <1>1, ResolvedNext, PTL DEF Spec

\* A config that reaches a request applies to it, and reaches it together with every
\* config of the same reach that applies.
LEMMA ReachingFacts ==
    ASSUME NEW request
    PROVE  /\ Reaching(request) \subseteq Applying(request)
           /\ \A i \in Reaching(request), j \in Applying(request) :
                 SameReach(i, j) => j \in Reaching(request)
           /\ Reaching(request) = {} => Applying(request) = {}
<1> DEFINE naming == {i \in DOMAIN configs : configs[i].driver = "this" /\ request \in configs[i].requests}
           all == {i \in DOMAIN configs : configs[i].driver = "this" /\ configs[i].requests = {}}
<1>1. Applying(request) = naming \cup all
  BY DEF Applying
<1>2. Reaching(request) = IF naming # {} THEN naming ELSE all
  BY DEF Reaching
<1>3. \A i \in naming : configs[i].requests # {}
  OBVIOUS
<1>4. \A j \in Applying(request) : IF configs[j].requests = {} THEN j \in all ELSE j \in naming
  BY DEF Applying
<1>5. \A i \in all : configs[i].requests = {}
  OBVIOUS
<1> HIDE DEF naming, all
<1>6. CASE naming # {}
  <2>1. Reaching(request) = naming
    BY <1>2, <1>6
  <2> QED
    BY <1>1, <1>3, <1>4, <1>6, <2>1 DEF SameReach
<1>7. CASE naming = {}
  <2>1. Reaching(request) = all
    BY <1>2, <1>7
  <2> QED
    BY <1>1, <1>4, <1>5, <1>7, <2>1 DEF SameReach
<1> QED
  BY <1>6, <1>7

\* For any list of configs, in any order and of any length: a driver, an interface
\* name or a network that a device was prepared with has precedence over what every
\* other config of the same reach sets, and is missing only where configs of one
\* reach are ignored for one of the other.
THEOREM PrecedenceWithinReach == Spec => []ConfigPrecedence
<1>1. ResolvedInv => ConfigPrecedence
  <2> SUFFICES ASSUME ResolvedInv, NEW d \in InUse, NEW f \in Overridden
               PROVE  LET value == prepared[d].config[f]
                      IN  /\ value # "" => \E i \in Setting(d, f) :
                                /\ value = configs[i].config[f]
                                /\ \A j \in Setting(d, f) : SameReach(i, j) => Over(i, j)
                          /\ value = "" => \A j \in Setting(d, f) :
                                \E i \in Applying(RequestOf[d]) \ Setting(d, f) : ~SameReach(i, j)
    BY DEF ConfigPrecedence
  <2> DEFINE request == RequestOf[d]
             value == prepared[d].config[f]
             reaching == {i \in Reaching(request) : configs[i].config[f] # ""}
  <2>1. ConfigOK(request, prepared[d].config)
    BY DEF ResolvedInv, InUse, ResolvedOK
  <2>2. Wins(reaching, f, value)
    BY <2>1 DEF ConfigOK
  <2>3. Setting(d, f) = {i \in Applying(request) : configs[i].config[f] # ""}
    BY DefaultUnset DEF Setting
  <2>4. ASSUME value # ""
        PROVE  \E i \in Setting(d, f) :
                  /\ value = configs[i].config[f]
                  /\ \A j \in Setting(d, f) : SameReach(i, j) => Over(i, j)
    <3>1. PICK i \in reaching : /\ \A j \in reaching : Over(i, j)
                                /\ value = configs[i].config[f]
      BY <2>2, <2>4 DEF Wins
    <3>2. i \in Setting(d, f)
      BY <2>3, ReachingFacts
    <3>3. ASSUME NEW j \in Setting(d, f), SameReach(i, j) PROVE Over(i, j)
      <4>1. j \in reaching
        BY <2>3, <3>3, ReachingFacts
      <4> QED
        BY <3>1, <4>1
    <3> QED
      BY <3>1, <3>2, <3>3
  <2>5. ASSUME value = "", NEW j \in Setting(d, f)
        PROVE  \E i \in Applying(request) \ Setting(d, f) : ~SameReach(i, j)
    <3>1. reaching = {}
      BY <2>2, <2>5 DEF Wins
    <3>2. PICK i : i \in Reaching(request)
      BY <2>3, <2>5, ReachingFacts
    <3>3. i \in Applying(request) /\ i \notin Setting(d, f)
      BY <2>3, <3>1, <3>2, ReachingFacts
    <3>4. ~SameReach(i, j)
      <4> SUFFICES ASSUME SameReach(i, j) PROVE FALSE
        OBVIOUS
      <4>1. j \in Reaching(request)
        BY <2>3, <2>5, <3>2, ReachingFacts
      <4> QED
        BY <2>3, <2>5, <3>1, <4>1
    <3> QED
      BY <3>3, <3>4
  <2> QED
    BY <2>4, <2>5
<1> QED
  BY <1>1, ResolvedInvariant, PTL

\* The device a claim has taken is on a driver, not on a name for none or for the default.
LEMMA RealDriver ==
    ASSUME ConfigInv, NEW d \in Devices
    PROVE  driver[d] # "" /\ driver[d] # "default"
<1>1. BootDriver[d] \notin {"", "default"} /\ VendorDriver[d] \notin {"", "default"}
  BY ConfigAssumption
<1>2. driver[d] = BootDriver[d] \/ PreparedOK(d, prepared[d], driver[d])
  BY DEF ConfigInv, HostInv, DeviceOK
<1>3. ASSUME NEW c, driver[d] = BoundFromBoot(d, c) PROVE driver[d] # "" /\ driver[d] # "default"
  <2>1. CASE c.Driver = ""
    BY <1>1, <1>3, <2>1 DEF BoundFromBoot
  <2>2. CASE c.Driver = "default"
    BY <1>1, <1>3, <2>2 DEF BoundFromBoot
  <2>3. CASE c.Driver # "" /\ c.Driver # "default"
    BY <1>3, <2>3 DEF BoundFromBoot
  <2> QED
    BY <2>1, <2>2, <2>3
<1> QED
  BY <1>1, <1>2, <1>3 DEF PreparedOK

\* Every variable keeps its type; a prepared device has all fields of a VfConfig
\* and, in STANDALONE mode, an interface name.
THEOREM TypeCorrect == Spec => []TypeOK
<1>1. ConfigInv /\ ListInv /\ ResolvedInv => TypeOK
  <2> SUFFICES ASSUME ConfigInv, ListInv, ResolvedInv PROVE TypeOK
    OBVIOUS
  <2>1. Len(configs) <= MaxConfigs /\ \A i \in DOMAIN configs : configs[i] \in ConfigChoices
    BY DEF ListInv
  <2>2. DOMAIN driver = Devices /\ \A d \in Devices : driver[d] # "" /\ driver[d] # "default"
    BY RealDriver DEF ConfigInv, HostInv
  <2>3. rdmaCapable \subseteq Devices /\ missed \subseteq Devices /\ DOMAIN prepared = Devices
    BY DEF ConfigInv, HostInv, CapableOK
  <2>4. \A d \in InUse : /\ DOMAIN prepared[d].config = DOMAIN DefaultVfConfig
                         /\ prepared[d].ifName # <<>> \/ ~Standalone
    BY DEF InUse, ResolvedInv, ResolvedOK, ConfigOK
  <2> QED
    BY <2>1, <2>2, <2>3, <2>4 DEF TypeOK, ListInv
<1> QED
  BY <1>1, ConfigInvariant, ResolvedInvariant, PTL
===============================================================================
