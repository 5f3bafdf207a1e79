----------------------------- MODULE DeviceConfig ------------------------------
(***************************************************************************)
(* What a container gets of its devices: applyConfigOnDevice and           *)
(* handleRDMADevice of pkg/devicestate/state.go, with the host queries     *)
(* they use (pkg/host/host.go), over claims that come and go and restarts  *)
(* of the driver.  One claim at a time has all the devices; preparing it   *)
(* is one step, since what it binds it puts back when a later device       *)
(* fails (ClaimLifecycle.tla has the steps, HostDriver.tla the binding).   *)
(*                                                                         *)
(* External: the kernel, which has an RDMA device for a VF while the VF is *)
(* bound to the driver of its vendor, and lists character devices for      *)
(* vfio-pci.                                                               *)
(***************************************************************************)
EXTENDS VfConfig, FiniteSets

CONSTANTS Results,        \* the devices of a claim, in the order of their allocation
          RequestOf,      \* RequestOf[d]: the request that device d was allocated for
          BootDriver,     \* BootDriver[d]: the driver of d after boot
          VendorDriver,   \* VendorDriver[d]: the driver that probing binds d to
          RdmaDevices,    \* RdmaDevices[d]: how many RDMA devices the vendor driver has for d
          RdmaCharDevices,  \* devices whose RDMA device has character devices
          IommuGroup,     \* IommuGroup[d]: "none", "iommu" or "noiommu"
          Cdevs,          \* Cdevs[d]: the entries of vfio-dev while on vfio-pci
          IommuAvailable, \* /dev/iommu exists
          Standalone,     \* the configuration mode is STANDALONE
          NetAttachDefs,  \* <<namespace, name>> of those that are JSON objects
          ClaimNamespace,
          ConfigChoices, MaxConfigs, MaxRestarts

VARIABLES configs,      \* the configs of the claim's allocation
          driver,       \* driver[d]: the driver d is bound to
          rdmaCapable,  \* the devices that discovery found RDMA capable
          prepared,     \* prepared[d]: the prepared device, or NotPrepared
          missed,       \* devices discovered while their RDMA device was not there
          restarts

vars == <<configs, driver, rdmaCapable, prepared, missed, restarts>>

Devices == {Results[i] : i \in DOMAIN Results}

ASSUME ConfigAssumption ==
    /\ \A i, j \in DOMAIN Results : i # j => Results[i] # Results[j]
    /\ BootDriver = [d \in Devices |-> BootDriver[d]]
    /\ \A d \in Devices : BootDriver[d] \notin {"", "default"}
    \* probing without an override never binds vfio-pci
    /\ \A d \in Devices : VendorDriver[d] \notin {"", "default", "vfio-pci"}
    \* a request and a config's requests have names
    /\ \A d \in Devices : RequestOf[d] # ""
    /\ \A c \in ConfigChoices : "" \notin c.requests
    /\ \A d \in Devices : IommuGroup[d] \in {"none", "iommu", "noiommu"}
    /\ \A d \in Devices : RdmaDevices[d] \in Nat /\ Cdevs[d] \in Nat
    /\ IommuAvailable \in BOOLEAN /\ Standalone \in BOOLEAN
    /\ MaxConfigs \in Nat /\ MaxRestarts \in Nat

NotPrepared == [config |-> DefaultVfConfig, nodes |-> {}, ifName |-> <<>>, original |-> "none"]
-------------------------------------------------------------------------------
(***************************************************************************)
(* Host queries                                                            *)
(***************************************************************************)

IsDpdkDriver(bound) == bound \in {"vfio-pci", "uio_pci_generic", "igb_uio"}

GetRDMADevicesForPCI(d, bound) == IF bound = VendorDriver[d] THEN RdmaDevices[d] ELSE 0

VerifyRDMACapability(d, bound) == GetRDMADevicesForPCI(d, bound) > 0

\* The device file of the VFIO group, on the host and in the container.
GetVFIODeviceFile(d) ==
    [host |-> IF IommuGroup[d] = "noiommu" THEN "noiommu-group" ELSE "group",
     container |-> "group"]

VFIODeviceFileFound(d) == IommuGroup[d] # "none"

\* More than one entry is an error, none is an older kernel.
GetVFIOCdevPath(d) == IF Cdevs[d] = 0 THEN {} ELSE {[host |-> "cdev", container |-> "cdev"]}
-------------------------------------------------------------------------------
(***************************************************************************)
(* applyConfigOnDevice                                                     *)
(***************************************************************************)

\* Bug variant of Bound: "default" is taken for the name of a driver.
BoundByName(d, config) == IF config.Driver = "" THEN driver[d] ELSE config.Driver

\* BindDeviceDriver: where it leaves the device.  BindDefaultDriver takes any driver
\* that is not a DPDK driver for the default one, and probes only from a DPDK driver.
Bound(d, config) ==
    CASE config.Driver = ""        -> driver[d]
      [] config.Driver = "default" -> IF IsDpdkDriver(driver[d]) THEN VendorDriver[d] ELSE driver[d]
      [] OTHER                     -> config.Driver

Node(name) == [host |-> name, container |-> name]

VfioNodes(d) ==
    {GetVFIODeviceFile(d), Node("vfio")}
    \cup IF IommuAvailable THEN GetVFIOCdevPath(d) \cup {Node("iommu")} ELSE {}

VfioNodesFound(d) ==
    VFIODeviceFileFound(d) /\ (IommuAvailable => Cdevs[d] <= 1)

\* Bug variant of RdmaNodes: looked up before the device is bound.
RdmaNodesBefore(d, bound) ==
    IF d \in rdmaCapable /\ GetRDMADevicesForPCI(d, driver[d]) > 0 THEN {Node("rdma")} ELSE {}

\* handleRDMADevice: a device that discovery did not find capable gets none, nor
\* one whose RDMA device is not there now.
RdmaNodes(d, bound) ==
    IF d \in rdmaCapable /\ GetRDMADevicesForPCI(d, bound) > 0 THEN {Node("rdma")} ELSE {}

RdmaNodesFound(d, bound) ==
    d \in rdmaCapable /\ GetRDMADevicesForPCI(d, bound) > 0 =>
        GetRDMADevicesForPCI(d, bound) = 1 /\ d \in RdmaCharDevices

\* Bug variant of DeviceNodes: by the driver that the device had.
DeviceNodesBefore(d, config) ==
    (IF driver[d] = "vfio-pci" THEN VfioNodes(d) ELSE {})
    \cup (IF config.AddVhostMount THEN {Node("vhost-net"), Node("tun")} ELSE {})
    \cup RdmaNodes(d, Bound(d, config))

DeviceNodes(d, config) ==
    (IF config.Driver = "vfio-pci" THEN VfioNodes(d) ELSE {})
    \cup (IF config.AddVhostMount THEN {Node("vhost-net"), Node("tun")} ELSE {})
    \cup RdmaNodes(d, Bound(d, config))

\* getNetAttachDefRawConfig and AddDeviceIDToNetConf.
NetAttachDefFound(config) ==
    LET namespace == IF config.NetAttachDefNamespace # "" THEN config.NetAttachDefNamespace
                     ELSE ClaimNamespace
    IN  <<namespace, config.NetAttachDefName>> \in NetAttachDefs

\* Nothing returns an error.
Applicable(d, config) ==
    /\ Standalone => NetAttachDefFound(config)
    /\ config.Driver = "vfio-pci" => VfioNodesFound(d)
    /\ RdmaNodesFound(d, Bound(d, config))

\* A name that is not set is made of the prefix and an index, which only those
\* devices advance.
IfName(i, configOf) ==
    LET unnamed == {j \in 1 .. i - 1 : configOf[Results[j]].IfName = ""}
        config == configOf[Results[i]]
    IN  CASE config.IfName # ""                 -> <<config.IfName>>
          [] config.IfName = "" /\ Standalone   -> <<"vfnet", Cardinality(unnamed)>>
          [] config.IfName = "" /\ ~Standalone  -> <<>>
-------------------------------------------------------------------------------
AddConfig ==
    /\ \A d \in Devices : prepared[d] = NotPrepared
    /\ Len(configs) < MaxConfigs
    /\ \E c \in ConfigChoices : configs' = Append(configs, c)
    /\ UNCHANGED <<driver, rdmaCapable, prepared, missed, restarts>>

\* PrepareDevicesForClaim; an error leaves everything as it was.
Prepare ==
    /\ \A d \in Devices : prepared[d] = NotPrepared
    /\ Resolvable(configs)
    /\ LET map == getMapOfOpaqueDeviceConfigForDevice(configs)
           configOf == [d \in Devices |-> ConfigFor(map, RequestOf[d])]
           at == [d \in Devices |-> CHOOSE i \in DOMAIN Results : Results[i] = d]
       IN  /\ \A d \in Devices : Applicable(d, configOf[d])
           /\ driver' = [d \in Devices |-> Bound(d, configOf[d])]
           /\ prepared' = [d \in Devices |->
                 [config   |-> configOf[d],
                  nodes    |-> DeviceNodes(d, configOf[d]),
                  ifName   |-> IfName(at[d], configOf),
                  original |-> IF configOf[d].Driver = "" THEN "" ELSE driver[d]]]
    /\ UNCHANGED <<configs, rdmaCapable, missed, restarts>>

\* unprepareDevices restores the driver where the claim had set one.
Unprepare ==
    /\ \E d \in Devices : prepared[d] # NotPrepared
    /\ driver' = [d \in Devices |-> IF prepared[d].config.Driver = "" THEN driver[d]
                                    ELSE prepared[d].original]
    /\ prepared' = [d \in Devices |-> NotPrepared]
    /\ configs' = <<>>
    /\ UNCHANGED <<rdmaCapable, missed, restarts>>

\* Discovery runs at start only, also while devices are with claims.
Restart ==
    /\ restarts < MaxRestarts
    /\ restarts' = restarts + 1
    /\ rdmaCapable' = {d \in Devices : VerifyRDMACapability(d, driver[d])}
    /\ missed' = {d \in Devices : RdmaDevices[d] > 0 /\ driver[d] # VendorDriver[d]}
    /\ UNCHANGED <<configs, driver, prepared>>

Init ==
    /\ configs = <<>>
    /\ driver = BootDriver
    /\ rdmaCapable = {d \in Devices : VerifyRDMACapability(d, BootDriver[d])}
    /\ missed = {d \in Devices : RdmaDevices[d] > 0 /\ BootDriver[d] # VendorDriver[d]}
    /\ prepared = [d \in Devices |-> NotPrepared]
    /\ restarts = 0

Next == AddConfig \/ Prepare \/ Unprepare \/ Restart

Spec == Init /\ [][Next]_vars
-------------------------------------------------------------------------------
\* The devices that the driver has prepared.
InUse == {d \in Devices : prepared[d] # NotPrepared}

\* "Empty Requests means the config applies to all requests in the claim": the
\* configs of this driver that name the request, and those that name none.
Applying(request) ==
    {i \in DOMAIN configs : configs[i].driver = "this"
                            /\ (configs[i].requests = {} \/ request \in configs[i].requests)}

\* Both configs name requests, or both are for all requests.
SameReach(i, j) == (configs[i].requests = {}) = (configs[j].requests = {})

\* Config i takes precedence over config j.
Over(i, j) == \/ configs[i].source = "claim" /\ configs[j].source = "class"
              \/ configs[i].source = configs[j].source /\ i >= j

\* The configs that apply to device d and set parameter f.
Setting(d, f) ==
    {i \in Applying(RequestOf[d]) : configs[i].config[f] # DefaultVfConfig[f]}

\* "Configs coming directly from the resource claim take precedence over configs
\* coming from the device class. Moreover, configs found later in the list of
\* configs attached to its source take precedence over configs found earlier in the
\* list for that source": a driver, an interface name or a network that a device
\* was prepared with is that of a config which applies to it and to which no other
\* config of the same reach takes precedence; and one that is missing was set by no
\* config, or by configs of one reach while another config, of the other reach,
\* left it out.  This last case arises although a config without requests "applies
\* to all requests in the claim", and of the other two parameters, which Override
\* loses, nothing is claimed: both are against the documentation.
ConfigPrecedence ==
    \A d \in InUse, f \in Overridden :
        LET value == prepared[d].config[f]
        IN  /\ value # "" => \E i \in Setting(d, f) :
                                /\ value = configs[i].config[f]
                                /\ \A j \in Setting(d, f) : SameReach(i, j) => Over(i, j)
            /\ value = "" => \A j \in Setting(d, f) :
                                \E i \in Applying(RequestOf[d]) \ Setting(d, f) : ~SameReach(i, j)

IsVfio(node) == node.container \in {"group", "vfio", "cdev", "iommu"}

\* A container with VFIO devices has the group and the container device of a device
\* that is bound to vfio-pci now, and not also its RDMA devices; one whose device a
\* claim took to vfio-pci has them.  A device that was there before is left to the
\* claim that asks for it by name.
NodesMatchDriver ==
    \A d \in InUse :
        LET vfio == {n \in prepared[d].nodes : IsVfio(n)}
        IN  /\ vfio # {} => /\ driver[d] = "vfio-pci"
                            /\ {GetVFIODeviceFile(d), Node("vfio")} \subseteq vfio
                            /\ Node("rdma") \notin prepared[d].nodes
            /\ driver[d] = "vfio-pci" => vfio # {} \/ BootDriver[d] = "vfio-pci"

\* A device that is prepared on its vendor driver comes with its RDMA devices, whichever
\* drivers earlier claims had bound it to; only a discovery that met the device away
\* from its vendor driver takes them away, until the next one.
RdmaComesBack ==
    [][\A d \in Devices \ missed :
          prepared[d] = NotPrepared /\ prepared'[d] # NotPrepared
          /\ driver'[d] = VendorDriver[d] /\ RdmaDevices[d] > 0
              => Node("rdma") \in prepared'[d].nodes]_vars

TypeOK ==
    /\ Len(configs) <= MaxConfigs /\ \A i \in DOMAIN configs : configs[i] \in ConfigChoices
    /\ DOMAIN driver = Devices /\ \A d \in Devices : driver[d] # "" /\ driver[d] # "default"
    /\ rdmaCapable \subseteq Devices /\ missed \subseteq Devices
    /\ DOMAIN prepared = Devices
    /\ \A d \in InUse : /\ DOMAIN prepared[d].config = DOMAIN DefaultVfConfig
                        /\ prepared[d].ifName # <<>> \/ ~Standalone
    /\ restarts \in 0 .. MaxRestarts
===============================================================================
