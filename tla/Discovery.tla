------------------------------ MODULE Discovery -------------------------------
(***************************************************************************)
(* DiscoverSriovDevices (pkg/devicestate/discovery.go) and the host        *)
(* queries it makes (pkg/host/host.go).  It runs once, when the process    *)
(* starts.  A query that fails has a value to fall back to, makes the      *)
(* device be passed over, or fails the start; the parameter failing is the *)
(* set of <<address, query>> that do.                                      *)
(*                                                                         *)
(* A device is named after its PCI address, with other separators; here it *)
(* is the address.  Attribute values are strings.                          *)
(***************************************************************************)
CONSTANTS PCI     \* PCI[a]: what the host says of the PCI device at address a

\* The attributes that discovery sets.
ReservedAttributes ==
    {"vendor", "deviceID", "pfDeviceID", "pciAddress", "multusDeviceID", "pfName", "eswitchMode",
     "vfID", "pcieRoot", "pfPciAddress", "pciBusID", "linkType", "rdmaCapable", "numaNode"}

\* The VFs of a PF, with their addresses and device IDs.
ASSUME HostAssumption ==
    \A a \in DOMAIN PCI : \A v \in PCI[a].virtfns :
        v \in [address : {v.address}, id : {v.id}, deviceID : {v.deviceID}, rdma : BOOLEAN]

\* There is a link to a physical function.
IsSriovVF(a) == PCI[a].physfn

\* By devlink, or from sysfs where the driver has no devlink.
TryGetPFInterfaceName(a, failing) ==
    CASE <<a, "name">> \in failing -> ""
      [] <<a, "name">> \notin failing /\ PCI[a].uplink # "" -> PCI[a].uplink
      [] OTHER -> PCI[a].netdir

GetNicSriovMode(a, failing) ==
    IF <<a, "eswitch">> \in failing \/ PCI[a].eswitch = "" THEN "legacy" ELSE PCI[a].eswitch

\* A missing file, and one that cannot be read or parsed, give -1.
GetNumaNode(a, failing) ==
    IF <<a, "numa">> \in failing \/ PCI[a].numa = "" THEN "-1" ELSE PCI[a].numa

GetPCIeRoot(a, failing) == IF <<a, "root">> \in failing THEN "" ELSE PCI[a].root

GetLinkType(a, failing) ==
    CASE <<a, "linkType">> \notin failing /\ PCI[a].arphrd = 1  -> "ethernet"
      [] <<a, "linkType">> \notin failing /\ PCI[a].arphrd = 32 -> "infiniband"
      [] OTHER -> "unknown"

\* A virtfn link that cannot be read is passed over.
GetVFList(a, failing) ==
    {[v EXCEPT !.deviceID = IF <<v.address, "device">> \in failing THEN "" ELSE @] :
        v \in {w \in PCI[a].virtfns : <<w.address, "virtfn">> \notin failing}}

\* No RDMA device is found while the VF is bound to another driver, either.
VerifyRDMACapability(v, failing) == v.rdma /\ <<v.address, "rdma">> \notin failing

\* Network controllers that are not VFs themselves and have an interface.
PFs(failing) ==
    {a \in DOMAIN PCI : /\ PCI[a].class = "net"
                        /\ ~IsSriovVF(a)
                        /\ TryGetPFInterfaceName(a, failing) # ""}

\* No PCI device, or a PF whose VFs cannot be listed, fails the start.
DiscoveryFails(failing) ==
    \/ <<"host", "pci">> \in failing \/ DOMAIN PCI = {}
    \/ \E a \in PFs(failing) : <<a, "virtfns">> \in failing

VFAttributes(a, v, failing) ==
    [vendor         |-> PCI[a].vendor,
     deviceID       |-> v.deviceID,
     pfDeviceID     |-> PCI[a].product,
     pciAddress     |-> v.address,
     multusDeviceID |-> v.address,
     pciBusID       |-> v.address,
     pfName         |-> TryGetPFInterfaceName(a, failing),
     eswitchMode    |-> GetNicSriovMode(a, failing),
     vfID           |-> v.id,
     pcieRoot       |-> GetPCIeRoot(a, failing),
     pfPciAddress   |-> a,
     linkType       |-> GetLinkType(a, failing),
     rdmaCapable    |-> IF VerifyRDMACapability(v, failing) THEN "true" ELSE "false",
     numaNode       |-> GetNumaNode(a, failing)]

\* The devices found, with their attributes.
DiscoverSriovDevices(failing) ==
    LET found == UNION {{a} \X GetVFList(a, failing) : a \in PFs(failing)}
    IN  [d \in {x[2].address : x \in found} |->
            LET x == CHOOSE y \in found : y[2].address = d
            IN  VFAttributes(x[1], x[2], failing)]
===============================================================================
