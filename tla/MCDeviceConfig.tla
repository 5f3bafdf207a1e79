---------------------------- MODULE MCDeviceConfig -----------------------------
(***************************************************************************)
(* An instance of DeviceConfig: three devices of two requests, after boot  *)
(* on the driver of their vendor, on vfio-pci, and on a driver that is     *)
(* neither a DPDK driver nor the one that probing binds.                   *)
(***************************************************************************)
EXTENDS DeviceConfig, TLC

ThreeResults == <<"pf0", "pf1", "pf2">>

\* A function on the devices.
Of(x, y, z) == "pf0" :> x @@ "pf1" :> y @@ "pf2" :> z

Requests == Of("net", "dpdk", "net")
Boot     == Of("mlx5_core", "vfio-pci", "mlx5_vfio_pci")
Vendor   == Of("mlx5_core", "mlx5_core", "mlx5_core")
Rdma     == Of(1, 1, 0)
Groups   == Of("iommu", "noiommu", "iommu")
Entries  == Of(1, 0, 1)

Definitions == {"ns", "shared"} \X {"nad1", "nad2", "nad3"}

Vf(drv, name, nad) == [DefaultVfConfig EXCEPT !.Driver = drv, !.IfName = name,
                                              !.NetAttachDefName = nad]

Choice(source, requests, config) ==
    [source |-> source, opaque |-> TRUE, driver |-> "this", decodes |-> TRUE,
     requests |-> requests, config |-> config]

Choices ==
    {[Choice("class", {}, Vf("vfio-pci", "", "nad1")) EXCEPT !.config.AddVhostMount = TRUE],
     Choice("class", {"dpdk"}, Vf("default", "", "nad1")),
     [Choice("claim", {}, Vf("", "net1", "nad2")) EXCEPT !.config.NetAttachDefNamespace = "shared"],
     Choice("claim", {"net"}, Vf("default", "", "nad3")),
     Choice("claim", {"net", "dpdk"}, Vf("vfio-pci", "net2", "")),
     Choice("claim", {"net"}, Vf("", "", "nowhere")),
     [Choice("class", {"net"}, Vf("", "", "")) EXCEPT !.driver = "other", !.decodes = FALSE],
     [Choice("claim", {"net"}, Vf("", "", "")) EXCEPT !.decodes = FALSE],
     [Choice("claim", {}, Vf("", "", "")) EXCEPT !.opaque = FALSE],
     Choice("admin", {}, Vf("", "", ""))}
===============================================================================
