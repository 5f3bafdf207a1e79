---------------------------- MODULE DriverOutcomes ----------------------------
(***************************************************************************)
(* The kernel driver of a virtual function and what one complete call of   *)
(* pkg/host/host.go may do to it.  Each operator returns the set of        *)
(* outcomes of a call that finds the device bound to cur: whether it       *)
(* returns nil (ok), the binding it leaves (to) and whether a sysfs access *)
(* or a module load had to fail for it (fault).  HostDriver.tla models the *)
(* same calls write by write and is checked to stay within these sets.     *)
(***************************************************************************)

CONSTANTS NetDrivers,     \* kernel network drivers, none of them a DPDK driver
          DefaultDriver,  \* the one drivers_probe binds when no override is set
          Installed       \* drivers with a directory under /sys/bus/pci/drivers

\* The empty string: no driver is bound (GetDriverByBusAndDevice), recorded
\* (OriginalDriver) or asked for (VfConfig.Driver).
NoDriver == "none"

\* The list of IsDpdkDriver.
DpdkDrivers == {"vfio-pci", "uio_pci_generic", "igb_uio"}

Drivers  == NetDrivers \cup DpdkDrivers
Bindings == Drivers \cup {NoDriver}

\* Values of VfConfig.Driver: NoDriver leaves the device alone.
Requests == Drivers \cup {NoDriver, "default"}

ASSUME DriverAssumption ==
    /\ DefaultDriver \in NetDrivers
    /\ DefaultDriver \in Installed
    /\ Installed \subseteq Drivers
    /\ NetDrivers \cap (DpdkDrivers \cup {NoDriver, "default"}) = {}

Outcome == [ok : BOOLEAN, to : Bindings, fault : BOOLEAN]

Done(b)   == [ok |-> TRUE,  to |-> b, fault |-> FALSE]
Failed(b) == [ok |-> FALSE, to |-> b, fault |-> TRUE]

\* EnsureDpdkModuleLoaded knows the modules of vfio-pci alone and rejects
\* the other DPDK drivers of the list.
ModuleKnown(drv) == drv \notin DpdkDrivers \/ drv = "vfio-pci"

\* Nothing is undone when a write fails half way: an unbound device stays
\* unbound, and a bound one whose override could not be cleared stays bound.
BindDriverByBusAndDevice(cur, drv) ==
    CASE ~ModuleKnown(drv)   -> {[ok |-> FALSE, to |-> cur, fault |-> FALSE]}
      [] ModuleKnown(drv) /\ cur = drv -> {Failed(cur), Done(cur)}
      [] ModuleKnown(drv) /\ cur # drv /\ drv \in Installed ->
             {Failed(cur), Failed(NoDriver), Failed(drv), Done(drv)}
      [] OTHER -> {Failed(cur), [ok |-> FALSE, to |-> NoDriver, fault |-> FALSE],
                   Failed(NoDriver)}

\* Any driver that is not a DPDK driver is taken for the default one.
BindDefaultDriver(cur) ==
    IF cur \in NetDrivers
    THEN {Failed(cur), Done(cur)}
    ELSE {Failed(cur), Failed(NoDriver), Done(DefaultDriver)}

BindDeviceDriver(cur, req) ==
    CASE req = NoDriver  -> {Done(cur)}
      [] req = "default" -> BindDefaultDriver(cur)
      [] OTHER           -> BindDriverByBusAndDevice(cur, req)

RestoreDeviceDriver(cur, orig) ==
    IF orig = NoDriver THEN BindDefaultDriver(cur)
                       ELSE BindDriverByBusAndDevice(cur, orig)
===============================================================================
