------------------------------- MODULE MCPolicy -------------------------------
(***************************************************************************)
(* Instances of PolicyAdvertisement for TLC: a host with two PFs of one VF *)
(* each and a device of another class, two policies and two                *)
(* DeviceAttributes objects.                                               *)
(***************************************************************************)
EXTENDS PolicyAdvertisement, TLC

Function(class, vendor, virtfns) ==
    [class |-> class, physfn |-> FALSE, vendor |-> vendor, product |-> "pf", virtfns |-> virtfns,
     uplink |-> "", netdir |-> "eth", eswitch |-> "", numa |-> "0", root |-> "pci0", arphrd |-> 1]

VirtualFunction(vendor) ==
    [Function("net", vendor, {}) EXCEPT !.physfn = TRUE, !.product = "vf"]

VirtFn(vf, rdma) == {[address |-> vf, id |-> "0", deviceID |-> "vf", rdma |-> rdma]}

\* The Mellanox PF has devlink, and is in switchdev mode.
Host ==
    "a0" :> Function("net", "intel", VirtFn("a1", FALSE)) @@
    "a1" :> VirtualFunction("intel") @@
    "b0" :> [Function("net", "mellanox", VirtFn("b1", TRUE)) EXCEPT !.uplink = "uplink",
                !.eswitch = "switchdev", !.numa = "", !.arphrd = 32] @@
    "b1" :> VirtualFunction("mellanox") @@
    "c0" :> Function("nvme", "intel", {})

\* The interface name of a PF decides whether its VF is found, the others on
\* an attribute of it; the VFs that cannot be listed fail the start.
FailingQueries == {<<"a0", "name">>, <<"a0", "virtfns">>, <<"b1", "rdma">>}

Values(res, tier, vendor) ==
    [k \in Keys |-> CASE k = "resourceName" -> res
                      [] k = "tier"         -> tier
                      [] k = "vendor"       -> vendor
                      [] OTHER              -> NoValue]

Config(vendors, labels) ==
    [filters  |-> IF vendors = {} THEN {} ELSE {"vendor" :> vendors},
     selector |-> labels]

Policy(nodes, configs) == [nodeSelector |-> nodes, configs |-> configs]

\* Every config selects at least one object that sets an attribute.
WithAttributes ==
    << {Policy({}, <<Config({"intel"}, {"a"})>>),
        Policy({"worker"}, <<Config({"mellanox"}, {"a"}), Config({}, {"a", "b"})>>),
        NoObject},
       {Policy({}, <<Config({}, {"b", "a"})>>), NoObject} >>

\* The first policy selects no attributes.
WithoutAttributes ==
    << {Policy({}, <<Config({"intel"}, {})>>), NoObject},
       {Policy({"worker"}, <<Config({}, {"a"})>>), NoObject} >>

Attributes ==
    << {[label |-> "a", values |-> Values("x", "gold", NoValue)],
        [label |-> "a", values |-> Values("y", NoValue, "mellanox")]},
       {[label |-> "b", values |-> Values("z", NoValue, NoValue)], NoObject} >>
===============================================================================
