SPECIFICATION Spec
CONSTANTS
    p1 = p1
    p2 = p2
    p3 = p3
    c1 = c1
    c2 = c2
    d1 = d1
    d2 = d2
    d3 = d3
    Pods = {p1, p2, p3}
    Claims = {c1, c2}
    Devices = {d1, d2}
    Uses <- SingleUses
    Results <- SingleResults
    Request <- SingleRequest
    Native <- SingleNative
    NetDrivers = {"iavf"}
    DefaultDriver = "iavf"
    Installed = {"iavf", "vfio-pci"}
    MultusMode = FALSE
    FaultKinds = {"api", "apply", "bind", "post", "restore", "info", "cdi", "checkpoint", "podspec", "lost", "kubelet", "crash", "reboot"}
    MaxFaults = 3
INVARIANTS
    TypeOK
    NativeWhenFree
    OriginalDriverOnRecord
    InterfaceNamesDistinct
CHECK_DEADLOCK FALSE
