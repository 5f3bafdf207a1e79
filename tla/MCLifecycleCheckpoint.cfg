SPECIFICATION Spec
CONSTANTS
    p1 = p1
    p2 = p2
    p3 = p3
    c1 = c1
    c2 = c2
    d1 = d1
    d2 = d2
    d3 = d3
    Pods = {p1, p2}
    Claims = {c1, c2}
    Devices = {d1, d2, d3}
    Uses <- MultiUses
    Results <- MultiResults
    Request <- MultiRequest
    Native <- MultiNative
    NetDrivers = {"iavf"}
    DefaultDriver = "iavf"
    Installed = {"iavf", "vfio-pci"}
    MultusMode = FALSE
    FaultKinds = {"checkpoint"}
    MaxFaults = 1
INVARIANT
    PreparedIsUsable
CHECK_DEADLOCK FALSE
