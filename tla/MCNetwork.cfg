SPECIFICATION Spec
CONSTANTS
    Pods = {"pair", "single", "host"}
    Claims = {"c1", "c2", "c3", "c4"}
    Devices = {"vf1", "vf2", "vf3", "vf4"}
    Uses <- ClaimsOfPods
    Results <- DeviceOfClaim
    RequestOf <- OneRequest
    HostNetwork = {"host"}
    EnableDeviceMetadata = TRUE
    ChanSize = 1
    FaultKinds <- AllFaults
    MaxEvents = 3
INVARIANTS
    TypeOK
    StartedIsAttached
    StoppedIsDetached
    MetadataOfThisSandbox
PROPERTIES
    PluginComesBack
    PodsStart
    PodsEnd
CHECK_DEADLOCK FALSE
