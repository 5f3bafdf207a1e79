SPECIFICATION Spec
CONSTANTS
    Results <- ThreeResults
    RequestOf <- Requests
    BootDriver <- Boot
    VendorDriver <- Vendor
    RdmaDevices <- Rdma
    RdmaCharDevices = {"pf0", "pf1"}
    IommuGroup <- Groups
    Cdevs <- Entries
    IommuAvailable = TRUE
    Standalone = TRUE
    NetAttachDefs <- Definitions
    ClaimNamespace = "ns"
    ConfigChoices <- Choices
    MaxConfigs = 4
    MaxRestarts = 2
INVARIANTS
    TypeOK
    ConfigPrecedence
    NodesMatchDriver
PROPERTY
    RdmaComesBack
CHECK_DEADLOCK FALSE
