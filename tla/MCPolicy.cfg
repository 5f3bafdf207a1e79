SPECIFICATION Spec
CONSTANTS
    PCI <- Host
    PolicyAttributes = {"resourceName", "tier"}
    Queries <- FailingQueries
    NodeLabels = {"worker", "infra"}
    PolicyChoices <- WithAttributes
    AttrChoices <- Attributes
    FaultKinds = {"api", "restart", "publish", "query"}
    MaxChanges = 4
    MaxFaults = 2
INVARIANTS
    TypeOK
    PoolUpToDate
    DiscoveryKept
PROPERTY
    PoolConverges
CHECK_DEADLOCK FALSE
