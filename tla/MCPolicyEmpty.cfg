SPECIFICATION Spec
CONSTANTS
    PCI <- Host
    PolicyAttributes = {"resourceName", "tier"}
    Queries <- FailingQueries
    NodeLabels = {"worker"}
    PolicyChoices <- WithoutAttributes
    AttrChoices <- Attributes
    FaultKinds = {}
    MaxChanges = 2
    MaxFaults = 0
INVARIANT
    PoolUpToDate
CHECK_DEADLOCK FALSE
