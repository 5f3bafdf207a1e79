SPECIFICATION Spec
CONSTANTS
    PCI <- Host
    PolicyAttributes = {"resourceName", "tier"}
    Queries <- FailingQueries
    NodeLabels = {"worker", "infra"}
    PolicyChoices <- WithAttributes
    AttrChoices <- Attributes
    FaultKinds = {}
    MaxChanges = 2
    MaxFaults = 0
INVARIANT
    PoolFollowsNode
CHECK_DEADLOCK FALSE
