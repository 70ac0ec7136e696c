\* An http delivery and two of one Compose resource, of which one was stored before
\* dispatch keys existed, a batch limit of one, one crash, weak fairness.
SPECIFICATION FairSpec
CONSTANTS
    NULL = NULL
    Deliveries <- ThreeDeliveries
    Operators = {}
    Targets <- ComposeTargets
    TargetOf <- TripleTargetOf
    Kind <- MixedKind
    Resource <- MixedResource
    Legacy = {3}
    Interval = 1
    Timeout = 1
    MaxPollBatch = 1
    LateListing = FALSE
    Relabels = FALSE
    RemoteStatus = {"running", "done"}
    Trims = FALSE
    MaxForeign = 0
    MaxAttempts = 1
    MaxCrashes = 1
    Horizon = 0
PROPERTIES
    Settles
CHECK_DEADLOCK FALSE
