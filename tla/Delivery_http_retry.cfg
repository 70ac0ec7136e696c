\* An operator retries an http delivery whose response was lost.
SPECIFICATION Spec
CONSTANTS
    NULL = NULL
    Deliveries <- OneDelivery
    Operators = {o1}
    Targets <- ComposeTargets
    TargetOf <- OneTargetOf
    Kind <- MixedKind
    Resource <- MixedResource
    Legacy = {}
    Interval = 1
    Timeout = 1
    MaxPollBatch = 1
    LateListing = FALSE
    Relabels = FALSE
    RemoteStatus = {"running", "done"}
    Trims = FALSE
    MaxForeign = 0
    MaxAttempts = 2
    MaxCrashes = 1
    Horizon = 0
PROPERTIES
    UnknownHTTPCanBeRetried
CHECK_DEADLOCK FALSE
