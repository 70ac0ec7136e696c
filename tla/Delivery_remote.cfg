\* A remote at its worst: deployments listed late, relabelled, trimmed, and one
\* started by somebody else; one delivery, one operator.
SPECIFICATION Spec
CONSTANTS
    NULL = NULL
    Deliveries <- OneDelivery
    Operators = {o1}
    Targets <- ComposeTargets
    TargetOf <- OneTargetOf
    Kind <- AllDokploy
    Resource <- OneCompose
    Legacy = {}
    Interval = 1
    Timeout = 1
    MaxPollBatch = 1
    LateListing = TRUE
    Relabels = TRUE
    RemoteStatus = {"running", "done"}
    Trims = TRUE
    MaxForeign = 1
    MaxAttempts = 2
    MaxCrashes = 0
    Horizon = 0
PROPERTIES
    BindingImmutable
    DoneIsFinal
CHECK_DEADLOCK FALSE
