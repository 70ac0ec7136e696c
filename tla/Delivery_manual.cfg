\* One delivery, two management requests at a time, every remote status, one crash.
SPECIFICATION Spec
CONSTANTS
    NULL = NULL
    Deliveries <- OneDelivery
    Operators = {o1, o2}
    Targets <- ComposeTargets
    TargetOf <- OneTargetOf
    Kind <- AllDokploy
    Resource <- OneCompose
    Legacy = {}
    Interval = 1
    Timeout = 2
    MaxPollBatch = 1
    LateListing = FALSE
    Relabels = FALSE
    RemoteStatus = {"running", "done", "error", "cancelled", "other"}
    Trims = FALSE
    MaxForeign = 0
    MaxAttempts = 2
    MaxCrashes = 1
    Horizon = 2
INVARIANTS
    IndInv
PROPERTIES
    LivesAsPromised
    NoSecondDeployment
SYMMETRY OperatorSymmetry
CHECK_DEADLOCK FALSE
