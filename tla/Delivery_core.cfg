\* Two deliveries to one Compose resource under two target IDs, one crash:
\* sends, polls, recovery, reloads and retention interleave. No operator.
SPECIFICATION Spec
CONSTANTS
    NULL = NULL
    Deliveries <- TwoDeliveries
    Operators = {}
    Targets <- ComposeTargets
    TargetOf <- PairTargetOf
    Kind <- AllDokploy
    Resource <- OneCompose
    Legacy = {}
    Interval = 1
    Timeout = 2
    MaxPollBatch = 1
    LateListing = FALSE
    Relabels = FALSE
    RemoteStatus = {"running", "done", "error", "cancelled", "other"}
    Trims = FALSE
    MaxForeign = 0
    MaxAttempts = 1
    MaxCrashes = 1
    Horizon = 1
INVARIANTS
    DeliveryMirrorsAttempt
    DispatcherKeepsItsAttempt
    AtMostOnePost
    SendsSerialized
    FailedNeverDeployed
    MonitoredHasTimers
    ActiveIsCompatible
    BindsItsOwnDeployment
PROPERTIES
    LivesAsPromised
CHECK_DEADLOCK FALSE
