\* Two webhooks, two webhook and two reload requests at a time, one operator, a valid
\* new configuration and an invalid one, one crash.
SPECIFICATION Spec
CONSTANTS
    NULL = NULL
    Webhooks = {"w1", "w2"}
    Supported = {"w1", "w2"}
    Hooks = {h1, h2}
    Operators = {u1}
    Requests = {q1, q2}
    Invalid = {2}
    Deploys <- OddDeploys
    MaxVersion = 2
    MaxAccepted = 3
    MaxCrashes = 1
INVARIANTS
    IdleHasNoBacklog
    ReloadsExclusive
    FinishesOnItsGeneration
    QueueHoldsDeferred
    RoutedByTheNew
PROPERTIES
    RoutesInOrder
SYMMETRY RequestSymmetry
CHECK_DEADLOCK FALSE
