\* Liveness of reloads and of deferred events beside two webhooks, one of a type that is
\* not supported, an operator whose request may end a delivery, and a crash.
SPECIFICATION FairSpec
CONSTANTS
    NULL = NULL
    Webhooks = {"w1", "w2"}
    Supported = {"w1"}
    Hooks = {h1}
    Operators = {u1}
    Requests = {q1}
    Invalid = {}
    Deploys <- OddDeploys
    MaxVersion = 1
    MaxAccepted = 2
    MaxCrashes = 1
PROPERTIES
    ReloadsEnd
    DeferredIsRouted
CHECK_DEADLOCK FALSE
