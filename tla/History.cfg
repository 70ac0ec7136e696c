\* Pushes and pipeline states of one commit, rows of one instant in any order, tight
\* retention limits, one detail request at a time, asked for while there is one row.
SPECIFICATION Spec
CONSTANTS
    NULL = NULL
    Webhooks <- SomeWebhooks
    Limits <- TightLimits
    DefaultLimit = 2
    GlobalLimit = 2
    PageSize = 1
    WaitTimeout = 1
    Window = 2
    MaxRows = 3
    MaxTime = 3
    MaxRowsAsked = 1
    MaxTimeAsked = 0
    MaxDelay = 0
INVARIANTS
    LifecycleListedOnce
    PushAndPipelineAreOne
    StatisticsAreWhole
PROPERTIES
    DetailFailsOnlyIfDeleted
    RetentionKeepsTheNewest
CHECK_DEADLOCK FALSE
