\* Two commits, a lost connection, a failed request, a page hidden once, a refresh.
SPECIFICATION FairSpec
CONSTANTS
    NULL = NULL
    Unread = Unread
    MaxCommits = 2
    MaxBreaks = 1
    MaxFailures = 1
    MaxHides = 1
    MaxRefreshes = 1
INVARIANTS
    VisibleViewIsAwake
PROPERTIES
    ShownNeverGoesBack
    ChangeIsHeard
    ViewCatchesUp
