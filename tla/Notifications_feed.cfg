\* One tab, two facts committed in any order, pages of one fact, a lost connection or a
\* page reload, a read that fails and a history that is cleared once; weak fairness.
SPECIFICATION FairSpec
CONSTANTS
    Facts = {1, 2}
    Muted = {}
    Tabs = {t1}
    ListLimit = 1
    StreamLimit = 1
    Retained = 2
    MaxTime = 1
    MaxBreaks = 1
    MaxFailures = 1
    MaxClears = 1
INVARIANTS
    ListedInOrder
    NoOtherFactIsSkipped
    ClearedIsForgotten
PROPERTIES
    FactReachesTab
CHECK_DEADLOCK FALSE
