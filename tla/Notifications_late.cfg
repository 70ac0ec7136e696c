\* Two facts whose transactions commit out of the order of their times.
SPECIFICATION Spec
CONSTANTS
    Facts = {1, 2, 3}
    Muted = {}
    Tabs = {t1}
    ListLimit = 1
    StreamLimit = 2
    Retained = 2
    MaxTime = 2
    MaxBreaks = 0
    MaxFailures = 0
    MaxClears = 0
INVARIANTS
    CommittedFactIsNotLost
CHECK_DEADLOCK FALSE
