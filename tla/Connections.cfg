\* One configuration and thirteen edits of it, two requests of two processes, a jump host
\* that answers with two keys, and any number of failures.
SPECIFICATION Spec
CONSTANTS
    NULL = NULL
    NONE = NONE
    Requests = {"q1", "q2"}
    Processes = {1, 2}
    Process <- TwoProcesses
    Hosts = {"a", "b"}
    Keys = {"k1", "k2", "k3", "c1"}
    Presents <- HostKeys
    Revoked = {}
    Certificates = {"c1"}
    Entered = {}
    Bundles <- Edited
    Events <- Pushes
    MaxStored = 1
INVARIANTS
    OneRuleWins
    DeliversWhereStored
    AcceptedIsRecorded
    FirstKeyIsKept
CHECK_DEADLOCK FALSE
