SPECIFICATION Spec
CONSTANTS
    Nodes = {1, 2}
    Cap <- CapTwo
    Reqs = {r1, r2}
    Quota = 1
    MaxSids = 2
    MaxFaults = 1
INVARIANTS
    QuotaBounded
    TagsFollow
    ListenersStopped
    
SYMMETRY Threads
CHECK_DEADLOCK FALSE
