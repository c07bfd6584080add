SPECIFICATION FairSpec
CONSTANTS
    Nodes = {1, 2}
    Cap <- CapTwo
    Reqs = {r1}
    Quota = 1
    MaxSids = 1
    MaxFaults = 0
PROPERTIES
    TtlCap
CHECK_DEADLOCK FALSE
