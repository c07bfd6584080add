SPECIFICATION FairSpec
CONSTANTS
    Etcd = TRUE
    Ids = {s1, s2}
    Ttls = {1}
    Idles = {1}
    Retention = 1
    MaxSandboxes = 0
    MaxStorage = 0
    MaxTime = 1
    MaxFaults = 1
    MaxRestarts = 1

    
PROPERTIES
    TtlEnforced
    GhostRecordsGo
