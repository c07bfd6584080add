SPECIFICATION Spec
CONSTANTS
    Etcd = FALSE
    Ids = {s1, s2, s3}
    Ttls = {2, 3}
    Idles = {1}
    Retention = 9
    MaxSandboxes = 2
    MaxStorage = 1
    MaxTime = 3
    MaxFaults = 1
    MaxRestarts = 0
SYMMETRY Symmetry
INVARIANTS
    VmsAccounted
    RecordsLeased
    
    StateMatches
    QuotaHeld
PROPERTIES
    ReaperSpares
