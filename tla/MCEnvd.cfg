SPECIFICATION FairSpec
CONSTANTS
    c1 = c1
    c2 = c2
    Conns = {c1, c2}
    Kinds <- Mixed
    MaxPid = 2
    REAPED_CAP = 1
    Chunks <- OneNone
    MaxSpawns = 2
CHECK_DEADLOCK FALSE
INVARIANTS
    ExitOwnOrReused
    FramesWhole
PROPERTIES
    Served
