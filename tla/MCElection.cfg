SPECIFICATION FairSpec
CONSTANTS
    Nodes = {n1, n2}
    Leases = {l1, l2, l3, l4, l5}
    None = None
    MaxErrors = 2
CHECK_DEADLOCK FALSE
INVARIANTS
    TypeOK
    HolderOwnsKey
    AtMostOneHolder
PROPERTIES
    LockSpec
    LeaderAgain
    LossNoticed
