SPECIFICATION Spec
CONSTANTS
    t1 = t1
    t2 = t2
    h1 = h1
    h2 = h2
    Threads = {t1, t2}
    Handles = {h1, h2}
    HandleOf <- TwoHandles
    Keys = {k1, k2}
    None = None
    MaxRev = 2
    MaxLease = 1
    MaxFaults = 0
SYMMETRY Symmetry
INVARIANTS
    LogNeverLies
