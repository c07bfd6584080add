SPECIFICATION Spec
CONSTANTS
    Sbx = {s1}
    Versions = {v1, v2}
    Live = live
    NoVersion = noversion
    NoUser = nouser
    MaxBuilds = 2
    Folders = {"d", "e"}
    Files = {"x", "y"}
    Images <- TwoLayers
SYMMETRY Symmetry
INVARIANTS
    
    CacheHitWhole
    
    
    
    FlattenIsOverlay
