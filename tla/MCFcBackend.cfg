SPECIFICATION Spec
CONSTANTS
    Ids = {a, b}
    Tmpl = tmpl
    NoId = noid
    Target <- OneEach
    MaxGen = 2
SYMMETRY Symmetry
INVARIANTS
    SnapshotSurvives
    VmsOwned
    ClonesDistinct
PROPERTIES
    PlainSharedKept
