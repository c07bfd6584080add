SPECIFICATION Spec
CONSTANTS
    Ids = {a, b, c}
    Tmpl = tmpl
    NoId = noid
    Target <- NoPools
    MaxGen = 2
CHECK_DEADLOCK FALSE
PROPERTIES
    SharedFilesKept
