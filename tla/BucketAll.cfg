CONSTANTS
    d = d
    Files <- FilesOfOne
    Clients = {c1, c2}
    None = None
    MaxKey = 3
SPECIFICATION Spec
SYMMETRY Symmetry
INVARIANTS
    BucketConfidential
    StaleExplained
PROPERTIES
    RefusedExplained
    LocalKept
    ObjectsKept
