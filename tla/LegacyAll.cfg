CONSTANTS
    p1 = p1
    p2 = p2
    Procs = {p1, p2}
    Keys = {"a", "b", "c"}
    LegacyKeys = {"a", "b"}
    LegacyEncId = FALSE
    None = None
    MaxMasters = 2
SPECIFICATION Spec
SYMMETRY Symmetry
INVARIANTS
    
    RowsMatchMaster
    LeftBehindExplained
PROPERTY MigrationKeepsNewer
