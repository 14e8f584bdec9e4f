CONSTANTS
    Procs = {p1, p2}
    Keys = {k1, k2}
    Passwords = {v1, v2}
    None = None
    Lost = Lost
    MaxSalt = 2
    MaxFailures = 1
SPECIFICATION Spec
SYMMETRY Symmetry
INVARIANTS
    SharedInv
    NoUnpublishedKey
    RotationTellsRow
    RowsHoldSavedPasswords
