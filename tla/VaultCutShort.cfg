CONSTANTS
    Procs = {p1}
    Keys = {k1, k2}
    Passwords = {v1}
    None = None
    Lost = Lost
    MaxSalt = 2
    MaxFailures = 1
SPECIFICATION SoloSpec
SYMMETRY Symmetry
INVARIANT ChangeKeepsSecrets
