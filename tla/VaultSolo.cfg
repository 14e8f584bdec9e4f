CONSTANTS
    Procs = {p1, p2}
    Keys = {k1, k2}
    Passwords = {v1, v2}
    None = None
    Lost = Lost
    MaxSalt = 3
    MaxFailures = 2
SPECIFICATION SoloSpec
SYMMETRY Symmetry
INVARIANTS
    SecretsReadable
    S3Readable
    SoloVault
PROPERTIES
    ChangeRefusesUnreadable
    ImplementsSecretMap
