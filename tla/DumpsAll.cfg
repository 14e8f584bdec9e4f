CONSTANTS
    Dumps = {d1, d2, f1}
    Foreign = {f1}
    None = None
    Torn = Torn
    Whole = Whole
    MaxKey = 3
SPECIFICATION Spec
SYMMETRY Symmetry
INVARIANTS
    DumpKept
    EncryptedUnderCurrentKey
    PlaintextConfined
    SessionNeverStale
PROPERTIES
    ForeignUntouched
    ImplementsDumpStore
