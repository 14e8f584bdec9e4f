CONSTANTS
    i1 = i1
    i2 = i2
    nightly = nightly
    often = often
    typo = typo
    Schedules = {nightly, often}
    Items = {i1}
    Selected <- Everything
    Unknown = {}
    Uploads = {nightly}
    Jobs = {j1, j2}
    None = None
    Torn = Torn
    Whole = Whole
    MaxSecond = 1
    MaxKey = 2
SPECIFICATION MenuSpec
CHECK_DEADLOCK FALSE
SYMMETRY Symmetry
INVARIANT DumpsCurrent
