CONSTANTS
    i1 = i1
    i2 = i2
    nightly = nightly
    often = often
    typo = typo
    Schedules = {nightly, typo}
    Items = {i1, i2}
    Selected <- Everything
    Unknown = {typo}
    Uploads = {nightly}
    Jobs = {j1, j2}
    None = None
    Torn = Torn
    Whole = Whole
    MaxSecond = 0
    MaxKey = 1
SPECIFICATION FairSpec
CHECK_DEADLOCK FALSE
INVARIANT EveryItemTried
PROPERTIES
    JobsEnd
    SignalStops
    OnceReturns
