CONSTANTS
    Procs = {p1, p2}
    None = None
    Torn = Torn
    Missing = Missing
    host = host
    user = user
    database = database
    other = other
    Contents <- AllContents
    DemoItems <- Demo
    DemoS3 <- DemoBucket
SPECIFICATION Spec
SYMMETRY Symmetry
INVARIANTS
    LoadedIsUsable
    DestinationAllowed
    KeysNameOneDatabase
    FileIsWanted
PROPERTY ReportsTrue
