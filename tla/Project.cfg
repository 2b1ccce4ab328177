SPECIFICATION Spec
CONSTANTS
    a = a
    b = b
    s0 = s0
    s1 = s1
    x = x
    y = y
    None = None
    Client = {a, b}
    Ops <- Roles
    Schema = {s0, s1}
    Empty = s0
    Sql = {x, y}
    Valid = {y}
    Made = x
    MaxVersion = 2
    Retries = 1
INVARIANTS
    TypeOK
    ChainIsSound
    CatalogIsAccepted
    ReadyMatchesFiles
    ReadsAreCurrent
PROPERTIES
    FinalizedStays
