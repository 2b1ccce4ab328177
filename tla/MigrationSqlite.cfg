SPECIFICATION Spec
CONSTANTS
    a = a
    b = b
    s1 = s1
    s2 = s2
    None = None
    Client = {a, b}
    MaxVersion = 2
    Versions = {1, 2}
    Sums = {s1, s2}
    Backend = "sqlite"
    Rebuilds = {2}
    Ops <- AllOps
    CarefulOperator = TRUE
    Catalog <- EditedCatalog
INVARIANTS
    SchemaMatchesHistory
    IdleSessionIsClean
    HonestReport
PROPERTIES
    BaselineIsFloor
    HistoryChangesAtItsEnd
    ImplementsLedger
