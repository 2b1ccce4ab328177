SPECIFICATION Spec
CONSTANTS
    a = a
    b = b
    s1 = s1
    s2 = s2
    None = None
    Client = {a, b}
    MaxVersion = 2
    Versions = {1, 2}
    Sums = {s1, s2}
    Backend = "mysql"
    Rebuilds = {}
    Ops <- DeployerOps
    CarefulOperator = TRUE
    Catalog <- OldCatalog
INVARIANTS
    WriterExclusion
    NoReplay
    Recoverable
PROPERTIES
    ImplementsLedger
