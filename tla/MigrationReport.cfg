SPECIFICATION Spec
CONSTANTS
    a = a
    b = b
    s1 = s1
    s2 = s2
    None = None
    Client = {a, b}
    MaxVersion = 1
    Versions = {1}
    Sums = {s1}
    Backend = "mysql"
    Rebuilds = {}
    Ops <- RecoveryOps
    CarefulOperator = TRUE
    Catalog <- OneCatalog
INVARIANT FailureLeavesMarker
