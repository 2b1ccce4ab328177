SPECIFICATION Spec
CONSTANTS
    a = a
    b = b
    t1 = t1
    t2 = t2
    l1 = l1
    l2 = l2
    None = None
    Client = {a, b}
    Backend = "sqlite"
    Table = {t1}
    Link = {l1, l2}
    TableOf <- SameTable
PROPERTIES
    StatementsJoinTransaction
