SPECIFICATION FairSpec
CONSTANTS
    n1 = n1
    n2 = n2
    c1 = c1
    c2 = c2
    t1 = t1
    t2 = t2
    None = None
    Notice = {n1, n2}
    Issues <- FirstAgain
    Commit = {c1, c2}
    CommitOf <- OneEach
    Thread = {t1, t2}
    Concurrency = 1
    MaxFaults = 2
INVARIANTS
    NothingLost
    SentOnce
PROPERTIES
    DestinationIsPinned
    InOrder
    NoticesArrive
