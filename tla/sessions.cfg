CONSTANTS
    root = root
    c1 = c1
    n1 = n1
    w1 = w1
    w2 = w2
    w3 = w3
    r1 = r1
    r2 = r2
    x1 = x1
    e1 = e1
    e2 = e2
    Nobody = Nobody
    Sessions <- MCSessions
    Windows <- MCWindows
    KindOf <- MCKindOf
    Repos <- MCRepos
    Entries <- MCEntries
    Root <- MCRoot
    Begun <- MCBegun
    Branches <- MCBegun
    Work <- MCWork
    MaxCommands = 2
    MaxActs = 1
SYMMETRY Symmetry
ACTION_CONSTRAINT OthersAttach
SPECIFICATION Spec
INVARIANTS
    TypeOK
    WorkIsKept
    ClaimsHold
    GoneOnlyAfter
PROPERTIES
    MovesKeep
    WindowsKeepTheirSession
CHECK_DEADLOCK FALSE
