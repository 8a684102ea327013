SPECIFICATION FairSpec
CONSTANTS
    t1 = t1
    t2 = t2
    c1 = c1
    c2 = c2
    r1 = r1
    r2 = r2
    Tasks <- OneTask
    Closers <- TwoClosers
    Reapers <- TwoReapers
    Watched <- OneTask
    CanKill = TRUE
    CountBound = 2
INVARIANTS
    OneCompleter
PROPERTIES
    OwnOutcomeStands
    StaleIsReaped
