SPECIFICATION Spec
CONSTANTS
    t1 = t1
    t2 = t2
    c1 = c1
    c2 = c2
    r1 = r1
    r2 = r2
    Tasks <- TwoTasks
    Closers <- OneCloser
    Reapers <- OneReaper
    Watched <- OneTask
    CanKill = FALSE
    CountBound = 2
INVARIANTS
    TypeOK
    VisibleWhileRunning
    CountedOnce
CHECK_DEADLOCK FALSE
